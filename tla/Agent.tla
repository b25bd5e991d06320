------------------------------- MODULE Agent --------------------------------
(***************************************************************************)
(* The loop every model runs in (kot, agent_state_machine.rs): wakes and   *)
(* resets come in over the inbox, tool calls run on their own and come     *)
(* back over a second channel, and what has gathered becomes a turn.       *)
(*                                                                         *)
(* Calls are numbered in the order they are started.  A call is "lane" (a  *)
(* tool on this host: one at a time, in order), "bg" (a background shell,  *)
(* outside the lane and outside `queries'), "host" (a query of the host),  *)
(* "instant" (answered on the spot: a session tool, or an unknown one) or  *)
(* "record" (a write: shown, never fed back).                              *)
(*                                                                         *)
(* Text is abstracted away: of the conversation the model keeps which      *)
(* results it shows, under which ids.  What the model answers is any       *)
(* member of Answers.  Time is the few lengths of idleness the watchdog    *)
(* tells apart.                                                            *)
(***************************************************************************)
EXTENDS Subsequences, Functions

CONSTANTS
    MaxCalls,       \* bound: the calls a behaviour may start
    Answers,        \* the sequences of calls a model may answer with
    MaxInbound,     \* bound: messages sent into the inbox
    MaxCrashes,     \* bound: times the process goes down
    MaxFollowups,   \* MAX_FOLLOWUPS
    MaxCheckIns,    \* MAX_CHECK_INS
    MaxNudges,      \* MAX_LOCAL_TASK_NUDGES
    MaxReleases,    \* MAX_HELD_RELEASES
    LlmRetries,     \* LLM_RETRIES
    HostChecks,     \* Host::check_before_idle
    Reminds         \* Host::local_nag, and Host::reminder has open tasks

ASSUME BoundsAreNat ==
    /\ {MaxCalls, MaxInbound, MaxCrashes, MaxFollowups, MaxCheckIns, MaxNudges,
        MaxReleases, LlmRetries} \subseteq Nat
    /\ {HostChecks, Reminds} \subseteq BOOLEAN

ASSUME AnswersAreCalls ==
    Answers \subseteq Seq({"lane", "bg", "host", "record", "cancel", "compact"})

Calls == 1..MaxCalls

VARIABLES
    m,        \* the struct AgentStateMachine and the locals of run
    call,     \* per call: what it is, the session it was asked in, where it is
    lane,     \* the fair lock of the lane: its holder first, then the queue
    back,     \* the channel results come back over
    inbox,    \* the channel wakes and resets come in over
    batch,    \* the wakes and results being gathered for the next turn
    turn,     \* the turn the model is thinking on
    disk,     \* the conversation as last persisted
    env       \* bounds and history: what was sent, turns on its own

vars == <<m, call, lane, back, inbox, batch, turn, disk, env>>

-----------------------------------------------------------------------------
(* The state.                                                              *)

Queries == {"lane", "bg", "host", "instant"}
Kinds == Queries \cup {"record"}

NoCall == [kind |-> "host", session |-> 0, st |-> "new", id |-> 0]
NoBatch == [wakes |-> <<>>, results |-> <<>>]
NoTurn == [wakes |-> FALSE, results |-> <<>>, check |-> FALSE,
           nudged |-> FALSE, attempt |-> 0]

\* idle_since: 0 is None, 1 just idle, 2 past held_release_after, 3 past
\* local_nag_after as well.  rows: the results the conversation shows, by id;
\* talk: the conversation is not empty.
Fresh == [pc |-> "select", open |-> TRUE, was_idle |-> FALSE, idle_since |-> 0,
          session |-> 0, queries |-> 0, bg |-> {}, records |-> 0,
          followups |-> 0, held |-> <<>>, notices |-> FALSE, noted |-> {},
          check_armed |-> FALSE, check_ins |-> 0, local_nudges |-> 0,
          held_releases |-> 0, synthetic_wakes |-> 0, awaiting |-> FALSE,
          pending |-> <<>>, cancel |-> {}, next_id |-> 0, rows |-> {},
          talk |-> FALSE]

\* The top of the loop: a check-in that is armed comes first; then, with
\* nothing out, the loop ends if the inbox is closed and else is idle from now.
CheckDue(s) == s.check_armed /\ s.queries = 0
AtTop(s) ==
    LET nothingOut == s.queries = 0 /\ s.records = 0
    IN IF CheckDue(s) THEN [s EXCEPT !.pc = "check"]
       ELSE IF nothingOut /\ ~s.open THEN [s EXCEPT !.pc = "done"]
       ELSE IF nothingOut /\ ~s.was_idle
       THEN [s EXCEPT !.was_idle = TRUE, !.idle_since = 1, !.pc = "select"]
       ELSE [s EXCEPT !.pc = "select"]

Init == /\ m = AtTop(Fresh)
        /\ call = [c \in Calls |-> NoCall]
        /\ lane = <<>> /\ back = <<>> /\ inbox = <<>>
        /\ batch = NoBatch /\ turn = NoTurn
        /\ disk = [rows |-> {}, next_id |-> 0, talk |-> FALSE, epoch |-> 0, of |-> 0]
        /\ env = [sent |-> 0, crashes |-> 0, closed |-> FALSE, own |-> 0,
                  epoch |-> 0, base |-> 0, stale |-> FALSE]

\* A call is over: its result is told, or gone.
Over(c, st) == [NoCall EXCEPT !.kind = call[c].kind, !.st = st]
AllOver(S, st) == [c \in Calls |-> IF c \in S THEN Over(c, st) ELSE call[c]]

InFlight(c) == call[c].st \in {"queued", "running"}

\* history_path: the file of the epoch the chain is in, as the to-do list knows
\* it.
HistoryEpoch == env.epoch

\* persist and save_history: the conversation and the next id, replaced whole.
\* of: the epoch the conversation is of, which the loop knows by the resets it
\* has taken.
Saved(s) == [rows |-> s.rows, next_id |-> s.next_id, talk |-> s.talk,
             epoch |-> HistoryEpoch, of |-> env.base + s.session]

HasReset(q) == "reset" \in Range(q)

\* Mutant: an emptied conversation is not persisted.
NotSaved(q, s) == disk

\* A reset that is taken is persisted.
SavedOnReset(q, s) == IF HasReset(q) THEN Saved(s) ELSE disk

-----------------------------------------------------------------------------
(* Taking in what came over the two channels.                              *)

\* Mutant: the reset zeroes the counters of the calls still out too.
ResetCounts(s) ==
    [s EXCEPT !.session = @ + 1, !.rows = {}, !.talk = FALSE, !.queries = 0,
              !.bg = {}, !.records = 0, !.followups = 0, !.held = <<>>,
              !.notices = FALSE, !.check_armed = FALSE, !.idle_since = 0]

\* Inbound::Reset in take: everything but the calls still out starts over.
ResetMachine(s) ==
    [s EXCEPT !.session = @ + 1, !.rows = {}, !.talk = FALSE,
              !.followups = 0, !.held = <<>>, !.notices = FALSE,
              !.check_armed = FALSE, !.check_ins = 0, !.local_nudges = 0,
              !.held_releases = 0, !.synthetic_wakes = 0, !.awaiting = FALSE,
              !.idle_since = 0]

\* take over a queue: a reset empties the batch, what follows it stays.
TakeMachine(s, q) ==
    IF HasReset(q)
    THEN [ResetMachine(s) EXCEPT
            !.session = s.session + Cardinality({i \in DOMAIN q : q[i] = "reset"})]
    ELSE s
LastReset(q) == CHOOSE i \in DOMAIN q : /\ q[i] = "reset"
                                       /\ \A j \in DOMAIN q : j > i => q[j] # "reset"
TakeBatch(b, q) ==
    IF HasReset(q)
    THEN [wakes |-> SubSeq(q, LastReset(q) + 1, Len(q)), results |-> <<>>]
    ELSE [b EXCEPT !.wakes = @ \o q]

Less(a, b) == IF a > b THEN a - b ELSE 0     \* saturating_sub

\* back over a queue: a background result leaves bg, any other one queries;
\* a result asked for in an earlier session is dropped.
BackMachine(s, q) ==
    LET Of(K) == {c \in Range(q) : call[c].kind \in K}
    IN [s EXCEPT !.queries = Less(@, Cardinality(Of(Queries \ {"bg"}))),
                 !.bg = @ \ Of({"bg"}),
                 !.records = Less(@, Cardinality(Of({"record"}))),
                 !.noted = @ \ Range(q), !.cancel = @ \ Range(q)]
\* Mutant: the session a result was asked in is not compared.
FedAnySession(s, q) == Only(q, {c \in Calls : call[c].kind \in Queries})

Fed(s, q) ==
    Only(q, {c \in Calls : call[c].kind \in Queries /\ call[c].session = s.session})

\* Both: results under the next ids, in the order they came back.
BackCalls(s, q) ==
    LET fed == Fed(s, q)
        at(c) == CHOOSE i \in DOMAIN fed : fed[i] = c
    IN [c \in Calls |->
          IF c \in Range(fed)
          THEN [call[c] EXCEPT !.st = "waiting", !.id = s.next_id + at(c) - 1]
          ELSE IF c \in Range(q) THEN Over(c, "gone") ELSE call[c]]

\* A reset ends the wait of every result gathered so far.
Dropped(cs) == [c \in Calls |-> IF cs[c].st = "waiting" THEN Over(c, "gone") ELSE cs[c]]

\* The drain of both channels: s is the machine as the select left it, q what
\* is pending and in the inbox, early the ids used up by a result the select
\* took ahead of a reset.
Gather(s, q, early) ==
    LET taken == [TakeMachine(s, q) EXCEPT !.next_id = @ + early]
        fed   == Fed(taken, back)
        new   == TakeBatch(NoBatch, q)
        got   == [BackMachine(taken, back) EXCEPT !.pending = <<>>,
                                                  !.next_id = @ + Len(fed)]
    IN /\ m' = IF new.wakes = <<>> /\ fed # <<>> /\ got.queries > 0
               THEN [got EXCEPT !.pc = "batch"]
               ELSE IF new.wakes # <<>> \/ fed # <<>> \/ got.notices
               THEN [got EXCEPT !.pc = "decide"]
               ELSE AtTop([got EXCEPT !.synthetic_wakes = 0])
       /\ call' = IF HasReset(q) THEN Dropped(BackCalls(taken, back))
                                 ELSE BackCalls(taken, back)
       /\ batch' = [new EXCEPT !.results = fed]
       /\ inbox' = <<>> /\ back' = <<>>
       /\ disk' = SavedOnReset(q, taken)
       /\ env' = IF HasReset(q) THEN [env EXCEPT !.own = 0] ELSE env
       /\ UNCHANGED <<lane, turn>>

-----------------------------------------------------------------------------
(* The watchdog.                                                           *)

\* Mutant: held results wait for a message, as they did before 2026-09-28.
NeverReleased == FALSE

ReleaseDue == /\ m.held # <<>> /\ m.queries = 0 /\ m.records = 0 /\ HostChecks
              /\ m.held_releases < MaxReleases /\ m.pending = <<>>
              /\ m.idle_since >= 2

NagDue == /\ m.queries = 0 /\ m.bg = {} /\ m.records = 0 /\ HostChecks /\ Reminds
          /\ m.local_nudges < MaxNudges /\ m.idle_since = 3

\* watch: one wake of its own at most, then a notice for each call in quiet.
Watch(quiet) ==
    LET s == IF ReleaseDue
             THEN [m EXCEPT !.held_releases = @ + 1, !.synthetic_wakes = @ + 1,
                            !.pending = Append(@, "release"), !.idle_since = 1]
             ELSE IF NagDue
             THEN [m EXCEPT !.local_nudges = @ + 1, !.synthetic_wakes = @ + 1,
                            !.pending = Append(@, "nudge"), !.idle_since = 1,
                            !.awaiting = TRUE]
             ELSE m
    IN [s EXCEPT !.notices = @ \/ quiet # {}, !.noted = @ \cup quiet]

\* Calls that may have been silent for stall_after: never one still queued.
MayBeQuiet == {c \in Calls : /\ call[c].st = "running" /\ call[c].kind \in Queries
                             /\ c \notin m.noted}

-----------------------------------------------------------------------------
(* The loop of run.                                                        *)

\* About to idle mid-work: a check-in, unless something is waiting.
CheckIn ==
    /\ m.pc = "check"
    /\ m.pending \o inbox = <<>> /\ m.followups < MaxFollowups
    /\ m' = [m EXCEPT !.check_armed = FALSE, !.followups = @ + 1,
                      !.was_idle = FALSE, !.idle_since = 0,
                      !.check_ins = @ + 1, !.notices = FALSE, !.pc = "think"]
    /\ turn' = [NoTurn EXCEPT !.check = TRUE]
    /\ env' = [env EXCEPT !.own = @ + 1]
    /\ UNCHANGED <<call, lane, back, inbox, batch, disk>>

CheckInSkipped ==
    /\ m.pc = "check"
    /\ m.pending \o inbox # <<>> \/ m.followups >= MaxFollowups
    /\ m' = AtTop([m EXCEPT !.check_armed = FALSE, !.pending = @ \o inbox])
    /\ inbox' = <<>>
    /\ UNCHANGED <<call, lane, back, batch, turn, disk, env>>

\* The select's arms, each followed by the drain.
Receive ==
    /\ m.pc = "select"
    /\ \/ m.pending \o inbox # <<>> /\ Gather(m, m.pending \o inbox, 0)
       \/ /\ m.pending = <<>> /\ back # <<>>
          /\ Gather(m, inbox, IF HasReset(inbox) THEN Len(Fed(m, <<Head(back)>>)) ELSE 0)
       \/ /\ m.pending \o inbox = <<>> /\ m.open /\ env.closed
          /\ Gather([m EXCEPT !.open = FALSE], <<>>, 0)

Tick ==
    /\ m.pc = "select" /\ m.pending = <<>>
    /\ \E quiet \in SUBSET MayBeQuiet :
          LET s == Watch(quiet) IN Gather(s, s.pending \o inbox, 0)

\* Results alone wait for the rest of their batch, a wake or the deadline.
BatchBack ==
    /\ m.pc = "batch" /\ back # <<>>
    /\ LET q == <<Head(back)>>
           s == BackMachine(m, q)
       IN /\ m' = [s EXCEPT !.next_id = @ + Len(Fed(m, q)),
                            !.pc = IF s.queries > 0 THEN "batch" ELSE "decide"]
          /\ call' = BackCalls(m, q)
          /\ batch' = [batch EXCEPT !.results = @ \o Fed(m, q)]
    /\ back' = Tail(back)
    /\ UNCHANGED <<lane, inbox, turn, disk, env>>

BatchTake ==
    /\ m.pc = "batch" /\ inbox # <<>>
    /\ LET q == <<Head(inbox)>> IN
          /\ m' = [TakeMachine(m, q) EXCEPT !.pc = "decide"]
          /\ batch' = TakeBatch(batch, q)
          /\ call' = IF HasReset(q) THEN Dropped(call) ELSE call
          /\ disk' = SavedOnReset(q, TakeMachine(m, q))
          /\ env' = IF HasReset(q) THEN [env EXCEPT !.own = 0] ELSE env
    /\ inbox' = Tail(inbox)
    /\ UNCHANGED <<lane, back, turn>>

BatchOver ==
    /\ m.pc = "batch"
    /\ \/ m' = [m EXCEPT !.pc = "decide"]
       \/ inbox = <<>> /\ m.open /\ env.closed /\ m' = [m EXCEPT !.open = FALSE]
    /\ UNCHANGED <<call, lane, back, inbox, batch, turn, disk, env>>

\* Mutant: any wake gives the releases back, the loop's own too.
ReleasesAfterAnyWake == IF batch.wakes # <<>> THEN 0 ELSE m.held_releases

\* Only a wake the loop did not make itself gives the releases back.
ReleasesLeft == IF Len(batch.wakes) > m.synthetic_wakes THEN 0 ELSE m.held_releases

\* Nothing gathered, or the follow-ups are spent: results are held back and
\* notices dropped.
HoldBack ==
    /\ m.pc = "decide" /\ batch.wakes = <<>>
    /\ \/ batch.results = <<>> /\ ~m.notices
       \/ m.followups >= MaxFollowups
    /\ m' = AtTop([m EXCEPT !.held = @ \o batch.results, !.notices = FALSE,
                            !.synthetic_wakes = 0])
    /\ batch' = NoBatch
    /\ UNCHANGED <<call, lane, back, inbox, turn, disk, env>>

\* The turn begins: with a wake it also carries what was held.
BeginTurn ==
    /\ m.pc = "decide"
    /\ LET woken == batch.wakes # <<>> IN
          /\ woken \/ ((batch.results # <<>> \/ m.notices) /\ m.followups < MaxFollowups)
          /\ turn' = [wakes |-> woken, check |-> FALSE, attempt |-> 0,
                      results |-> IF woken THEN m.held \o batch.results ELSE batch.results,
                      nudged |-> woken /\ m.awaiting]
          /\ m' = [m EXCEPT !.held_releases = ReleasesLeft, !.synthetic_wakes = 0,
                            !.followups = IF woken THEN 0 ELSE @ + 1,
                            !.held = IF woken THEN <<>> ELSE @,
                            !.was_idle = FALSE, !.idle_since = 0,
                            !.awaiting = @ /\ ~woken,
                            !.check_ins = IF woken THEN 0 ELSE @,
                            !.notices = FALSE, !.pc = "think"]
          /\ env' = [env EXCEPT !.own = IF {"wake", "nudge"} \cap Range(batch.wakes) # {}
                                        THEN 0 ELSE @ + 1]
    /\ batch' = NoBatch
    /\ UNCHANGED <<call, lane, back, inbox, disk>>

-----------------------------------------------------------------------------
(* The turn.                                                               *)

\* The results this turn shows, as rows of the conversation.
TurnRows == {<<call[c].id, c>> : c \in Range(turn.results)}

\* The model call fails: again later, unless a reset waits (reset_waiting
\* moves what it reads to pending) or the retries are spent.  A failed turn
\* leaves the conversation as it was, and a nudge it answered is given back.
LlmRetry ==
    /\ m.pc = "think" /\ turn.attempt < LlmRetries
    /\ ~HasReset(m.pending \o inbox)
    /\ m' = [m EXCEPT !.pending = @ \o inbox]
    /\ inbox' = <<>>
    /\ turn' = [turn EXCEPT !.attempt = @ + 1]
    /\ UNCHANGED <<call, lane, back, batch, disk, env>>

TurnFails ==
    /\ m.pc = "think"
    /\ LET looks == turn.attempt < LlmRetries IN
          /\ looks => HasReset(m.pending \o inbox)
          /\ m' = AtTop([m EXCEPT !.pending = IF looks THEN @ \o inbox ELSE @,
                                  !.local_nudges = IF turn.nudged THEN Less(@, 1) ELSE @])
          /\ inbox' = IF looks THEN <<>> ELSE inbox
    /\ call' = AllOver(Range(turn.results), "gone")
    /\ disk' = Saved(m)
    /\ turn' = NoTurn
    /\ UNCHANGED <<lane, back, batch, env>>

\* The model answered, but a reset landed while it thought: it acts on none
\* of it.
TurnDropped ==
    /\ m.pc = "think" /\ HasReset(m.pending \o inbox)
    /\ LET s == [m EXCEPT !.pending = @ \o inbox, !.rows = @ \cup TurnRows,
                          !.talk = TRUE]
       IN m' = AtTop(s) /\ disk' = Saved(s)
    /\ call' = AllOver(Range(turn.results), "told")
    /\ inbox' = <<>>
    /\ turn' = NoTurn
    /\ UNCHANGED <<lane, back, batch, env>>

\* A check-in answered with nothing leaves no trace.
NothingMore ==
    /\ m.pc = "think" /\ turn.check /\ ~HasReset(m.pending \o inbox)
    /\ m' = AtTop([m EXCEPT !.pending = @ \o inbox])
    /\ inbox' = <<>>
    /\ disk' = Saved(m)
    /\ turn' = NoTurn
    /\ UNCHANGED <<call, lane, back, batch, env>>

\* The calls an answer starts, in order: "cancel" is a session tool and
\* answered on the spot, "compact" replaces the conversation and is no call.
KindOf(a) == IF a = "cancel" THEN "instant" ELSE a
Started(as) == LET cs == Only(as, Kinds \cup {"cancel"})
                   n0 == Cardinality({c \in Calls : call[c].st # "new"})
               IN [i \in 1..Len(cs) |-> [c |-> n0 + i, kind |-> KindOf(cs[i])]]
OfKind(started, K) == {started[i].c : i \in {j \in DOMAIN started : started[j].kind \in K}}
InOrder(started, k) ==
    LET own == Only(started, {x \in Range(started) : x.kind = k})
    IN [i \in 1..Len(own) |-> own[i].c]

\* dispatch and the session tools, for a whole answer.
Dispatch(started) ==
    LET queue == lane \o InOrder(started, "lane")
        at(c) == CHOOSE x \in Range(started) : x.c = c
    IN /\ lane' = queue
       /\ back' = back \o InOrder(started, "instant")
       /\ call' = [c \in Calls |->
            IF c \in Range(turn.results) THEN Over(c, "told")
            ELSE IF \E x \in Range(started) : x.c = c
            THEN [kind |-> at(c).kind, session |-> m.session, id |-> 0,
                  st |-> CASE at(c).kind = "instant" -> "back"
                           [] at(c).kind = "lane" /\ Head(queue) # c -> "queued"
                           [] OTHER -> "running"]
            ELSE call[c]]

\* Whether the answer leaves a check-in armed: words or writes only, in answer
\* to results, to a nudge or to a check-in.
Arms(text, as, idleTurn, checkIns) ==
    LET onlyText == as = <<>> /\ text
        working == IF turn.check THEN onlyText
                   ELSE turn.results # <<>> \/ (turn.nudged /\ onlyText)
    IN /\ working /\ (as # <<>> \/ text) /\ idleTurn
       /\ checkIns < MaxCheckIns /\ HostChecks

\* The struct once the answer is acted on: its calls are counted, target is
\* what it cancels.
Answered(as, text, target) ==
    LET started  == Started(as)
        counted  == OfKind(started, {"lane", "host", "instant"})
        checkIns == IF counted = {} THEN m.check_ins ELSE 0
    IN [m EXCEPT !.pending = @ \o inbox, !.talk = TRUE,
                 !.rows = IF "compact" \in Range(as) THEN {} ELSE @ \cup TurnRows,
                 !.queries = @ + Cardinality(counted),
                 !.bg = @ \cup OfKind(started, {"bg"}),
                 !.records = @ + Cardinality(OfKind(started, {"record"})),
                 !.cancel = @ \cup target,
                 !.local_nudges = IF counted = {} THEN @ ELSE 0,
                 !.check_ins = checkIns,
                 !.check_armed = Arms(text, as, counted = {}, checkIns)]

\* A cancel names a query in flight, or nothing.
Targets(as) ==
    IF "cancel" \in Range(as)
    THEN {{c} : c \in {d \in Calls : InFlight(d) /\ call[d].kind \in Queries}} \cup {{}}
    ELSE {{}}

\* The model answers and the answer is acted on.  full: the answer filled the
\* window, so a forced compaction follows.
Act ==
    /\ m.pc = "think" /\ ~HasReset(m.pending \o inbox)
    /\ \E as \in Answers, text, full \in BOOLEAN :
          /\ ~(turn.check /\ as = <<>> /\ ~text)
          /\ full => "compact" \notin Range(as)
          /\ OfKind(Started(as), Kinds) \subseteq Calls
          /\ Dispatch(Started(as))
          /\ \E target \in Targets(as) :
             LET s == Answered(as, text, target)
             IN /\ m' = IF full THEN [s EXCEPT !.pc = "compact"] ELSE AtTop(s)
                /\ disk' = IF full THEN disk ELSE Saved(s)
    /\ inbox' = <<>>
    /\ turn' = NoTurn
    /\ UNCHANGED <<batch, env>>

\* summarize, then persist.
Compact ==
    /\ m.pc = "compact"
    /\ m' = AtTop([m EXCEPT !.rows = {}])
    /\ disk' = Saved([m EXCEPT !.rows = {}])
    /\ UNCHANGED <<call, lane, back, inbox, batch, turn, env>>

-----------------------------------------------------------------------------
(* What runs beside the loop.                                              *)

\* A call ends, or is cancelled, even out of the lane's queue; the lane goes
\* to the next in it.
Finish(c) ==
    /\ \/ call[c].st = "running"
       \/ call[c].st = "queued" /\ c \in m.cancel
    /\ lane' = Only(lane, Calls \ {c})
    /\ call' = [d \in Calls |->
          IF d = c THEN [call[c] EXCEPT !.st = "back"]
          ELSE IF lane' # <<>> /\ d = Head(lane') THEN [call[d] EXCEPT !.st = "running"]
          ELSE call[d]]
    /\ back' = Append(back, c)
    /\ m.pc # "done"
    /\ UNCHANGED <<m, inbox, batch, turn, disk, env>>

\* A call prints: a new silence may be noted.
Output(c) ==
    /\ call[c].st = "running" /\ c \in m.noted
    /\ m' = [m EXCEPT !.noted = @ \ {c}]
    /\ UNCHANGED <<call, lane, back, inbox, batch, turn, disk, env>>

TimePasses ==
    /\ m.idle_since \in 1..2 /\ m.pc = "select"
    /\ m' = [m EXCEPT !.idle_since = @ + 1]
    /\ UNCHANGED <<call, lane, back, inbox, batch, turn, disk, env>>

\* A wake, or the checkpoint moved: with the reset the chain is in a new epoch.
Send(i) ==
    /\ env.sent < MaxInbound /\ ~env.closed
    /\ inbox' = Append(inbox, i)
    /\ env' = [env EXCEPT !.sent = @ + 1, !.epoch = IF i = "reset" THEN @ + 1 ELSE @]
    /\ UNCHANGED <<m, call, lane, back, batch, turn, disk>>

Close ==
    /\ env.sent < MaxInbound /\ ~env.closed
    /\ env' = [env EXCEPT !.sent = @ + 1, !.closed = TRUE]
    /\ UNCHANGED <<m, call, lane, back, inbox, batch, turn, disk>>

\* Mutant: ids start over in a restored conversation.
LoadedIdsOver == [Fresh EXCEPT !.rows = disk.rows, !.talk = disk.talk]

\* load_history: the file of the epoch, if there is one.
Loaded == IF disk.epoch = HistoryEpoch
          THEN [Fresh EXCEPT !.rows = disk.rows, !.talk = disk.talk,
                             !.next_id = IF disk.talk THEN disk.next_id ELSE 0]
          ELSE Fresh

\* The process goes down and is started again on what it persisted.
Restart ==
    /\ env.crashes < MaxCrashes /\ m.pc # "done"
    /\ m' = AtTop(Loaded)
    /\ call' = AllOver({c \in Calls : call[c].st \notin {"new", "told"}}, "gone")
    /\ lane' = <<>> /\ back' = <<>> /\ inbox' = <<>>
    /\ batch' = NoBatch /\ turn' = NoTurn
    /\ env' = [env EXCEPT !.crashes = @ + 1, !.own = 0, !.closed = FALSE,
                          !.base = env.epoch,
                          !.stale = disk.epoch = env.epoch /\ disk.of # disk.epoch]
    /\ UNCHANGED disk

Loop == \/ CheckIn \/ CheckInSkipped \/ Receive \/ HoldBack \/ BeginTurn
        \/ BatchBack \/ BatchTake \/ BatchOver

Think == LlmRetry \/ TurnFails \/ TurnDropped \/ NothingMore \/ Act \/ Compact

Machine == Loop \/ Think \/ Tick

\* Between two awaits the loop runs alone as far as anyone can tell: what
\* happens elsewhere meanwhile waits in a channel it reads later.
AtAwait == m.pc \in {"select", "batch", "think", "compact"}

Next == \/ Machine
        \/ /\ AtAwait
           /\ \/ \E c \in Calls : Finish(c) \/ Output(c)
              \/ \E i \in {"wake", "reset"} : Send(i)
              \/ TimePasses \/ Close \/ Restart

\* The runtime polls the loop's task when it is ready, time passes, every tool
\* call ends (a shell has its timeout) and so does the model's request.  That
\* anyone writes, or the process is restarted, is nobody's duty.
Fairness == WF_vars(Machine) /\ WF_vars(TimePasses) /\ \A c \in Calls : WF_vars(Finish(c))

Spec == Init /\ [][Next]_vars /\ Fairness

-----------------------------------------------------------------------------
(* Properties.                                                             *)

\* The state has the shape of the struct, and no budget is overdrawn.
TypeOK ==
    /\ m.pc \in {"check", "select", "batch", "decide", "think", "compact", "done"}
    /\ {m.open, m.was_idle, m.notices, m.check_armed, m.awaiting, m.talk} \subseteq BOOLEAN
    /\ m.idle_since \in 0..3
    /\ {m.session, m.queries, m.records, m.synthetic_wakes, m.next_id} \subseteq Nat
    /\ m.followups \in 0..MaxFollowups /\ m.check_ins \in 0..MaxCheckIns
    /\ m.local_nudges \in 0..MaxNudges /\ m.held_releases \in 0..MaxReleases
    /\ \A c \in Calls : /\ call[c].kind \in Kinds /\ call[c].id \in Nat
                        /\ call[c].st \in {"new", "queued", "running", "back",
                                           "waiting", "told", "gone"}
    /\ \A q \in {lane, back, batch.results, m.held, turn.results} :
          Range(q) \subseteq Calls /\ IsInjective(q)

Out(K) == {c \in Calls : /\ call[c].kind \in K
                         /\ call[c].st \in {"queued", "running", "back"}}

\* On top of the types, the three counters the loop waits and exits on are
\* exact: queries, bg and records are the calls that are really out, those of
\* an ended session too.
\* (back subtracts with saturating_sub, so a miscount would go unseen: a turn
\* would wait for a result that never comes, or the loop would idle on one.)
CountsExact == /\ TypeOK
               /\ m.pc # "done" => /\ m.queries = Cardinality(Out({"lane", "host", "instant"}))
                                   /\ m.records = Cardinality(Out({"record"}))
               /\ m.bg = Out({"bg"})

\* The follow-up cap with its releases: turns in a row that nobody asked for
\* (since the last message, reset or local-task nudge) are bounded, whatever the
\* model answers.
OwnTurnsBounded == env.own <= MaxFollowups + MaxReleases * (1 + MaxFollowups)

\* An id in the conversation names one result, also after a restart: the ids
\* of a restored conversation are not given again.
IdsNameOneResult == \A r, t \in m.rows : r[1] = t[1] => r[2] = t[2]

\* The file a restart would load holds no conversation of an earlier epoch, so
\* that it brings back nothing the chain has moved past; except while a reset
\* waits, when the end of the running turn writes the old conversation into the
\* new epoch's file, and if the process goes down right then.
HistoryIsCurrent ==
    \/ disk.epoch # HistoryEpoch
    \/ disk.of = disk.epoch \/ HasReset(m.pending \o inbox) \/ env.stale

\* Where a call is, as the model that asked for it sees it: a call of an ended
\* session is gone, though it may still run.
PhaseOf(c) ==
    LET st == call[c].st IN
    IF call[c].kind = "record" THEN "new"
    ELSE IF st \in {"new", "told", "gone"} THEN st
    ELSE IF call[c].session # m.session THEN "gone"
    ELSE IF st = "waiting" THEN "waiting" ELSE "out"

Promise == INSTANCE ToolCalls WITH phase <- [c \in Calls |-> PhaseOf(c)]

\* The loop implements ToolCalls: each result is told once at most, nothing of
\* an ended session is ever told, and no result is lost on its own.
KeepsPromise == Promise!Spec

\* Every query the model starts is answered: its result is told, or is gone
\* with its session or its turn, or is held with every release spent, waiting
\* for someone to write.
EachCallAnswered ==
    \A c \in Calls : PhaseOf(c) \in {"out", "waiting"} ~>
        \/ PhaseOf(c) \in {"told", "gone"}
        \/ c \in Range(m.held) /\ m.held_releases = MaxReleases
        \/ m.pc = "done"

=============================================================================
