-------------------------------- MODULE Cat ---------------------------------
(***************************************************************************)
(* Who follows a node's log of events, which the node throws away and      *)
(* rebuilds from its store when it is demoted, rewinds or adopts a         *)
(* checkpoint:                                                             *)
(*  - a cat (kot, agent.rs: watch_chain), which puts what wakes it into    *)
(*    its inbox and keeps a session and a to-do list on disk, tied to the  *)
(*    chain's last checkpoint;                                             *)
(*  - a cat that is asleep (agent.rs: run_asleep), which answers for       *)
(*    itself and keeps nothing;                                            *)
(*  - the operator's terminal (client.rs: tail_events, send_and_seal),     *)
(*    which shows every event once and counts the lines still to come      *)
(*    back, and kot log (client.rs: log), which only shows.                *)
(* All but the sleeper read with the same EventCursor (common.rs).  What   *)
(* an inbox leads to is Agent's matter, how acts get written is Signer's.  *)
(*                                                                         *)
(* An event is its number; its kind says what a reader makes of it.  The   *)
(* node is what its blocks and its log are (node.rs: absorb, persist,      *)
(* reload_from_store): why it rebuilds them is Replication's matter.       *)
(***************************************************************************)
EXTENDS Integers, Sequences, FiniteSets, SequencesExt, Functions, Subsequences, LocalTasks

CONSTANTS
    LogCap,         \* LOG_CAP
    Setups,         \* who reads, and bounds for it: see SetupOK
    MaxEvents,      \* bound: events
    MaxTrouble,     \* bound: rebuilt logs, restarts of the reader, heads not answered
    MaxEpochs       \* bound: compactions and checkpoints adopted

\* A message is to this cat, as a nudge is; the root's word, off the record, is
\* to everybody; a leader is told of its election; an opened task is a record,
\* to nobody.  The operator's own words are their terminal's matter.
Kinds == {"message", "rootsWord", "elected", "opened", "mine"}

Readers == {"cat", "asleep", "terminal", "log"}

\* A setup says who reads, which events happen, how many calls of LocalTask the
\* cat makes, how many lines are typed at the terminal, and up to which height a
\* block may be quiet.
SetupOK(s) == /\ s.reader \in Readers /\ s.kinds \subseteq Kinds
              /\ {s.calls, s.lines, s.quiet} \subseteq Nat

ASSUME CatAssumption ==
    /\ LogCap \in Nat \ {0}
    /\ {MaxEvents, MaxTrouble, MaxEpochs} \subseteq Nat
    /\ \A s \in Setups : SetupOK(s)

VARIABLES
    setup,      \* the setup of this behaviour
    node,       \* the node's blocks, its open block and its log
    watch,      \* the reader's loop
    inbox,      \* what it has acted on since it started: wakes, answers, lines shown
    disk,       \* the session file
    local,      \* the cat's to-do list and its file
    env         \* bounds, and what the properties remember

vars == <<setup, node, watch, inbox, disk, local, env>>

Is(reader) == setup.reader = reader

-----------------------------------------------------------------------------
(* The node.                                                               *)

\* Effect::wakes: a record is not an instruction to anyone.
Wakes(e) == e.kind # "opened"

\* wake_target: whom an entry of the log wakes.  (A closing remark, no_ack, wakes
\* nobody either, and is to a reader what a record is.)
WakeTarget(e) ==
    CASE ~Wakes(e) -> "nobody"
      [] e.kind \in {"rootsWord", "mine"} -> "everybody"
      [] OTHER -> "me"

\* The filter of watch_chain: the events that wake this cat.
WakesMe(e) == WakeTarget(e) # "nobody"

\* prompt: a wake for what there is something to say about; to its election a
\* leader is told nothing.
Prompts(e) == e.kind # "elected"

\* asleep_owes_reply: to a message to this cat.
Owes(e) == e.kind = "message"

\* What this reader acts on.
Concerns(e) == CASE Is("cat") -> WakesMe(e) /\ Prompts(e) [] Is("asleep") -> Owes(e) [] OTHER -> TRUE

OffRecord(e) == e.kind = "rootsWord"

OpenBlock(n) == Len(n.blocks) + 1

\* absorb: the entries of a block, in their order; at LOG_CAP the oldest go.
Entries(n, block, es) ==
    [i \in 1..Len(es) |-> [seq |-> n.seq + i, block |-> block, ev |-> es[i]]]

Newer(log) == IF Len(log) > LogCap THEN SubSeq(log, Len(log) - LogCap + 1, Len(log)) ELSE log

Absorbed(n, block, es) ==
    [n EXCEPT !.seq = @ + Len(es), !.log = Newer(@ \o Entries(n, block, es))]

\* reload_from_store: the log starts again from the checkpoint, with what the
\* blocks above it hold.
Emptied(blocks, cp) ==
    [blocks |-> blocks, open |-> <<>>, log |-> <<>>, seq |-> 0, cp |-> cp, ahead |-> <<>>]

Reloaded(blocks, cp) ==
    LET f[i \in 0..Len(blocks) - cp] ==
            IF i = 0 THEN Emptied(blocks, cp) ELSE Absorbed(f[i - 1], cp + i, blocks[cp + i])
    IN f[Len(blocks) - cp]

Trouble == env.rebuilds + env.restarts + env.missed < MaxTrouble

NextEvent(k) == [id |-> env.events + 1, kind |-> k, era |-> env.rebuilds + env.restarts]

\* What is off the record is in the log but not in the block.
Emits(e) ==
    /\ env.events < MaxEvents /\ node.ahead = <<>>
    /\ node' = [Absorbed(node, OpenBlock(node), <<e>>)
                     EXCEPT !.open = IF OffRecord(e) THEN @ ELSE Append(@, e)]

Emit(k) ==
    /\ k \in setup.kinds
    /\ Emits(NextEvent(k))
    /\ env' = [env EXCEPT !.events = @ + 1]
    /\ UNCHANGED <<setup, watch, inbox, disk, local>>

\* compact_at: the checkpoint moves to the block; the log stays.
CompactAt(n, height) == [n EXCEPT !.cp = height]

\* advance: the block is sealed, a quiet one too, and compacted if that was asked
\* for.
Seal(compact) ==
    /\ node.ahead = <<>> /\ (node.open = <<>> => Len(node.blocks) < setup.quiet)
    /\ compact => env.epochs < MaxEpochs
    /\ LET sealed == [node EXCEPT !.blocks = Append(@, node.open), !.open = <<>>]
       IN node' = IF compact THEN CompactAt(sealed, OpenBlock(node)) ELSE sealed
    /\ env' = [env EXCEPT !.epochs = @ + IF compact THEN 1 ELSE 0]
    /\ UNCHANGED <<setup, watch, inbox, disk, local>>

\* What the properties remember of a rebuild: the cat has yet to notice it.
Rebuilds ==
    /\ Trouble
    /\ UNCHANGED <<setup, watch, inbox, disk, local>>

Noted == [env EXCEPT !.rebuilds = @ + 1, !.mark = watch.cursor.block,
                     !.log = IF @ = "outgrown" THEN @ ELSE "rebuilt"]

\* A demotion: the same blocks, without the open one.
Demote ==
    /\ Rebuilds
    /\ node' = [Reloaded(node.blocks, node.cp) EXCEPT !.ahead = node.ahead]
    /\ env' = Noted

\* A rewind to the checkpoint; the new primary's log shares the first blocks
\* after it, which the node then pulls again.
Rewind(shared) ==
    /\ Rebuilds /\ node.ahead = <<>>
    /\ shared \in node.cp..Len(node.blocks)
    /\ node' = [Reloaded(SubSeq(node.blocks, 1, node.cp), node.cp)
                  EXCEPT !.ahead = SubSeq(node.blocks, node.cp + 1, shared)]
    /\ env' = Noted

\* A peer's checkpoint takes the place of every block.
Adopt ==
    /\ Rebuilds /\ env.epochs < MaxEpochs
    /\ LET blocks == Append(node.blocks \o node.ahead, <<>>)
       IN node' = Reloaded(blocks, Len(blocks))
    /\ env' = [Noted EXCEPT !.epochs = @ + 1]

\* apply_block, of a block this node had before.
Pull ==
    /\ node.ahead # <<>>
    /\ node' = [Absorbed(node, OpenBlock(node), Head(node.ahead))
                  EXCEPT !.blocks = Append(@, Head(node.ahead)), !.ahead = Tail(@)]
    /\ UNCHANGED <<setup, watch, inbox, disk, local, env>>

-----------------------------------------------------------------------------
(* EventCursor.                                                            *)

NoFloor == <<>>

NewCursor(since) == [seq |-> since, block |-> 0, in |-> 0, floor |-> NoFloor, floorSeen |-> 0]

\* Mutant: the log is read again from its start, and all of it is news.
CheckedNoFloor(c, head) ==
    IF head >= c.seq THEN c ELSE [c EXCEPT !.seq = 0]

\* check_head: a head behind the cursor is a rebuilt log.
Checked(c, head) ==
    IF head >= c.seq THEN c
    ELSE [c EXCEPT !.seq = 0, !.floor = <<c.block, c.in>>, !.floorSeen = 0]

BelowFloor(c, x) == c.floor # NoFloor /\ x.block < c.floor[1]
AtFloor(c, x) == c.floor # NoFloor /\ x.block = c.floor[1] /\ c.floorSeen < c.floor[2]

\* Mutant: the floor stays, and what follows it is skipped with it.
AcceptsAbove(c, x) == c.floor = NoFloor

\* accept_at: below the floor nothing is news, nor are as many entries of its
\* block as were read before.
Accepts(c, x) == ~BelowFloor(c, x) /\ ~AtFloor(c, x)

Advanced(c, x) ==
    LET d == [c EXCEPT !.seq = IF x.seq > @ THEN x.seq ELSE @]
    IN IF ~Accepts(c, x)
       THEN IF AtFloor(c, x) THEN [d EXCEPT !.floorSeen = @ + 1] ELSE d
       ELSE [d EXCEPT !.floor = NoFloor, !.block = x.block,
                      !.in = IF x.block = c.block THEN @ + 1 ELSE 1]

\* A batch of /events: what is news, and the cursor after it.
Taken(got, x) ==
    [cursor |-> Advanced(got.cursor, x),
     news |-> IF Accepts(got.cursor, x) THEN Append(got.news, x) ELSE got.news]

Batch(c, xs) ==
    LET f[i \in 0..Len(xs)] ==
            IF i = 0 THEN [cursor |-> c, news |-> <<>>] ELSE Taken(f[i - 1], xs[i])
    IN f[Len(xs)]

-----------------------------------------------------------------------------
(* watch_chain.                                                            *)

\* The root's word is the question if there is none; an opened task always is.
Asked(q, news) ==
    FoldLeft(LAMBDA p, x : IF x.ev.kind = "opened" \/ (x.ev.kind = "rootsWord" /\ p = 0)
                           THEN x.ev.id ELSE p, q, news)

\* /head.
TheHead == [seq |-> node.seq, last_checkpoint |-> node.cp]

Ids(xs) == [i \in DOMAIN xs |-> xs[i].ev.id]

\* /events?since=.
Since(seq) == Only(node.log, {x \in Range(node.log) : x.seq > seq})

\* Coalescing keeps the newest of a kind (and task): messages have no task.
Newest(news) ==
    Only(news, {x \in Range(news) :
                   /\ WakesMe(x.ev)
                   /\ \A y \in Range(news) : y.ev.kind = x.ev.kind => y.seq <= x.seq})

\* Session::load: the file, if it is of this epoch.
Session(file, epoch) ==
    IF file.epoch = epoch THEN file ELSE [epoch |-> epoch, cursor |-> 0, question |-> 0]

\* The head is kept for a poll that is not answered, while the bounds allow one.
HeadKept == IF Trouble THEN node.seq ELSE 0

Watching(session, head) ==
    [pc |-> "head", head |-> head, cursor |-> NewCursor(session.cursor),
     session |-> [session EXCEPT !.question = 0], question |-> session.question, seen |-> {}, mine |-> <<>>]

\* What the properties remember of a look at the head: a rebuilt log is
\* noticed, unless it has grown past the cursor.
LookedAt(cursor) ==
    IF env.log = "rebuilt" THEN IF cursor.seq # 0 THEN "outgrown" ELSE "followed" ELSE env.log

\* And of a read of the log: it has grown past the cursor unnoticed.
ReadAt(seq) == IF env.log = "rebuilt" /\ node.seq > seq THEN "outgrown" ELSE env.log

\* /head: spot a rebuilt log; a moved checkpoint ends the session and empties
\* the list.
Poll ==
    /\ Is("cat") /\ watch.pc = "head"
    /\ LET cursor == Checked(watch.cursor, TheHead.seq)
           epoch  == TheHead.last_checkpoint
           moved  == epoch # watch.session.epoch
           list   == ResetTo(local.list, epoch)
       IN /\ watch' = [watch EXCEPT
                !.pc = "events", !.head = HeadKept, !.cursor = cursor,
                !.seen = IF TheHead.seq < watch.cursor.seq THEN {} ELSE @,
                !.session.epoch = epoch,
                !.question = IF moved THEN 0 ELSE @]
          /\ inbox' = IF moved THEN Append(inbox, 0) ELSE inbox
          /\ local' = IF moved THEN [list |-> list, file |-> {list}] ELSE local
          /\ env' = [env EXCEPT !.log = LookedAt(cursor)]
    /\ UNCHANGED <<setup, node, disk>>

\* No answer: the loop goes on with the head it has.  The cursor may be past
\* that one already, and then takes the log for a rebuilt one.
PollFails ==
    /\ Is("cat") /\ watch.pc = "head" /\ Trouble
    /\ watch' = [watch EXCEPT
           !.pc = "events", !.cursor = Checked(@, watch.head),
           !.seen = IF watch.head < watch.cursor.seq THEN {} ELSE @]
    /\ env' = [env EXCEPT !.missed = @ + 1]
    /\ UNCHANGED <<setup, node, inbox, disk, local>>

\* The log has dropped entries of the block up to which the cursor skips: of what
\* is left of that block, it skips more than was read.  It lowers no mark.
SkipsMore(c) ==
    /\ c.floor # NoFloor /\ env.mark < c.block
    /\ Len(node.log) < node.seq /\ node.log[1].block = c.block

Fetch ==
    /\ Is("cat") /\ watch.pc = "events"
    /\ LET got == Batch(watch.cursor, Since(watch.cursor.seq))
       IN /\ watch' = [watch EXCEPT !.pc = "send", !.cursor = got.cursor,
                                    !.question = Asked(@, got.news),
                                    !.mine = Newest(got.news)]
          /\ env' = [env EXCEPT !.log = ReadAt(watch.cursor.seq),
                !.mark = IF SkipsMore(watch.cursor) THEN watch.cursor.block ELSE @,
                !.passed = @ \cup {x.ev.id : x \in {y \in Range(got.news) : WakesMe(y.ev)}
                                              \ Range(Newest(got.news))}]
    /\ UNCHANGED <<setup, node, inbox, disk, local>>

\* The node does not answer: the loop goes on to the next poll.
FetchFails ==
    /\ Is("cat") /\ watch.pc = "events"
    /\ watch' = [watch EXCEPT !.pc = "send"]
    /\ UNCHANGED <<setup, node, inbox, disk, local, env>>

Send ==
    /\ watch.pc = "send" /\ watch.mine # <<>>
    /\ LET x == Head(watch.mine)
       IN /\ watch' = [watch EXCEPT !.mine = Tail(@), !.seen = @ \cup {x.seq}]
          /\ inbox' = IF x.seq \in watch.seen \/ ~Prompts(x.ev) THEN inbox ELSE Append(inbox, x.ev.id)
    /\ UNCHANGED <<setup, node, disk, local, env>>

\* The session is saved when the cursor or the question moved; the epoch alone
\* does not make it.
Save ==
    /\ watch.pc = "send" /\ watch.mine = <<>>
    /\ LET s == [watch.session EXCEPT !.cursor = watch.cursor.seq, !.question = watch.question]
       IN /\ watch' = [watch EXCEPT !.pc = "head", !.session = s]
          /\ disk' = IF s = watch.session THEN disk ELSE s
    /\ env' = [env EXCEPT !.saved = IF env.log = "followed" THEN env.rebuilds ELSE @]
    /\ UNCHANGED <<setup, node, inbox, local>>

-----------------------------------------------------------------------------
(* The cat's list, and its restart.                                        *)

\* A call of LocalTask, made by a turn that runs beside the loop.
CallLocalTask ==
    /\ Is("cat") /\ env.calls < setup.calls
    /\ \E list \in Applied(local.list) : local' = [list |-> list, file |-> {list}]
    /\ env' = [env EXCEPT !.calls = @ + 1]
    /\ UNCHANGED <<setup, node, watch, inbox, disk>>

\* What the properties remember of a restart: whether the reader starts on the log
\* that is there.
Restarted(log) ==
    [env EXCEPT !.restarts = @ + 1, !.passed = {}, !.mark = 0, !.log = log]

\* run: the list is loaded, and watch_chain starts again.  torn: the process
\* went down while it wrote the list, whose file is then no list.
Restart(torn) ==
    /\ Is("cat") /\ Trouble
    /\ torn => local.list.tasks # <<>>
    /\ watch' = Watching(Session(disk, node.cp), HeadKept)
    /\ inbox' = <<>>
    /\ LET file == IF torn THEN {} ELSE local.file
       IN local' = [list |-> Load(file, node.cp), file |-> file]
    /\ env' = Restarted(IF env.saved = env.rebuilds THEN "followed" ELSE "rebuilt")
    /\ UNCHANGED <<setup, node, disk>>

-----------------------------------------------------------------------------
(* run_asleep: it starts at the head, and knows a rebuilt log only by a    *)
(* head behind its cursor when there is nothing to read.                   *)

AsleepReads ==
    /\ Is("asleep") /\ watch.pc = "events"
    /\ LET xs == Since(watch.cursor.seq)
       IN IF xs = <<>>
          THEN watch' = [watch EXCEPT !.pc = "head"] /\ UNCHANGED <<inbox, env>>
          ELSE /\ watch' = [watch EXCEPT !.cursor.seq = xs[Len(xs)].seq]
               /\ inbox' = inbox \o Ids(Only(xs, {x \in Range(xs) : Owes(x.ev)}))
               /\ env' = [env EXCEPT !.log = ReadAt(watch.cursor.seq)]
    /\ UNCHANGED <<setup, node, disk, local>>

\* What a rebuilt log holds by then, it passes over.
AsleepChecks ==
    /\ Is("asleep") /\ watch.pc = "head"
    /\ watch' = [watch EXCEPT !.pc = "events",
                              !.cursor.seq = IF TheHead.seq < @ THEN TheHead.seq ELSE @]
    /\ env' = IF TheHead.seq < watch.cursor.seq
              THEN [env EXCEPT !.log = "followed", !.passed = @ \cup Range(Ids(node.log))]
              ELSE [env EXCEPT !.log = LookedAt(watch.cursor)]
    /\ UNCHANGED <<setup, node, inbox, disk, local>>

\* Neither /events nor /head was answered.
AsleepMisses ==
    /\ Is("asleep")
    /\ watch' = [watch EXCEPT !.pc = IF @ = "events" THEN "head" ELSE "events"]
    /\ UNCHANGED <<setup, node, inbox, disk, local, env>>

AsleepRestart ==
    /\ Is("asleep") /\ Trouble
    /\ watch' = [watch EXCEPT !.pc = "events", !.cursor = NewCursor(TheHead.seq)]
    /\ inbox' = <<>>
    /\ env' = Restarted("followed")
    /\ UNCHANGED <<setup, node, disk, local>>

-----------------------------------------------------------------------------
(* The operator's terminal.                                                *)

Shows == Is("terminal") \/ Is("log")

\* tail_events, and log: they begin with a read, of all there is.
ShowHead ==
    /\ Shows /\ watch.pc = "head"
    /\ LET cursor == Checked(watch.cursor, TheHead.seq)
       IN /\ watch' = [watch EXCEPT !.pc = "events", !.cursor = cursor]
          /\ env' = [env EXCEPT !.log = LookedAt(cursor)]
    /\ UNCHANGED <<setup, node, inbox, disk, local>>

\* A line of the operator's own, already echoed as far as the terminal knows,
\* is no longer sealing.
Shown(sealing, news) ==
    LET own == Cardinality({i \in DOMAIN news : news[i].ev.kind = "mine"})
    IN IF own > sealing THEN 0 ELSE sealing - own

Show ==
    /\ Shows /\ watch.pc = "events"
    /\ LET got == Batch(watch.cursor, Since(watch.cursor.seq))
       IN /\ watch' = [watch EXCEPT !.pc = "head", !.cursor = got.cursor]
          /\ inbox' = inbox \o Ids(got.news)
          /\ env' = [env EXCEPT !.log = ReadAt(watch.cursor.seq),
                                !.sealing = Shown(@, got.news)]
    /\ UNCHANGED <<setup, node, disk, local>>

\* Neither is answered: the loop goes on.
ShowMisses ==
    /\ Shows
    /\ watch' = [watch EXCEPT !.pc = IF @ = "events" THEN "head" ELSE "events"]
    /\ UNCHANGED <<setup, node, inbox, disk, local, env>>

\* send_and_seal: a line is echoed and counted as sealing, then submitted.
TypeLine ==
    /\ Is("terminal") /\ env.lines < setup.lines
    /\ env' = [env EXCEPT !.lines = @ + 1, !.sending = @ + 1, !.sealing = @ + 1]
    /\ UNCHANGED <<setup, node, watch, inbox, disk, local>>

\* It gets onto the chain, now or from the background.
LineRuns ==
    /\ env.sending > 0
    /\ LET e == NextEvent("mine")
       IN /\ Emits(e)
          /\ env' = [env EXCEPT !.events = @ + 1, !.sending = @ - 1, !.ran = @ \cup {e.id}]
    /\ UNCHANGED <<setup, watch, inbox, disk, local>>

\* Mutant: a refused line is counted as sealing for ever.
LineRefusedKept ==
    /\ env.sending > 0
    /\ env' = [env EXCEPT !.sending = @ - 1]
    /\ UNCHANGED <<setup, node, watch, inbox, disk, local>>

LineRefused ==
    /\ env.sending > 0
    /\ env' = [env EXCEPT !.sending = @ - 1, !.sealing = IF @ > 0 THEN @ - 1 ELSE 0]
    /\ UNCHANGED <<setup, node, watch, inbox, disk, local>>

\* Queued, and given up in the background: nobody tells the count.
LineGivenUp ==
    /\ env.sending > 0
    /\ env' = [env EXCEPT !.sending = @ - 1, !.givenUp = TRUE]
    /\ UNCHANGED <<setup, node, watch, inbox, disk, local>>

-----------------------------------------------------------------------------

Init ==
    /\ setup \in Setups
    /\ node = Reloaded(<<>>, 0)
    /\ disk = [epoch |-> 0, cursor |-> 0, question |-> 0]
    /\ watch = [Watching(Session(disk, 0), 0)
                  EXCEPT !.pc = IF Is("cat") THEN "head" ELSE "events"]
    /\ inbox = <<>>
    /\ local = [list |-> EmptyList(0), file |-> {}]
    /\ env = [events |-> 0, rebuilds |-> 0, restarts |-> 0, missed |-> 0,
              epochs |-> 0, calls |-> 0,
              lines |-> 0, sending |-> 0, sealing |-> 0, ran |-> {}, givenUp |-> FALSE,
              log |-> "followed", mark |-> 0, saved |-> 0, passed |-> {}]

TheNode == \/ \E k \in Kinds : Emit(k)
           \/ \E compact \in BOOLEAN : Seal(compact)
           \/ Demote \/ Adopt \/ Pull
           \/ \E shared \in 0..Len(node.blocks) : Rewind(shared)

TheCat == \/ Poll \/ PollFails \/ Fetch \/ FetchFails \/ Send \/ Save \/ CallLocalTask
          \/ \E torn \in BOOLEAN : Restart(torn)

TheSleeper == AsleepReads \/ AsleepChecks \/ AsleepMisses \/ AsleepRestart

TheTerminal == \/ ShowHead \/ Show \/ ShowMisses
               \/ TypeLine \/ LineRuns \/ LineRefused \/ LineGivenUp

Next == TheNode \/ TheCat \/ TheSleeper \/ TheTerminal

Spec == Init /\ [][Next]_vars

-----------------------------------------------------------------------------
(* Properties.                                                             *)

Acted == Range(inbox) \ {0}

\* However often the node rebuilds its log, and whatever it pulls again, no
\* event wakes a cat twice ("cats re-woke on long-finished messages") or is
\* shown twice.  Until the cat restarts, as the cursor it takes from the file
\* does not know how much of a block was read, or a rebuilt log outgrows the
\* cursor unseen.  A cat asleep answers once as long as nothing is rebuilt.
ActedOnce ==
    (IF Is("asleep") THEN env.rebuilds = 0 ELSE env.restarts = 0 /\ env.log # "outgrown")
        => \A i, j \in DOMAIN inbox : (inbox[i] = inbox[j] /\ inbox[i] # 0) => i = j

CaughtUp == /\ watch.cursor.seq = node.seq /\ env.log = "followed"
            /\ Is("asleep") \/ watch.pc = "head"

\* What concerns a reader is heard: once its loop has read the log to its end,
\* an entry that came since the last rebuild or restart, above the block it had
\* read to when the log was rebuilt, or when it was taken for rebuilt and had
\* dropped entries of that block, has been acted on or was passed over: superseded
\* by a newer one of its kind, or in the log when a cat asleep found it rebuilt and
\* went on from its head.  Unless the log grew past the cursor before the loop
\* looked at it, which check_head cannot tell.
Heard ==
    CaughtUp =>
        \A x \in Range(node.log) :
            (Concerns(x.ev) /\ x.ev.era = env.rebuilds + env.restarts /\ x.block > env.mark)
                => x.ev.id \in Acted \cup env.passed

\* A cat asleep answers every message to it, as run_asleep has it: "Every DM or
\* `@name` tag gets [`asleep_reply`] back".  It does not hold: see
\* MCCatAsleep.cfg.
EveryMessageAnswered ==
    (Is("asleep") /\ CaughtUp) =>
        \A x \in Range(node.log) :
            (Owes(x.ev) /\ x.ev.era = env.rebuilds + env.restarts) => x.ev.id \in Acted

\* The list is the session's own and survives a restart: it is of the epoch the
\* loop is in, its file holds it, an id is given once, and it stays bounded -
\* by both limits together, as a closed row may be taken up again past MAX_OPEN.
ListKeeps ==
    LET tasks == local.list.tasks IN
    /\ local.list.epoch = watch.session.epoch
    /\ tasks # <<>> => local.file = {local.list}
    /\ \A i \in DOMAIN tasks : /\ tasks[i].id < local.list.next
                               /\ i > 1 => tasks[i - 1].id < tasks[i].id
    /\ Cardinality(ClosedRows(local.list)) <= MaxClosed
    /\ Len(tasks) <= MaxOpen + MaxClosed

\* Once every line typed has been refused or has come back, none is shown as
\* sealing, whoever else writes in the operator's name; unless one was given up
\* in the background.
SealingEnds ==
    (env.sending = 0 /\ ~env.givenUp /\ env.ran \subseteq Range(inbox)) => env.sealing = 0

=============================================================================
