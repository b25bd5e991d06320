---------------------------- MODULE Replication -----------------------------
(***************************************************************************)
(* How the block logs of the members follow the elected primary:           *)
(* crates/kot/src/node.rs with the stores of crates/miot-store.            *)
(*                                                                         *)
(* Calls to a peer cross awaits, so a round of the replica task is a       *)
(* sequence of steps: one for each time it holds the node's lock, and one  *)
(* for each answer a peer gives in between.  `pull` is where each node's   *)
(* round stands.  Anything may happen between two steps.                   *)
(*                                                                         *)
(* The election is reduced to its outcome, see module Mesh: a member wins  *)
(* a term at most once, with the votes of a majority whose logs are no     *)
(* further along.  A voter follows nobody from its vote to the end of the  *)
(* election, so neither its log nor the winner's moves in between, and the *)
(* vote and the victory are one step.  `led` keeps who led which term:     *)
(* statuses that say so may arrive at any time.                            *)
(***************************************************************************)
EXTENDS Store, FiniteSets

CONSTANTS
    Nodes,       \* the members
    Routes,      \* node -> the members it can call
    Boots,       \* what the nodes may boot with: node -> its store and its terms
    SyncPage,    \* blocks in a page
    Restless,    \* bound on the model: the members that campaign
    Pullers,     \* bound on the model: the members whose replica task runs
    Pushed,      \* bound on the model: the members that are pushed to
    ClearTerms,  \* bound on the model: the terms in which the operator clears
    MaxTerm,     \* bound on the model: terms campaigned for
    MaxSent,     \* bound on the model: pushes under way
    MaxHead      \* bound on the model: blocks in a log

ASSUME ReplicationAssumption ==
    /\ IsFiniteSet(Nodes) /\ None \notin Nodes
    /\ Routes \in [Nodes -> SUBSET Nodes]
    /\ \A n \in Nodes : n \notin Routes[n]
    /\ Restless \subseteq Nodes /\ Pullers \subseteq Nodes /\ Pushed \subseteq Nodes
    /\ SyncPage \in Nat \ {0} /\ MaxTerm \in Nat /\ MaxHead \in Nat /\ MaxSent \in Nat
    /\ ClearTerms \subseteq Nat

VARIABLES
    store,    \* the block log of each node
    mesh,     \* what its election says: term, head term, role and leader
    follow,   \* whom its replica task pulls from, whether to compare first, and
              \* (history) whether its last comparison could miss a difference
    pull,     \* where its replica round stands
    push,     \* where a primary's push session to another node stands
    sent,     \* the pushes under way
    compared, \* `push_reconciled`: whom a primary has compared with, by term
    polled,   \* who has answered a poll of a primary's, by term
    missed,   \* (history) in whom its comparison could miss a difference, or
              \* left one to a rewind that was not answered, by term
    led       \* who led which term

pushing == <<push, sent, compared, polled, missed>>
vars == <<store, mesh, follow, pull, pushing, led>>

Log == Seq(1..MaxTerm)
Row == [height : 1..MaxHead, term : 1..MaxTerm]

Steps == {"idle", "measure", "head", "checkpoint", "compare", "fork",
          "rewind", "settle", "tailHead", "tailCheckpoint", "tail", "page"}
Comparing == {"head", "checkpoint", "compare", "fork", "rewind", "settle"}
Asks == {"head", "checkpoint", "compare", "tailHead", "tailCheckpoint", "page"}

\* What a peer may have answered.
Answers(at) ==
    {None} \cup
       CASE at \in {"head", "tailHead"} -> [head : 0..MaxHead, cp : 0..MaxHead]
         [] at \in {"checkpoint", "tailCheckpoint"} -> Log
         [] at = "page" -> Seq(Row)
         [] OTHER -> {}

\* A replica round: its step, the peer it was started with, the head and the
\* checkpoint it measured (its own before comparing, the peer's while it
\* tails), what it has read of the peer's blocks, and the answer it has got.
Idle == [at |-> "idle", peer |-> None, head |-> 0, cp |-> 0, theirs |-> <<>>,
         got |-> None]

Stages == {"idle", "ask", "decide", "compare", "agree", "compared", "send", "wait"}

\* A push session: its stage, the peer's head and checkpoint as last told, how
\* far the logs agree, the term it compares in, the page it compares, and the
\* operation to send.
Sessions == {s \in Nodes \X Pushed : s[1] # s[2]}
NoSession == [at |-> "idle", head |-> 0, cp |-> 0, fork |-> 0, term |-> 0,
              theirs |-> <<>>, op |-> None]

Op == [op : {"checkpoint"}, state : Log] \cup [op : {"rewind"}, fork : 0..MaxHead]
        \cup [op : {"blocks"}, rows : Seq(Row)]
\* An operation and the status that goes with it.
Push == [from : Nodes, to : Nodes, term : 1..MaxTerm, op : Op]

\* A node that follows nobody yet.
Alone == [peer |-> None, reconcile |-> FALSE, blind |-> FALSE]

TypeOK ==
    /\ store \in [Nodes -> [log : Log, cp : 0..MaxHead]]
    /\ \A n \in Nodes : store[n].cp <= HeadOf(store[n]) /\ HeadOf(store[n]) <= MaxHead
    /\ mesh \in [Nodes -> [term : 0..MaxTerm, headTerm : 0..MaxTerm,
                           lead : BOOLEAN, leader : Nodes \cup {None}]]
    /\ follow \in [Nodes -> [peer : Nodes \cup {None}, reconcile : BOOLEAN,
                             blind : BOOLEAN]]
    /\ \A n \in Nodes :
          pull[n] \in [at : Steps, peer : Nodes \cup {None}, head : 0..MaxHead,
                      cp : 0..MaxHead, theirs : Seq(Row), got : Answers(pull[n].at)]
    /\ \A s \in Sessions :
          push[s] \in [at : Stages, head : 0..MaxHead, cp : 0..MaxHead,
                      fork : 0..MaxHead, term : 0..MaxTerm, theirs : Seq(Row),
                      op : {None} \cup Op]
    /\ sent \subseteq Push
    /\ compared \cup polled \cup missed \subseteq Nodes \X Nodes \X (1..MaxTerm)
    /\ led \subseteq Nodes \X (1..MaxTerm)

Init ==
    /\ \E boot \in Boots :
          /\ store = [n \in Nodes |-> boot[n].store]
          /\ mesh = [n \in Nodes |-> [term |-> boot[n].term, headTerm |-> boot[n].headTerm,
                                      lead |-> FALSE, leader |-> None]]
    /\ follow = [n \in Nodes |-> Alone]
    /\ pull = [n \in Nodes |-> Idle]
    /\ push = [s \in Sessions |-> NoSession]
    /\ sent = {} /\ compared = {} /\ polled = {} /\ missed = {}
    /\ led = {}

-----------------------------------------------------------------------------
(* The election, and the node's role. *)

\* Mutant: a new route is tailed without a comparison.
FollowedUncompared(n, l) ==
    [follow[n] EXCEPT !.peer = IF l \in Routes[n] THEN l ELSE None]

\* `follow_mesh`, for a node whose election says l leads: a new route is
\* compared with before it is tailed.
Followed(n, l) ==
    LET route == IF l \in Routes[n] THEN l ELSE None
        new == route # follow[n].peer
    IN  [peer |-> route,
         reconcile |-> follow[n].reconcile \/ (new /\ route # None),
         blind |-> follow[n].blind \/ (new /\ pull[n].at \in Comparing)]

\* The node's election has it in term t under leader l, maybe itself.
Adopted(n, t, l) ==
    [mesh[n] EXCEPT !.term = t, !.lead = (l = n), !.leader = l]

UpToDate(n, m) ==
    \/ mesh[n].headTerm > mesh[m].headTerm
    \/ mesh[n].headTerm = mesh[m].headTerm /\ HeadOf(store[n]) >= HeadOf(store[m])

\* Node n wins the next term with the votes of a majority.  Its voters are in
\* no later term, lead nothing and have logs that are no further along.
Elect(n, voters) ==
    LET t == mesh[n].term + 1 IN
    /\ n \in Restless \cap voters
    /\ ~mesh[n].lead /\ t <= MaxTerm
    /\ \A l \in Nodes : <<l, t>> \notin led
    /\ 2 * Cardinality(voters) > Cardinality(Nodes)
    /\ \A m \in voters \ {n} : ~mesh[m].lead /\ mesh[m].term <= t /\ UpToDate(n, m)
    /\ mesh' = [m \in Nodes |-> IF m = n THEN Adopted(n, t, n)
                                ELSE IF m \in voters THEN Adopted(m, t, None)
                                ELSE mesh[m]]
    /\ follow' = [m \in Nodes |-> IF m \in voters THEN Followed(m, None)
                                  ELSE follow[m]]
    /\ led' = led \cup {<<n, t>>}
    /\ UNCHANGED <<store, pull, pushing>>

\* A status says that l leads term t.
Hear(n, l, t) ==
    /\ <<l, t>> \in led /\ l # n
    /\ mesh[n].term <= t
    /\ ~(mesh[n].lead /\ mesh[n].term = t)
    /\ <<mesh[n].leader, mesh[n].term>> # <<l, t>>
    /\ mesh' = [mesh EXCEPT ![n] = Adopted(n, t, l)]
    /\ follow' = [follow EXCEPT ![n] = Followed(n, l)]
    /\ UNCHANGED <<store, pull, led, pushing>>

\* A status or a vote brings a later term, but not who leads it.
LearnTerm(n, m) ==
    /\ mesh[m].term > mesh[n].term
    /\ mesh' = [mesh EXCEPT ![n] = Adopted(n, mesh[m].term, None)]
    /\ follow' = [follow EXCEPT ![n] = Followed(n, None)]
    /\ UNCHANGED <<store, pull, led, pushing>>

\* A primary loses its majority, or a follower its leader.
LoseLeader(n) ==
    /\ mesh[n].leader # None
    /\ mesh' = [mesh EXCEPT ![n] = Adopted(n, mesh[n].term, None)]
    /\ follow' = [follow EXCEPT ![n] = Followed(n, None)]
    /\ UNCHANGED <<store, pull, led, pushing>>

\* The primary closes a block.  If the operator has cleared in it, it also
\* compacts, under the same lock: what a crash between the two commits leaves
\* is a block without a compaction, and then a restart.
Produce(n) ==
    LET b == [height |-> HeadOf(store[n]) + 1, term |-> mesh[n].term]
        st == AppendBlock(store[n], b)
    IN
    /\ mesh[n].lead /\ b.height <= MaxHead
    /\ store' \in {[store EXCEPT ![n] = st]}
                    \cup (IF mesh[n].term \in ClearTerms
                          THEN {[store EXCEPT ![n] = Compact(st)]} ELSE {})
    /\ mesh' = [mesh EXCEPT ![n].headTerm = mesh[n].term]
    /\ UNCHANGED <<follow, pull, led, pushing>>

-----------------------------------------------------------------------------
(* The replica task. *)

\* Mutant: what was fetched lands, whoever leads by now.
StillAlways(n) == TRUE

\* Whether the peer of the round is still the one to follow.
Still(n) == ~mesh[n].lead /\ follow[n].peer = pull[n].peer

\* The round goes on to another step.
At(n, step) == [pull EXCEPT ![n].at = step, ![n].got = None]

\* `replica_round`.
Round(n) ==
    /\ n \in Pullers
    /\ pull[n].at = "idle" /\ ~mesh[n].lead /\ follow[n].peer # None
    /\ pull' = [pull EXCEPT ![n] =
                  [Idle EXCEPT !.peer = follow[n].peer,
                               !.at = IF follow[n].reconcile THEN "measure"
                                      ELSE "tailHead"]]
    /\ UNCHANGED <<store, mesh, follow, led, pushing>>

\* `reconcile_if_diverged` notes the node's own head and checkpoint.
Measure(n) ==
    /\ pull[n].at = "measure"
    /\ pull' = [pull EXCEPT ![n].at = "head", ![n].head = HeadOf(store[n]),
                            ![n].cp = store[n].cp]
    /\ follow' = [follow EXCEPT ![n].blind = follow[n].peer # pull[n].peer]
    /\ UNCHANGED <<store, mesh, led, pushing>>

\* The peer answers what the round has asked, from the store it has now.
\* Whatever its role, it serves its log.
Asked(n, steps) == pull[n].at \in steps /\ pull[n].got = None

Answered(n, answer) ==
    /\ pull' = [pull EXCEPT ![n].got = answer]
    /\ UNCHANGED <<store, mesh, follow, led, pushing>>

ServeHead(n) ==
    /\ Asked(n, {"head", "tailHead"})
    /\ Answered(n, [head |-> HeadOf(store[pull[n].peer]),
                    cp |-> store[pull[n].peer].cp])

ServeCheckpoint(n) ==
    /\ Asked(n, {"checkpoint", "tailCheckpoint"})
    /\ store[pull[n].peer].cp > 0
    /\ Answered(n, Checkpoint(store[pull[n].peer]))

ServePage(n) ==
    /\ Asked(n, {"page"})
    /\ Page(store[pull[n].peer], pull[n].cp, SyncPage) # <<>>
    /\ Answered(n, Page(store[pull[n].peer], pull[n].cp, SyncPage))

\* While it compares, the round goes on reading until it has its own range.
Read(n) ==
    LET p == pull[n]
        rows == Page(store[p.peer], p.cp + 1 + Len(p.theirs), SyncPage)
        theirs == p.theirs \o rows
    IN
    /\ p.at = "compare" /\ rows # <<>>
    /\ pull' = [pull EXCEPT ![n].theirs = theirs,
                            ![n].at = IF p.cp + Len(theirs) < p.head
                                      THEN "compare" ELSE "fork"]
    /\ UNCHANGED <<store, mesh, follow, led, pushing>>

\* Up to a height the logs of two nodes do not differ, as far as both go.
AgreeTo(h, n, m) ==
    \A i \in (1..h) \cap DOMAIN store[n].log \cap DOMAIN store[m].log :
        store[n].log[i] = store[m].log[i]

\* What follows a checkpoint that was not taken while comparing.
AfterCheckpoint(p) == IF p.head = p.cp THEN "settle" ELSE "compare"

\* The peer does not answer, or has nothing to answer with.
NoAnswer(n) ==
    LET p == pull[n] IN
    /\ p.at \in Asks /\ p.got = None
    /\ pull' = CASE p.at \in {"head", "tailHead", "page"} -> [pull EXCEPT ![n] = Idle]
                 [] p.at = "checkpoint" -> At(n, AfterCheckpoint(p))
                 [] p.at = "compare" -> At(n, "fork")
                 [] p.at = "tailCheckpoint" -> At(n, "tail")
    /\ UNCHANGED <<store, mesh, follow, led, pushing>>

\* `rewind`, unless the primary has changed.
Rewound(n, fork) ==
    store' = IF Still(n) THEN [store EXCEPT ![n] = RewindForFork(@, fork)]
             ELSE store

\* The peer's head decides how to compare.  A checkpoint of the node's own that
\* is no higher than the peer's is taken for a part of the peer's log.
ReconcileHead(n) ==
    LET p == pull[n] IN
    /\ p.at = "head" /\ p.got # None
    /\ \/ /\ p.got.cp < p.cp
          /\ Rewound(n, p.cp - 1)
          /\ pull' = At(n, "settle")
          /\ UNCHANGED follow
       \/ /\ p.got.cp >= p.cp
          /\ pull' = At(n, IF p.got.cp > store[n].cp THEN "checkpoint"
                           ELSE AfterCheckpoint(p))
          /\ follow' = [follow EXCEPT ![n].blind = @ \/ ~AgreeTo(p.cp, n, p.peer)]
          /\ UNCHANGED store
    /\ UNCHANGED <<mesh, led, pushing>>

\* `adopt_peer_checkpoint_if_ahead` has the peer's checkpoint.
Adopt(n) ==
    LET p == pull[n] IN
    /\ p.at \in {"checkpoint", "tailCheckpoint"} /\ p.got # None
    /\ IF Still(n)
       THEN /\ store' = [store EXCEPT ![n] = AdoptCheckpoint(@, p.got)]
            /\ mesh' = [mesh EXCEPT ![n].headTerm = mesh[n].term]
       ELSE UNCHANGED <<store, mesh>>
    /\ pull' = At(n, IF p.at = "tailCheckpoint" THEN "tail"
                     ELSE IF Still(n) THEN "settle"
                     ELSE AfterCheckpoint(p))
    /\ UNCHANGED <<follow, led, pushing>>

\* The peer's blocks are read: find the fork.
FindFork(n) ==
    LET p == pull[n]
        fork == ForkPoint(store[n], p.cp + 1, p.theirs)
    IN
    /\ p.at = "fork"
    /\ pull' = [pull EXCEPT ![n].at = IF fork < p.head THEN "rewind" ELSE "settle",
                            ![n].head = fork, ![n].theirs = <<>>]
    /\ UNCHANGED <<store, mesh, follow, led, pushing>>

Rewind(n) ==
    /\ pull[n].at = "rewind"
    /\ Rewound(n, pull[n].head)
    /\ pull' = At(n, "settle")
    /\ UNCHANGED <<mesh, follow, led, pushing>>

\* The comparison is over, and if the peer is the one to follow by now it is
\* not repeated.
Settle(n) ==
    LET p == pull[n] IN
    /\ p.at = "settle"
    /\ follow' = IF follow[n].peer = p.peer
                 THEN [follow EXCEPT ![n].reconcile = FALSE] ELSE follow
    /\ pull' = [pull EXCEPT ![n] = [Idle EXCEPT !.at = "tailHead", !.peer = p.peer]]
    /\ UNCHANGED <<store, mesh, led, pushing>>

\* Mutant: only a comparison takes a checkpoint, not the tail.
TailHeadNoCheckpoint(n) ==
    LET p == pull[n] IN
    /\ p.at = "tailHead" /\ p.got # None
    /\ pull' = [pull EXCEPT ![n].at = "tail", ![n].head = p.got.head,
                            ![n].got = None]
    /\ UNCHANGED <<store, mesh, follow, led, pushing>>

\* `sync_once` has the peer's head, the limit of this round.
TailHead(n) ==
    LET p == pull[n] IN
    /\ p.at = "tailHead" /\ p.got # None
    /\ pull' = [pull EXCEPT ![n].at = IF p.got.cp > store[n].cp
                                      THEN "tailCheckpoint" ELSE "tail",
                            ![n].head = p.got.head, ![n].got = None]
    /\ UNCHANGED <<store, mesh, follow, led, pushing>>

\* The next page starts above the node's own head.
NextPage(n) ==
    LET from == HeadOf(store[n]) + 1 IN
    /\ pull[n].at = "tail"
    /\ pull' = IF from > pull[n].head THEN [pull EXCEPT ![n] = Idle]
               ELSE [pull EXCEPT ![n].at = "page", ![n].cp = from]
    /\ UNCHANGED <<store, mesh, follow, led, pushing>>

\* The rows of a page that are new to a store.
Fresh(st, rows) == SelectSeq(rows, LAMBDA b : b.height > HeadOf(st))

Appended(st, rows) == [st EXCEPT !.log = @ \o [i \in 1..Len(rows) |-> rows[i].term]]

\* A page has arrived.  It lands only if the peer is still the primary and
\* its blocks follow on what the node has.
TakePage(n) ==
    LET p == pull[n]
        rows == Fresh(store[n], p.got)
        fit == rows = <<>> \/ Fits(store[n], rows[1])
    IN
    /\ p.at = "page" /\ p.got # None
    /\ IF Still(n) /\ fit
       THEN /\ store' = [store EXCEPT ![n] = Appended(@, rows)]
            /\ mesh' = IF rows = <<>> THEN mesh
                       ELSE [mesh EXCEPT ![n].headTerm = mesh[n].term]
            /\ pull' = At(n, "tail")
       ELSE /\ pull' = [pull EXCEPT ![n] = Idle]
            /\ UNCHANGED <<store, mesh>>
    /\ UNCHANGED <<follow, led, pushing>>

-----------------------------------------------------------------------------
(* The primary pushes to a peer that does not keep up.  s = <<l, m>> is the  *)
(* session of l to m.  A new one does not start before the last has ended.   *)

Session(s, new) == push' = [push EXCEPT ![s] = new]

\* Whether node n, hearing that the sender of m leads, follows it
\* (`accepts_push_from`, for a push).
Accepts(n, m) == mesh[n].term <= m.term /\ ~(mesh[n].lead /\ mesh[n].term = m.term)

\* A primary's poll, for the nodes it may push to.  It carries the primary's
\* status, which the peer takes in before it answers with its own.
Poll(s) ==
    LET m == [from |-> s[1], to |-> s[2], term |-> mesh[s[1]].term] IN
    /\ m.to \in Routes[m.from] /\ mesh[m.from].lead
    /\ polled' = polled \cup {<<m.from, m.to, m.term>>}
    /\ mesh' = IF Accepts(m.to, m)
               THEN [mesh EXCEPT ![m.to] = Adopted(m.to, m.term, m.from)] ELSE mesh
    /\ follow' = IF Accepts(m.to, m)
                 THEN [follow EXCEPT ![m.to] = Followed(m.to, m.from)] ELSE follow
    /\ UNCHANGED <<store, pull, push, sent, compared, missed, led>>

\* `start_pushes` and `push_targets`, for a peer seen off the primary's head for a
\* window.  What was seen may be old, so no head is compared here.  In a first
\* reign it is the answer to a poll of that reign, as the window begins with
\* it; what was seen and pushed to in an earlier reign is not forgotten.
StartPush(s) ==
    LET term == mesh[s[1]].term IN
    /\ s[2] \in Routes[s[1]]
    /\ mesh[s[1]].lead /\ push[s].at = "idle"
    /\ (\A t \in 1..(term - 1) : <<s[1], t>> \notin led)
          => <<s[1], s[2], term>> \in polled
    /\ Session(s, [NoSession EXCEPT !.at = "ask"])
    /\ UNCHANGED <<store, mesh, follow, pull, sent, compared, polled, missed, led>>

\* The peer's head, or the next of its pages.
PushAnswered(s) ==
    LET p == push[s]
        st == store[s[2]]
        rows == Page(st, p.fork + 1, SyncPage)
    IN
    /\ \/ /\ p.at = "ask"
          /\ Session(s, [NoSession EXCEPT !.at = "decide", !.head = HeadOf(st),
                                          !.cp = st.cp])
       \/ /\ p.at = "compare" /\ rows # <<>>
          /\ Session(s, [p EXCEPT !.at = "agree", !.theirs = rows])
    /\ UNCHANGED <<store, mesh, follow, pull, sent, compared, polled, missed, led>>

\* The peer does not answer, or not in time.  What was sent may still arrive.
PushUnanswered(s) ==
    LET p == push[s] IN
    /\ p.at \in {"ask", "compare", "wait"}
    /\ Session(s, IF p.at = "compare" THEN [p EXCEPT !.at = "compared"]
                  ELSE NoSession)
    /\ missed' = IF p.at = "wait" /\ p.op.op = "rewind" /\ p.term # 0
                 THEN missed \cup {<<s[1], s[2], p.term>>} ELSE missed
    /\ UNCHANGED <<store, mesh, follow, pull, sent, compared, polled, led>>

\* The next thing to do about the peer, as last told: drop its log, give it
\* our checkpoint, compare logs once a term, give it blocks, or be done.
Decide(s) ==
    LET p == push[s]
        st == store[s[1]]
        term == mesh[s[1]].term
        Send(op) == [p EXCEPT !.at = "send", !.op = op]
    IN
    /\ p.at = "decide"
    /\ Session(s,
         CASE ~mesh[s[1]].lead -> NoSession
           [] mesh[s[1]].lead /\ p.cp > st.cp ->
                Send([op |-> "rewind", fork |-> p.cp - 1])
           [] mesh[s[1]].lead /\ p.cp < st.cp ->
                Send([op |-> "checkpoint", state |-> Checkpoint(st)])
           [] mesh[s[1]].lead /\ p.cp = st.cp /\ <<s[1], s[2], term>> \notin compared ->
                [p EXCEPT !.fork = p.cp, !.term = term,
                          !.at = IF p.cp < p.head THEN "compare" ELSE "compared"]
           [] OTHER ->
                IF p.head < HeadOf(st)
                THEN Send([op |-> "blocks", rows |-> Page(st, p.head + 1, SyncPage)])
                ELSE NoSession)
    /\ UNCHANGED <<store, mesh, follow, pull, sent, compared, polled, missed, led>>

\* `fork_against`: a page of the peer's is compared; if it agrees, so may the
\* next.
Agree(s) ==
    LET p == push[s]
        last == p.fork + Len(p.theirs)
        fork == ForkPoint(store[s[1]], p.fork + 1, p.theirs)
    IN
    /\ p.at = "agree"
    /\ Session(s, [p EXCEPT !.fork = fork, !.theirs = <<>>,
                            !.at = IF fork = last /\ last < p.head
                                   THEN "compare" ELSE "compared"])
    /\ UNCHANGED <<store, mesh, follow, pull, sent, compared, polled, missed, led>>

\* Checkpoints of one height are taken for the same.
Checks(s) ==
    missed' = IF AgreeTo(push[s].cp, s[1], s[2]) THEN missed
              ELSE missed \cup {<<s[1], s[2], push[s].term>>}

\* Mutant: the peer's log is taken for a part of ours.
ComparedBlindly(s) ==
    LET p == push[s] IN
    /\ p.at = "compared"
    /\ compared' = compared \cup {<<s[1], s[2], p.term>>}
    /\ Session(s, [p EXCEPT !.at = "decide"])
    /\ Checks(s)
    /\ UNCHANGED <<store, mesh, follow, pull, sent, polled, led>>

\* The comparison is over and need not be repeated in this term.
Compared(s) ==
    LET p == push[s] IN
    /\ p.at = "compared"
    /\ compared' = compared \cup {<<s[1], s[2], p.term>>}
    /\ Session(s, IF p.fork >= p.head THEN [p EXCEPT !.at = "decide"]
                  ELSE [p EXCEPT !.at = "send",
                                 !.op = [op |-> "rewind", fork |-> p.fork]])
    /\ Checks(s)
    /\ UNCHANGED <<store, mesh, follow, pull, sent, polled, led>>

\* `push_op`, with the status of this moment.  A node that leads no more is
\* refused.
SendPush(s) ==
    LET m == [from |-> s[1], to |-> s[2], term |-> mesh[s[1]].term, op |-> push[s].op]
    IN
    /\ push[s].at = "send"
    /\ IF mesh[s[1]].lead
       THEN /\ Cardinality(sent \cup {m}) <= MaxSent
            /\ sent' = sent \cup {m}
            /\ Session(s, [push[s] EXCEPT !.at = "wait"])
       ELSE Session(s, NoSession) /\ UNCHANGED sent
    /\ UNCHANGED <<store, mesh, follow, pull, compared, polled, missed, led>>

\* What a push does to a store.
Pushes(st, op) ==
    CASE op.op = "checkpoint" ->
            IF Len(op.state) > st.cp THEN AdoptCheckpoint(st, op.state) ELSE st
      [] op.op = "rewind" ->
            IF op.fork < HeadOf(st) THEN RewindForFork(st, op.fork) ELSE st
      [] op.op = "blocks" ->
            LET rows == Fresh(st, op.rows) IN
            IF rows # <<>> /\ Fits(st, rows[1]) THEN Appended(st, rows) ELSE st

\* `chain_push`: the status is heard first; then the operation is taken if it
\* is from the leader the node follows, in its term.  The answer goes to the
\* session that waits for it.
OnPush(m) ==
    LET n == m.to
        s == <<m.from, n>>
        hears == Accepts(n, m)
        st == IF hears THEN Pushes(store[n], m.op) ELSE store[n]
        grows == hears /\ m.op.op # "rewind" /\ st # store[n]
        waits == push[s].at = "wait" /\ push[s].op = m.op
        answered == [push[s] EXCEPT !.at = "decide", !.op = None,
                                    !.head = HeadOf(st), !.cp = st.cp]
    IN
    /\ sent' = sent \ {m}
    /\ store' = [store EXCEPT ![n] = st]
    /\ mesh' = [mesh EXCEPT ![n] =
                  IF ~hears THEN @
                  ELSE [Adopted(n, m.term, m.from) EXCEPT
                          !.headTerm = IF grows THEN m.term ELSE @]]
    /\ follow' = IF hears THEN [follow EXCEPT ![n] = Followed(n, m.from)] ELSE follow
    /\ push' = IF waits THEN [push EXCEPT ![s] = IF hears THEN answered ELSE NoSession]
               ELSE push
    /\ UNCHANGED <<pull, compared, polled, missed, led>>

LosePush(m) ==
    /\ sent' = sent \ {m}
    /\ UNCHANGED <<store, mesh, follow, pull, push, compared, polled, missed, led>>

\* The process dies and comes back with its store.  The last thing it did may
\* have been a block, or some of a page, without the head term that goes with
\* it.
Restart(n) ==
    LET p == pull[n]
        st == store[n]
        rows == IF p.at = "page" /\ p.got # None /\ Still(n)
                THEN Fresh(st, p.got)
                ELSE IF mesh[n].lead /\ HeadOf(st) < MaxHead
                THEN <<[height |-> HeadOf(st) + 1, term |-> mesh[n].term]>>
                ELSE <<>>
        fit == IF rows # <<>> /\ Fits(st, rows[1]) THEN rows ELSE <<>>
    IN
    /\ \E k \in 0..Len(fit) :
          store' = [store EXCEPT ![n] = Appended(@, SubSeq(fit, 1, k))]
    /\ mesh' = [mesh EXCEPT ![n] = Adopted(n, mesh[n].term, None)]
    /\ follow' = [follow EXCEPT ![n] = Alone]
    /\ pull' = [pull EXCEPT ![n] = Idle]
    /\ push' = [s \in Sessions |-> IF s[1] = n THEN NoSession ELSE push[s]]
    /\ compared' = {x \in compared : x[1] # n}
    /\ polled' = {x \in polled : x[1] # n}
    /\ UNCHANGED <<sent, missed, led>>

Next ==
    \/ \E n \in Nodes :
          \/ Produce(n) \/ LoseLeader(n) \/ Restart(n)
          \/ Round(n) \/ Measure(n) \/ NoAnswer(n)
          \/ ServeHead(n) \/ ServeCheckpoint(n) \/ ServePage(n) \/ Read(n)
          \/ ReconcileHead(n) \/ Adopt(n) \/ FindFork(n) \/ Rewind(n)
          \/ Settle(n) \/ TailHead(n) \/ NextPage(n) \/ TakePage(n)
    \/ \E n \in Nodes, voters \in SUBSET Nodes : Elect(n, voters)
    \/ \E n, m \in Nodes : LearnTerm(n, m)
    \/ \E n, l \in Nodes, t \in 1..MaxTerm : Hear(n, l, t)
    \/ \E s \in Sessions :
          \/ Poll(s) \/ StartPush(s) \/ PushAnswered(s) \/ PushUnanswered(s) \/ Decide(s)
          \/ Agree(s) \/ Compared(s) \/ SendPush(s)
    \/ \E m \in sent : OnPush(m) \/ LosePush(m)

Spec == Init /\ [][Next]_vars

-----------------------------------------------------------------------------

\* n leads the term m is in.
Leads(n, m) == mesh[n].lead /\ mesh[n].term = mesh[m].term /\ n # m

\* A replica that has compared its log with its primary's, and tails it now,
\* has a part of the primary's log, whatever came between the steps of its
\* rounds; unless its comparison was blind: it lost its primary, and found it
\* again, before it ended, or it has a checkpoint the primary's log differs at.
\* (And the state is well typed, with every checkpoint inside its log.)
ReplicaIsPrefix ==
    /\ TypeOK
    /\ \A l, n \in Nodes :
          Leads(l, n) /\ follow[n].peer = l /\ ~follow[n].reconcile /\ ~follow[n].blind
              => IsPrefix(store[n].log, store[l].log)

\* The same without the exception, as the node's module doc has it: "reconcile
\* once against it before tailing, since the old and new primaries may disagree
\* about the last few blocks".  Who need not compare any more agrees.  It does
\* not hold: see MCReplicationFlag.cfg and MCReplicationCheckpoint.cfg.
ReconciledIsPrefix ==
    \A l, n \in Nodes :
        Leads(l, n) /\ follow[n].peer = l /\ ~follow[n].reconcile
            => IsPrefix(store[n].log, store[l].log)

\* Whoever leads n's term has all that n has.
PartOfTheirs(n) == \A l \in Nodes : Leads(l, n) => IsPrefix(store[n].log, store[l].log)

\* A step in which the log of n grows; it is a push unless it is of n's own round.
Grows(n) == HeadOf(store'[n]) > HeadOf(store[n])
Pulls(n) == pull'[n] # pull[n]

\* Blocks land only on a log that they continue: when the log of a replica
\* grows, it grows to a part of the log of whoever leads its term.  By pull,
\* unless its last comparison was blind; by push, unless the primary's was, or
\* its rewind was not answered.
TailsThePrimary ==
    [][\A n \in Nodes :
          /\ Grows(n)
          /\ IF Pulls(n) THEN ~follow[n].blind
             ELSE \A l \in Nodes : <<l, n, mesh'[n].term>> \notin missed
          => PartOfTheirs(n)']_vars

\* The same for every push, as the comment on the leader's push has it: the
\* primary "brings that peer's log to its own from this side".  It does not
\* hold: see MCReplicationRewind.cfg.
PushesContinue ==
    [][\A n \in Nodes : Grows(n) /\ ~Pulls(n) => PartOfTheirs(n)']_vars

\* Nothing a node asked for as a replica touches its log once it leads.
PrimaryOnlyAppends ==
    [][\A n \in Nodes :
          mesh[n].lead /\ mesh'[n].lead /\ mesh'[n].term = mesh[n].term
             => IsPrefix(store[n].log, store'[n].log)]_vars

\* Who is elected has everything a majority has, so that no such block is lost
\* to a rewind.
MajorityKept ==
    [][\A n, m \in Nodes, h \in 1..MaxHead :
          LET held == SubSeq(store[m].log, 1, h) IN
          /\ ~mesh[n].lead /\ mesh'[n].lead
          /\ h <= HeadOf(store[m])
          /\ 2 * Cardinality({x \in Nodes : IsPrefix(held, store[x].log)})
                > Cardinality(Nodes)
          => IsPrefix(held, store[n].log)]_vars

-----------------------------------------------------------------------------
(* The replica task keeps running; a call to a peer ends, with an answer or  *)
(* without; and of the calls it makes over and over some are answered.       *)

LockStep(n) ==
    \/ Round(n) \/ Measure(n) \/ ReconcileHead(n) \/ Adopt(n) \/ FindFork(n)
    \/ Rewind(n) \/ Settle(n) \/ TailHead(n) \/ NextPage(n) \/ TakePage(n)

ReplicaFairness ==
    \A n \in Pullers :
        /\ WF_vars(LockStep(n))
        /\ WF_vars(NoAnswer(n) \/ ServeHead(n) \/ ServeCheckpoint(n)
                       \/ ServePage(n) \/ Read(n))
        /\ SF_vars(ServeHead(n)) /\ SF_vars(ServeCheckpoint(n))
        /\ SF_vars(ServePage(n)) /\ SF_vars(Read(n))

FairSpec == Spec /\ ReplicaFairness

\* A blind comparison has cleared the flag, and none will follow.
Forgot(n) == follow[n].blind /\ ~follow[n].reconcile

\* A replica that keeps a primary gets to where the primary is, block for block
\* and checkpoint for checkpoint, wherever it comes from: behind, diverged,
\* with another checkpoint, or overtaken by a compaction while it catches up;
\* unless its comparison was forgotten.
CatchesUp ==
    \A n \in Pullers : \A l \in Restless \ {n} :
        <>[](Leads(l, n) /\ follow[n].peer = l /\ ~Forgot(n))
            => []<>(store[n] = store[l])

=============================================================================
