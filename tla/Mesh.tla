-------------------------------- MODULE Mesh --------------------------------
(***************************************************************************)
(* Leader election of crates/miot-mesh (the pure machine `Mesh`), together *)
(* with what crates/kot/src/node.rs does around it: it persists `Hard`     *)
(* before anything leaves the node, broadcasts vote requests, feeds the    *)
(* replies and the polled statuses back, and restarts from what is on      *)
(* disk.                                                                   *)
(*                                                                         *)
(* Every handler runs under the node's lock and ends in `save_hard`, so it *)
(* is one step.  Between a request and its handling, and between a reply   *)
(* or a status and its delivery, anything may happen: `requests`,          *)
(* `replies` and `said` keep what was sent, so messages are delayed,       *)
(* reordered, repeated or never delivered.  Calls and replies that would   *)
(* come to nothing any more are dropped from them.                         *)
(*                                                                         *)
(* Time is abstracted to what the handlers ask of it.  `sticky` says that  *)
(* the leader was heard within the minimum election timeout; `seen` holds  *)
(* the members a leader has heard within it.  A node whose timeout is not  *)
(* held back by a fresh contact may find its deadline passed at any time,  *)
(* since deadlines are random.  `campaignTerm` is only read by a           *)
(* pre-candidate and is 0 for everyone else.                               *)
(*                                                                         *)
(* The nodes start from `Boot`, empty stores or whatever earlier terms     *)
(* left on their disks.                                                    *)
(***************************************************************************)
EXTENDS Integers, FiniteSets

CONSTANTS
    Nodes,       \* the names
    Learners,    \* the nodes that only follow
    Peers,       \* node -> the nodes in its peers list, itself maybe included
    Boot,        \* node -> the `Hard` and the head it boots with
    Late,        \* statuses of earlier terms that are still on their way
    None,
    DiskFails,   \* whether `put_aux` may fail
    Restless,    \* bound on the model: the nodes whose deadlines pass
    MaxTerm,     \* bound on the model: terms campaigned for
    MaxHead,     \* bound on the model: blocks in a log
    MaxCut       \* bound on the model: nodes cut off at the same time

Members == Nodes \ Learners

Hard == [term : Nat, votedFor : Nodes \cup {None}, headTerm : Nat]

ASSUME NodesAssumption ==
    /\ IsFiniteSet(Nodes) /\ Learners \subseteq Nodes
    /\ None \notin Nodes
    /\ Peers \in [Nodes -> SUBSET Members]
    /\ \A n \in Nodes : Members \subseteq Peers[n] \cup {n}
    /\ Boot \in [Nodes -> [hard : Hard, head : Nat]]
    /\ Late \subseteq [name : Members, term : Nat, leads : BOOLEAN, follows : {None}]
    /\ DiskFails \in BOOLEAN /\ Restless \subseteq Nodes
    /\ MaxTerm \in Nat /\ MaxHead \in Nat /\ MaxCut \in Nat

Majorities == {Q \in SUBSET Members : 2 * Cardinality(Q) > Cardinality(Members)}

\* Whoever led an earlier term had been elected in it: it entered the term, and
\* a majority entered it and, where they have seen no later one, still hold
\* their vote for it.  No two led the same term.
ASSUME EarlierTermsAssumption ==
    /\ \A st \in Late : st.leads =>
          /\ Boot[st.name].hard.term >= st.term
          /\ \E Q \in Majorities : \A m \in Q :
                /\ Boot[m].hard.term >= st.term
                /\ Boot[m].hard.term = st.term => Boot[m].hard.votedFor = st.name
    /\ \A st, other \in Late :
          st.leads /\ other.leads /\ st.term = other.term => st.name = other.name

VARIABLES
    node,       \* the state of each node's machine, and its log's head
    disk,       \* the `Hard` each node has persisted
    requests,   \* every vote request ever broadcast
    replies,    \* every answer ever given to one
    said,       \* every status a node could ever have told
    cut         \* the nodes that no message reaches or leaves

vars == <<node, disk, requests, replies, said, cut>>

Role == {"Follower", "PreCandidate", "Candidate", "Leader"}

NodeState == [term : Nat, votedFor : Nodes \cup {None}, headTerm : Nat,
              role : Role,
              leader : Nodes \cup {None},
              sticky : BOOLEAN,
              routes : SUBSET Nodes,
              votes : SUBSET Nodes,
              campaignTerm : Nat,
              seen : SUBSET Nodes,
              head : Nat]

VoteRequest == [candidate : Nodes, term : Nat, head : Nat, headTerm : Nat,
                pre : BOOLEAN]
\* A reply reaches the call that asked: for whom, for which term, pre or real.
VoteReply == [voter : Nodes, candidate : Nodes, asked : Nat, pre : BOOLEAN,
              term : Nat, granted : BOOLEAN]
\* Of a role only leading or not matters to the hearer; whom the node follows
\* is read by learners alone.
Status == [name : Nodes, term : Nat, leads : BOOLEAN,
           follows : Nodes \cup {None}]

TypeOK ==
    /\ node \in [Nodes -> NodeState]
    /\ disk \in [Nodes -> Hard]
    /\ requests \subseteq VoteRequest
    /\ replies \subseteq VoteReply
    /\ said \subseteq Status
    /\ cut \subseteq Nodes

-----------------------------------------------------------------------------
(* The machine: what its methods do to one node's state s. *)

Quorum(s) == ((Cardinality(s.routes) + 1) \div 2) + 1

HardOf(s) == [term |-> s.term, votedFor |-> s.votedFor, headTerm |-> s.headTerm]

StatusOf(n, s) ==
    [name |-> n, term |-> s.term, leads |-> s.role = "Leader",
     follows |-> IF Learners = {} \/ s.role # "Follower" THEN None ELSE s.leader]

\* Mutant: the longer log wins, whatever term it is from.
LongerLog(s, req) == req.head >= s.head

UpToDate(s, req) ==
    \/ req.headTerm > s.headTerm
    \/ req.headTerm = s.headTerm /\ req.head >= s.head

StepDown(s) ==
    [s EXCEPT !.role = "Follower", !.leader = None, !.sticky = FALSE,
              !.votes = {}, !.campaignTerm = 0, !.seen = {}]

AdoptTerm(s, t) ==
    StepDown(IF t > s.term THEN [s EXCEPT !.term = t, !.votedFor = None] ELSE s)

\* Nobody counts as lost before a first window has passed.
BecomeLeader(n, s) ==
    [s EXCEPT !.role = "Leader", !.leader = n, !.sticky = FALSE,
              !.votes = {}, !.campaignTerm = 0, !.seen = Members \ {n}]

\* A term is entered with a vote for oneself.
Stand(n, s, t) == [s EXCEPT !.term = t, !.votedFor = n]

Request(n, s, t, pre) ==
    [candidate |-> n, term |-> t, head |-> s.head, headTerm |-> s.headTerm,
     pre |-> pre]

\* Mutant: the vote does not survive a restart.
FreshNoVote(head, hard, peers) ==
    [term |-> hard.term, votedFor |-> None, headTerm |-> hard.headTerm,
     role |-> "Follower", leader |-> None, sticky |-> FALSE, routes |-> peers,
     votes |-> {}, campaignTerm |-> 0, seen |-> {}, head |-> head]

Fresh(head, hard, peers) ==
    [term |-> hard.term, votedFor |-> hard.votedFor, headTerm |-> hard.headTerm,
     role |-> "Follower", leader |-> None, sticky |-> FALSE, routes |-> peers,
     votes |-> {}, campaignTerm |-> 0, seen |-> {}, head |-> head]

\* Mutant: a leader of an older term is followed as well.
ObservedAnyTerm(n, s, st) ==
    LET a == IF st.term > s.term THEN AdoptTerm(s, st.term) ELSE s IN
    CASE st.leads /\ a.role # "Leader" ->
            [a EXCEPT !.role = "Follower", !.votes = {}, !.campaignTerm = 0,
                      !.leader = st.name, !.sticky = TRUE]
      [] ~st.leads /\ a.leader = st.name ->
            [a EXCEPT !.leader = None, !.sticky = FALSE]
      [] OTHER -> a

\* What a status means for node n in state s.
Observed(n, s, st) ==
    LET a == IF st.term > s.term THEN AdoptTerm(s, st.term) ELSE s IN
    CASE st.leads /\ st.term = a.term /\ a.role # "Leader" ->
            [a EXCEPT !.role = "Follower", !.votes = {}, !.campaignTerm = 0,
                      !.leader = st.name, !.sticky = TRUE]
      [] ~st.leads /\ a.leader = st.name ->
            [a EXCEPT !.leader = None, !.sticky = FALSE]
      [] /\ ~st.leads /\ n \in Learners /\ a.leader = None
         /\ st.term = a.term /\ st.follows # None ->
            [a EXCEPT !.leader = st.follows]
      [] OTHER -> a

\* A request is turned away unread by a learner, by a leader, by a node that
\* hears a live leader, and by the candidate itself.
Refuses(n, s, req) ==
    \/ n \in Learners
    \/ s.role = "Leader"
    \/ s.sticky /\ s.leader # None
    \/ req.candidate = n

\* The voter's state after a real request it does not turn away at once.
Considered(s, req) == IF req.term > s.term THEN AdoptTerm(s, req.term) ELSE s

\* Mutant: an earlier vote in the term is not looked at.
GrantsAgain(s, req) == UpToDate(s, req)

Grants(s, req) ==
    s.votedFor \in {None, req.candidate} /\ UpToDate(s, req)

-----------------------------------------------------------------------------
(* The node around it. *)

Init ==
    /\ node = [n \in Nodes |-> Fresh(Boot[n].head, Boot[n].hard, Peers[n])]
    /\ disk = [n \in Nodes |-> HardOf(node[n])]
    /\ requests = {} /\ replies = {}
    /\ said = {StatusOf(n, node[n]) : n \in Nodes} \cup Late
    /\ cut = {}

\* Whether a reply still means something to its asker, in state s: it brings a
\* higher term, it is a vote, or it is a pre-vote of the campaign under way.
Live(s, rep) ==
    \/ rep.term > s.term
    \/ rep.granted /\ (rep.pre => s.role = "PreCandidate"
                                   /\ rep.asked = s.campaignTerm)

\* A pre-vote is asked for as long as its campaign is under way.
Asking(s, req) ==
    req.pre => s.role = "PreCandidate" /\ req.term = s.campaignTerm

\* n is now in state s, asks for `asked` and has answered `told`.  From now on
\* s can be told; calls and replies that would come to nothing are dropped.
Become(n, s, asked, told) ==
    /\ node' = [node EXCEPT ![n] = s]
    /\ said' = said \cup {StatusOf(n, s)}
    /\ requests' = {req \in requests \cup asked :
                       Asking(node'[req.candidate], req)}
    /\ replies' = {rep \in replies \cup told : Live(node'[rep.candidate], rep)}

\* `save_hard`: written if it changed; a failed write is only logged.
SaveHard(n, s) ==
    disk' \in IF HardOf(s) = HardOf(node[n]) THEN {disk}
              ELSE {[disk EXCEPT ![n] = HardOf(s)]}
                      \cup (IF DiskFails THEN {disk} ELSE {})

\* A handler of n that leaves it in state s, broadcasts `asked` and answers
\* `told`.
Settle(n, s, asked, told) == Become(n, s, asked, told) /\ SaveHard(n, s)

\* Mutant: no pre-vote, the term is bumped at once.
CampaignBumping(n) ==
    LET s == node[n]
        stood == [Stand(n, s, s.term + 1) EXCEPT
                    !.role = "Candidate", !.leader = None, !.votes = {}]
    IN
    /\ n \in Restless \ Learners
    /\ s.role # "Leader" /\ ~s.sticky
    /\ s.term < MaxTerm
    /\ Settle(n, stood, {Request(n, stood, stood.term, FALSE)}, {})
    /\ UNCHANGED cut

\* Mutant: a learner campaigns too.
CampaignByAnyone(n) ==
    LET s == node[n] IN
    /\ n \in Restless
    /\ s.role # "Leader" /\ ~s.sticky
    /\ s.term < MaxTerm
    /\ Settle(n, [s EXCEPT !.role = "PreCandidate", !.leader = None,
                           !.votes = {}, !.campaignTerm = s.term + 1],
              {Request(n, s, s.term + 1, TRUE)}, {})
    /\ UNCHANGED cut

\* `Mesh::tick` of a node that does not lead, once its deadline has passed.
Campaign(n) ==
    LET s == node[n] IN
    /\ n \in Restless \ Learners
    /\ s.role # "Leader" /\ ~s.sticky
    /\ s.term < MaxTerm
    /\ IF Quorum(s) = 1
       THEN Settle(n, BecomeLeader(n, Stand(n, s, s.term + 1)), {}, {})
       ELSE Settle(n, [s EXCEPT !.role = "PreCandidate", !.leader = None,
                                !.votes = {}, !.campaignTerm = s.term + 1],
                   {Request(n, s, s.term + 1, TRUE)}, {})
    /\ UNCHANGED cut

\* Mutant: the leader counts itself twice.
CheckQuorumOffByOne(n) ==
    /\ node[n].role = "Leader"
    /\ Quorum(node[n]) > 1
    /\ Cardinality(node[n].seen) + 2 < Quorum(node[n])
    /\ Settle(n, StepDown(node[n]), {}, {})
    /\ UNCHANGED cut

\* `Mesh::tick` of a leader that no longer sees a majority.
CheckQuorum(n) ==
    /\ node[n].role = "Leader"
    /\ Quorum(node[n]) > 1
    /\ Cardinality(node[n].seen) + 1 < Quorum(node[n])
    /\ Settle(n, StepDown(node[n]), {}, {})
    /\ UNCHANGED cut

\* `Mesh::on_vote_request`: what n becomes, and answers.  A node refuses while it
\* hears a live leader or leads; a pre-vote changes nothing; a vote is given
\* once a term, to a candidate whose log is at least as far along.
OnVoteRequest(n, req) ==
    LET s == node[n]
        c == Considered(s, req)
        reads == ~Refuses(n, s, req)
        votes == reads /\ ~req.pre /\ req.term >= s.term
        granted == \/ reads /\ req.pre /\ req.term > s.term /\ UpToDate(s, req)
                   \/ votes /\ Grants(c, req)
        after == IF ~votes THEN s
                 ELSE IF granted THEN [c EXCEPT !.votedFor = req.candidate]
                 ELSE c
    IN [state |-> after,
        reply |-> [voter |-> n, candidate |-> req.candidate,
                   asked |-> req.term, pre |-> req.pre,
                   term |-> after.term, granted |-> granted]]

\* `/mesh/vote`: the vote is saved before the reply leaves.  A request that
\* changes nothing and whose reply would be ignored is no step.
MeshVote(n, req) ==
    LET answer == OnVoteRequest(n, req) IN
    /\ n \in Peers[req.candidate] /\ {n, req.candidate} \cap cut = {}
    /\ answer.state # node[n] \/ Live(node[req.candidate], answer.reply)
    /\ Settle(n, answer.state, {}, {answer.reply})
    /\ UNCHANGED cut

\* `Mesh::on_vote_reply`, of a reply that means something still: what n becomes,
\* and asks for next.  Enough pre-votes start the real election, enough votes
\* win it; a vote that is counted already changes nothing.
OnVoteReply(n, rep) ==
    LET s == node[n]
        counted == [s EXCEPT !.votes = @ \cup {rep.voter}]
        enough == Cardinality(counted.votes) + 1 >= Quorum(s)
        stood == [Stand(n, s, s.campaignTerm) EXCEPT
                    !.role = "Candidate", !.votes = {}, !.campaignTerm = 0]
        outcome(state, next) == {[state |-> state, next |-> next]}
    IN
    CASE rep.term > s.term -> outcome(AdoptTerm(s, rep.term), {})
      [] /\ rep.term <= s.term /\ rep.granted /\ rep.pre
         /\ s.role = "PreCandidate" /\ rep.asked = s.campaignTerm
         /\ rep.voter \notin s.votes ->
            IF enough THEN outcome(stood, {Request(n, stood, stood.term, FALSE)})
            ELSE outcome(counted, {})
      [] /\ rep.term <= s.term /\ rep.granted /\ ~rep.pre
         /\ s.role = "Candidate" /\ rep.asked = s.term
         /\ rep.voter \notin s.votes ->
            outcome(IF enough THEN BecomeLeader(n, s) ELSE counted, {})
      [] OTHER -> {}

\* `campaign`: replies are fed back in any order; a pre-vote that is won goes
\* again with the real request.
CampaignReply(n, rep) ==
    /\ rep.candidate = n
    /\ {n, rep.voter} \cap cut = {}
    /\ \E after \in OnVoteReply(n, rep) : Settle(n, after.state, after.next, {})
    /\ UNCHANGED cut

\* A member's status arrives, polled or sent along with the member's own
\* poll.  A node's own answer only tells it which of its routes is itself.
\* A status that tells nothing new is no step.
OnStatus(n, st) ==
    LET s == node[n]
        o == Observed(n, s, st)
        heard == IF st.name = n THEN [s EXCEPT !.routes = @ \ {n}]
                 ELSE [o EXCEPT !.seen = IF o.role = "Leader"
                                         THEN @ \cup {st.name} ELSE @]
    IN
    /\ st.name \in Members
    /\ {n, st.name} \cap cut = {}
    /\ heard # s
    /\ Settle(n, heard, {}, {})
    /\ UNCHANGED cut

\* The leader closes a block.
Append(n) ==
    LET s == node[n] IN
    /\ s.role = "Leader"
    /\ s.head < MaxHead
    /\ Settle(n, [s EXCEPT !.head = @ + 1, !.headTerm = s.term], {}, {})
    /\ UNCHANGED cut

\* The heads a follower can get to by taking a block or a checkpoint of its
\* leader's; a checkpoint may lie below the blocks it replaces.
Takes(s) ==
    IF s.role # "Leader" /\ s.leader # None THEN 1..MaxHead ELSE {}

\* A follower takes blocks or a checkpoint, pulled or pushed.
Take(n) ==
    LET s == node[n] IN
    /\ \E h \in Takes(s) :
          Settle(n, [s EXCEPT !.head = h, !.headTerm = s.term], {}, {})
    /\ UNCHANGED cut

\* Mutant: the rewind goes one below the first block.
RewindUnderflow(n) ==
    LET s == node[n] IN
    /\ s.role # "Leader" /\ s.leader # None
    /\ \E h \in (s.head - 1)..(s.head - 1) :
          Settle(n, [s EXCEPT !.head = h], {}, {})
    /\ UNCHANGED cut

\* A follower drops blocks its leader does not have.
Rewind(n) ==
    LET s == node[n] IN
    /\ s.role # "Leader" /\ s.leader # None
    /\ \E h \in 0..(s.head - 1) : Settle(n, [s EXCEPT !.head = h], {}, {})
    /\ UNCHANGED cut

\* The process dies and comes back with what is on disk.  The block log is
\* written first, so a block may be there without its term.
Restart(n) ==
    LET s == node[n]
        written == IF s.role = "Leader" /\ s.head < MaxHead THEN {s.head + 1}
                   ELSE Takes(s)
    IN
    /\ \E h \in {s.head} \cup written :
          Become(n, Fresh(h, disk[n], Peers[n]), {}, {})
    /\ UNCHANGED <<disk, cut>>

\* A window passes without a word from the leader, or from member m.
LeaderGoesQuiet(n) ==
    /\ node[n].sticky
    /\ node' = [node EXCEPT ![n].sticky = FALSE]
    /\ UNCHANGED <<disk, requests, replies, said, cut>>

MemberGoesQuiet(n, m) ==
    /\ m \in node[n].seen
    /\ node' = [node EXCEPT ![n].seen = @ \ {m}]
    /\ UNCHANGED <<disk, requests, replies, said, cut>>

\* The network around a node goes and comes back.
Cut(n) ==
    /\ n \notin cut /\ Cardinality(cut) < MaxCut
    /\ cut' = cut \cup {n}
    /\ UNCHANGED <<node, disk, requests, replies, said>>

Heal(n) ==
    /\ cut' = cut \ {n} /\ n \in cut
    /\ UNCHANGED <<node, disk, requests, replies, said>>

Next ==
    \/ \E n \in Nodes :
          \/ Campaign(n) \/ CheckQuorum(n) \/ Append(n) \/ Take(n)
          \/ Rewind(n) \/ Restart(n) \/ LeaderGoesQuiet(n) \/ Cut(n) \/ Heal(n)
    \/ \E n \in Nodes, req \in requests : MeshVote(n, req)
    \/ \E n \in Nodes, rep \in replies : CampaignReply(n, rep)
    \/ \E n \in Nodes, st \in said : OnStatus(n, st)
    \/ \E n, m \in Nodes : MemberGoesQuiet(n, m)

Spec == Init /\ [][Next]_vars

-----------------------------------------------------------------------------
(* What makes the election correct. *)

\* At most one node ever leads a term, across delayed messages, restarts and
\* partitions.
ElectionSafety ==
    \A a, b \in said :
        a.leads /\ b.leads /\ a.term = b.term
            => a.name = b.name

\* A vote, once given, stands for its term, and terms never go back: on no
\* step of any node, restarts included, does its term fall or its vote in the
\* same term change.
KeepsVotes ==
    \A n \in Nodes :
       /\ node'[n].term >= node[n].term
       /\ node'[n].term = node[n].term /\ node[n].votedFor # None
             => node'[n].votedFor = node[n].votedFor

VotesStand == [][KeepsVotes]_vars

\* Whom a member follows did lead the term it is in, and a leader follows
\* itself: no stale status, late reply or restart makes a node take blocks
\* from anyone else.
FollowsALeader ==
    \A n \in Members :
        /\ node[n].role = "Leader" => node[n].leader = n
        /\ node[n].leader # None =>
              \E st \in said : /\ st.name = node[n].leader
                               /\ st.leads /\ st.term = node[n].term

\* `(head_term, head)` of node n is no further along than of node m.
NotAhead(n, m) ==
    \/ node[n].headTerm < node[m].headTerm
    \/ node[n].headTerm = node[m].headTerm /\ node[n].head <= node[m].head

\* Who wins has a log at least as far along as a majority's: as far as those
\* of the members that are still in its term, itself included, plus those
\* that have moved on, make up a majority.  So an ex-leader that kept producing
\* for a minority does not win with blocks the majority never saw.
BacksWinners ==
    \A n \in Nodes :
       node[n].role = "Candidate" /\ node'[n].role = "Leader" =>
          {m \in Members : \/ node[m].term > node[n].term
                           \/ /\ node[m].term = node[n].term
                              /\ NotAhead(m, n)} \in Majorities

WinnerUpToDate == [][BacksWinners]_vars

\* Only a majority's backing moves terms on: a node that no message reaches
\* keeps its term however often its deadline passes, so it deposes nobody when
\* it is back.
CutOffTermsStay ==
    \A n \in cut : Quorum(node[n]) > 1 => node'[n].term = node[n].term

CutOffKeepsTerm == [][CutOffTermsStay]_vars

\* A learner sways nobody: it never leads, never campaigns, gives no vote, and
\* no vote is counted from it or given to it; at most a vote of an earlier life
\* is still on somebody's disk.
LearnersOnlyFollow ==
    \A n \in Learners :
        /\ node[n].role = "Follower"
        /\ node[n].votedFor \in {None, Boot[n].hard.votedFor}
        /\ \A m \in Nodes :
              /\ n \notin node[m].votes
              /\ node[m].votedFor = n => Boot[m].hard.votedFor = n

\* A leader that stays cut off retires by itself: its window closes without a
\* majority and check-quorum takes the role away.
CutOffLeaderRetires ==
    \A n \in Nodes :
        (n \in cut /\ Quorum(node[n]) > 1) ~> (n \notin cut \/ node[n].role # "Leader")

\* Windows close and the mesh loop ticks: `mesh_round` runs every poll
\* interval on every node, whatever the network does.
TickFairness ==
    \A n \in Nodes : /\ WF_vars(CheckQuorum(n))
                     /\ \A m \in Nodes : WF_vars(n \in cut /\ MemberGoesQuiet(n, m))

FairSpec == Spec /\ TickFairness

=============================================================================
