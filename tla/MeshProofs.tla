----------------------------- MODULE MeshProofs -----------------------------
(***************************************************************************)
(* Theorems about Mesh, for any set of nodes, any split into members and   *)
(* learners, any peers lists that name the members, and whatever earlier   *)
(* terms left on the disks.                                                *)
(*                                                                         *)
(* Every handler moves one node.  The proofs first read each action as a   *)
(* move with a few facts about it (Moves, Tame, Steady, Elects), and then  *)
(* show once that a move with these facts keeps the invariants.  RoleInv   *)
(* holds whatever the disks do; ElectionInv needs them not to fail.        *)
(***************************************************************************)
EXTENDS Mesh, FiniteSetTheorems, TLAPS

-----------------------------------------------------------------------------
(* The vocabulary. *)

\* b is known to have led term t.
Leads(b, t) == \E st \in said : st.name = b /\ st.leads /\ st.term = t

\* A real vote of m for c in term t is on its way to c, or counted by c.
Replied(m, c, t) ==
    \E rep \in replies : /\ rep.voter = m /\ rep.candidate = c /\ rep.asked = t
                         /\ ~rep.pre /\ rep.granted
Counted(m, c, t) ==
    node[c].role = "Candidate" /\ node[c].term = t /\ m \in node[c].votes

Backed(m, c, t) == Replied(m, c, t) \/ Counted(m, c, t)

\* The votes that can be found on n's disk: of an earlier life, or of this one.
VoteOK(n, vote) ==
    vote \in {None, Boot[n].hard.votedFor} \cup (IF n \in Learners THEN {} ELSE Members)

\* What a role says about the rest of a node's state.
RoleOK(n, s) ==
    /\ s.votes \subseteq Members \ {n}
    /\ Members \ {n} \subseteq s.routes /\ s.routes \subseteq Members
    /\ s.role = "PreCandidate" => s.leader = None /\ s.campaignTerm = s.term + 1
    /\ s.role = "Candidate" => s.leader = None /\ s.votedFor = n
    /\ s.role = "Leader" => s.leader = n
    /\ n \in Learners => s.role = "Follower"
    /\ VoteOK(n, s.votedFor)

\* The invariant of the roles.
RoleInv ==
    /\ TypeOK
    /\ \A n \in Nodes : RoleOK(n, node[n])
    /\ \A n \in Nodes : VoteOK(n, disk[n].votedFor)
    /\ \A req \in requests : req.candidate \in Members
    /\ \A rep \in replies :
          /\ rep.candidate \in Members
          /\ rep.granted => rep.voter \in Members \ {rep.candidate}
    /\ \A n \in Nodes : StatusOf(n, node[n]) \in said
    /\ \A n \in Members :
          node[n].leader # None => Leads(node[n].leader, node[n].term)

\* A real request is of its candidate's present campaign, or of an old one.
RequestsOK ==
    \A req \in requests : ~req.pre =>
        LET s == node[req.candidate] IN
        /\ req.term <= s.term
        /\ s.role = "Candidate" /\ s.term = req.term =>
              req.head = s.head /\ req.headTerm = s.headTerm

\* A vote that is on its way or counted still stands, if its term does.
VotesOK ==
    \A m, c \in Nodes, t \in Nat : Backed(m, c, t) =>
        /\ m \in Members /\ m # c
        /\ t <= node[c].term /\ t <= node[m].term
        /\ node[m].term = t => node[m].votedFor = c

\* Nobody gives two votes in a term.
OneVote ==
    \A m, c, d \in Nodes, t \in Nat : Backed(m, c, t) /\ Backed(m, d, t) => c = d

\* Who led a term has it from a majority that will back nobody else in it.
LeadersOK ==
    \A b \in Nodes, t \in Nat : Leads(b, t) =>
        /\ t <= node[b].term
        /\ \E Q \in Majorities : \A m \in Q :
              /\ t <= node[m].term
              /\ node[m].term = t => node[m].votedFor = b
              /\ \A c \in Nodes : Backed(m, c, t) => c = b

OneLeader == \A a, b \in Nodes, t \in Nat : Leads(a, t) /\ Leads(b, t) => a = b

\* A candidate has not led its term yet, and whoever backs it has no longer
\* log, as long as the term has no leader to take blocks from.
CandidatesOK ==
    \A c \in Nodes, t \in Nat : node[c].role = "Candidate" /\ node[c].term = t =>
        /\ ~Leads(c, t)
        /\ \A m \in Nodes : Backed(m, c, t) /\ node[m].term = t =>
              NotAhead(m, c) \/ \E b \in Nodes : Leads(b, t)

\* The invariant of the election.
ElectionInv ==
    /\ RoleInv
    /\ \A n \in Nodes : disk[n] = HardOf(node[n])
    /\ RequestsOK /\ VotesOK /\ OneVote /\ LeadersOK /\ OneLeader /\ CandidatesOK

-----------------------------------------------------------------------------
(* Moves. *)

\* n is now in state s and has asked and told no more than this.
Moves(n, s, asked, told) ==
    /\ node' = [node EXCEPT ![n] = s]
    /\ said' = said \cup {StatusOf(n, s)}
    /\ requests' \subseteq requests \cup asked
    /\ replies' \subseteq replies \cup told
    /\ disk' = disk \/ disk' = [disk EXCEPT ![n] = HardOf(s)]

\* What every move of n respects, whatever its disk does.
Tame(n, s, asked, told) ==
    /\ s \in NodeState /\ RoleOK(n, s)
    /\ n \in Members /\ s.leader # None =>
          \/ Leads(s.leader, s.term)
          \/ s.leader = n /\ s.role = "Leader"
    /\ \A req \in asked :
          /\ req \in VoteRequest /\ req.candidate = n /\ n \in Members
          /\ ~req.pre => /\ req.term = s.term /\ req.head = s.head
                         /\ req.headTerm = s.headTerm
    /\ \A rep \in told :
          /\ rep \in VoteReply /\ rep.voter = n /\ rep.candidate \in Members
          /\ rep.granted => n \in Members \ {rep.candidate}

\* What a move respects if no write of n's ever failed: terms do not fall, a
\* vote stands for its term, and only a follower of somebody, or a leader,
\* gets another log.
Steady(o, s) ==
    /\ s.term >= o.term
    /\ s.term = o.term /\ o.votedFor # None => s.votedFor = o.votedFor
    /\ s.head # o.head \/ s.headTerm # o.headTerm =>
          s.term = o.term /\ o.leader # None

\* How a move from state o makes n a candidate, counts a vote, or wins.
Stands(n, o, s) ==
    s.role = "Candidate" =>
       \/ /\ o.role = "Candidate" /\ s.term = o.term
          /\ s.head = o.head /\ s.headTerm = o.headTerm
          /\ \A m \in s.votes : m \in o.votes \/ Replied(m, n, o.term)
       \/ s.term > o.term /\ s.votes = {}

Wins(n, o, s) ==
    s.role = "Leader" =>
       \/ o.role = "Leader" /\ s.term = o.term
       \/ /\ s.votedFor = n
          /\ \/ /\ o.role = "Candidate" /\ s.term = o.term
                /\ \E v \in Members :
                      /\ Replied(v, n, s.term)
                      /\ o.votes \cup {v, n} \in Majorities
             \/ s.term > o.term /\ {n} \in Majorities

\* How a move answers real requests.
Votes(o, s, told) ==
    \A rep \in told : ~rep.pre /\ rep.granted =>
        /\ rep.asked = s.term /\ s.votedFor = rep.candidate
        /\ s.head = o.head /\ s.headTerm = o.headTerm
        /\ \E req \in requests :
              /\ req.candidate = rep.candidate /\ ~req.pre
              /\ req.term = rep.asked /\ UpToDate(o, req)

Elects(n, o, s, told) == Stands(n, o, s) /\ Wins(n, o, s) /\ Votes(o, s, told)

\* A step of the mesh, as far as the roles and the votes go.
IsMove ==
    \E n \in Nodes, s \in NodeState, asked \in SUBSET VoteRequest,
       told \in SUBSET VoteReply :
        /\ Moves(n, s, asked, told) /\ Tame(n, s, asked, told)
        /\ Elects(n, node[n], s, told)
        /\ ~DiskFails /\ (\A m \in Nodes : disk[m] = HardOf(node[m])) =>
              /\ Steady(node[n], s)
              /\ disk' = [disk EXCEPT ![n] = HardOf(s)]

-----------------------------------------------------------------------------
(* Counting. *)

\* Two majorities of the members have a member in common.
LEMMA MajoritiesMeet ==
    ASSUME NEW Q \in Majorities, NEW R \in Majorities
    PROVE  \E m \in Q : m \in R
<1>1. IsFiniteSet(Members)
  BY NodesAssumption, FS_Difference DEF NodesAssumption, Members
<1>2. Q \subseteq Members /\ R \subseteq Members
  BY DEF Majorities
<1>3. /\ Cardinality(Q) \in Nat /\ Cardinality(R) \in Nat
      /\ Cardinality(Members) \in Nat
  BY <1>1, <1>2, FS_Subset, FS_CardinalityType
<1>4. Cardinality(Q) + Cardinality(R) > Cardinality(Members)
  BY <1>3 DEF Majorities
<1> QED BY <1>1, <1>2, <1>4, FS_MajoritiesIntersect

\* A node that counts itself and enough others for its quorum, whether its
\* peers list still names itself or not, has a majority.
LEMMA QuorumIsMajority ==
    ASSUME NEW n \in Members, NEW s, Members \ {n} \subseteq s.routes,
           s.routes \subseteq Members, NEW V, V \subseteq Members \ {n},
           Cardinality(V) + 1 >= Quorum(s)
    PROVE  V \cup {n} \in Majorities
<1>1. IsFiniteSet(Members)
  BY NodesAssumption, FS_Difference DEF NodesAssumption, Members
<1>2. IsFiniteSet(V) /\ IsFiniteSet(s.routes) /\ IsFiniteSet(Members \ {n})
  BY <1>1, FS_Subset
<1>3. /\ Cardinality(V) \in Nat /\ Cardinality(s.routes) \in Nat
      /\ Cardinality(Members) \in Nat /\ Cardinality(Members \ {n}) \in Nat
  BY <1>1, <1>2, FS_CardinalityType
<1>4. Cardinality(V \cup {n}) = Cardinality(V) + 1
  BY <1>2, FS_AddElement
<1>5. Cardinality(Members \ {n}) = Cardinality(Members) - 1
  BY <1>1, FS_RemoveElement
<1>6. Cardinality(s.routes) >= Cardinality(Members \ {n})
  BY <1>2, <1>3, FS_Subset
<1>7. 2 * Quorum(s) > Cardinality(Members)
  BY <1>3, <1>5, <1>6 DEF Quorum
<1>8. 2 * Cardinality(V \cup {n}) > Cardinality(Members)
  <2>1. Quorum(s) \in Nat
    BY <1>3 DEF Quorum
  <2> QED BY <1>3, <1>4, <1>7, <2>1
<1> QED BY <1>8 DEF Majorities

-----------------------------------------------------------------------------
(* What the machine's methods do to a state. *)

\* Stepping down leaves a follower of nobody with the same term, vote and log.
LEMMA StepDownFacts ==
    ASSUME NEW n \in Nodes, NEW s \in NodeState
    PROVE  LET d == StepDown(s) IN
           /\ d \in NodeState
           /\ d.role = "Follower" /\ d.leader = None /\ d.votes = {}
           /\ d.term = s.term /\ d.votedFor = s.votedFor /\ d.routes = s.routes
           /\ d.head = s.head /\ d.headTerm = s.headTerm
BY DEF StepDown, NodeState, Role

\* Such a follower is in order if its routes and its vote are.
LEMMA FollowerOK ==
    ASSUME NEW n \in Nodes, NEW s \in NodeState, RoleOK(n, s), NEW d \in NodeState,
           d.role = "Follower", d.votes = {}, d.routes = s.routes,
           d.votedFor \in {None, s.votedFor}
    PROVE  RoleOK(n, d)
BY DEF RoleOK, VoteOK

\* Adopting a term does the same, and frees the vote if the term is higher.
LEMMA AdoptTermFacts ==
    ASSUME NEW n \in Nodes, NEW s \in NodeState, RoleOK(n, s), NEW t \in Nat
    PROVE  LET a == AdoptTerm(s, t) IN
           /\ a \in NodeState /\ RoleOK(n, a)
           /\ a.role = "Follower" /\ a.leader = None
           /\ a.head = s.head /\ a.headTerm = s.headTerm
           /\ a.term >= s.term /\ a.term >= t
           /\ \/ a.term = s.term /\ a.votedFor = s.votedFor
              \/ a.term = t /\ a.votedFor = None
<1>0. s.term \in Nat
  BY DEF NodeState
<1>1. CASE t > s.term
  <2> DEFINE raised == [s EXCEPT !.term = t, !.votedFor = None]
  <2>1. raised \in NodeState
    BY DEF NodeState
  <2>2. /\ raised.head = s.head /\ raised.headTerm = s.headTerm
        /\ raised.term = t /\ raised.votedFor = None
        /\ raised.votes = s.votes /\ raised.routes = s.routes
    BY DEF NodeState
  <2>3. AdoptTerm(s, t) = StepDown(raised)
    BY <1>1 DEF AdoptTerm
  <2> HIDE DEF raised
  <2> DEFINE a == StepDown(raised)
  <2>4. /\ a \in NodeState
        /\ a.role = "Follower" /\ a.leader = None /\ a.votes = {}
        /\ a.term = raised.term /\ a.votedFor = raised.votedFor
        /\ a.routes = raised.routes
        /\ a.head = raised.head /\ a.headTerm = raised.headTerm
    BY <2>1, StepDownFacts
  <2> HIDE DEF a
  <2>5. RoleOK(n, a)
    BY <2>2, <2>4, FollowerOK
  <2>6. a.term >= s.term /\ a.term >= t /\ a.term = t
    BY <1>0, <1>1, <2>2, <2>4
  <2> QED BY <2>2, <2>3, <2>4, <2>5, <2>6 DEF a
<1>2. CASE ~(t > s.term)
  <2>1. AdoptTerm(s, t) = StepDown(s)
    BY <1>2 DEF AdoptTerm
  <2> QED BY <1>0, <1>2, <2>1, StepDownFacts, FollowerOK
<1> QED BY <1>1, <1>2

\* Entering a term gives the node's vote to itself.
LEMMA StandFacts ==
    ASSUME NEW n \in Nodes, NEW s \in NodeState, NEW t \in Nat
    PROVE  LET d == Stand(n, s, t) IN
           /\ d \in NodeState /\ d.term = t /\ d.votedFor = n
           /\ d.role = s.role /\ d.leader = s.leader /\ d.votes = s.votes
           /\ d.head = s.head /\ d.headTerm = s.headTerm /\ d.routes = s.routes
BY DEF Stand, NodeState

\* Becoming leader leaves the term, the vote and the log as they are.
LEMMA BecomeLeaderFacts ==
    ASSUME NEW n \in Nodes, NEW s \in NodeState
    PROVE  LET d == BecomeLeader(n, s) IN
           /\ d \in NodeState /\ d.role = "Leader" /\ d.leader = n /\ d.votes = {}
           /\ d.term = s.term /\ d.votedFor = s.votedFor
           /\ d.head = s.head /\ d.headTerm = s.headTerm /\ d.routes = s.routes
BY DEF BecomeLeader, NodeState, Role, Members

\* A handler that settles in a tame state makes a move.
LEMMA SettleIsMove ==
    ASSUME TypeOK, NEW n \in Nodes, NEW s \in NodeState,
           NEW asked \in SUBSET VoteRequest, NEW told \in SUBSET VoteReply,
           Settle(n, s, asked, told), Tame(n, s, asked, told),
           Elects(n, node[n], s, told), Steady(node[n], s)
    PROVE  IsMove
<1>1. Moves(n, s, asked, told)
  BY DEF Settle, Become, SaveHard, Moves
<1>2. ASSUME ~DiskFails, \A m \in Nodes : disk[m] = HardOf(node[m])
      PROVE  disk' = [disk EXCEPT ![n] = HardOf(s)]
  BY <1>2 DEF TypeOK, Settle, SaveHard
<1> QED BY <1>1, <1>2 DEF IsMove

\* A node whose role, leader, term and vote stay as they are, or that only
\* loses its leader, and whose log stays or changes under a leader, is moved.
LEMMA SameRoleFacts ==
    ASSUME RoleInv, NEW n \in Nodes, NEW s \in NodeState, RoleOK(n, s),
           s.role = node[n].role, s.term = node[n].term,
           s.votedFor = node[n].votedFor, s.votes = node[n].votes,
           s.leader \in {None, node[n].leader},
           \/ s.head = node[n].head /\ s.headTerm = node[n].headTerm
           \/ node[n].leader # None
    PROVE  Tame(n, s, {}, {}) /\ Elects(n, node[n], s, {}) /\ Steady(node[n], s)
<1>1. node[n] \in NodeState /\ RoleOK(n, node[n])
  BY DEF RoleInv, TypeOK
<1>2. Tame(n, s, {}, {})
  BY DEF Tame, RoleInv
<1>3. Steady(node[n], s)
  BY <1>1 DEF Steady, NodeState
<1>4. Elects(n, node[n], s, {})
  <2>1. Stands(n, node[n], s)
    BY <1>1 DEF Stands, RoleOK
  <2>2. Wins(n, node[n], s) /\ Votes(node[n], s, {})
    BY DEF Wins, Votes
  <2> QED BY <2>1, <2>2 DEF Elects
<1> QED BY <1>2, <1>3, <1>4

\* A node that ends as a follower of nobody, in no lower term, with its log and,
\* in the same term, its vote as before, is moved.
LEMMA FollowerFacts ==
    ASSUME RoleInv, NEW n \in Nodes, NEW s \in NodeState, RoleOK(n, s),
           s.role = "Follower", s.leader = None, s.term >= node[n].term,
           s.term = node[n].term => s.votedFor = node[n].votedFor,
           s.head = node[n].head, s.headTerm = node[n].headTerm
    PROVE  Tame(n, s, {}, {}) /\ Elects(n, node[n], s, {}) /\ Steady(node[n], s)
BY DEF Tame, Elects, Stands, Wins, Votes, Steady

-----------------------------------------------------------------------------
(* Every action is a move. *)

\* The deadline of a node passes: it asks for pre-votes, or leads alone.
LEMMA CampaignIsMove ==
    ASSUME RoleInv, NEW n \in Nodes, Campaign(n) PROVE IsMove
<1> DEFINE s == node[n]
           lone == BecomeLeader(n, Stand(n, s, s.term + 1))
           pre == [s EXCEPT !.role = "PreCandidate", !.leader = None,
                            !.votes = {}, !.campaignTerm = s.term + 1]
           asked == {Request(n, s, s.term + 1, TRUE)}
<1>1. s \in NodeState /\ RoleOK(n, s) /\ n \in Members /\ TypeOK
  BY DEF RoleInv, TypeOK, Campaign, Members
<1>2. CASE Quorum(s) = 1
  <2>1. Settle(n, lone, {}, {})
    BY <1>2 DEF Campaign
  <2>2. /\ lone \in NodeState /\ lone.role = "Leader" /\ lone.leader = n
        /\ lone.term = s.term + 1 /\ lone.votedFor = n /\ lone.votes = {}
        /\ lone.head = s.head /\ lone.headTerm = s.headTerm
        /\ lone.routes = s.routes
    <3>1. s.term + 1 \in Nat
      BY <1>1 DEF NodeState
    <3> HIDE DEF s
    <3> DEFINE stood == Stand(n, s, s.term + 1)
    <3>2. /\ stood \in NodeState /\ stood.term = s.term + 1 /\ stood.votedFor = n
          /\ stood.head = s.head /\ stood.headTerm = s.headTerm
          /\ stood.routes = s.routes
      BY <1>1, <3>1, StandFacts
    <3> HIDE DEF stood
    <3>3. LET d == BecomeLeader(n, stood) IN
          /\ d \in NodeState /\ d.role = "Leader" /\ d.leader = n /\ d.votes = {}
          /\ d.term = stood.term /\ d.votedFor = stood.votedFor
          /\ d.head = stood.head /\ d.headTerm = stood.headTerm
          /\ d.routes = stood.routes
      BY <3>2, BecomeLeaderFacts
    <3> QED BY <3>2, <3>3 DEF stood
  <2>3. RoleOK(n, lone)
    BY <1>1, <2>2 DEF RoleOK, VoteOK, Members
  <2>4. {n} \in Majorities
    <3>1. Cardinality({}) + 1 >= Quorum(s)
      BY <1>2, FS_EmptySet
    <3>2. {} \cup {n} \in Majorities
      BY <1>1, <3>1, QuorumIsMajority DEF RoleOK
    <3> QED BY <3>2
  <2> HIDE DEF lone
  <2>5. Tame(n, lone, {}, {}) /\ Elects(n, s, lone, {}) /\ Steady(s, lone)
    BY <1>1, <2>2, <2>3, <2>4
       DEF Tame, Elects, Stands, Wins, Votes, Steady, NodeState
  <2> QED BY <1>1, <2>1, <2>2, <2>5, SettleIsMove
<1>3. CASE Quorum(s) # 1
  <2>1. Settle(n, pre, asked, {})
    BY <1>3 DEF Campaign
  <2>0. pre \in NodeState
    <3>1. s.term + 1 \in Nat
      BY <1>1 DEF NodeState
    <3> HIDE DEF s
    <3> QED BY <1>1, <3>1 DEF NodeState, Role
  <2>2. /\ pre \in NodeState /\ pre.role = "PreCandidate" /\ pre.leader = None
        /\ pre.term = s.term /\ pre.votedFor = s.votedFor /\ pre.votes = {}
        /\ pre.campaignTerm = s.term + 1
        /\ pre.head = s.head /\ pre.headTerm = s.headTerm
        /\ pre.routes = s.routes
    BY <1>1, <2>0 DEF NodeState
  <2>3. RoleOK(n, pre)
    BY <1>1, <2>2 DEF RoleOK, VoteOK, Members
  <2>4. asked \subseteq VoteRequest /\ \A req \in asked : req.candidate = n /\ req.pre
    BY <1>1 DEF Request, VoteRequest, NodeState
  <2> HIDE DEF pre, asked
  <2>5. Tame(n, pre, asked, {}) /\ Elects(n, s, pre, {}) /\ Steady(s, pre)
    BY <1>1, <2>2, <2>3, <2>4
       DEF Tame, Elects, Stands, Wins, Votes, Steady, NodeState
  <2> QED BY <1>1, <2>1, <2>2, <2>4, <2>5, SettleIsMove
<1> QED BY <1>2, <1>3

\* A leader without a majority in sight steps down.
LEMMA CheckQuorumIsMove ==
    ASSUME RoleInv, NEW n \in Nodes, CheckQuorum(n) PROVE IsMove
<1> DEFINE d == StepDown(node[n])
<1>1. node[n] \in NodeState /\ RoleOK(n, node[n]) /\ TypeOK
  BY DEF RoleInv, TypeOK
<1>2. /\ d \in NodeState /\ RoleOK(n, d)
      /\ d.role = "Follower" /\ d.leader = None
      /\ d.term = node[n].term /\ d.votedFor = node[n].votedFor
      /\ d.head = node[n].head /\ d.headTerm = node[n].headTerm
  BY <1>1, StepDownFacts, FollowerOK
<1>3. Settle(n, d, {}, {})
  BY DEF CheckQuorum
<1> HIDE DEF d
<1>4. d.term >= node[n].term
  BY <1>1, <1>2 DEF NodeState
<1> QED BY <1>1, <1>2, <1>3, <1>4, FollowerFacts, SettleIsMove

\* The log changes under a leader: a block is closed, taken, or dropped.
LEMMA LogIsMove ==
    ASSUME RoleInv, NEW n \in Nodes, Append(n) \/ Take(n) \/ Rewind(n)
    PROVE  IsMove
<1> DEFINE s == node[n]
<1>1. s \in NodeState /\ RoleOK(n, s) /\ TypeOK
  BY DEF RoleInv, TypeOK
<1>2. PICK h \in Nat, ht \in Nat :
         /\ Settle(n, [s EXCEPT !.head = h, !.headTerm = ht], {}, {})
         /\ s.leader # None
  <2>1. CASE Append(n)
    <3>1. s.leader = n /\ n # None /\ s.head + 1 \in Nat /\ s.term \in Nat
      BY <1>1, <2>1, NodesAssumption DEF Append, RoleOK, NodeState, NodesAssumption
    <3> QED BY <2>1, <3>1 DEF Append
  <2>2. CASE Take(n)
    <3>1. PICK h \in Takes(s) :
             Settle(n, [s EXCEPT !.head = h, !.headTerm = s.term], {}, {})
      BY <2>2 DEF Take
    <3>2. h \in Nat /\ s.leader # None /\ s.term \in Nat
      BY <1>1, NodesAssumption DEF Takes, NodeState, NodesAssumption
    <3> QED BY <3>1, <3>2
  <2>3. CASE Rewind(n)
    <3>1. PICK h \in 0..(s.head - 1) : Settle(n, [s EXCEPT !.head = h], {}, {})
      BY <2>3 DEF Rewind
    <3>2. h \in Nat /\ s.headTerm \in Nat /\ s.leader # None
      BY <1>1, <2>3 DEF Rewind, NodeState
    <3> HIDE DEF s
    <3>3. [s EXCEPT !.head = h] = [s EXCEPT !.head = h, !.headTerm = s.headTerm]
      BY <1>1 DEF NodeState
    <3> QED BY <3>1, <3>2, <3>3
  <2> QED BY <2>1, <2>2, <2>3
<1> DEFINE u == [s EXCEPT !.head = h, !.headTerm = ht]
<1>3. /\ u \in NodeState /\ u.role = s.role /\ u.term = s.term
      /\ u.votedFor = s.votedFor /\ u.votes = s.votes /\ u.leader = s.leader
      /\ RoleOK(n, u)
  BY <1>1 DEF NodeState, RoleOK
<1>4. Settle(n, u, {}, {}) /\ s.leader # None
  BY <1>2
<1> HIDE DEF u
<1>5. Tame(n, u, {}, {}) /\ Elects(n, node[n], u, {}) /\ Steady(node[n], u)
  BY <1>3, <1>4, SameRoleFacts
<1> QED BY <1>1, <1>3, <1>4, <1>5, SettleIsMove

\* The process dies and comes back; its role is lost, and what is on its disk
\* is what it held, unless a write of its had failed.
LEMMA RestartIsMove ==
    ASSUME RoleInv, NEW n \in Nodes, Restart(n) PROVE IsMove
<1> DEFINE s == node[n]
<1>1. /\ s \in NodeState /\ RoleOK(n, s) /\ TypeOK
      /\ disk[n] \in Hard /\ VoteOK(n, disk[n].votedFor)
  BY DEF RoleInv, TypeOK
<1>2. PICK h \in Nat : /\ Become(n, Fresh(h, disk[n], Peers[n]), {}, {})
                       /\ h = s.head \/ s.leader # None
  <2>1. n # None /\ MaxHead \in Nat
    BY NodesAssumption DEF NodesAssumption
  <2>2. s.role = "Leader" => s.leader = n
    BY <1>1 DEF RoleOK
  <2>3. Takes(s) \subseteq Nat /\ (s.leader = None => Takes(s) = {})
    BY <2>1 DEF Takes
  <2>4. s.head \in Nat /\ s.head + 1 \in Nat
    BY <1>1 DEF NodeState
  <2> HIDE DEF Become, Fresh
  <2> QED BY <2>1, <2>2, <2>3, <2>4 DEF Restart
<1> DEFINE f == Fresh(h, disk[n], Peers[n])
<1>3. Members \ {n} \subseteq Peers[n] /\ Peers[n] \subseteq Members
  BY NodesAssumption DEF NodesAssumption
<1>4. /\ f.role = "Follower" /\ f.leader = None /\ f.votes = {}
      /\ f.term = disk[n].term /\ f.votedFor = disk[n].votedFor
      /\ f.headTerm = disk[n].headTerm /\ f.head = h /\ f.routes = Peers[n]
  BY DEF Fresh
<1>5. f \in NodeState
  BY <1>1, <1>3 DEF Fresh, NodeState, Role, Hard, Members
<1>6. Become(n, f, {}, {}) /\ (h = s.head \/ s.leader # None) /\ disk' = disk
  BY <1>2 DEF Restart
<1>7. HardOf(f) = disk[n]
  BY <1>1, <1>4 DEF HardOf, Hard
<1> HIDE DEF f
<1>8. RoleOK(n, f)
  BY <1>1, <1>3, <1>4 DEF RoleOK
<1>9. Tame(n, f, {}, {}) /\ Elects(n, s, f, {})
  BY <1>4, <1>5, <1>8 DEF Tame, Elects, Stands, Wins, Votes
<1>10. Moves(n, f, {}, {})
  BY <1>6 DEF Become, Moves
<1>11. ASSUME disk[n] = HardOf(s)
       PROVE  Steady(s, f) /\ disk' = [disk EXCEPT ![n] = HardOf(f)]
  <2>1. f.term = s.term /\ f.votedFor = s.votedFor /\ f.headTerm = s.headTerm
    BY <1>4, <1>11 DEF HardOf
  <2>2. Steady(s, f)
    BY <1>1, <1>4, <1>6, <2>1 DEF Steady, NodeState
  <2> QED BY <1>1, <1>6, <1>7, <2>2 DEF TypeOK
<1> QED BY <1>5, <1>9, <1>10, <1>11 DEF IsMove

\* A window closes: only what a node remembers to have heard changes.
LEMMA QuietIsMove ==
    ASSUME RoleInv, NEW n \in Nodes,
           LeaderGoesQuiet(n) \/ \E m \in Nodes : MemberGoesQuiet(n, m)
    PROVE  IsMove
<1> DEFINE s == node[n]
<1>1. /\ s \in NodeState /\ RoleOK(n, s) /\ TypeOK /\ disk \in [Nodes -> Hard]
      /\ StatusOf(n, s) \in said
  BY DEF RoleInv, TypeOK
<1>2. PICK u \in NodeState :
         /\ node' = [node EXCEPT ![n] = u]
         /\ u.role = s.role /\ u.term = s.term /\ u.votedFor = s.votedFor
         /\ u.votes = s.votes /\ u.leader = s.leader /\ u.routes = s.routes
         /\ u.head = s.head /\ u.headTerm = s.headTerm
         /\ u.campaignTerm = s.campaignTerm
  <2>1. CASE LeaderGoesQuiet(n)
    <3> DEFINE q == [s EXCEPT !.sticky = FALSE]
    <3>1. /\ q \in NodeState /\ q.role = s.role /\ q.term = s.term
          /\ q.votedFor = s.votedFor /\ q.votes = s.votes /\ q.leader = s.leader
          /\ q.routes = s.routes /\ q.head = s.head /\ q.headTerm = s.headTerm
          /\ q.campaignTerm = s.campaignTerm
      BY <1>1 DEF NodeState
    <3>2. node' = [node EXCEPT ![n] = q]
      BY <2>1 DEF LeaderGoesQuiet
    <3> QED BY <3>1, <3>2
  <2>2. ASSUME NEW m \in Nodes, MemberGoesQuiet(n, m)
        PROVE  \E u \in NodeState :
                 /\ node' = [node EXCEPT ![n] = u]
                 /\ u.role = s.role /\ u.term = s.term /\ u.votedFor = s.votedFor
                 /\ u.votes = s.votes /\ u.leader = s.leader /\ u.routes = s.routes
                 /\ u.head = s.head /\ u.headTerm = s.headTerm
                 /\ u.campaignTerm = s.campaignTerm
    <3> DEFINE q == [s EXCEPT !.seen = s.seen \ {m}]
    <3>1. /\ q \in NodeState /\ q.role = s.role /\ q.term = s.term
          /\ q.votedFor = s.votedFor /\ q.votes = s.votes /\ q.leader = s.leader
          /\ q.routes = s.routes /\ q.head = s.head /\ q.headTerm = s.headTerm
          /\ q.campaignTerm = s.campaignTerm
      BY <1>1 DEF NodeState
    <3>2. node' = [node EXCEPT ![n] = q]
      BY <2>2 DEF MemberGoesQuiet
    <3> QED BY <3>1, <3>2
  <2> QED BY <2>1, <2>2
<1>3. RoleOK(n, u)
  BY <1>1, <1>2 DEF RoleOK
<1>4. Tame(n, u, {}, {}) /\ Elects(n, s, u, {}) /\ Steady(s, u)
  BY <1>2, <1>3, SameRoleFacts
<1>5. UNCHANGED <<disk, requests, replies, said>>
  BY DEF LeaderGoesQuiet, MemberGoesQuiet
<1>6. StatusOf(n, u) = StatusOf(n, s) /\ HardOf(u) = HardOf(s)
  BY <1>2 DEF StatusOf, HardOf
<1>7. Moves(n, u, {}, {})
  BY <1>1, <1>2, <1>5, <1>6 DEF Moves
<1>8. disk[n] = HardOf(s) => disk' = [disk EXCEPT ![n] = HardOf(u)]
  BY <1>1, <1>5, <1>6
<1> QED BY <1>4, <1>7, <1>8 DEF IsMove

\* A vote request is answered.
LEMMA VoteIsMove ==
    ASSUME RoleInv, NEW n \in Nodes, NEW req \in requests, MeshVote(n, req)
    PROVE  IsMove
<1> DEFINE s == node[n]
           c == Considered(s, req)
           answer == OnVoteRequest(n, req)
           after == answer.state
           rep == answer.reply
<1>1. /\ s \in NodeState /\ RoleOK(n, s) /\ TypeOK
      /\ req \in VoteRequest /\ req.candidate \in Members /\ Members \subseteq Nodes
  BY DEF RoleInv, TypeOK, Members
<1>2. Settle(n, after, {}, {rep})
  BY DEF MeshVote
<1>3. /\ rep.voter = n /\ rep.candidate = req.candidate /\ rep.asked = req.term
      /\ rep.pre = req.pre /\ rep.term = after.term
  BY DEF OnVoteRequest
<1>4. /\ c \in NodeState /\ RoleOK(n, c)
      /\ c.term >= s.term /\ c.head = s.head /\ c.headTerm = s.headTerm
      /\ \/ c = s /\ req.term <= s.term
         \/ /\ c.role = "Follower" /\ c.leader = None /\ req.term > s.term
            /\ c.term = req.term /\ c.votedFor = None
  <2>1. CASE req.term > s.term
    <3>1. c = AdoptTerm(s, req.term) /\ req.term \in Nat /\ s.term \in Nat
      BY <1>1, <2>1 DEF Considered, VoteRequest, NodeState
    <3> HIDE DEF c, s
    <3> QED BY <1>1, <2>1, <3>1, AdoptTermFacts
  <2>2. CASE ~(req.term > s.term)
    BY <1>1, <2>2 DEF Considered, VoteRequest, NodeState
  <2> QED BY <2>1, <2>2
<1> DEFINE reads == ~Refuses(n, s, req)
           votes == reads /\ ~req.pre /\ req.term >= s.term
           voted == [c EXCEPT !.votedFor = req.candidate]
<1>5. \/ after = s /\ (rep.granted => req.pre /\ reads)
      \/ after = c /\ ~rep.granted /\ votes
      \/ after = voted /\ rep.granted /\ votes /\ Grants(c, req)
  BY DEF OnVoteRequest
<1>6. rep.granted \in BOOLEAN
  BY DEF OnVoteRequest
<1>7. reads => n \in Members \ {req.candidate} /\ s.role # "Leader"
  BY DEF Refuses, Members
<1>8. votes => req.term = c.term
  BY <1>1, <1>4 DEF VoteRequest, NodeState
<1> HIDE DEF answer, c, s
<1>9. rep \in VoteReply
  <2>1. after \in NodeState
    <3>1. voted \in NodeState
      BY <1>1, <1>4 DEF NodeState
    <3> HIDE DEF voted, votes, reads
    <3> QED BY <1>1, <1>4, <1>5, <3>1
  <2>2. after.term \in Nat /\ req.term \in Nat /\ req.pre \in BOOLEAN
    BY <1>1, <2>1 DEF NodeState, VoteRequest
  <2>3. rep = [voter |-> n, candidate |-> req.candidate, asked |-> req.term,
               pre |-> req.pre, term |-> after.term, granted |-> rep.granted]
    BY DEF answer, OnVoteRequest
  <2> QED BY <1>1, <1>6, <2>2, <2>3 DEF VoteReply
<1>10. rep.granted => n \in Members \ {rep.candidate}
  BY <1>3, <1>5, <1>7
<1>11. ASSUME NEW u \in NodeState, Settle(n, u, {}, {rep}),
              Tame(n, u, {}, {}), Elects(n, s, u, {}), Steady(s, u),
              ~rep.pre /\ rep.granted => u = voted /\ votes /\ Grants(c, req)
       PROVE  IsMove
  <2>1. Tame(n, u, {}, {rep})
    BY <1>1, <1>3, <1>9, <1>10, <1>11 DEF Tame
  <2>2. ~rep.pre /\ rep.granted =>
           /\ rep.asked = u.term /\ u.votedFor = rep.candidate
           /\ u.head = s.head /\ u.headTerm = s.headTerm
           /\ UpToDate(s, req)
    BY <1>3, <1>4, <1>8, <1>11 DEF Grants, UpToDate, NodeState
  <2>3. Elects(n, s, u, {rep})
    BY <1>3, <1>11, <2>2 DEF Elects, Votes
  <2> QED BY <1>1, <1>9, <1>11, <2>1, <2>3, SettleIsMove DEF s
<1>12. CASE after = s /\ (rep.granted => req.pre /\ reads)
  <2>1. Tame(n, s, {}, {}) /\ Elects(n, s, s, {}) /\ Steady(s, s)
    BY <1>1, SameRoleFacts DEF s
  <2> HIDE DEF voted, votes, reads
  <2> QED BY <1>1, <1>2, <1>3, <1>11, <1>12, <2>1
<1>13. CASE after = c /\ ~rep.granted /\ votes
  <2>1. Tame(n, c, {}, {}) /\ Elects(n, s, c, {}) /\ Steady(s, c)
    <3>1. CASE c = s
      BY <1>1, <3>1, SameRoleFacts DEF s
    <3>2. CASE /\ c.role = "Follower" /\ c.leader = None /\ req.term > s.term
               /\ c.term = req.term
      <4>1. c.term # s.term
        BY <1>1, <3>2 DEF NodeState, VoteRequest
      <4> QED BY <1>4, <3>2, <4>1, FollowerFacts DEF s
    <3> QED BY <1>4, <3>1, <3>2
  <2> HIDE DEF voted, votes, reads
  <2> QED BY <1>2, <1>4, <1>11, <1>13, <2>1
<1>14. CASE after = voted /\ rep.granted /\ votes /\ Grants(c, req)
  <2>1. n \in Members /\ n # req.candidate /\ s.role # "Leader"
    BY <1>7, <1>14
  <2>2. /\ voted \in NodeState /\ voted.votedFor = req.candidate
        /\ voted.role = c.role /\ voted.term = c.term /\ voted.votes = c.votes
        /\ voted.leader = c.leader /\ voted.routes = c.routes
        /\ voted.campaignTerm = c.campaignTerm
        /\ voted.head = c.head /\ voted.headTerm = c.headTerm
    BY <1>1, <1>4 DEF NodeState
  <2>3. c.role \notin {"Candidate", "Leader"}
    <3>1. CASE c = s
      BY <1>1, <1>14, <2>1, <3>1, NodesAssumption DEF NodesAssumption, Grants, RoleOK
    <3> QED BY <1>4, <3>1
  <2>4. RoleOK(n, voted)
    BY <1>1, <1>4, <2>1, <2>2, <2>3 DEF RoleOK, VoteOK, Members
  <2>5. Steady(s, voted)
    <3>1. CASE c = s
      BY <1>1, <1>14, <2>2, <3>1 DEF Steady, Grants, NodeState
    <3>2. CASE req.term > s.term /\ c.term = req.term
      BY <1>1, <1>4, <2>2, <3>2 DEF Steady, NodeState, VoteRequest
    <3> QED BY <1>4, <3>1, <3>2
  <2>6. Tame(n, voted, {}, {})
    <3>1. CASE c = s
      BY <2>2, <2>4, <3>1 DEF Tame, RoleInv, s
    <3>2. CASE c.leader = None
      BY <2>2, <2>4, <3>2 DEF Tame
    <3> QED BY <1>4, <3>1, <3>2
  <2>7. Elects(n, s, voted, {})
    BY <2>2, <2>3 DEF Elects, Stands, Wins, Votes
  <2> HIDE DEF voted, votes, reads
  <2> QED BY <1>2, <1>11, <1>14, <2>2, <2>5, <2>6, <2>7
<1> HIDE DEF voted, votes, reads
<1> QED BY <1>5, <1>12, <1>13, <1>14

\* A reply is fed back: it deposes the asker, or it counts towards a campaign.
LEMMA ReplyIsMove ==
    ASSUME RoleInv, NEW n \in Nodes, NEW rep \in replies, CampaignReply(n, rep)
    PROVE  IsMove
<1> DEFINE s == node[n]
           counted == [s EXCEPT !.votes = s.votes \cup {rep.voter}]
           entered == Stand(n, s, s.campaignTerm)
           stood == [entered EXCEPT !.role = "Candidate", !.votes = {},
                                    !.campaignTerm = 0]
           asked == {Request(n, stood, stood.term, FALSE)}
           enough == Cardinality(counted.votes) + 1 >= Quorum(s)
           vote == rep.granted /\ ~(rep.term > s.term) /\ rep.voter \notin s.votes
<1>1. /\ s \in NodeState /\ RoleOK(n, s) /\ TypeOK /\ rep \in VoteReply
      /\ rep.candidate = n /\ n \in Members
      /\ rep.granted => rep.voter \in Members \ {n}
      /\ rep.term \in Nat /\ s.term \in Nat
  BY DEF RoleInv, TypeOK, CampaignReply, VoteReply, NodeState
<1>2. PICK after \in OnVoteReply(n, rep) : Settle(n, after.state, after.next, {})
  BY DEF CampaignReply
<1>3. \/ rep.term > s.term /\ after = [state |-> AdoptTerm(s, rep.term), next |-> {}]
      \/ /\ vote /\ rep.pre /\ s.role = "PreCandidate"
         /\ \/ after = [state |-> stood, next |-> asked]
            \/ after = [state |-> counted, next |-> {}]
      \/ /\ vote /\ ~rep.pre /\ s.role = "Candidate" /\ rep.asked = s.term
         /\ \/ enough /\ after = [state |-> BecomeLeader(n, s), next |-> {}]
            \/ after = [state |-> counted, next |-> {}]
  <2> DEFINE pre == /\ rep.term <= s.term /\ rep.granted /\ rep.pre
                    /\ s.role = "PreCandidate" /\ rep.asked = s.campaignTerm
                    /\ rep.voter \notin s.votes
             real == /\ rep.term <= s.term /\ rep.granted /\ ~rep.pre
                     /\ s.role = "Candidate" /\ rep.asked = s.term
                     /\ rep.voter \notin s.votes
  <2>0. ~(rep.term > s.term /\ pre) /\ ~(rep.term > s.term /\ real) /\ ~(pre /\ real)
    BY <1>1
  <2>1. CASE rep.term > s.term
    <3>1. OnVoteReply(n, rep) = {[state |-> AdoptTerm(s, rep.term), next |-> {}]}
      BY <2>0, <2>1 DEF OnVoteReply
    <3> HIDE DEF s
    <3> QED BY <2>1, <3>1
  <2>2. CASE pre
    <3>1. OnVoteReply(n, rep) =
             IF enough THEN {[state |-> stood, next |-> asked]}
             ELSE {[state |-> counted, next |-> {}]}
      BY <2>0, <2>2 DEF OnVoteReply
    <3>2. vote /\ rep.pre /\ s.role = "PreCandidate"
      BY <1>1, <2>2
    <3> HIDE DEF s, stood, counted, asked, enough, vote
    <3> QED BY <3>1, <3>2
  <2>3. CASE real
    <3>1. OnVoteReply(n, rep) =
             {[state |-> IF enough THEN BecomeLeader(n, s) ELSE counted, next |-> {}]}
      BY <2>0, <2>3 DEF OnVoteReply
    <3>2. vote /\ ~rep.pre /\ s.role = "Candidate" /\ rep.asked = s.term
      BY <1>1, <2>3
    <3> HIDE DEF s, stood, counted, asked, enough, vote
    <3> QED BY <3>1, <3>2
  <2>4. CASE ~(rep.term > s.term) /\ ~pre /\ ~real
    <3>1. OnVoteReply(n, rep) = {}
      BY <2>4 DEF OnVoteReply
    <3> QED BY <3>1
  <2> QED BY <2>1, <2>2, <2>3, <2>4
<1>4. CASE rep.term > s.term /\ after = [state |-> AdoptTerm(s, rep.term), next |-> {}]
  <2> DEFINE a == AdoptTerm(s, rep.term)
  <2>1. /\ a \in NodeState /\ RoleOK(n, a)
        /\ a.role = "Follower" /\ a.leader = None
        /\ a.head = s.head /\ a.headTerm = s.headTerm
        /\ a.term >= s.term /\ a.term >= rep.term
    <3> HIDE DEF s
    <3> QED BY <1>1, AdoptTermFacts
  <2>2. Settle(n, a, {}, {})
    BY <1>2, <1>4
  <2> HIDE DEF a
  <2>3. a.term # s.term
    BY <1>1, <1>4, <2>1 DEF NodeState
  <2>4. Tame(n, a, {}, {}) /\ Elects(n, s, a, {}) /\ Steady(s, a)
    BY <2>1, <2>3, FollowerFacts
  <2> QED BY <1>1, <2>1, <2>2, <2>4, SettleIsMove
<1>5. CASE /\ vote /\ rep.pre /\ s.role = "PreCandidate"
           /\ after = [state |-> stood, next |-> asked]
  <2>1. s.leader = None /\ s.campaignTerm = s.term + 1 /\ s.term + 1 \in Nat
    BY <1>1, <1>5 DEF RoleOK
  <2>2. /\ entered \in NodeState /\ entered.term = s.term + 1
        /\ entered.votedFor = n /\ entered.leader = None
        /\ entered.head = s.head /\ entered.headTerm = s.headTerm
        /\ entered.routes = s.routes
    <3>1. s.campaignTerm \in Nat /\ s \in NodeState
      BY <1>1, <2>1
    <3> HIDE DEF s
    <3> QED BY <2>1, <3>1 DEF Stand, NodeState
  <2> HIDE DEF entered
  <2>3. /\ stood \in NodeState /\ stood.role = "Candidate" /\ stood.votes = {}
        /\ stood.term = s.term + 1 /\ stood.votedFor = n /\ stood.leader = None
        /\ stood.head = s.head /\ stood.headTerm = s.headTerm
        /\ stood.routes = s.routes
    BY <2>2 DEF NodeState, Role
  <2>4. RoleOK(n, stood)
    BY <1>1, <2>3 DEF RoleOK, VoteOK, Members
  <2>5. Settle(n, stood, asked, {})
    BY <1>2, <1>5
  <2> HIDE DEF stood
  <2>6. asked \subseteq VoteRequest
    BY <1>1, <2>3 DEF Request, VoteRequest, NodeState
  <2>7. \A req \in asked : /\ req.candidate = n /\ req.term = stood.term
                           /\ req.head = stood.head /\ req.headTerm = stood.headTerm
    BY DEF Request
  <2> HIDE DEF asked
  <2>8. Tame(n, stood, asked, {})
    BY <1>1, <2>3, <2>4, <2>6, <2>7 DEF Tame
  <2>9. Elects(n, s, stood, {}) /\ Steady(s, stood)
    BY <1>1, <2>3 DEF Elects, Stands, Wins, Votes, Steady
  <2> QED BY <1>1, <2>3, <2>5, <2>6, <2>8, <2>9, SettleIsMove
<1>6. ASSUME vote, after = [state |-> counted, next |-> {}],
             \/ s.role = "PreCandidate"
             \/ ~rep.pre /\ s.role = "Candidate" /\ rep.asked = s.term
      PROVE  IsMove
  <2>1. /\ counted \in NodeState /\ counted.role = s.role /\ counted.term = s.term
        /\ counted.votedFor = s.votedFor /\ counted.leader = s.leader
        /\ counted.head = s.head /\ counted.headTerm = s.headTerm
        /\ counted.routes = s.routes /\ counted.campaignTerm = s.campaignTerm
        /\ counted.votes = s.votes \cup {rep.voter}
    BY <1>1, <1>6 DEF NodeState, VoteReply
  <2>2. Settle(n, counted, {}, {})
    BY <1>2, <1>6
  <2> HIDE DEF counted
  <2>3. RoleOK(n, counted)
    BY <1>1, <1>6, <2>1 DEF RoleOK, VoteOK
  <2>4. Tame(n, counted, {}, {}) /\ Steady(s, counted)
    BY <1>1, <1>6, <2>1, <2>3 DEF Tame, Steady, RoleOK
  <2>5. counted.role = "Candidate" => Replied(rep.voter, n, s.term)
    BY <1>1, <1>6, <2>1 DEF Replied
  <2>6. Elects(n, s, counted, {})
    BY <1>6, <2>1, <2>5 DEF Elects, Stands, Wins, Votes
  <2> QED BY <1>1, <2>1, <2>2, <2>4, <2>6, SettleIsMove
<1>7. CASE /\ vote /\ ~rep.pre /\ s.role = "Candidate" /\ rep.asked = s.term
           /\ enough /\ after = [state |-> BecomeLeader(n, s), next |-> {}]
  <2> DEFINE won == BecomeLeader(n, s)
  <2>1. /\ won \in NodeState /\ won.role = "Leader" /\ won.leader = n
        /\ won.votes = {} /\ won.term = s.term /\ won.votedFor = s.votedFor
        /\ won.head = s.head /\ won.headTerm = s.headTerm /\ won.routes = s.routes
    <3> HIDE DEF s
    <3> QED BY <1>1, BecomeLeaderFacts
  <2>2. Settle(n, won, {}, {})
    BY <1>2, <1>7
  <2>3. s.votedFor = n
    BY <1>1, <1>7 DEF RoleOK
  <2> HIDE DEF won
  <2>4. RoleOK(n, won)
    BY <1>1, <2>1, <2>3 DEF RoleOK, VoteOK, Members
  <2>5. Replied(rep.voter, n, s.term)
    BY <1>1, <1>7 DEF Replied
  <2>6. s.votes \cup {rep.voter, n} \in Majorities
    <3> DEFINE V == s.votes \cup {rep.voter}
    <3>1. counted.votes = V
      BY <1>1 DEF NodeState
    <3>2. V \subseteq Members \ {n} /\ Cardinality(V) + 1 >= Quorum(s)
      BY <1>1, <1>7, <3>1 DEF RoleOK
    <3>3. V \cup {n} \in Majorities
      <4> HIDE DEF V
      <4> QED BY <1>1, <3>2, QuorumIsMajority DEF RoleOK
    <3>4. V \cup {n} = s.votes \cup {rep.voter, n}
      OBVIOUS
    <3> QED BY <3>3, <3>4
  <2>7. Tame(n, won, {}, {}) /\ Steady(s, won)
    BY <1>1, <2>1, <2>3, <2>4 DEF Tame, Steady
  <2>8. Elects(n, s, won, {})
    BY <1>1, <1>7, <2>1, <2>3, <2>5, <2>6 DEF Elects, Stands, Wins, Votes
  <2> QED BY <1>1, <2>1, <2>2, <2>7, <2>8, SettleIsMove
<1> HIDE DEF s, counted, stood, asked, enough, vote
<1> QED BY <1>3, <1>4, <1>5, <1>6, <1>7

\* A status arrives: it deposes, names a leader of the hearer's term, or tells
\* that the leader no longer leads.
LEMMA StatusIsMove ==
    ASSUME RoleInv, NEW n \in Nodes, NEW st \in said, OnStatus(n, st)
    PROVE  IsMove
<1> DEFINE s == node[n]
           a == IF st.term > s.term THEN AdoptTerm(s, st.term) ELSE s
           o == Observed(n, s, st)
           itself == [s EXCEPT !.routes = s.routes \ {n}]
           heard == [o EXCEPT !.seen = IF o.role = "Leader"
                                       THEN o.seen \cup {st.name} ELSE o.seen]
           follows == [a EXCEPT !.role = "Follower", !.votes = {}, !.campaignTerm = 0,
                                !.leader = st.name, !.sticky = TRUE]
           loses == [a EXCEPT !.leader = None, !.sticky = FALSE]
           learns == [a EXCEPT !.leader = st.follows]
<1>1. /\ s \in NodeState /\ RoleOK(n, s) /\ TypeOK /\ st \in Status
      /\ st.name \in Members /\ st.name \in Nodes /\ st.term \in Nat /\ s.term \in Nat
      /\ n # None
  BY NodesAssumption DEF RoleInv, TypeOK, OnStatus, Status, NodeState, NodesAssumption
<1>2. CASE st.name = n
  <2>1. Settle(n, itself, {}, {})
    BY <1>2 DEF OnStatus
  <2>2. /\ itself \in NodeState /\ itself.role = s.role /\ itself.term = s.term
        /\ itself.votedFor = s.votedFor /\ itself.votes = s.votes
        /\ itself.leader = s.leader /\ itself.routes = s.routes \ {n}
        /\ itself.campaignTerm = s.campaignTerm
        /\ itself.head = s.head /\ itself.headTerm = s.headTerm
    BY <1>1 DEF NodeState
  <2> HIDE DEF itself
  <2>3. RoleOK(n, itself)
    BY <1>1, <2>2 DEF RoleOK
  <2>4. Tame(n, itself, {}, {}) /\ Elects(n, s, itself, {}) /\ Steady(s, itself)
    BY <2>2, <2>3, SameRoleFacts
  <2> QED BY <1>1, <2>1, <2>2, <2>4, SettleIsMove
<1>3. CASE st.name # n
  <2>1. /\ a \in NodeState /\ RoleOK(n, a)
        /\ a.head = s.head /\ a.headTerm = s.headTerm /\ a.term >= s.term
        /\ \/ a = s
           \/ a.role = "Follower" /\ a.leader = None /\ a.term # s.term
    <3>1. CASE st.term > s.term
      <4>1. a = AdoptTerm(s, st.term)
        BY <3>1
      <4> HIDE DEF s, a
      <4>2. /\ a \in NodeState /\ RoleOK(n, a)
            /\ a.head = s.head /\ a.headTerm = s.headTerm /\ a.term >= s.term
            /\ a.role = "Follower" /\ a.leader = None /\ a.term >= st.term
        BY <1>1, <4>1, AdoptTermFacts
      <4>3. a.term # s.term
        BY <1>1, <3>1, <4>2 DEF NodeState
      <4> QED BY <4>2, <4>3
    <3>2. CASE ~(st.term > s.term)
      BY <1>1, <3>2
    <3> QED BY <3>1, <3>2
  <2>2. Settle(n, heard, {}, {})
    BY <1>3 DEF OnStatus
  <2>3. \/ o = follows /\ st.leads /\ st.term = a.term
        \/ o = loses /\ a.leader = st.name
        \/ o = learns /\ n \in Learners
        \/ o = a
    <3> HIDE DEF follows, loses, learns, a, s
    <3>1. o = CASE st.leads /\ st.term = a.term /\ a.role # "Leader" -> follows
                [] ~st.leads /\ a.leader = st.name -> loses
                [] /\ ~st.leads /\ n \in Learners /\ a.leader = None
                   /\ st.term = a.term /\ st.follows # None -> learns
                [] OTHER -> a
      BY DEF Observed, follows, loses, learns, a, s
    <3>2. CASE st.leads /\ st.term = a.term /\ a.role # "Leader"
      BY <3>1, <3>2
    <3>3. CASE ~st.leads /\ a.leader = st.name
      BY <3>1, <3>3, <1>1, NodesAssumption DEF NodesAssumption
    <3>4. CASE /\ ~st.leads /\ n \in Learners /\ a.leader = None
               /\ st.term = a.term /\ st.follows # None
      BY <3>1, <3>4, <1>1, NodesAssumption DEF NodesAssumption
    <3> HIDE DEF o
    <3> QED BY <3>1, <3>2, <3>3, <3>4
  <2>4. /\ o \in NodeState /\ RoleOK(n, o)
        /\ o.head = s.head /\ o.headTerm = s.headTerm
        /\ o.term = a.term /\ o.votedFor = a.votedFor
        /\ o.role = a.role \/ o.role = "Follower"
        /\ o.role = a.role => o.votes \in {a.votes, {}}
        /\ o.role \in {"PreCandidate", "Candidate"} => o.votes = a.votes
        /\ \/ o.leader \in {None, a.leader}
           \/ o.leader = st.name /\ st.leads /\ st.term = o.term
           \/ n \in Learners
    <3> HIDE DEF a, s, o
    <3>1. CASE o = follows /\ st.leads /\ st.term = a.term
      BY <1>1, <2>1, <3>1 DEF NodeState, Role, RoleOK, VoteOK
    <3>2. CASE o = loses /\ a.leader = st.name
      BY <1>1, <1>3, <2>1, <3>2 DEF NodeState, RoleOK
    <3>3. CASE o = learns /\ n \in Learners
      BY <1>1, <2>1, <3>3 DEF NodeState, RoleOK, Status
    <3>4. CASE o = a
      BY <2>1, <3>4
    <3> QED BY <2>3, <3>1, <3>2, <3>3, <3>4
  <2> HIDE DEF o, a, s
  <2>5. /\ heard \in NodeState /\ heard.role = o.role /\ heard.term = o.term
        /\ heard.votedFor = o.votedFor /\ heard.votes = o.votes
        /\ heard.leader = o.leader /\ heard.routes = o.routes
        /\ heard.campaignTerm = o.campaignTerm
        /\ heard.head = o.head /\ heard.headTerm = o.headTerm
    BY <1>1, <2>4 DEF NodeState
  <2> HIDE DEF heard
  <2>6. RoleOK(n, heard)
    BY <2>4, <2>5 DEF RoleOK
  <2>7. Tame(n, heard, {}, {})
    <3>1. n \in Members /\ heard.leader # None => Leads(heard.leader, heard.term)
      <4>1. CASE o.leader = a.leader /\ o.leader # None
        <5>1. a = s
          BY <2>1, <4>1
        <5> QED BY <2>4, <2>5, <4>1, <5>1 DEF RoleInv, s
      <4>2. CASE o.leader = st.name /\ st.leads /\ st.term = o.term
        BY <2>5, <4>2 DEF Leads
      <4> QED BY <2>4, <2>5, <4>1, <4>2 DEF Members
    <3> QED BY <2>5, <2>6, <3>1 DEF Tame
  <2>8. Steady(s, heard)
    BY <1>1, <2>1, <2>4, <2>5 DEF Steady
  <2>9. Elects(n, s, heard, {})
    <3>1. heard.role # "Follower" => /\ a = s /\ heard.role = s.role
                                     /\ heard.term = s.term
      BY <2>1, <2>4, <2>5
    <3>2. Stands(n, s, heard)
      BY <2>1, <2>4, <2>5, <3>1 DEF Stands
    <3>3. Wins(n, s, heard) /\ Votes(s, heard, {})
      BY <3>1 DEF Wins, Votes
    <3> QED BY <3>2, <3>3 DEF Elects
  <2> QED BY <1>1, <2>2, <2>5, <2>7, <2>8, <2>9, SettleIsMove DEF s
<1> QED BY <1>2, <1>3

\* Every step is a move of one node, or touches none.
LEMMA EveryStepIsMove ==
    ASSUME RoleInv, [Next]_vars
    PROVE  IsMove \/ UNCHANGED <<node, disk, requests, replies, said>>
BY CampaignIsMove, CheckQuorumIsMove, LogIsMove, RestartIsMove, QuietIsMove,
   VoteIsMove, ReplyIsMove, StatusIsMove
   DEF Next, vars, Cut, Heal

-----------------------------------------------------------------------------
(* The invariant of the roles.  It holds whatever the disks do. *)

\* RoleInv holds initially and every step keeps it.
LEMMA RoleInit == Init => RoleInv
<1> SUFFICES ASSUME Init PROVE RoleInv
  OBVIOUS
<1>1. ASSUME NEW n \in Nodes
      PROVE  /\ node[n] \in NodeState /\ RoleOK(n, node[n])
             /\ node[n].leader = None /\ disk[n] = HardOf(node[n])
             /\ HardOf(node[n]) \in Hard /\ VoteOK(n, disk[n].votedFor)
             /\ StatusOf(n, node[n]) \in Status
  <2> DEFINE hard == Boot[n].hard
             f == Fresh(Boot[n].head, hard, Peers[n])
  <2>1. /\ hard \in Hard /\ Boot[n].head \in Nat
        /\ Members \ {n} \subseteq Peers[n] /\ Peers[n] \subseteq Members
    BY NodesAssumption DEF NodesAssumption
  <2>2. node[n] = f /\ disk[n] = HardOf(f)
    BY DEF Init
  <2>3. /\ f.role = "Follower" /\ f.leader = None /\ f.votes = {}
        /\ f.term = hard.term /\ f.votedFor = hard.votedFor
        /\ f.headTerm = hard.headTerm /\ f.routes = Peers[n]
    BY DEF Fresh
  <2>4. f \in NodeState
    BY <2>1 DEF Fresh, NodeState, Role, Hard, Members
  <2>5. RoleOK(n, f) /\ VoteOK(n, f.votedFor)
    BY <2>1, <2>3 DEF RoleOK, VoteOK
  <2> HIDE DEF f
  <2>6. HardOf(f) \in Hard /\ HardOf(f).votedFor = f.votedFor
    BY <2>4 DEF HardOf, Hard, NodeState
  <2>7. StatusOf(n, f) \in Status
    BY <2>4 DEF StatusOf, Status, NodeState
  <2> QED BY <2>2, <2>3, <2>4, <2>5, <2>6, <2>7
<1>2. said \subseteq Status
  <2>1. Late \subseteq Status
    BY NodesAssumption DEF NodesAssumption, Status, Members
  <2> QED BY <1>1, <2>1 DEF Init
<1>3. TypeOK
  BY <1>1, <1>2 DEF Init, TypeOK
<1>4. \A n \in Nodes : StatusOf(n, node[n]) \in said
  BY DEF Init
<1> QED BY <1>1, <1>3, <1>4 DEF Init, RoleInv, Members

LEMMA RoleNext == RoleInv /\ [Next]_vars => RoleInv'
<1> SUFFICES ASSUME RoleInv, [Next]_vars PROVE RoleInv'
  OBVIOUS
<1>0. cut' \subseteq Nodes
  BY DEF RoleInv, TypeOK, Next, vars, Campaign, CheckQuorum, Append, Take, Rewind,
         Restart, LeaderGoesQuiet, Cut, Heal, MeshVote, CampaignReply, OnStatus,
         MemberGoesQuiet
<1>1. CASE UNCHANGED <<node, disk, requests, replies, said>>
  BY <1>0, <1>1 DEF RoleInv, TypeOK, Leads
<1>2. ASSUME NEW n \in Nodes, NEW s \in NodeState, NEW asked \in SUBSET VoteRequest,
             NEW told \in SUBSET VoteReply,
             Moves(n, s, asked, told), Tame(n, s, asked, told)
      PROVE  RoleInv'
  <2>1. /\ node' \in [Nodes -> NodeState] /\ node'[n] = s
        /\ \A m \in Nodes : m # n => node'[m] = node[m]
    BY <1>2 DEF Moves, RoleInv, TypeOK
  <2>2. HardOf(s) \in Hard /\ HardOf(s).votedFor = s.votedFor /\ StatusOf(n, s) \in Status
    BY DEF HardOf, Hard, NodeState, StatusOf, Status
  <2>3. TypeOK'
    BY <1>0, <1>2, <2>1, <2>2 DEF Moves, RoleInv, TypeOK
  <2>4. \A m \in Nodes : RoleOK(m, node'[m])
    BY <1>2, <2>1 DEF Tame, RoleInv
  <2>5. \A m \in Nodes : VoteOK(m, disk'[m].votedFor)
    <3>1. VoteOK(n, s.votedFor)
      BY <1>2 DEF Tame, RoleOK
    <3> QED BY <1>2, <2>2, <3>1 DEF Moves, RoleInv, TypeOK
  <2>6. \A req \in requests' : req.candidate \in Members
    BY <1>2 DEF Moves, Tame, RoleInv
  <2>7. \A rep \in replies' :
           /\ rep.candidate \in Members
           /\ rep.granted => rep.voter \in Members \ {rep.candidate}
    BY <1>2 DEF Moves, Tame, RoleInv
  <2>8. \A m \in Nodes : StatusOf(m, node'[m]) \in said'
    BY <1>2, <2>1 DEF Moves, RoleInv
  <2>9. ASSUME NEW m \in Members, node'[m].leader # None
        PROVE  Leads(node[m].leader, node[m].term)'
    <3>1. said \subseteq said' /\ StatusOf(n, s) \in said' /\ m \in Nodes
      BY <1>2 DEF Moves, Members
    <3>2. CASE m # n
      <4>1. node'[m] = node[m] /\ Leads(node[m].leader, node[m].term)
        BY <2>1, <2>9, <3>1, <3>2 DEF RoleInv
      <4> QED BY <3>1, <4>1 DEF Leads
    <3>3. CASE m = n /\ Leads(s.leader, s.term)
      BY <2>1, <3>1, <3>3 DEF Leads
    <3>4. CASE m = n /\ s.leader = n /\ s.role = "Leader"
      BY <2>1, <3>1, <3>4 DEF Leads, StatusOf
    <3> QED BY <1>2, <2>1, <2>9, <3>2, <3>3, <3>4 DEF Tame
  <2> QED BY <2>3, <2>4, <2>5, <2>6, <2>7, <2>8, <2>9 DEF RoleInv
<1>3. CASE IsMove
  BY <1>2, <1>3 DEF IsMove
<1> QED BY <1>1, <1>3, EveryStepIsMove

\* For every mesh, and whatever its disks do: the state of the machine keeps its
\* type.
THEOREM TypeCorrect == Spec => []TypeOK
<1>1. RoleInv => TypeOK
  BY DEF RoleInv
<1> QED BY <1>1, RoleInit, RoleNext, PTL DEF Spec

\* For every mesh, and whatever its disks do: a member takes blocks from nobody
\* who did not lead its term.
THEOREM FollowersHaveALeader == Spec => []FollowsALeader
<1>1. RoleInv => FollowsALeader
  BY DEF RoleInv, RoleOK, Leads, FollowsALeader, Members
<1> QED BY <1>1, RoleInit, RoleNext, PTL DEF Spec

\* For every mesh, and whatever its disks do: a learner has no say.
THEOREM LearnersHaveNoSay == Spec => []LearnersOnlyFollow
<1>1. RoleInv => LearnersOnlyFollow
  <2> SUFFICES ASSUME RoleInv, NEW n \in Learners
               PROVE  /\ node[n].role = "Follower"
                      /\ node[n].votedFor \in {None, Boot[n].hard.votedFor}
                      /\ \A m \in Nodes :
                            /\ n \notin node[m].votes
                            /\ node[m].votedFor = n => Boot[m].hard.votedFor = n
    BY DEF LearnersOnlyFollow
  <2>1. n \in Nodes /\ n # None /\ n \notin Members
    BY NodesAssumption DEF NodesAssumption, Members
  <2> QED BY <2>1 DEF RoleInv, RoleOK, VoteOK
<1> QED BY <1>1, RoleInit, RoleNext, PTL DEF Spec

-----------------------------------------------------------------------------
(* The invariant of the election, under disks that keep what is written.     *)

\* It holds initially: nobody campaigns, and who led before had been elected.
LEMMA ElectionInit == Init => ElectionInv
<1> SUFFICES ASSUME Init PROVE ElectionInv
  OBVIOUS
<1>1. RoleInv
  BY RoleInit
<1>2. \A n \in Nodes : /\ node[n].role = "Follower" /\ disk[n] = HardOf(node[n])
                      /\ node[n].term = Boot[n].hard.term
                      /\ node[n].votedFor = Boot[n].hard.votedFor
  BY DEF Init, Fresh
<1>3. \A m, c \in Nodes, t \in Nat : ~Backed(m, c, t)
  BY <1>2 DEF Init, Backed, Replied, Counted
<1>4. \A b, t : Leads(b, t) => \E st \in Late : st.name = b /\ st.leads /\ st.term = t
  <2>1. \A n \in Nodes : ~StatusOf(n, node[n]).leads
    BY <1>2 DEF StatusOf
  <2> HIDE DEF StatusOf
  <2> QED BY <2>1 DEF Init, Leads
<1>5. RequestsOK /\ VotesOK /\ OneVote /\ CandidatesOK
  BY <1>2, <1>3 DEF Init, RequestsOK, VotesOK, OneVote, CandidatesOK
<1>6. LeadersOK
  <2> SUFFICES ASSUME NEW b \in Nodes, NEW t \in Nat, Leads(b, t)
               PROVE  /\ t <= node[b].term
                      /\ \E Q \in Majorities : \A m \in Q :
                            /\ t <= node[m].term
                            /\ node[m].term = t => node[m].votedFor = b
                            /\ \A c \in Nodes : Backed(m, c, t) => c = b
    BY DEF LeadersOK
  <2>1. /\ Boot[b].hard.term >= t
        /\ \E Q \in Majorities : \A m \in Q :
              /\ Boot[m].hard.term >= t
              /\ Boot[m].hard.term = t => Boot[m].hard.votedFor = b
    BY <1>4, EarlierTermsAssumption DEF EarlierTermsAssumption
  <2>2. \A n \in Nodes : Boot[n].hard.term \in Nat
    BY NodesAssumption DEF NodesAssumption, Hard
  <2>3. \A Q \in Majorities : Q \subseteq Nodes
    BY DEF Majorities, Members
  <2>4. \A n \in Nodes : t <= node[n].term <=> Boot[n].hard.term >= t
    BY <1>2, <2>2
  <2> HIDE DEF Majorities, Backed
  <2> QED BY <1>2, <1>3, <2>1, <2>3, <2>4
<1>7. OneLeader
  BY <1>4, EarlierTermsAssumption DEF OneLeader, EarlierTermsAssumption
<1> QED BY <1>1, <1>2, <1>5, <1>6, <1>7 DEF ElectionInv

\* A move keeps the invariant of the election.
LEMMA MoveKeepsElection ==
    ASSUME ElectionInv, RoleInv', NEW n \in Nodes, NEW s \in NodeState,
           NEW asked \in SUBSET VoteRequest, NEW told \in SUBSET VoteReply,
           Moves(n, s, asked, told), Tame(n, s, asked, told),
           Elects(n, node[n], s, told), Steady(node[n], s),
           disk' = [disk EXCEPT ![n] = HardOf(s)]
    PROVE  ElectionInv'
<1> DEFINE o == node[n]
<1>1. /\ node'[n] = s /\ (\A m \in Nodes : m # n => node'[m] = node[m])
      /\ \A m \in Nodes : /\ node[m] \in NodeState /\ node'[m] \in NodeState
                           /\ node[m].term \in Nat /\ node'[m].term \in Nat
      /\ said' = said \cup {StatusOf(n, s)} /\ StatusOf(n, o) \in said
      /\ RoleOK(n, o) /\ RoleOK(n, s) /\ Members \subseteq Nodes
      /\ None \notin Nodes
  BY NodesAssumption
     DEF NodesAssumption, Moves, ElectionInv, RoleInv, TypeOK, NodeState, Members
\* Terms do not fall and votes stand.
<1>2. \A m \in Nodes :
         /\ node'[m].term >= node[m].term
         /\ node'[m].term = node[m].term /\ node[m].votedFor # None =>
               node'[m].votedFor = node[m].votedFor
  BY <1>1 DEF Steady
<1>3. \A m \in Nodes : disk'[m] = HardOf(node'[m])
  BY <1>1 DEF ElectionInv, RoleInv, TypeOK
\* A vote is backed as before, or n has just given it to a real request.
<1>4. ASSUME NEW m \in Nodes, NEW c \in Nodes, NEW t \in Nat, Backed(m, c, t)'
      PROVE  \/ Backed(m, c, t)
             \/ /\ m = n /\ n \in Members /\ c \in Members \ {n}
                /\ s.term = t /\ s.votedFor = c
                /\ s.head = o.head /\ s.headTerm = o.headTerm
                /\ \E req \in requests : /\ req.candidate = c /\ ~req.pre
                                         /\ req.term = t /\ UpToDate(o, req)
  <2>1. CASE Replied(m, c, t)'
    <3>1. PICK rep \in replies' : /\ rep.voter = m /\ rep.candidate = c
                                 /\ rep.asked = t /\ ~rep.pre /\ rep.granted
      BY <2>1 DEF Replied
    <3>2. rep \in replies \/ rep \in told
      BY <3>1 DEF Moves
    <3>3. CASE rep \in replies
      BY <3>1, <3>3 DEF Backed, Replied
    <3>4. CASE rep \in told
      BY <3>1, <3>4 DEF Tame, Elects, Votes
    <3> QED BY <3>2, <3>3, <3>4
  <2>2. CASE Counted(m, c, t)'
    <3>1. CASE c # n
      BY <1>1, <2>2, <3>1 DEF Counted, Backed
    <3>2. CASE c = n
      BY <1>1, <2>2, <3>2 DEF Counted, Backed, Elects, Stands
    <3> QED BY <3>1, <3>2
  <2> QED BY <1>4, <2>1, <2>2 DEF Backed
<1>5. RequestsOK'
  <2> SUFFICES ASSUME NEW req \in requests', ~req.pre
               PROVE  /\ req.term <= node'[req.candidate].term
                      /\ /\ node'[req.candidate].role = "Candidate"
                         /\ node'[req.candidate].term = req.term
                         => /\ req.head = node'[req.candidate].head
                            /\ req.headTerm = node'[req.candidate].headTerm
    BY DEF RequestsOK
  <2>1. CASE req \in requests
    <3>1. req.candidate \in Nodes /\ req.term \in Nat /\ req.term <= node[req.candidate].term
      BY <1>1, <2>1 DEF ElectionInv, RoleInv, RequestsOK, TypeOK, VoteRequest
    <3>2. /\ node[req.candidate].role = "Candidate"
          /\ node[req.candidate].term = req.term
          => /\ req.head = node[req.candidate].head
             /\ req.headTerm = node[req.candidate].headTerm
      BY <2>1 DEF ElectionInv, RequestsOK
    <3>3. CASE req.candidate # n
      BY <1>1, <3>1, <3>2, <3>3
    <3>4. CASE req.candidate = n
      BY <1>1, <1>2, <3>1, <3>2, <3>4 DEF Elects, Stands
    <3> QED BY <3>3, <3>4
  <2>2. CASE req \in asked
    BY <1>1, <2>2 DEF Tame, VoteRequest
  <2> QED BY <2>1, <2>2 DEF Moves
<1>6. ASSUME NEW m \in Nodes, NEW c \in Nodes, NEW t \in Nat, Backed(m, c, t)
      PROVE  /\ m \in Members /\ m # c /\ t <= node[c].term /\ t <= node[m].term
             /\ node[m].term = t => node[m].votedFor = c
  BY <1>6 DEF ElectionInv, VotesOK
<1>7. VotesOK'
  <2> SUFFICES ASSUME NEW m \in Nodes, NEW c \in Nodes, NEW t \in Nat,
                      Backed(m, c, t)'
               PROVE  /\ m \in Members /\ m # c
                      /\ t <= node'[c].term /\ t <= node'[m].term
                      /\ node'[m].term = t => node'[m].votedFor = c
    BY DEF VotesOK
  <2>1. CASE Backed(m, c, t)
    BY <1>1, <1>2, <1>6, <2>1
  <2>2. CASE /\ m = n /\ n \in Members /\ c \in Members \ {n}
             /\ s.term = t /\ s.votedFor = c
             /\ \E req \in requests : /\ req.candidate = c /\ ~req.pre
                                      /\ req.term = t
    <3>1. t <= node[c].term
      BY <2>2 DEF ElectionInv, RequestsOK
    <3> QED BY <1>1, <2>2, <3>1
  <2> QED BY <1>4, <2>1, <2>2
<1>8. OneVote'
  <2> SUFFICES ASSUME NEW m \in Nodes, NEW c \in Nodes, NEW d \in Nodes, NEW t \in Nat,
                      Backed(m, c, t)', Backed(m, d, t)'
               PROVE  c = d
    BY DEF OneVote
  <2>1. CASE Backed(m, c, t) /\ Backed(m, d, t)
    BY <2>1 DEF ElectionInv, OneVote
  <2>2. CASE ~Backed(m, c, t) \/ ~Backed(m, d, t)
    <3>1. node'[m].term = t
      BY <1>1, <1>4, <2>2
    <3>2. node'[m].votedFor = c /\ node'[m].votedFor = d
      BY <1>7, <3>1 DEF VotesOK
    <3> QED BY <3>2
  <2> QED BY <2>1, <2>2
\* Who leads has led before, or wins now with a majority behind it.
<1>9. ASSUME NEW b \in Nodes, NEW t \in Nat, Leads(b, t)'
      PROVE  \/ Leads(b, t)
             \/ /\ b = n /\ s.role = "Leader" /\ s.term = t /\ s.votedFor = n
                /\ \E Q \in Majorities : \A m \in Q \ {n} : Backed(m, n, t)
  <2>1. CASE Leads(b, t)
    BY <2>1
  <2>2. CASE b = n /\ s.role = "Leader" /\ s.term = t
    <3>1. CASE o.role = "Leader" /\ s.term = o.term
      <4>1. StatusOf(n, o).name = n /\ StatusOf(n, o).leads /\ StatusOf(n, o).term = t
        BY <2>2, <3>1 DEF StatusOf
      <4> QED BY <1>1, <2>2, <4>1 DEF Leads
    <3>2. ASSUME s.votedFor = n, o.role = "Candidate", s.term = o.term,
                 NEW v \in Members, Replied(v, n, s.term),
                 o.votes \cup {v, n} \in Majorities
          PROVE  \E Q \in Majorities : \A m \in Q \ {n} : Backed(m, n, t)
      <4>1. \A m \in (o.votes \cup {v, n}) \ {n} : Backed(m, n, t)
        BY <2>2, <3>2 DEF Backed, Counted
      <4> QED BY <3>2, <4>1
    <3>3. \/ o.role = "Leader" /\ s.term = o.term
          \/ /\ s.votedFor = n
             /\ \/ /\ o.role = "Candidate" /\ s.term = o.term
                   /\ \E v \in Members : /\ Replied(v, n, s.term)
                                         /\ o.votes \cup {v, n} \in Majorities
                \/ {n} \in Majorities
      BY <2>2 DEF Elects, Wins
    <3>4. CASE /\ s.votedFor = n /\ o.role = "Candidate" /\ s.term = o.term
               /\ \E v \in Members : /\ Replied(v, n, s.term)
                                     /\ o.votes \cup {v, n} \in Majorities
      <4>1. \E Q \in Majorities : \A m \in Q \ {n} : Backed(m, n, t)
        BY <3>2, <3>4
      <4> QED BY <2>2, <3>4, <4>1
    <3>5. CASE s.votedFor = n /\ {n} \in Majorities
      BY <2>2, <3>5
    <3> QED BY <3>1, <3>3, <3>4, <3>5
  <2>3. \/ Leads(b, t)
        \/ b = n /\ s.role = "Leader" /\ s.term = t
    <3>1. StatusOf(n, s).name = n /\ StatusOf(n, s).term = s.term
          /\ StatusOf(n, s).leads = (s.role = "Leader")
      BY DEF StatusOf
    <3> HIDE DEF StatusOf
    <3> QED BY <1>1, <1>9, <3>1 DEF Leads
  <2> QED BY <2>1, <2>2, <2>3
<1>10. ASSUME NEW m \in Nodes, NEW b \in Nodes, NEW t \in Nat,
              t <= node[m].term, node[m].term = t => node[m].votedFor = b
       PROVE  /\ t <= node'[m].term
              /\ node'[m].term = t => node[m].term = t /\ node'[m].votedFor = b
  BY <1>1, <1>2, <1>10
<1>11. LeadersOK'
  <2> SUFFICES ASSUME NEW b \in Nodes, NEW t \in Nat, Leads(b, t)'
               PROVE  /\ t <= node'[b].term
                      /\ \E Q \in Majorities : \A m \in Q :
                            /\ t <= node'[m].term
                            /\ node'[m].term = t => node'[m].votedFor = b
                            /\ \A c \in Nodes : Backed(m, c, t)' => c = b
    BY DEF LeadersOK
  <2>1. \A Q \in Majorities : Q \subseteq Nodes
    BY <1>1 DEF Majorities
  <2>2. CASE Leads(b, t)
    <3>1. t <= node[b].term
      BY <2>2 DEF ElectionInv, LeadersOK
    <3>2. PICK Q \in Majorities : \A m \in Q :
                 /\ t <= node[m].term
                 /\ node[m].term = t => node[m].votedFor = b
                 /\ \A c \in Nodes : Backed(m, c, t) => c = b
      BY <2>2 DEF ElectionInv, LeadersOK
    <3>3. ASSUME NEW m \in Q
          PROVE  /\ t <= node'[m].term
                 /\ node'[m].term = t => node'[m].votedFor = b
                 /\ \A c \in Nodes : Backed(m, c, t)' => c = b
      <4>1. m \in Nodes
        BY <2>1
      <4>2. t <= node'[m].term /\ (node'[m].term = t => node'[m].votedFor = b)
        BY <1>10, <3>2, <4>1
      <4>3. ASSUME NEW c \in Nodes, Backed(m, c, t)' PROVE c = b
        BY <1>1, <1>4, <3>2, <4>1, <4>2, <4>3
      <4> QED BY <4>2, <4>3
    <3>4. t <= node'[b].term
      BY <1>1, <1>2, <3>1
    <3> QED BY <3>3, <3>4
  <2>3. ASSUME b = n, s.term = t, s.votedFor = n,
               NEW Q \in Majorities, \A m \in Q \ {n} : Backed(m, n, t)
        PROVE  /\ t <= node'[b].term
               /\ \A m \in Q :
                     /\ t <= node'[m].term
                     /\ node'[m].term = t => node'[m].votedFor = b
                     /\ \A c \in Nodes : Backed(m, c, t)' => c = b
    <3>1. ASSUME NEW m \in Q, m # n
          PROVE  /\ t <= node'[m].term
                 /\ node'[m].term = t => node'[m].votedFor = b
                 /\ \A c \in Nodes : Backed(m, c, t)' => c = b
      <4>1. m \in Nodes /\ Backed(m, n, t)
        BY <2>1, <2>3, <3>1
      <4>2. t <= node'[m].term /\ (node'[m].term = t => node'[m].votedFor = n)
        BY <1>6, <1>10, <4>1
      <4>3. ASSUME NEW c \in Nodes, Backed(m, c, t)' PROVE c = n
        <5>1. Backed(m, c, t)
          BY <1>4, <3>1, <4>1, <4>3
        <5> QED BY <4>1, <5>1 DEF ElectionInv, OneVote
      <4> QED BY <2>3, <4>2, <4>3
    <3>2. node'[n].term = t /\ node'[n].votedFor = n
      BY <1>1, <2>3
    <3>3. \A c \in Nodes : Backed(n, c, t)' => c = n
      BY <1>7, <3>2 DEF VotesOK
    <3>4. t <= t
      OBVIOUS
    <3> QED BY <2>3, <3>1, <3>2, <3>3, <3>4
  <2> QED BY <1>9, <2>2, <2>3
<1>12. OneLeader'
  <2>1. ASSUME NEW b \in Nodes, NEW t \in Nat, Leads(b, t),
               s.term = t, s.votedFor = n,
               NEW Q \in Majorities, \A m \in Q \ {n} : Backed(m, n, t)
        PROVE  b = n
    <3>1. PICK R \in Majorities : \A m \in R :
                 /\ t <= node[m].term
                 /\ node[m].term = t => node[m].votedFor = b
                 /\ \A c \in Nodes : Backed(m, c, t) => c = b
      BY <2>1 DEF ElectionInv, LeadersOK
    <3>2. PICK m \in Q : m \in R
      BY MajoritiesMeet
    <3>3. CASE m = n
      <4>1. node'[n].term = t => node'[n].votedFor = b
        BY <1>10, <3>1, <3>2, <3>3
      <4> QED BY <1>1, <2>1, <4>1
    <3>4. CASE m # n
      BY <2>1, <3>1, <3>2, <3>4
    <3> QED BY <3>3, <3>4
  <2> SUFFICES ASSUME NEW a \in Nodes, NEW b \in Nodes, NEW t \in Nat,
                      Leads(a, t)', Leads(b, t)'
               PROVE  a = b
    BY DEF OneLeader
  <2>2. CASE Leads(a, t) /\ Leads(b, t)
    BY <2>2 DEF ElectionInv, OneLeader
  <2>3. CASE ~Leads(a, t) \/ ~Leads(b, t)
    BY <1>9, <2>1, <2>3
  <2> QED BY <2>2, <2>3
<1>13. CandidatesOK'
  <2> SUFFICES ASSUME NEW c \in Nodes, NEW t \in Nat,
                      node'[c].role = "Candidate", node'[c].term = t
               PROVE  /\ ~Leads(c, t)'
                      /\ \A m \in Nodes : Backed(m, c, t)' /\ node'[m].term = t =>
                            NotAhead(m, c)' \/ \E b \in Nodes : Leads(b, t)'
    BY DEF CandidatesOK
  \* c has been a candidate of this term before, with the same log, or has just
  \* entered it.
  <2>1. \/ /\ node[c].role = "Candidate" /\ node[c].term = t
           /\ node'[c].head = node[c].head /\ node'[c].headTerm = node[c].headTerm
        \/ node[c].term < t
    BY <1>1 DEF Elects, Stands
  <2>2. ~Leads(c, t)'
    <3>1. ~Leads(c, t)
      <4>1. CASE node[c].role = "Candidate" /\ node[c].term = t
        BY <4>1 DEF ElectionInv, CandidatesOK
      <4>2. CASE node[c].term < t
        BY <1>1, <4>2 DEF ElectionInv, LeadersOK
      <4> QED BY <2>1, <4>1, <4>2
    <3> QED BY <1>1, <1>9, <3>1
  <2>3. ASSUME NEW m \in Nodes, Backed(m, c, t)', node'[m].term = t,
               \A b \in Nodes : ~Leads(b, t)
        PROVE  NotAhead(m, c)'
    <3>1. CASE Backed(m, c, t)
      <4>1. m \in Members /\ m # c /\ t <= node[c].term /\ t <= node[m].term
        BY <1>6, <3>1
      <4>2. node[m].term = t
        BY <1>1, <1>2, <2>3, <4>1
      <4>3. /\ node[c].role = "Candidate" /\ node[c].term = t
            /\ node'[c].head = node[c].head /\ node'[c].headTerm = node[c].headTerm
        BY <1>1, <2>1, <4>1
      <4>4. NotAhead(m, c)
        BY <2>3, <3>1, <4>2, <4>3 DEF ElectionInv, CandidatesOK
      <4>5. node'[m].head = node[m].head /\ node'[m].headTerm = node[m].headTerm
        <5>1. CASE m # n
          BY <1>1, <5>1
        <5>2. CASE m = n /\ o.leader = None
          BY <1>1, <5>2 DEF Steady
        <5>3. CASE m = n /\ o.leader # None
          <6>1. Leads(o.leader, t) /\ o.leader \in Nodes
            BY <1>1, <4>1, <4>2, <5>3 DEF ElectionInv, RoleInv, NodeState
          <6> QED BY <2>3, <6>1
        <5> QED BY <5>1, <5>2, <5>3
      <4> QED BY <4>3, <4>4, <4>5 DEF NotAhead
    <3>2. ASSUME m = n, c \in Members \ {n}, s.head = o.head, s.headTerm = o.headTerm,
                 NEW req \in requests, req.candidate = c, ~req.pre,
                 req.term = t, UpToDate(o, req)
          PROVE  NotAhead(m, c)'
      <4>1. node'[c] = node[c] /\ node'[m] = s
        BY <1>1, <3>2
      <4>2. req.head = node[c].head /\ req.headTerm = node[c].headTerm
        BY <3>2, <4>1 DEF ElectionInv, RequestsOK
      <4>3. /\ o.head \in Nat /\ o.headTerm \in Nat
            /\ node[c].head \in Nat /\ node[c].headTerm \in Nat
        BY <1>1 DEF NodeState
      <4> QED BY <3>2, <4>1, <4>2, <4>3 DEF UpToDate, NotAhead
    <3> QED BY <1>4, <2>3, <3>1, <3>2
  <2>4. \A b \in Nodes : Leads(b, t) => Leads(b, t)'
    BY <1>1 DEF Leads
  <2> QED BY <2>2, <2>3, <2>4
<1> QED BY <1>3, <1>5, <1>7, <1>8, <1>11, <1>12, <1>13 DEF ElectionInv

\* Every step keeps the invariant of the election if no write to a disk fails.
LEMMA ElectionNext == ~DiskFails => (ElectionInv /\ [Next]_vars => ElectionInv')
<1> SUFFICES ASSUME ~DiskFails, ElectionInv, [Next]_vars PROVE ElectionInv'
  OBVIOUS
<1>1. RoleInv /\ RoleInv' /\ \A m \in Nodes : disk[m] = HardOf(node[m])
  BY RoleNext DEF ElectionInv
<1>2. CASE IsMove
  <2>1. PICK n \in Nodes, s \in NodeState, asked \in SUBSET VoteRequest,
             told \in SUBSET VoteReply :
          /\ Moves(n, s, asked, told) /\ Tame(n, s, asked, told)
          /\ Elects(n, node[n], s, told) /\ Steady(node[n], s)
          /\ disk' = [disk EXCEPT ![n] = HardOf(s)]
    BY <1>1, <1>2 DEF IsMove
  <2> QED BY <1>1, <2>1, MoveKeepsElection
<1>3. CASE UNCHANGED <<node, disk, requests, replies, said>>
  BY <1>1, <1>3
     DEF ElectionInv, RequestsOK, VotesOK, OneVote, LeadersOK, OneLeader, CandidatesOK,
         Backed, Replied, Counted, Leads, NotAhead
<1> QED BY <1>1, <1>2, <1>3, EveryStepIsMove

\* For every mesh whose disks keep what is written: at most one node ever leads
\* a term, whatever is delayed, repeated or lost and whoever restarts.
THEOREM ElectionIsSafe == ASSUME ~DiskFails PROVE Spec => []ElectionSafety
<1>1. ElectionInv => ElectionSafety
  <2> SUFFICES ASSUME ElectionInv, NEW a \in said, NEW b \in said,
                      a.leads, b.leads, a.term = b.term
               PROVE  a.name = b.name
    BY DEF ElectionSafety
  <2>1. a.name \in Nodes /\ b.name \in Nodes /\ a.term \in Nat
    BY DEF ElectionInv, RoleInv, TypeOK, Status
  <2>2. Leads(a.name, a.term) /\ Leads(b.name, a.term)
    BY DEF Leads
  <2> QED BY <2>1, <2>2 DEF ElectionInv, OneLeader
<1>2. ElectionInv /\ [Next]_vars => ElectionInv'
  BY ElectionNext
<1> QED BY <1>1, <1>2, ElectionInit, PTL DEF Spec

-----------------------------------------------------------------------------
(* What a step of the mesh may never do. *)

\* Every step keeps the votes if no write fails.
LEMMA StepKeepsVotes ==
    ASSUME ~DiskFails, ElectionInv, [Next]_vars PROVE KeepsVotes
<1>1. RoleInv /\ \A m \in Nodes : disk[m] = HardOf(node[m]) /\ node[m] \in NodeState
  BY DEF ElectionInv, RoleInv, TypeOK
<1>2. CASE IsMove
  <2>1. PICK n \in Nodes, s \in NodeState :
          node' = [node EXCEPT ![n] = s] /\ Steady(node[n], s)
    BY <1>1, <1>2 DEF IsMove, Moves
  <2>2. node'[n] = s /\ \A m \in Nodes : m # n => node'[m] = node[m]
    BY <1>1, <2>1 DEF RoleInv, TypeOK
  <2> QED BY <1>1, <2>1, <2>2 DEF Steady, KeepsVotes, NodeState
<1>3. CASE node' = node
  BY <1>1, <1>3 DEF KeepsVotes, NodeState
<1> QED BY <1>1, <1>2, <1>3, EveryStepIsMove

\* For every mesh whose disks keep what is written: a vote stands for its term
\* and terms never go back, restarts included.
THEOREM VotesDoStand == ASSUME ~DiskFails PROVE Spec => VotesStand
<1>1. ElectionInv /\ [Next]_vars => ElectionInv'
  BY ElectionNext
<1>2. ElectionInv /\ [Next]_vars => [KeepsVotes]_vars
  BY StepKeepsVotes
<1> QED BY <1>1, <1>2, ElectionInit, PTL DEF Spec, VotesStand

\* Every step that makes a candidate the leader has a majority with no longer
\* log behind it, as far as that majority is still in the term.
LEMMA StepBacksWinners ==
    ASSUME ~DiskFails, ElectionInv, [Next]_vars PROVE BacksWinners
<1> DEFINE S(n) == {m \in Members : \/ node[m].term > node[n].term
                                    \/ /\ node[m].term = node[n].term
                                       /\ NotAhead(m, n)}
<1> SUFFICES ASSUME NEW n \in Nodes, node[n].role = "Candidate",
                    node'[n].role = "Leader"
             PROVE  S(n) \in Majorities
  BY DEF BacksWinners
<1>0. PICK t \in Nat : t = node[n].term
  BY DEF ElectionInv, RoleInv, TypeOK, NodeState
<1>1. /\ RoleInv /\ ElectionInv' /\ Members \subseteq Nodes
      /\ \A m \in Nodes : /\ disk[m] = HardOf(node[m]) /\ node[m].term \in Nat
                           /\ node[m].head \in Nat
  BY ElectionNext DEF ElectionInv, RoleInv, TypeOK, NodeState, Members
\* n has just won, with the votes of Q.
<1>2. PICK Q \in Majorities :
        \/ Q = {n}
        \/ /\ Leads(n, t)'
           /\ \A m \in Q \ {n} : Backed(m, n, t)
  <2>1. IsMove
    BY <1>1, EveryStepIsMove
  <2>2. PICK k \in Nodes, s \in NodeState, told \in SUBSET VoteReply :
          /\ node' = [node EXCEPT ![k] = s] /\ said' = said \cup {StatusOf(k, s)}
          /\ Elects(k, node[k], s, told)
    BY <2>1 DEF IsMove, Moves
  <2>3. k = n /\ s = node'[n] /\ s.role = "Leader"
    BY <1>1, <2>2 DEF RoleInv, TypeOK
  <2>4. CASE {n} \in Majorities
    BY <2>4
  <2>5. ASSUME s.term = t, NEW v \in Members, Replied(v, n, s.term),
               node[n].votes \cup {v, n} \in Majorities
        PROVE  \E Q \in Majorities : /\ Leads(n, t)'
                                     /\ \A m \in Q \ {n} : Backed(m, n, t)
    <3>1. /\ StatusOf(n, s).name = n /\ StatusOf(n, s).leads
          /\ StatusOf(n, s).term = t /\ StatusOf(n, s) \in said'
      BY <2>2, <2>3, <2>5 DEF StatusOf
    <3>2. \E st \in said' : st.name = n /\ st.leads /\ st.term = t
      BY <3>1
    <3>3. \A m \in (node[n].votes \cup {v, n}) \ {n} : Backed(m, n, t)
      BY <1>0, <2>5 DEF Backed, Counted
    <3> QED BY <2>3, <2>5, <3>2, <3>3 DEF Leads
  <2> QED BY <1>0, <2>2, <2>3, <2>4, <2>5 DEF Elects, Wins
<1>3. Q \subseteq Members
  BY DEF Majorities
<1>4. n \in S(n) \/ n \notin Members
  BY <1>1 DEF NotAhead
<1>5. ASSUME NEW m \in Q, m # n, Leads(n, t)', Backed(m, n, t)
      PROVE  m \in S(n)
  <2>1. m \in Nodes /\ t <= node[m].term
    BY <1>1, <1>3, <1>5 DEF ElectionInv, VotesOK
  <2>2. \A b \in Nodes : ~Leads(b, t)
    <3>1. \A b \in Nodes : Leads(b, t) => Leads(b, t)'
      <4>1. said \subseteq said'
        BY <1>1, EveryStepIsMove DEF IsMove, Moves
      <4> QED BY <4>1 DEF Leads
    <3>2. ~Leads(n, t)
      BY <1>0, <1>1 DEF ElectionInv, CandidatesOK
    <3> QED BY <1>1, <1>5, <3>1, <3>2 DEF ElectionInv, OneLeader
  <2>3. node[m].term = t => NotAhead(m, n)
    BY <1>0, <1>1, <1>5, <2>1, <2>2 DEF ElectionInv, CandidatesOK
  <2> QED BY <1>0, <1>1, <1>3, <2>1, <2>3
<1>6. Q \subseteq S(n)
  BY <1>2, <1>3, <1>4, <1>5
<1>7. IsFiniteSet(S(n)) /\ IsFiniteSet(Members)
  BY NodesAssumption, FS_Difference, FS_Subset DEF NodesAssumption, Members
<1> DEFINE W == S(n)
<1>8. W \subseteq Members /\ Q \subseteq W /\ IsFiniteSet(W)
  BY <1>6, <1>7
<1> HIDE DEF W
<1>9. /\ Cardinality(Q) \in Nat /\ Cardinality(W) \in Nat /\ Cardinality(Members) \in Nat
      /\ Cardinality(Q) <= Cardinality(W)
  BY <1>7, <1>8, FS_Subset, FS_CardinalityType
<1>10. W \in Majorities
  BY <1>8, <1>9 DEF Majorities
<1> QED BY <1>10 DEF W

\* For every mesh whose disks keep what is written: nobody wins an election with
\* a log behind that of the majority that elects it.
THEOREM WinnersAreUpToDate == ASSUME ~DiskFails PROVE Spec => WinnerUpToDate
<1>1. ElectionInv /\ [Next]_vars => ElectionInv'
  BY ElectionNext
<1>2. ElectionInv /\ [Next]_vars => [BacksWinners]_vars
  BY StepBacksWinners
<1> QED BY <1>1, <1>2, ElectionInit, PTL DEF Spec, WinnerUpToDate

\* No step moves the term of a node that is cut off, unless it is a majority by
\* itself.
LEMMA StepKeepsCutOffTerms ==
    ASSUME ~DiskFails, ElectionInv, [Next]_vars PROVE CutOffTermsStay
<1> SUFFICES ASSUME NEW n \in cut, Quorum(node[n]) > 1
             PROVE  node'[n].term = node[n].term
  BY DEF CutOffTermsStay
<1>1. /\ RoleInv /\ TypeOK /\ n \in Nodes /\ disk[n] = HardOf(node[n])
      /\ \A m \in Nodes : node[m] \in NodeState
  BY DEF ElectionInv, RoleInv, TypeOK
<1>2. \A s : \A m \in Nodes : m # n /\ node' = [node EXCEPT ![m] = s] => node'[n] = node[n]
  BY <1>1 DEF TypeOK
<1>3. ASSUME NEW m \in Nodes, NEW s, node' = [node EXCEPT ![m] = s],
             m = n => s.term = node[n].term
      PROVE  node'[n].term = node[n].term
  BY <1>1, <1>3 DEF TypeOK
<1>4. ASSUME NEW m \in Nodes, Campaign(m) PROVE node'[n].term = node[n].term
  <2>1. CASE m # n
    BY <1>2, <1>4, <2>1 DEF Campaign, Settle, Become
  <2>2. CASE m = n
    <3>1. Quorum(node[n]) # 1
      OBVIOUS
    <3>2. node' = [node EXCEPT ![n] = [node[n] EXCEPT
                      !.role = "PreCandidate", !.leader = None, !.votes = {},
                      !.campaignTerm = node[n].term + 1]]
      BY <1>4, <2>2, <3>1 DEF Campaign, Settle, Become
    <3> QED BY <1>1, <3>2 DEF TypeOK, NodeState
  <2> QED BY <2>1, <2>2
<1>5. ASSUME NEW m \in Nodes, CheckQuorum(m) PROVE node'[n].term = node[n].term
  <2>1. StepDown(node[m]).term = node[m].term
    BY <1>1, StepDownFacts
  <2> QED BY <1>3, <1>5, <2>1 DEF CheckQuorum, Settle, Become
<1>6. ASSUME NEW m \in Nodes, Append(m) \/ Take(m) \/ Rewind(m)
      PROVE  node'[n].term = node[n].term
  <2>1. CASE Append(m)
    BY <1>1, <2>1 DEF Append, Settle, Become, NodeState, TypeOK
  <2>2. CASE Take(m)
    <3>1. PICK h : node' = [node EXCEPT ![m] =
                     [node[m] EXCEPT !.head = h, !.headTerm = node[m].term]]
      BY <2>2 DEF Take, Settle, Become
    <3> QED BY <1>1, <3>1 DEF NodeState, TypeOK
  <2>3. CASE Rewind(m)
    <3>1. PICK h : node' = [node EXCEPT ![m] = [node[m] EXCEPT !.head = h]]
      BY <2>3 DEF Rewind, Settle, Become
    <3> QED BY <1>1, <3>1 DEF NodeState, TypeOK
  <2> QED BY <1>6, <2>1, <2>2, <2>3
<1>7. ASSUME NEW m \in Nodes, Restart(m) PROVE node'[n].term = node[n].term
  <2>1. PICK h : node' = [node EXCEPT ![m] = Fresh(h, disk[m], Peers[m])]
    BY <1>7 DEF Restart, Become
  <2>2. Fresh(h, disk[n], Peers[n]).term = node[n].term
    BY <1>1 DEF Fresh, HardOf
  <2> QED BY <1>3, <2>1, <2>2
<1>8. ASSUME NEW m \in Nodes,
             LeaderGoesQuiet(m) \/ \E k \in Nodes : MemberGoesQuiet(m, k)
      PROVE  node'[n].term = node[n].term
  BY <1>1, <1>8 DEF LeaderGoesQuiet, MemberGoesQuiet, NodeState, TypeOK
<1>9. ASSUME NEW m \in Nodes, NEW s, NEW asked, NEW told, Settle(m, s, asked, told),
             m \notin cut
      PROVE  node'[n].term = node[n].term
  BY <1>2, <1>9 DEF Settle, Become
<1>10. ASSUME NEW m \in Nodes,
              \/ \E req \in requests : MeshVote(m, req)
              \/ \E rep \in replies : CampaignReply(m, rep)
              \/ \E st \in said : OnStatus(m, st)
       PROVE  node'[n].term = node[n].term
  BY <1>9, <1>10 DEF MeshVote, CampaignReply, OnStatus
<1>11. CASE node' = node
  BY <1>11
<1> QED BY <1>4, <1>5, <1>6, <1>7, <1>8, <1>10, <1>11 DEF Next, vars, Cut, Heal

\* For every mesh whose disks keep what is written: a node that no message
\* reaches keeps its term, and deposes nobody when it is back.
THEOREM CutOffNodesKeepTheirTerm == ASSUME ~DiskFails PROVE Spec => CutOffKeepsTerm
<1>1. ElectionInv /\ [Next]_vars => ElectionInv'
  BY ElectionNext
<1>2. ElectionInv /\ [Next]_vars => [CutOffTermsStay]_vars
  BY StepKeepsCutOffTerms
<1> QED BY <1>1, <1>2, ElectionInit, PTL DEF Spec, CutOffKeepsTerm

=============================================================================
