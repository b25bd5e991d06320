-------------------------- MODULE TaskTableProofs --------------------------
(***************************************************************************)
(* Theorems about TaskTable, for every roster, every setting of the timers *)
(* and limits, and any number of tasks and blocks: types and artifacts,    *)
(* what state a row can be in, that a plan stays whole, and what a step    *)
(* may never do to a row.  Those about rows rest on one lemma, SubsNext,   *)
(* that reads every step as an effect on each row, and on lemmas about the *)
(* effects.                                                                *)
(***************************************************************************)
EXTENDS TaskTable, TLAPS

(* What the effects do to the type of a row. *)

\* Every effect on a parent's row yields a parent's row.
LEMMA ParentRowTypes ==
    ASSUME NEW p \in ParentRow, NEW at \in Nat
    PROVE  /\ OpenedRow(at) \in ParentRow
           /\ PlannedRow(p, at) \in ParentRow
           /\ DirectedRow(p, at) \in ParentRow
           /\ RearmedRow(p, at) \in ParentRow
           /\ ClosedRow(p, at) \in ParentRow
           /\ FailedRow(p, at) \in ParentRow
BY TimersAssumption
   DEF TimersAssumption, OpenedRow, PlannedRow, DirectedRow, RearmedRow, ClosedRow, FailedRow,
       ParentRow, ParentStatus, Blocks

\* Every effect on a sub-task's row yields a sub-task's row.
LEMMA SubRowTypes ==
    ASSUME NEW t \in SubRow, NEW at \in Nat, NEW who \in Accounts
    PROVE  /\ FirstOffer(who, at) \in SubRow
           /\ AssignedRow(t, who, at) \in SubRow
           /\ AssignedRow(t, t.assignee, at) \in SubRow
           /\ ClaimedRow(t, who, at) \in SubRow
           /\ \A o \in {"Done", "Failed"} : SubmittedRow(t, who, o) \in SubRow
           /\ ClearedRow(t) \in SubRow
           /\ ReopenedRow(t, at) \in SubRow
           /\ UnclaimedRow(t, at) \in SubRow
           /\ LeaseExpiredRow(t, at) \in SubRow
           /\ RehomedRow(t, who, at) \in SubRow
           /\ BudgetSpentRow(t) \in SubRow
           /\ \A r \in 0..MaxNudges : NudgedRow(t, r, at) \in SubRow
BY TimersAssumption
   DEF TimersAssumption, FirstOffer, AssignedRow, ClaimedRow, SubmittedRow, ClearedRow,
       ReopenedRow, UnclaimedRow, LeaseExpiredRow, RehomedRow, BudgetSpentRow,
       NudgedRow, SubRow, SubStatus, Blocks

-----------------------------------------------------------------------------
(* The tick, on one row. *)

\* The tick keeps a sub-task's row a row and leaves a cleared one alone.
LEMMA TickedSubFacts ==
    ASSUME NEW t \in SubRow, NEW at \in Nat
    PROVE  /\ TickedSub(t, at) \in SubRow
           /\ t.status = "Cleared" => TickedSub(t, at) = t
<1> DEFINE expired == LeaseOver(t, at)
           nudged == NagDue(t, at) /\ t.nudges < MaxNudges
           spent == NagDue(t, at) /\ t.nudges >= MaxNudges /\ ~t.announced
           stale == OfferStale(t, at)
<1>1. t.nudges \in Nat /\ MaxNudges \in Nat
  BY TimersAssumption DEF SubRow, TimersAssumption
<1>2. CASE expired
  <2>1. TickedSub(t, at) = AssignedRow(LeaseExpiredRow(t, at), t.assignee, at)
    BY <1>2 DEF TickedSub, LeaseOver, OfferStale
  <2>2. LeaseExpiredRow(t, at).assignee = t.assignee
    BY DEF LeaseExpiredRow
  <2>3. LeaseExpiredRow(t, at) \in SubRow
    BY DEF LeaseExpiredRow, SubRow, SubStatus, Blocks
  <2>4. AssignedRow(LeaseExpiredRow(t, at), t.assignee, at) \in SubRow
    BY <2>3 DEF AssignedRow, SubRow, SubStatus, Blocks
  <2> QED BY <1>2, <2>1, <2>4 DEF LeaseOver
<1>3. CASE ~expired /\ nudged
  <2>1. TickedSub(t, at) = NudgedRow(t, MaxNudges - (t.nudges + 1), at)
    BY <1>1, <1>3 DEF TickedSub, NagDue, OfferStale
  <2>2. NudgedRow(t, MaxNudges - (t.nudges + 1), at) \in SubRow
    BY <1>1, <1>3, TimersAssumption
       DEF TimersAssumption, NudgedRow, SubRow, SubStatus, Blocks
  <2> QED BY <1>3, <2>1, <2>2 DEF NagDue
<1>4. CASE ~expired /\ spent
  <2>1. TickedSub(t, at) = BudgetSpentRow(t)
    BY <1>1, <1>4 DEF TickedSub, NagDue, OfferStale
  <2> QED BY <1>4, <2>1 DEF BudgetSpentRow, NagDue, SubRow, SubStatus, Blocks
<1>5. CASE stale
  <2>1. TickedSub(t, at) = AssignedRow(UnclaimedRow(t, at), t.assignee, at)
    BY <1>5 DEF TickedSub, LeaseOver, NagDue, OfferStale
  <2>2. UnclaimedRow(t, at) \in SubRow
    BY DEF UnclaimedRow, SubRow, SubStatus, Blocks
  <2>3. AssignedRow(UnclaimedRow(t, at), t.assignee, at) \in SubRow
    BY <2>2 DEF AssignedRow, SubRow, SubStatus, Blocks
  <2> QED BY <1>5, <2>1, <2>3 DEF OfferStale
<1>6. CASE ~expired /\ ~nudged /\ ~spent /\ ~stale
  <2>1. TickedSub(t, at) = t
    BY <1>6 DEF TickedSub
  <2> QED BY <2>1
<1> QED BY <1>2, <1>3, <1>4, <1>5, <1>6

\* The tick keeps a parent's row a row, leaves an ended one alone, and ends
\* one only in failure.
LEMMA TickedParentFacts ==
    ASSUME NEW p, NEW row \in ParentRow, NEW ss, NEW at \in Nat
    PROVE  /\ TickedParent(p, row, ss, at) \in ParentRow
           /\ row.status \in Terminal => TickedParent(p, row, ss, at) = row
           /\ TickedParent(p, row, ss, at).status \in {row.status, "Failed"}
<1>1. FailedRow(row, at) \in ParentRow /\ DirectedRow(row, at) \in ParentRow
  BY ParentRowTypes
<1>2. FailedRow(row, at).status = "Failed" /\ DirectedRow(row, at).status = row.status
  BY DEF FailedRow, DirectedRow
<1>3. row.status \in Terminal => ~DirectiveDue(p, row, ss)
  BY DEF Terminal, DirectiveDue
<1> HIDE DEF DirectiveDue
<1> QED BY <1>1, <1>2, <1>3 DEF TickedParent

-----------------------------------------------------------------------------
(* Type correctness. *)

\* Opening a block, or clearing all, hands `gc` rows of the right type; what
\* it keeps has that type.
LEMMA GcType ==
    ASSUME NEW ps, NEW ss, NEW at, NEW keepFor,
           DOMAIN ps \subseteq Nat, ps \in [DOMAIN ps -> ParentRow],
           DOMAIN ss \subseteq Nat \X Nat, ss \in [DOMAIN ss -> SubRow],
           Gc(ps, ss, at, keepFor)
    PROVE  /\ DOMAIN parents' \subseteq Nat
           /\ parents' \in [DOMAIN parents' -> ParentRow]
           /\ DOMAIN subs' \subseteq Nat \X Nat
           /\ subs' \in [DOMAIN subs' -> SubRow]
BY DEF Gc

\* TypeOK holds initially and every step keeps it.
LEMMA TypeInit == Init => TypeOK
BY AccountsAssumption DEF AccountsAssumption, Init, TypeOK

LEMMA TypeNext == TypeOK /\ [Next]_vars => TypeOK'
<1> SUFFICES ASSUME TypeOK, [Next]_vars PROVE TypeOK'
  OBVIOUS
<1> USE DEF TypeOK
<1>1. ASSUME NEW who \in Accounts, Open(who) PROVE TypeOK'
  <2>1. OpenedRow(now) \in ParentRow
    BY DEF OpenedRow, ParentRow, ParentStatus, Blocks
  <2> QED BY <1>1, <2>1 DEF Open
<1>2. ASSUME NEW who \in Accounts, NEW p \in ParentNumbers, NEW items \in Plans,
             Plan(who, p, items)
      PROVE  TypeOK'
  <2> DEFINE planned == {p} \X DOMAIN items
  <2>1. PICK n \in 1..MaxSubtasks : items \in [1..n -> Accounts]
    BY DEF Plans
  <2>2. PlannedRow(parents[p], now) \in ParentRow /\ p \in DOMAIN parents
    BY <1>2, ParentRowTypes DEF Plan
  <2>3. planned \subseteq Nat \X Nat
    BY <2>1, <2>2, LimitsAssumption DEF LimitsAssumption
  <2>4. \A id \in planned : items[id[2]] \in Accounts
    BY <2>1
  <2>5. \A id \in planned : FirstOffer(items[id[2]], now) \in SubRow
    BY <2>4 DEF FirstOffer, SubRow, SubStatus, Blocks
  <2>6. \A id \in planned \cap DOMAIN subs :
           AssignedRow(subs[id], items[id[2]], now) \in SubRow
    BY <2>4 DEF AssignedRow, SubRow, SubStatus, Blocks
  <2> HIDE DEF planned
  <2>7. subs' = [id \in DOMAIN subs \cup planned |->
                   IF id \notin planned THEN subs[id]
                   ELSE IF id \in DOMAIN subs
                        THEN AssignedRow(subs[id], items[id[2]], now)
                        ELSE FirstOffer(items[id[2]], now)]
    BY <1>2 DEF Plan, planned
  <2>8. DOMAIN subs' \subseteq Nat \X Nat /\ subs' \in [DOMAIN subs' -> SubRow]
    BY <2>3, <2>5, <2>6, <2>7
  <2>9. DOMAIN parents' \subseteq Nat /\ parents' \in [DOMAIN parents' -> ParentRow]
    BY <1>2, <2>2 DEF Plan
  <2> QED BY <1>2, <2>8, <2>9 DEF Plan
<1>3. ASSUME NEW who \in Accounts, NEW id, Claim(who, id) PROVE TypeOK'
  <2>1. ClaimedRow(subs[id], who, now) \in SubRow
    BY <1>3, SubRowTypes DEF Claim
  <2>2. NudgedRow(ClaimedRow(subs[id], who, now), MaxNudges, now) \in SubRow
    BY <2>1, TimersAssumption
       DEF TimersAssumption, NudgedRow, SubRow, SubStatus, Blocks
  <2> QED BY <1>3, <2>2 DEF Claim, UpdateSub
<1>4. ASSUME NEW id, RearmParent(id[1])
      PROVE  DOMAIN parents' \subseteq Nat /\ parents' \in [DOMAIN parents' -> ParentRow]
  <2>1. \A q \in DOMAIN parents : RearmedRow(parents[q], now) \in ParentRow
    BY ParentRowTypes
  <2> QED BY <1>4, <2>1 DEF RearmParent
<1>5. ASSUME NEW who \in Accounts, NEW id, NEW o \in {"Done", "Failed"},
             Submit(who, id, o)
      PROVE  TypeOK'
  <2>1. SubmittedRow(subs[id], who, o) \in SubRow
    BY <1>5, SubRowTypes DEF Submit
  <2> QED BY <1>4, <1>5, <2>1 DEF Submit, UpdateSub
<1>6. ASSUME NEW who \in Accounts, NEW id, Clear(who, id) PROVE TypeOK'
  <2>1. ClearedRow(subs[id]) \in SubRow
    BY <1>6, SubRowTypes DEF Clear
  <2> QED BY <1>4, <1>6, <2>1 DEF Clear, UpdateSub
<1>7. ASSUME NEW who \in Accounts, NEW id, Reopen(who, id) PROVE TypeOK'
  <2>1. ReopenedRow(subs[id], now) \in SubRow
    BY <1>7, SubRowTypes DEF Reopen
  <2>2. AssignedRow(ReopenedRow(subs[id], now), subs[id].assignee, now) \in SubRow
    BY <1>7, <2>1 DEF Reopen, AssignedRow, SubRow, SubStatus, Blocks
  <2> QED BY <1>7, <2>2 DEF Reopen, UpdateSub
<1>8. ASSUME NEW who \in Accounts, NEW id, NEW to \in Accounts,
             Reassign(who, id, to)
      PROVE  TypeOK'
  <2>1. RehomedRow(subs[id], to, now) \in SubRow
    BY <1>8, SubRowTypes DEF Reassign
  <2>2. AssignedRow(RehomedRow(subs[id], to, now), to, now) \in SubRow
    BY <2>1, SubRowTypes
  <2> QED BY <1>8, <2>2 DEF Reassign, UpdateSub
<1>9. ASSUME NEW who \in Accounts, NEW p, CommitArtifact(who, p) PROVE TypeOK'
  <2>1. ClosedRow(parents[p], now) \in ParentRow
    BY <1>9, ParentRowTypes DEF CommitArtifact
  <2> QED BY <1>9, <2>1 DEF CommitArtifact, Committed, Artifact
<1>10. ASSUME NEW who \in Accounts, PublishNote(who) PROVE TypeOK'
  BY <1>10 DEF PublishNote, Note
<1>11. ASSUME NEW caller \in Accounts, NEW who \in Accounts, SetLeader(caller, who)
       PROVE  TypeOK'
  <2>1. \A q \in DOMAIN parents : RearmedRow(parents[q], now) \in ParentRow
    BY ParentRowTypes
  <2> QED BY <1>11, <2>1 DEF SetLeader
<1>12. ASSUME NEW who \in Accounts, ClearAll(who) PROVE TypeOK'
  <2> DEFINE ended == [p \in DOMAIN parents |->
                          IF parents[p].status \in Terminal THEN parents[p]
                          ELSE FailedRow(parents[p], now)]
  <2>1. \A p \in DOMAIN parents : FailedRow(parents[p], now) \in ParentRow
    BY ParentRowTypes
  <2>2. DOMAIN ended \subseteq Nat /\ ended \in [DOMAIN ended -> ParentRow]
    BY <2>1
  <2>3. Gc(ended, subs, now, 0)
    BY <1>12 DEF ClearAll
  <2> HIDE DEF ended
  <2>4. /\ DOMAIN parents' \subseteq Nat
        /\ parents' \in [DOMAIN parents' -> ParentRow]
        /\ DOMAIN subs' \subseteq Nat \X Nat
        /\ subs' \in [DOMAIN subs' -> SubRow]
    BY <2>2, <2>3, GcType
  <2> QED BY <1>12, <2>4 DEF ClearAll
<1>13. ASSUME OpenBlock PROVE TypeOK'
  <2> DEFINE ps == TickedParents(now + 1)
             ss == TickedSubs(now + 1)
  <2>1. DOMAIN ps \subseteq Nat /\ ps \in [DOMAIN ps -> ParentRow]
    BY TickedParentFacts DEF TickedParents
  <2>2. DOMAIN ss \subseteq Nat \X Nat /\ ss \in [DOMAIN ss -> SubRow]
    <3>1. now + 1 \in Nat
      OBVIOUS
    <3>2. \A id \in DOMAIN subs : TickedSub(subs[id], now + 1) \in SubRow
      BY <3>1, TickedSubFacts
    <3> QED BY <3>2 DEF TickedSubs
  <2>3. Gc(ps, ss, now + 1, GcKeepFor)
    BY <1>13 DEF OpenBlock
  <2> HIDE DEF ps, ss
  <2>4. /\ DOMAIN parents' \subseteq Nat
        /\ parents' \in [DOMAIN parents' -> ParentRow]
        /\ DOMAIN subs' \subseteq Nat \X Nat
        /\ subs' \in [DOMAIN subs' -> SubRow]
    BY <2>1, <2>2, <2>3, GcType
  <2> QED BY <1>13, <2>4 DEF OpenBlock
<1>14. ASSUME UNCHANGED vars PROVE TypeOK'
  BY <1>14 DEF vars
<1> QED
  BY <1>1, <1>2, <1>3, <1>5, <1>6, <1>7, <1>8, <1>9, <1>10, <1>11, <1>12, <1>13,
     <1>14 DEF Next, ActOn

\* The table is always well typed: whatever is called, every row keeps the
\* shape the runtime storage expects.
THEOREM TypeCorrect == Spec => []TypeOK
BY TypeInit, TypeNext, PTL DEF Spec

-----------------------------------------------------------------------------
(* Artifacts.  ArtifactSound is not inductive by itself: a number must not   *)
(* be handed out twice, or a new parent would inherit an artifact.           *)

NumbersUsed == \A p \in DOMAIN parents : p < nextParent

ArtifactInv == TypeOK /\ NumbersUsed /\ ArtifactSound

\* A step that commits nothing keeps the invariant if it closes and reopens no
\* parent, numbers new parents past the old ones, and adds or takes back
\* nothing under a closed parent.
LEMMA NoCommitKeepsSound ==
    ASSUME ArtifactInv, TypeOK',
           artifacts' = artifacts, nextParent' >= nextParent,
           \A p \in DOMAIN parents' :
              \/ /\ p \in DOMAIN parents
                 /\ parents'[p].status = "Closed" <=> parents[p].status = "Closed"
              \/ /\ p >= nextParent /\ p < nextParent'
                 /\ parents'[p].status # "Closed",
           \A id \in DOMAIN subs' :
              (id[1] \in DOMAIN parents /\ parents[id[1]].status = "Closed") =>
                 /\ id \in DOMAIN subs
                 /\ subs[id].status = "Cleared" => subs'[id].status = "Cleared"
    PROVE  ArtifactInv'
<1> USE DEF ArtifactInv, NumbersUsed, ArtifactSound, TypeOK, SubsOf
<1>1. NumbersUsed'
  OBVIOUS
<1>2. \A a \in artifacts' :
         /\ a.task < nextParent'
         /\ a.task \in DOMAIN parents' => parents'[a.task].status = "Closed"
  BY DEF Artifact
<1>3. \A p \in DOMAIN parents' : parents'[p].status = "Closed" =>
         /\ p \in DOMAIN parents /\ parents[p].status = "Closed"
         /\ \E a \in artifacts' : a.task = p
  OBVIOUS
<1>4. \A p \in DOMAIN parents' : parents'[p].status = "Closed" =>
         \A id \in SubsOf(p)' : subs'[id].status = "Cleared"
  BY <1>3
<1> QED BY <1>1, <1>2, <1>3, <1>4

\* The invariant holds initially and every step keeps it.
LEMMA ArtifactInit == Init => ArtifactInv
BY TypeInit DEF Init, ArtifactInv, NumbersUsed, ArtifactSound

LEMMA ArtifactNext == ArtifactInv /\ [Next]_vars => ArtifactInv'
<1> SUFFICES ASSUME ArtifactInv, [Next]_vars PROVE ArtifactInv'
  OBVIOUS
<1>0. TypeOK /\ TypeOK'
  BY TypeNext DEF ArtifactInv
<1>1. ASSUME NEW who \in Accounts, Open(who) PROVE ArtifactInv'
  <2>1. nextParent \in Nat /\ nextParent' = nextParent + 1
    BY <1>0, <1>1 DEF Open, TypeOK
  <2>2. OpenedRow(now).status # "Closed"
    BY DEF OpenedRow
  <2> HIDE DEF OpenedRow
  <2> QED BY <1>0, <1>1, <2>1, <2>2, NoCommitKeepsSound DEF Open
<1>2. ASSUME NEW who \in Accounts, NEW p, NEW items, Plan(who, p, items)
      PROVE  ArtifactInv'
  <2>1. PlannedRow(parents[p], now).status # "Closed"
    BY DEF PlannedRow
  <2>2. \A q \in DOMAIN parents' :
           /\ q \in DOMAIN parents
           /\ parents'[q].status = "Closed" <=> parents[q].status = "Closed"
    BY <1>0, <1>2, <2>1 DEF Plan, TypeOK
  <2>3. \A id \in DOMAIN subs' : id[1] # p => id \in DOMAIN subs /\ subs'[id] = subs[id]
    BY <1>0, <1>2 DEF Plan, TypeOK
  <2>4. artifacts' = artifacts /\ nextParent' = nextParent /\ nextParent \in Nat
        /\ parents[p].status = "Open"
    BY <1>0, <1>2 DEF Plan, TypeOK
  <2> QED BY <1>0, <2>2, <2>3, <2>4, NoCommitKeepsSound
<1>3. ASSUME NEW id \in DOMAIN subs, NEW row, UpdateSub(id, row),
             subs[id].status # "Cleared",
             \/ parents' = parents
             \/ RearmParent(id[1]),
             artifacts' = artifacts, nextParent' = nextParent
      PROVE  ArtifactInv'
  <2>1. \A q \in DOMAIN parents' :
           /\ q \in DOMAIN parents
           /\ parents'[q].status = "Closed" <=> parents[q].status = "Closed"
    BY <1>0, <1>3 DEF RearmParent, RearmedRow, TypeOK
  <2>2. \A i \in DOMAIN subs' :
           /\ i \in DOMAIN subs
           /\ subs[i].status = "Cleared" => subs'[i].status = "Cleared"
    BY <1>0, <1>3 DEF UpdateSub, TypeOK
  <2>3. nextParent' >= nextParent
    BY <1>0, <1>3 DEF TypeOK
  <2> QED BY <1>0, <1>3, <2>1, <2>2, <2>3, NoCommitKeepsSound
<1>4. ASSUME NEW who \in Accounts, NEW id, Claim(who, id) PROVE ArtifactInv'
  BY <1>3, <1>4 DEF Claim
<1>5. ASSUME NEW who \in Accounts, NEW id, NEW o, Submit(who, id, o)
      PROVE  ArtifactInv'
  BY <1>3, <1>5 DEF Submit
<1>6. ASSUME NEW who \in Accounts, NEW id, Clear(who, id) PROVE ArtifactInv'
  BY <1>3, <1>6 DEF Clear
<1>7. ASSUME NEW who \in Accounts, NEW id, Reopen(who, id) PROVE ArtifactInv'
  BY <1>3, <1>7 DEF Reopen
<1>8. ASSUME NEW who \in Accounts, NEW id, NEW to, Reassign(who, id, to)
      PROVE  ArtifactInv'
  BY <1>3, <1>8 DEF Reassign
<1>9. ASSUME NEW who \in Accounts, NEW p, CommitArtifact(who, p) PROVE ArtifactInv'
  <2> DEFINE new == [task |-> p, author |-> who, at |-> now]
  <2>1. /\ p \in DOMAIN parents /\ parents[p].status = "Planned"
        /\ artifacts' = artifacts \cup {new}
        /\ parents' = [parents EXCEPT ![p] = ClosedRow(parents[p], now)]
        /\ subs' = subs /\ nextParent' = nextParent
        /\ \A id \in SubsOf(p) : subs[id].status = "Cleared"
    BY <1>9 DEF CommitArtifact, Committed
  <2>2. ClosedRow(parents[p], now).status = "Closed" /\ new.task = p
    BY DEF ClosedRow
  <2>3. \A a \in artifacts : a.task # p
    BY <2>1 DEF ArtifactInv, ArtifactSound
  <2>4. /\ DOMAIN parents' = DOMAIN parents
        /\ \A q \in DOMAIN parents : q # p => parents'[q] = parents[q]
        /\ parents'[p].status = "Closed"
    BY <1>0, <2>1, <2>2 DEF TypeOK
  <2> HIDE DEF new
  <2>5. \A q : SubsOf(q)' = SubsOf(q)
    BY <2>1 DEF SubsOf
  <2> QED
    BY <1>0, <2>1, <2>2, <2>3, <2>4, <2>5 DEF ArtifactInv, NumbersUsed, ArtifactSound
<1>10. ASSUME NEW who \in Accounts, PublishNote(who) PROVE ArtifactInv'
  BY <1>0, <1>10 DEF PublishNote, ArtifactInv, NumbersUsed, ArtifactSound, SubsOf
<1>11. ASSUME NEW caller \in Accounts, NEW who \in Accounts, SetLeader(caller, who)
       PROVE  ArtifactInv'
  <2>1. \A q \in DOMAIN parents' :
           /\ q \in DOMAIN parents
           /\ parents'[q].status = "Closed" <=> parents[q].status = "Closed"
    BY <1>0, <1>11 DEF SetLeader, RearmedRow, TypeOK
  <2>2. artifacts' = artifacts /\ nextParent' >= nextParent /\ subs' = subs
    BY <1>0, <1>11 DEF SetLeader, TypeOK
  <2> QED BY <1>0, <2>1, <2>2, NoCommitKeepsSound
<1>12. ASSUME NEW ps, NEW ss, NEW at, NEW keepFor, Gc(ps, ss, at, keepFor),
              DOMAIN ps \subseteq DOMAIN parents, DOMAIN ss \subseteq DOMAIN subs,
              \A p \in DOMAIN ps :
                 ps[p].status = "Closed" <=> parents[p].status = "Closed",
              \A id \in DOMAIN ss :
                 subs[id].status = "Cleared" => ss[id].status = "Cleared",
              artifacts' = artifacts, nextParent' = nextParent
       PROVE  ArtifactInv'
  <2>1. /\ \A p \in DOMAIN parents' : p \in DOMAIN ps /\ parents'[p] = ps[p]
        /\ \A id \in DOMAIN subs' : id \in DOMAIN ss /\ subs'[id] = ss[id]
    BY <1>12 DEF Gc
  <2>2. nextParent' >= nextParent
    BY <1>0, <1>12 DEF TypeOK
  <2> QED BY <1>0, <1>12, <2>1, <2>2, NoCommitKeepsSound
<1>13. ASSUME NEW who \in Accounts, ClearAll(who) PROVE ArtifactInv'
  <2> DEFINE ended == [p \in DOMAIN parents |->
                          IF parents[p].status \in Terminal THEN parents[p]
                          ELSE FailedRow(parents[p], now)]
  <2>1. \A p \in DOMAIN ended :
           ended[p].status = "Closed" <=> parents[p].status = "Closed"
    BY DEF Terminal, FailedRow
  <2>2. /\ Gc(ended, subs, now, 0) /\ DOMAIN ended = DOMAIN parents
        /\ artifacts' = artifacts /\ nextParent' = nextParent
    BY <1>13 DEF ClearAll
  <2> HIDE DEF ended
  <2> QED BY <1>12, <2>1, <2>2
<1>14. ASSUME OpenBlock PROVE ArtifactInv'
  <2> DEFINE ps == TickedParents(now + 1)
             ss == TickedSubs(now + 1)
  <2>1. now + 1 \in Nat
    BY <1>0 DEF TypeOK
  <2>2. \A p \in DOMAIN parents :
           TickedParent(p, parents[p], ss, now + 1).status = "Closed"
              <=> parents[p].status = "Closed"
    <3> HIDE DEF ss
    <3> SUFFICES ASSUME NEW p \in DOMAIN parents
                 PROVE  TickedParent(p, parents[p], ss, now + 1).status = "Closed"
                           <=> parents[p].status = "Closed"
      OBVIOUS
    <3>1. parents[p] \in ParentRow
      BY <1>0 DEF TypeOK
    <3>2. /\ parents[p].status \in Terminal =>
                TickedParent(p, parents[p], ss, now + 1) = parents[p]
          /\ TickedParent(p, parents[p], ss, now + 1).status
                \in {parents[p].status, "Failed"}
      BY <2>1, <3>1, TickedParentFacts
    <3> QED BY <3>2 DEF Terminal
  <2>3. \A id \in DOMAIN subs :
           subs[id].status = "Cleared" =>
              TickedSub(subs[id], now + 1).status = "Cleared"
    <3>1. \A id \in DOMAIN subs : subs[id] \in SubRow
      BY <1>0 DEF TypeOK
    <3> QED BY <2>1, <3>1, TickedSubFacts
  <2>4. DOMAIN ps = DOMAIN parents /\ DOMAIN ss = DOMAIN subs
    BY DEF TickedParents, TickedSubs
  <2>5. \A p \in DOMAIN ps :
           ps[p].status = "Closed" <=> parents[p].status = "Closed"
    BY <2>2 DEF TickedParents
  <2>6. \A id \in DOMAIN ss :
           subs[id].status = "Cleared" => ss[id].status = "Cleared"
    BY <2>3 DEF TickedSubs
  <2>7. /\ Gc(ps, ss, now + 1, GcKeepFor)
        /\ artifacts' = artifacts /\ nextParent' = nextParent
    BY <1>14 DEF OpenBlock
  <2> HIDE DEF ps, ss
  <2> QED BY <1>12, <2>4, <2>5, <2>6, <2>7
<1>15. ASSUME UNCHANGED vars PROVE ArtifactInv'
  BY <1>0, <1>15 DEF vars, ArtifactInv, NumbersUsed, ArtifactSound, SubsOf
<1> QED
  BY <1>1, <1>2, <1>4, <1>5, <1>6, <1>7, <1>8, <1>9, <1>10, <1>11, <1>13, <1>14,
     <1>15 DEF Next, ActOn

\* For every roster, timers and limits: an artifact stands only for a task all
\* of whose sub-tasks were cleared, there is at most one per task, and every
\* closed parent has its own.
THEOREM ArtifactsAreSound == Spec => []ArtifactSound
<1>1. ArtifactInv => ArtifactSound
  BY DEF ArtifactInv
<1> QED BY <1>1, ArtifactInit, ArtifactNext, PTL DEF Spec

-----------------------------------------------------------------------------
(* A plan stays whole.  The proof needs NumbersUsed: a new parent's number   *)
(* is above every row's, so that it starts without sub-tasks.                *)

PlanInv == TypeOK /\ NumbersUsed /\ PlanWhole

\* A step that keeps the set of rows and moves parents only from planned to
\* closed, or to failed, keeps the plans whole.
LEMMA SameRowsKeepPlans ==
    ASSUME PlanInv, TypeOK', nextParent' = nextParent,
           DOMAIN parents' = DOMAIN parents, DOMAIN subs' = DOMAIN subs,
           \A p \in DOMAIN parents :
              \/ parents'[p].status = parents[p].status
              \/ parents[p].status = "Planned" /\ parents'[p].status = "Closed"
    PROVE  PlanInv'
BY DEF PlanInv, NumbersUsed, PlanWhole, SubsOf

\* What `gc` keeps is whole if what it is given has the rows of the table and
\* no parent has moved but to failed: it drops a parent with all its rows.
LEMMA GcKeepsPlans ==
    ASSUME PlanInv, TypeOK', nextParent' = nextParent,
           NEW ps, NEW ss, NEW at, NEW keepFor, Gc(ps, ss, at, keepFor),
           DOMAIN ps = DOMAIN parents, DOMAIN ss = DOMAIN subs,
           \A p \in DOMAIN ps : ps[p].status \in {parents[p].status, "Failed"}
    PROVE  PlanInv'
<1> DEFINE doomed == Doomed(ps, at, keepFor)
<1>1. /\ DOMAIN parents' = DOMAIN parents \ doomed
      /\ \A p \in DOMAIN parents' : parents'[p] = ps[p]
      /\ DOMAIN subs' = {id \in DOMAIN subs : id[1] \notin doomed}
  BY DEF Gc
<1> HIDE DEF doomed
<1>2. \A p \in DOMAIN parents' : SubsOf(p)' = SubsOf(p)
  BY <1>1 DEF SubsOf
<1>3. NumbersUsed' /\ \A id \in DOMAIN subs' : id[1] \in DOMAIN parents'
  BY <1>1 DEF PlanInv, NumbersUsed, PlanWhole
<1>4. \A p \in DOMAIN parents' :
         /\ parents'[p].status = "Open" => SubsOf(p)' = {}
         /\ parents'[p].status \in {"Planned", "Closed"} =>
               \E n \in 1..MaxSubtasks : SubsOf(p)' = {p} \X (1..n)
  BY <1>1, <1>2 DEF PlanInv, PlanWhole
<1> QED BY <1>3, <1>4 DEF PlanInv, PlanWhole

\* PlanInv holds initially and every step keeps it.
LEMMA PlanInit == Init => PlanInv
BY TypeInit DEF Init, PlanInv, NumbersUsed, PlanWhole

LEMMA PlanNext == PlanInv /\ [Next]_vars => PlanInv'
<1> SUFFICES ASSUME PlanInv, [Next]_vars PROVE PlanInv'
  OBVIOUS
<1>0. TypeOK /\ TypeOK'
  BY TypeNext DEF PlanInv
<1>1. ASSUME NEW who \in Accounts, Open(who) PROVE PlanInv'
  <2>1. /\ DOMAIN parents' = DOMAIN parents \cup {nextParent}
        /\ \A p \in DOMAIN parents : p # nextParent => parents'[p] = parents[p]
        /\ parents'[nextParent].status = "Open"
        /\ subs' = subs /\ nextParent' = nextParent + 1 /\ nextParent \in Nat
    BY <1>0, <1>1 DEF Open, OpenedRow, TypeOK
  <2>2. nextParent \notin DOMAIN parents /\ SubsOf(nextParent) = {}
    BY <1>0, <2>1 DEF PlanInv, NumbersUsed, PlanWhole, SubsOf, TypeOK
  <2>3. \A p : SubsOf(p)' = SubsOf(p)
    BY <2>1 DEF SubsOf
  <2>4. NumbersUsed'
    BY <1>0, <2>1 DEF PlanInv, NumbersUsed, TypeOK
  <2>5. PlanWhole'
    BY <2>1, <2>2, <2>3 DEF PlanInv, PlanWhole
  <2> QED BY <1>0, <2>4, <2>5 DEF PlanInv
<1>2. ASSUME NEW who \in Accounts, NEW p, NEW items \in Plans, Plan(who, p, items)
      PROVE  PlanInv'
  <2> DEFINE planned == {p} \X DOMAIN items
  <2>1. PICK n \in 1..MaxSubtasks : items \in [1..n -> Accounts]
    BY DEF Plans
  <2>2. p \in DOMAIN parents /\ SubsOf(p) = {}
    BY <1>2 DEF Plan, PlanInv, PlanWhole
  <2>3. DOMAIN subs' = DOMAIN subs \cup planned /\ planned = {p} \X (1..n)
    BY <1>2, <2>1 DEF Plan
  <2>4. \A q : SubsOf(q)' = IF q = p THEN {p} \X (1..n) ELSE SubsOf(q)
    BY <2>2, <2>3 DEF SubsOf
  <2>5. /\ DOMAIN parents' = DOMAIN parents /\ nextParent' = nextParent
        /\ \A q \in DOMAIN parents : q # p => parents'[q] = parents[q]
        /\ parents'[p].status = "Planned"
    BY <1>0, <1>2, <2>2 DEF Plan, PlannedRow, TypeOK
  <2>6. NumbersUsed' /\ \A id \in DOMAIN subs' : id[1] \in DOMAIN parents'
    BY <2>2, <2>3, <2>5 DEF PlanInv, NumbersUsed, PlanWhole
  <2>7. PlanWhole'
    BY <2>1, <2>4, <2>5, <2>6 DEF PlanInv, PlanWhole
  <2> QED BY <1>0, <2>6, <2>7 DEF PlanInv
<1>3. ASSUME NEW id \in DOMAIN subs, NEW row, UpdateSub(id, row),
             parents' = parents \/ RearmParent(id[1]), nextParent' = nextParent
      PROVE  PlanInv'
  <2>1. DOMAIN subs' = DOMAIN subs
    BY <1>0, <1>3 DEF UpdateSub, TypeOK
  <2>2. /\ DOMAIN parents' = DOMAIN parents
        /\ \A q \in DOMAIN parents : parents'[q].status = parents[q].status
    BY <1>3 DEF RearmParent, RearmedRow
  <2> QED BY <1>0, <1>3, <2>1, <2>2, SameRowsKeepPlans
<1>4. ASSUME NEW who \in Accounts, NEW id, Claim(who, id) PROVE PlanInv'
  BY <1>3, <1>4 DEF Claim
<1>5. ASSUME NEW who \in Accounts, NEW id, NEW o, Submit(who, id, o) PROVE PlanInv'
  BY <1>3, <1>5 DEF Submit
<1>6. ASSUME NEW who \in Accounts, NEW id, Clear(who, id) PROVE PlanInv'
  BY <1>3, <1>6 DEF Clear
<1>7. ASSUME NEW who \in Accounts, NEW id, Reopen(who, id) PROVE PlanInv'
  BY <1>3, <1>7 DEF Reopen
<1>8. ASSUME NEW who \in Accounts, NEW id, NEW to, Reassign(who, id, to)
      PROVE  PlanInv'
  BY <1>3, <1>8 DEF Reassign
<1>9. ASSUME NEW who \in Accounts, NEW p, CommitArtifact(who, p) PROVE PlanInv'
  <2>1. /\ DOMAIN parents' = DOMAIN parents
        /\ \A q \in DOMAIN parents :
              \/ parents'[q].status = parents[q].status
              \/ parents[q].status = "Planned" /\ parents'[q].status = "Closed"
    BY <1>0, <1>9 DEF CommitArtifact, Committed, ClosedRow, TypeOK
  <2> QED
    BY <1>0, <1>9, <2>1, SameRowsKeepPlans DEF CommitArtifact, Committed
<1>10. ASSUME NEW who \in Accounts, PublishNote(who) PROVE PlanInv'
  BY <1>0, <1>10, SameRowsKeepPlans DEF PublishNote
<1>11. ASSUME NEW caller \in Accounts, NEW who \in Accounts, SetLeader(caller, who)
       PROVE  PlanInv'
  BY <1>0, <1>11, SameRowsKeepPlans DEF SetLeader, RearmedRow
<1>12. ASSUME NEW who \in Accounts, ClearAll(who) PROVE PlanInv'
  <2> DEFINE ended == [p \in DOMAIN parents |->
                          IF parents[p].status \in Terminal THEN parents[p]
                          ELSE FailedRow(parents[p], now)]
  <2>1. \A p \in DOMAIN ended : ended[p].status \in {parents[p].status, "Failed"}
    BY DEF FailedRow
  <2>2. /\ Gc(ended, subs, now, 0) /\ DOMAIN ended = DOMAIN parents
        /\ nextParent' = nextParent
    BY <1>12 DEF ClearAll
  <2> HIDE DEF ended
  <2> QED BY <1>0, <2>1, <2>2, GcKeepsPlans
<1>13. ASSUME OpenBlock PROVE PlanInv'
  <2> DEFINE ps == TickedParents(now + 1)
             ss == TickedSubs(now + 1)
  <2>1. now + 1 \in Nat /\ \A p \in DOMAIN parents : parents[p] \in ParentRow
    BY <1>0 DEF TypeOK
  <2>2. \A p \in DOMAIN parents :
           TickedParent(p, parents[p], ss, now + 1).status
              \in {parents[p].status, "Failed"}
    <3> HIDE DEF ss
    <3> QED BY <2>1, TickedParentFacts
  <2>3. \A p \in DOMAIN ps : ps[p].status \in {parents[p].status, "Failed"}
    BY <2>2 DEF TickedParents
  <2>4. DOMAIN ps = DOMAIN parents /\ DOMAIN ss = DOMAIN subs
    BY DEF TickedParents, TickedSubs
  <2>5. Gc(ps, ss, now + 1, GcKeepFor) /\ nextParent' = nextParent
    BY <1>13 DEF OpenBlock
  <2> HIDE DEF ps, ss
  <2> QED BY <1>0, <2>3, <2>4, <2>5, GcKeepsPlans
<1>14. ASSUME UNCHANGED vars PROVE PlanInv'
  BY <1>0, <1>14, SameRowsKeepPlans DEF vars
<1> QED
  BY <1>1, <1>2, <1>4, <1>5, <1>6, <1>7, <1>8, <1>9, <1>10, <1>11, <1>12, <1>13,
     <1>14 DEF Next, ActOn

\* For every roster, timers and limits: the rows of a parent arrive together,
\* numbered without a gap, and none outlives its parent in a sweep.
THEOREM PlansAreWhole == Spec => []PlanWhole
<1>1. PlanInv => PlanWhole
  BY DEF PlanInv
<1> QED BY <1>1, PlanInit, PlanNext, PTL DEF Spec

-----------------------------------------------------------------------------
(* What a step does to a row. *)

\* The effects an act has on the row of a sub-task that is already there.
ActedOn(t, u, at) ==
    \/ u = t
    \/ /\ t.status = "Pending"
       /\ u = NudgedRow(ClaimedRow(t, t.assignee, at), MaxNudges, at)
    \/ \E who \in Accounts, o \in {"Done", "Failed"} :
          /\ \/ t.status = "InProgress" /\ t.holder = who
             \/ t.status = "Pending" /\ t.assignee = who
          /\ u = SubmittedRow(t, who, o)
    \/ t.status = "AwaitingClearance" /\ u = ClearedRow(t)
    \/ /\ t.status = "AwaitingClearance"
       /\ u = AssignedRow(ReopenedRow(t, at), t.assignee, at)
    \/ \E to \in Accounts :
          /\ t.status \in {"Pending", "AwaitingClearance"}
          /\ u = AssignedRow(RehomedRow(t, to, at), to, at)

\* Every step adds rows only as first offers, and changes a row that stays by
\* an act on it or by the tick.  A plan never meets a row that is there, for
\* an open parent has none.
LEMMA SubsNext ==
    ASSUME PlanInv, [Next]_vars
    PROVE  /\ \A id \in DOMAIN subs' \ DOMAIN subs :
                 \E who \in Accounts : subs'[id] = FirstOffer(who, now)
           /\ \/ /\ now' = now
                 /\ \A id \in DOMAIN subs \cap DOMAIN subs' :
                       ActedOn(subs[id], subs'[id], now)
              \/ /\ OpenBlock
                 /\ \A id \in DOMAIN subs' :
                       id \in DOMAIN subs /\ subs'[id] = TickedSub(subs[id], now + 1)
<1> DEFINE Goal == /\ \A id \in DOMAIN subs' \ DOMAIN subs :
                         \E who \in Accounts : subs'[id] = FirstOffer(who, now)
                   /\ now' = now
                   /\ \A id \in DOMAIN subs \cap DOMAIN subs' :
                         ActedOn(subs[id], subs'[id], now)
<1>0. TypeOK
  BY DEF PlanInv
<1>1. ASSUME NEW p, NEW who \in Accounts, NEW items \in Plans, Plan(who, p, items)
      PROVE  Goal
  <2> DEFINE planned == {p} \X DOMAIN items
  <2>1. PICK n \in 1..MaxSubtasks : items \in [1..n -> Accounts]
    BY DEF Plans
  <2>2. SubsOf(p) = {}
    BY <1>1 DEF Plan, PlanInv, PlanWhole
  <2>3. \A id \in planned : id \notin DOMAIN subs /\ items[id[2]] \in Accounts
    BY <2>1, <2>2 DEF SubsOf
  <2> HIDE DEF planned
  <2>4. subs' = [id \in DOMAIN subs \cup planned |->
                   IF id \notin planned THEN subs[id]
                   ELSE IF id \in DOMAIN subs
                        THEN AssignedRow(subs[id], items[id[2]], now)
                        ELSE FirstOffer(items[id[2]], now)]
    BY <1>1 DEF Plan, planned
  <2>5. now' = now
    BY <1>1 DEF Plan
  <2> HIDE DEF FirstOffer, AssignedRow
  <2> QED BY <2>3, <2>4, <2>5 DEF ActedOn
<1>2. ASSUME NEW id \in DOMAIN subs, NEW row, UpdateSub(id, row), now' = now,
             ActedOn(subs[id], row, now)
      PROVE  Goal
  <2>1. /\ DOMAIN subs' = DOMAIN subs /\ subs'[id] = row
        /\ \A i \in DOMAIN subs : i # id => subs'[i] = subs[i]
    BY <1>0, <1>2 DEF UpdateSub, TypeOK
  <2>2. \A i \in DOMAIN subs : i # id => ActedOn(subs[i], subs'[i], now)
    BY <2>1 DEF ActedOn
  <2> QED BY <1>2, <2>1, <2>2
<1>3. ASSUME NEW who \in Accounts, NEW id, Claim(who, id) PROVE Goal
  BY <1>2, <1>3 DEF Claim, ActedOn
<1>4. ASSUME NEW who \in Accounts, NEW id, NEW o \in {"Done", "Failed"},
             Submit(who, id, o)
      PROVE  Goal
  BY <1>2, <1>4 DEF Submit, ActedOn
<1>5. ASSUME NEW who \in Accounts, NEW id, Clear(who, id) PROVE Goal
  BY <1>2, <1>5 DEF Clear, ActedOn
<1>6. ASSUME NEW who \in Accounts, NEW id, Reopen(who, id) PROVE Goal
  BY <1>2, <1>6 DEF Reopen, ActedOn
<1>7. ASSUME NEW who \in Accounts, NEW id, NEW to \in Accounts, Reassign(who, id, to)
      PROVE  Goal
  BY <1>2, <1>7 DEF Reassign, ActedOn
<1>8. ASSUME NEW who \in Accounts, ClearAll(who) PROVE Goal
  BY <1>8 DEF ClearAll, Gc, ActedOn
<1>9. ASSUME subs' = subs, now' = now PROVE Goal
  BY <1>9 DEF ActedOn
<1>10. ASSUME OpenBlock
       PROVE  \A id \in DOMAIN subs' :
                 id \in DOMAIN subs /\ subs'[id] = TickedSub(subs[id], now + 1)
  BY <1>10 DEF OpenBlock, Gc, TickedSubs
<1>11. ASSUME NEW p, ActOn(p) PROVE Goal
  <2>1. CASE \E who \in Accounts : CommitArtifact(who, p)
    BY <1>9, <2>1 DEF CommitArtifact, Committed
  <2> QED BY <1>1, <1>3, <1>4, <1>5, <1>6, <1>7, <1>11, <2>1 DEF ActOn
<1>12. CASE OpenBlock
  BY <1>10, <1>12
<1>13. CASE \E who \in Accounts : Open(who)
  BY <1>9, <1>13 DEF Open
<1>14. CASE \E who \in Accounts : PublishNote(who)
  BY <1>9, <1>14 DEF PublishNote
<1>15. CASE \E caller, who \in Accounts : SetLeader(caller, who)
  BY <1>9, <1>15 DEF SetLeader
<1>16. CASE UNCHANGED vars
  BY <1>9, <1>16 DEF vars
<1> QED
  BY <1>8, <1>11, <1>12, <1>13, <1>14, <1>15, <1>16 DEF Next

\* The tick does one of five things to a row, each under its own guard.
LEMMA TickCases ==
    ASSUME NEW t \in SubRow, NEW at \in Nat
    PROVE  \/ /\ LeaseOver(t, at)
              /\ TickedSub(t, at) =
                    AssignedRow(LeaseExpiredRow(t, at), t.assignee, at)
           \/ /\ NagDue(t, at) /\ t.nudges < MaxNudges
              /\ TickedSub(t, at) = NudgedRow(t, MaxNudges - (t.nudges + 1), at)
           \/ /\ NagDue(t, at) /\ ~LeaseOver(t, at)
              /\ TickedSub(t, at) = BudgetSpentRow(t)
           \/ /\ OfferStale(t, at)
              /\ TickedSub(t, at) = AssignedRow(UnclaimedRow(t, at), t.assignee, at)
           \/ TickedSub(t, at) = t
<1>1. t.nudges \in Nat /\ MaxNudges \in Nat
  BY TimersAssumption DEF SubRow, TimersAssumption
<1>2. CASE LeaseOver(t, at)
  BY <1>2 DEF TickedSub, LeaseOver, OfferStale
<1>3. CASE ~LeaseOver(t, at) /\ NagDue(t, at) /\ t.nudges < MaxNudges
  BY <1>1, <1>3 DEF TickedSub, NagDue, OfferStale
<1>4. CASE ~LeaseOver(t, at) /\ NagDue(t, at) /\ ~(t.nudges < MaxNudges)
  <2>1. ~OfferStale(t, at)
    BY <1>4 DEF NagDue, OfferStale
  <2>2. t.nudges >= MaxNudges
    BY <1>1, <1>4
  <2> HIDE DEF LeaseOver, NagDue, OfferStale, BudgetSpentRow, AssignedRow, NudgedRow
  <2> QED BY <1>4, <2>1, <2>2 DEF TickedSub
<1>5. CASE ~LeaseOver(t, at) /\ ~NagDue(t, at)
  BY <1>5 DEF TickedSub
<1> QED BY <1>2, <1>3, <1>4, <1>5

-----------------------------------------------------------------------------
(* Rows stay coherent and within their budgets. *)

\* RowsCoherent and BudgetsRespected, of one row.
CoherentRow(t) ==
    /\ t.status = "Pending" =>
          /\ t.offeredAt # None /\ t.leaseUntil = None /\ t.nextNag = None
          /\ t.holder = None /\ t.outcome = None
    /\ t.status = "InProgress" =>
          /\ t.holder = t.assignee /\ t.outcome = None
          /\ t.leaseUntil # None /\ t.offeredAt = None
          /\ t.announced <=> t.nextNag = None
    /\ t.status \in {"AwaitingClearance", "Cleared"} =>
          /\ t.holder = t.assignee /\ t.outcome # None
          /\ t.leaseUntil = None /\ t.nextNag = None

ThriftyRow(t) == t.nudges <= MaxNudges /\ t.reoffers <= MaxReoffers

SoundRow(t) == CoherentRow(t) /\ ThriftyRow(t)

\* A first offer is sound.
LEMMA FirstOfferSound ==
    ASSUME NEW who \in Accounts, NEW at \in Nat
    PROVE  SoundRow(FirstOffer(who, at))
BY AccountsAssumption, TimersAssumption
   DEF AccountsAssumption, TimersAssumption, SoundRow, CoherentRow, ThriftyRow,
       FirstOffer

\* Every act on a sound row leaves a sound row.
LEMMA ActsKeepSound ==
    ASSUME NEW t \in SubRow, SoundRow(t), NEW at \in Nat, NEW u, ActedOn(t, u, at)
    PROVE  SoundRow(u)
<1> USE AccountsAssumption, TimersAssumption
    DEF AccountsAssumption, TimersAssumption, SubRow, Blocks, SoundRow, CoherentRow,
        ThriftyRow
<1>1. CASE u = t
  BY <1>1
<1>2. CASE /\ t.status = "Pending"
           /\ u = NudgedRow(ClaimedRow(t, t.assignee, at), MaxNudges, at)
  BY <1>2 DEF NudgedRow, ClaimedRow
<1>3. ASSUME NEW who \in Accounts, NEW o \in {"Done", "Failed"},
             \/ t.status = "InProgress" /\ t.holder = who
             \/ t.status = "Pending" /\ t.assignee = who,
             u = SubmittedRow(t, who, o)
      PROVE  SoundRow(u)
  <2>1. o # None
    OBVIOUS
  <2>2. who = t.assignee
    BY <1>3
  <2>3. CoherentRow(u)
    BY <1>3, <2>1, <2>2 DEF SubmittedRow
  <2>4. ThriftyRow(u)
    BY <1>3 DEF SubmittedRow
  <2> QED BY <2>3, <2>4
<1>4. CASE t.status = "AwaitingClearance" /\ u = ClearedRow(t)
  BY <1>4 DEF ClearedRow
<1>5. CASE /\ t.status = "AwaitingClearance"
           /\ u = AssignedRow(ReopenedRow(t, at), t.assignee, at)
  BY <1>5 DEF AssignedRow, ReopenedRow
<1>6. ASSUME NEW to \in Accounts, u = AssignedRow(RehomedRow(t, to, at), to, at)
      PROVE  SoundRow(u)
  BY <1>6 DEF AssignedRow, RehomedRow
<1> QED BY <1>1, <1>2, <1>3, <1>4, <1>5, <1>6 DEF ActedOn

\* The tick leaves a sound row sound, a result as it is, and a holder until the
\* lease is over.
LEMMA TickKeepsSound ==
    ASSUME NEW t \in SubRow, SoundRow(t), NEW at \in Nat
    PROVE  /\ SoundRow(TickedSub(t, at))
           /\ t.outcome # None => TickedSub(t, at) = t
           /\ t.status = "InProgress" =>
                 \/ TickedSub(t, at).holder = t.holder
                 \/ at >= t.leaseUntil
<1> USE AccountsAssumption, TimersAssumption
    DEF AccountsAssumption, TimersAssumption, SubRow, Blocks, SoundRow, CoherentRow,
        ThriftyRow
<1> DEFINE u == TickedSub(t, at)
<1>1. CASE LeaseOver(t, at) /\ u = AssignedRow(LeaseExpiredRow(t, at), t.assignee, at)
  BY <1>1 DEF LeaseOver, LeaseExpiredRow, AssignedRow
<1>2. CASE /\ NagDue(t, at) /\ t.nudges < MaxNudges
           /\ u = NudgedRow(t, MaxNudges - (t.nudges + 1), at)
  BY <1>2 DEF NagDue, NudgedRow
<1>3. CASE NagDue(t, at) /\ ~LeaseOver(t, at) /\ u = BudgetSpentRow(t)
  BY <1>3 DEF NagDue, BudgetSpentRow
<1>4. CASE OfferStale(t, at) /\ u = AssignedRow(UnclaimedRow(t, at), t.assignee, at)
  BY <1>4 DEF OfferStale, AssignedRow, UnclaimedRow
<1>5. CASE u = t
  BY <1>5
<1> HIDE DEF u, SoundRow, CoherentRow
<1> QED BY <1>1, <1>2, <1>3, <1>4, <1>5, TickCases DEF u

\* The inductive invariant: whole plans, sound rows, and directives within
\* their budget.
RowInv ==
    /\ PlanInv
    /\ \A id \in DOMAIN subs : SoundRow(subs[id])
    /\ \A p \in DOMAIN parents : parents[p].directiveNudges <= MaxDirectiveNudges

\* Every step keeps the directives within their budget: the tick repeats one
\* only while the budget lasts, and every other step resets or keeps the count.
LEMMA DirectivesNext ==
    ASSUME TypeOK,
           \A p \in DOMAIN parents : parents[p].directiveNudges <= MaxDirectiveNudges,
           [Next]_vars
    PROVE  \A p \in DOMAIN parents' :
              parents'[p].directiveNudges <= MaxDirectiveNudges
<1> USE TimersAssumption DEF TypeOK, TimersAssumption, ParentRow
<1> DEFINE Goal == \A p \in DOMAIN parents' :
                      parents'[p].directiveNudges <= MaxDirectiveNudges
<1>1. ASSUME NEW id, RearmParent(id[1]) PROVE Goal
  BY <1>1 DEF RearmParent, RearmedRow
<1>2. ASSUME NEW p, ActOn(p) PROVE Goal
  <2>1. CASE \E who \in Accounts, items \in Plans : Plan(who, p, items)
    BY <2>1 DEF Plan, PlannedRow
  <2>2. CASE \E who \in Accounts, id \in SubsOf(p) : Claim(who, id)
    BY <2>2 DEF Claim
  <2>3. CASE \E who \in Accounts, id \in SubsOf(p), o \in {"Done", "Failed"} :
                Submit(who, id, o)
    BY <1>1, <2>3 DEF Submit
  <2>4. CASE \E who \in Accounts, id \in SubsOf(p) : Clear(who, id)
    BY <1>1, <2>4 DEF Clear
  <2>5. CASE \E who \in Accounts, id \in SubsOf(p) : Reopen(who, id)
    BY <2>5 DEF Reopen
  <2>6. CASE \E who \in Accounts, id \in SubsOf(p), to \in Accounts :
                Reassign(who, id, to)
    BY <2>6 DEF Reassign
  <2>7. CASE \E who \in Accounts : CommitArtifact(who, p)
    BY <2>7 DEF CommitArtifact, Committed, ClosedRow
  <2> QED BY <1>2, <2>1, <2>2, <2>3, <2>4, <2>5, <2>6, <2>7 DEF ActOn
<1>3. CASE \E who \in Accounts : Open(who)
  BY <1>3 DEF Open, OpenedRow
<1>4. CASE \E who \in Accounts : PublishNote(who)
  BY <1>4 DEF PublishNote
<1>5. CASE \E caller, who \in Accounts : SetLeader(caller, who)
  BY <1>5 DEF SetLeader, RearmedRow
<1>6. CASE \E who \in Accounts : ClearAll(who)
  BY <1>6 DEF ClearAll, Gc, FailedRow
<1>7. CASE OpenBlock
  <2>1. \A p \in DOMAIN parents' :
           p \in DOMAIN parents /\ parents'[p] = TickedParents(now + 1)[p]
    BY <1>7 DEF OpenBlock, Gc, TickedParents
  <2>2. \A p \in DOMAIN parents :
           TickedParent(p, parents[p], TickedSubs(now + 1), now + 1).directiveNudges
              <= MaxDirectiveNudges
    <3> HIDE DEF DirectiveDue, TickedSubs
    <3> QED BY DEF TickedParent, FailedRow, DirectedRow
  <2> QED BY <2>1, <2>2 DEF TickedParents
<1>8. CASE UNCHANGED vars
  BY <1>8 DEF vars
<1> QED BY <1>2, <1>3, <1>4, <1>5, <1>6, <1>7, <1>8 DEF Next

\* RowInv holds initially and every step keeps it.
LEMMA RowInit == Init => RowInv
BY PlanInit DEF Init, RowInv

LEMMA RowNext == RowInv /\ [Next]_vars => RowInv'
<1> SUFFICES ASSUME RowInv, [Next]_vars PROVE RowInv'
  OBVIOUS
<1>1. PlanInv /\ PlanInv' /\ TypeOK
  BY PlanNext DEF RowInv, PlanInv
<1>2. \A id \in DOMAIN subs : subs[id] \in SubRow /\ SoundRow(subs[id])
  BY <1>1 DEF RowInv, TypeOK
<1>3. now \in Nat /\ now + 1 \in Nat
  BY <1>1 DEF TypeOK
<1>4. \A id \in DOMAIN subs' : SoundRow(subs'[id])
  BY <1>1, <1>2, <1>3, SubsNext, FirstOfferSound, ActsKeepSound, TickKeepsSound
<1>5. \A p \in DOMAIN parents' : parents'[p].directiveNudges <= MaxDirectiveNudges
  BY <1>1, DirectivesNext DEF RowInv
<1> QED BY <1>1, <1>4, <1>5 DEF RowInv

\* For every roster, timers and limits: whatever acts and blocks interleave, a
\* row is in one of the states that some clock or somebody moves on.
THEOREM RowsAreCoherent == Spec => []RowsCoherent
<1>1. RowInv => RowsCoherent
  BY DEF RowInv, SoundRow, CoherentRow, RowsCoherent
<1> QED BY <1>1, RowInit, RowNext, PTL DEF Spec

\* For every roster, timers and limits: no nudge, re-offer or directive is sent
\* once more than its budget allows.
THEOREM NagsAreBounded == Spec => []BudgetsRespected
<1>1. RowInv => BudgetsRespected
  BY DEF RowInv, SoundRow, ThriftyRow, BudgetsRespected
<1> QED BY <1>1, RowInit, RowNext, PTL DEF Spec

-----------------------------------------------------------------------------
(* What a step may never do. *)

\* Every step keeps the leases that are not over.
LEMMA StepKeepsLeases == RowInv /\ [Next]_vars => KeepsLeases
<1> SUFFICES ASSUME RowInv, [Next]_vars,
                    NEW id \in DOMAIN subs \cap DOMAIN subs',
                    subs[id].status = "InProgress"
             PROVE  subs'[id].holder = subs[id].holder \/ now' >= subs[id].leaseUntil
  BY DEF KeepsLeases
<1>1. /\ PlanInv /\ subs[id] \in SubRow /\ SoundRow(subs[id])
      /\ now \in Nat /\ now + 1 \in Nat
  BY DEF RowInv, PlanInv, TypeOK
<1>2. CASE ActedOn(subs[id], subs'[id], now)
  <2>1. \A who, o : SubmittedRow(subs[id], who, o).holder = who
    BY DEF SubmittedRow
  <2> QED BY <1>2, <2>1 DEF ActedOn
<1>3. CASE OpenBlock /\ subs'[id] = TickedSub(subs[id], now + 1)
  <2>1. now' = now + 1
    BY <1>3 DEF OpenBlock
  <2> QED BY <1>1, <1>3, <2>1, TickKeepsSound
<1> QED BY <1>1, <1>2, <1>3, SubsNext

\* For every roster, timers and limits: a claim cannot be taken from its holder
\* before the lease is over.
THEOREM LeasesHold == Spec => LeaseHolds
<1>1. RowInv /\ [Next]_vars => [KeepsLeases]_vars
  BY StepKeepsLeases
<1> QED BY <1>1, RowInit, RowNext, PTL DEF Spec, LeaseHolds

\* A parent's row after the tick, and what the sweep may then collect at once.
LEMMA TickedParentAge ==
    ASSUME NEW p, NEW row \in ParentRow, NEW ss, NEW at \in Nat,
           LET q == TickedParent(p, row, ss, at) IN
              /\ q.status \in Terminal
              /\ at - (IF q.closedAt = None THEN at ELSE q.closedAt) >= GcKeepFor
    PROVE  row.status \in Terminal \/ GcKeepFor = 0
<1>1. GcKeepFor \in Nat /\ at - at = 0
  BY TimersAssumption DEF TimersAssumption
<1>2. CASE TickedParent(p, row, ss, at) = row
  BY <1>2
<1>3. CASE TickedParent(p, row, ss, at) = FailedRow(row, at)
  BY <1>1, <1>3 DEF FailedRow
<1>4. CASE TickedParent(p, row, ss, at) = DirectedRow(row, at)
  BY <1>4 DEF DirectedRow
<1> QED BY <1>2, <1>3, <1>4 DEF TickedParent

\* A step that opens a block loses no result before its parent is collected.
LEMMA StepKeepsResults == RowInv /\ [Next]_vars => KeepsResults
<1> SUFFICES ASSUME RowInv, [Next]_vars, now' # now PROVE KeepsResults
  BY DEF KeepsResults
<1>1. PlanInv /\ TypeOK /\ now + 1 \in Nat
  BY DEF RowInv, PlanInv, TypeOK
<1>2. /\ OpenBlock
      /\ \A id \in DOMAIN subs' :
            id \in DOMAIN subs /\ subs'[id] = TickedSub(subs[id], now + 1)
  BY <1>1, SubsNext
<1> DEFINE ps == TickedParents(now + 1)
           doomed == Doomed(ps, now + 1, GcKeepFor)
<1>3. /\ DOMAIN parents' = DOMAIN parents \ doomed
      /\ DOMAIN subs' = {id \in DOMAIN subs : id[1] \notin doomed}
  <2>1. DOMAIN ps = DOMAIN parents /\ DOMAIN TickedSubs(now + 1) = DOMAIN subs
    BY DEF TickedParents, TickedSubs
  <2>2. Gc(ps, TickedSubs(now + 1), now + 1, GcKeepFor)
    BY <1>2 DEF OpenBlock
  <2> HIDE DEF ps
  <2> QED BY <2>1, <2>2 DEF Gc
<1>4. ASSUME NEW id \in DOMAIN subs, subs[id].outcome # None
      PROVE  \/ id \in DOMAIN subs' /\ subs'[id] = subs[id]
             \/ id \notin DOMAIN subs' /\ id[1] \notin DOMAIN parents'
  <2>1. subs[id] \in SubRow /\ SoundRow(subs[id])
    BY <1>1 DEF RowInv, TypeOK
  <2>2. TickedSub(subs[id], now + 1) = subs[id]
    BY <1>1, <1>4, <2>1, TickKeepsSound
  <2> HIDE DEF doomed
  <2> QED BY <1>2, <1>3, <2>2
<1>5. ASSUME NEW p \in DOMAIN parents \ DOMAIN parents'
      PROVE  parents[p].status \in Terminal \/ GcKeepFor = 0
  <2>1. p \in doomed /\ parents[p] \in ParentRow
    BY <1>1, <1>3 DEF TypeOK
  <2>2. ps[p] = TickedParent(p, parents[p], TickedSubs(now + 1), now + 1)
    BY DEF TickedParents
  <2> HIDE DEF ps
  <2> QED BY <1>1, <2>1, <2>2, TickedParentAge DEF Doomed
<1> QED BY <1>4, <1>5 DEF KeepsResults

\* For every roster, timers and limits: blocks alone never lose a submitted
\* result or a clearance while its parent stands.
THEOREM TimeKeepsAllResults == Spec => TimeKeepsResults
<1>1. RowInv /\ [Next]_vars => [KeepsResults]_vars
  BY StepKeepsResults
<1> QED BY <1>1, RowInit, RowNext, PTL DEF Spec, TimeKeepsResults

\* A step that keeps the statuses and ends of the parents it keeps, and opens
\* none, keeps what has ended.
LEMMA NoOpeningKeepsEnds ==
    ASSUME TypeOK, nextParent' = nextParent, artifacts \subseteq artifacts',
           DOMAIN parents' \subseteq DOMAIN parents,
           \A p \in DOMAIN parents' : parents[p].status \in Terminal =>
              /\ parents'[p].status = parents[p].status
              /\ parents'[p].closedAt = parents[p].closedAt
    PROVE  KeepsEnds
BY DEF KeepsEnds, TypeOK

\* Every step keeps what has ended.
LEMMA StepKeepsEnds == PlanInv /\ [Next]_vars => KeepsEnds
<1> SUFFICES ASSUME PlanInv, [Next]_vars PROVE KeepsEnds
  OBVIOUS
<1>0. TypeOK
  BY DEF PlanInv
<1>1. ASSUME NEW id, RearmParent(id[1]) \/ parents' = parents,
             artifacts' = artifacts, nextParent' = nextParent
      PROVE  KeepsEnds
  BY <1>0, <1>1, NoOpeningKeepsEnds DEF RearmParent, RearmedRow
<1>2. ASSUME NEW p, ActOn(p) PROVE KeepsEnds
  <2>1. CASE \E who \in Accounts, items \in Plans : Plan(who, p, items)
    BY <1>0, <2>1, NoOpeningKeepsEnds DEF Plan, Terminal
  <2>2. CASE \E who \in Accounts, id \in SubsOf(p) : Claim(who, id)
    BY <1>1, <2>2 DEF Claim
  <2>3. CASE \E who \in Accounts, id \in SubsOf(p), o \in {"Done", "Failed"} :
                Submit(who, id, o)
    BY <1>1, <2>3 DEF Submit
  <2>4. CASE \E who \in Accounts, id \in SubsOf(p) : Clear(who, id)
    BY <1>1, <2>4 DEF Clear
  <2>5. CASE \E who \in Accounts, id \in SubsOf(p) : Reopen(who, id)
    BY <1>1, <2>5 DEF Reopen
  <2>6. CASE \E who \in Accounts, id \in SubsOf(p), to \in Accounts :
                Reassign(who, id, to)
    BY <1>1, <2>6 DEF Reassign
  <2>7. CASE \E who \in Accounts : CommitArtifact(who, p)
    BY <1>0, <2>7, NoOpeningKeepsEnds DEF CommitArtifact, Committed, Terminal
  <2> QED BY <1>2, <2>1, <2>2, <2>3, <2>4, <2>5, <2>6, <2>7 DEF ActOn
<1>3. ASSUME NEW who \in Accounts, Open(who) PROVE KeepsEnds
  <2>1. /\ DOMAIN parents' = DOMAIN parents \cup {nextParent}
        /\ \A p \in DOMAIN parents : p # nextParent => parents'[p] = parents[p]
        /\ nextParent \in Nat /\ nextParent' = nextParent + 1
        /\ artifacts' = artifacts
    BY <1>0, <1>3 DEF Open, TypeOK
  <2>2. nextParent \notin DOMAIN parents
    BY <2>1 DEF PlanInv, NumbersUsed
  <2> QED BY <2>1, <2>2 DEF KeepsEnds
<1>4. CASE \E who \in Accounts : PublishNote(who)
  BY <1>1, <1>4 DEF PublishNote
<1>5. CASE \E caller, who \in Accounts : SetLeader(caller, who)
  BY <1>0, <1>5, NoOpeningKeepsEnds DEF SetLeader, RearmedRow
<1>6. CASE \E who \in Accounts : ClearAll(who)
  BY <1>0, <1>6, NoOpeningKeepsEnds DEF ClearAll, Gc
<1>7. CASE OpenBlock
  <2>1. \A p \in DOMAIN parents' :
           p \in DOMAIN parents /\ parents'[p] = TickedParents(now + 1)[p]
    BY <1>7 DEF OpenBlock, Gc, TickedParents
  <2>2. \A p \in DOMAIN parents' : parents[p].status \in Terminal =>
           parents'[p] = parents[p]
    <3>1. now + 1 \in Nat /\ \A p \in DOMAIN parents : parents[p] \in ParentRow
      BY <1>0 DEF TypeOK
    <3>2. \A p \in DOMAIN parents : parents[p].status \in Terminal =>
             TickedParent(p, parents[p], TickedSubs(now + 1), now + 1) = parents[p]
      BY <3>1, TickedParentFacts
    <3> QED BY <2>1, <3>2 DEF TickedParents
  <2>3. artifacts' = artifacts /\ nextParent' = nextParent
    BY <1>7 DEF OpenBlock
  <2> QED BY <1>0, <2>1, <2>2, <2>3, NoOpeningKeepsEnds
<1>8. CASE UNCHANGED vars
  BY <1>0, <1>8, NoOpeningKeepsEnds DEF vars
<1> QED BY <1>2, <1>3, <1>4, <1>5, <1>6, <1>7, <1>8 DEF Next

\* For every roster, timers and limits: an ended parent stays ended as it is, a
\* number is never handed out twice, and an artifact is never lost.
THEOREM EndsAreForGood == Spec => EndsForGood
<1>1. PlanInv /\ [Next]_vars => [KeepsEnds]_vars
  BY StepKeepsEnds
<1> QED BY <1>1, PlanInit, PlanNext, PTL DEF Spec, EndsForGood

=============================================================================
