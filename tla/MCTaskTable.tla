---------------------------- MODULE MCTaskTable ----------------------------
(***************************************************************************)
(* TaskTable for TLC, with a history of acts: how long ago anybody touched *)
(* a parent.                                                               *)
(***************************************************************************)
EXTENDS TaskTable, FiniteSetsExt, TLC

CONSTANT
    SecondFrom  \* bound on the model: the block from which a second task is opened

VARIABLE
    touched     \* per parent number: the block of the last act on it

mcVars == <<vars, touched>>

MCInit == Init /\ touched = [p \in 1..MaxParents |-> 0]

MCNext ==
    \/ /\ nextParent = 1 \/ now >= SecondFrom
       /\ \E who \in Accounts : Open(who)
       /\ touched' = [touched EXCEPT ![nextParent] = now]
    \/ \E p \in ParentNumbers : ActOn(p) /\ touched' = [touched EXCEPT ![p] = now]
    \/ /\ \E caller, who \in Accounts : SetLeader(caller, who)
       /\ touched' = [p \in 1..MaxParents |-> now]
    \/ /\ \/ \E who \in Accounts : PublishNote(who) \/ ClearAll(who)
          \/ OpenBlock
       /\ UNCHANGED touched

MCSpec == MCInit /\ [][MCNext]_mcVars

\* How long a task nobody touches can take: its lease, the re-offers after it
\* and the directives after those.
SettleWithin ==
    Max({Lease + ClaimWindow * MaxReoffers, DirectiveNag})
        + DirectiveNag * MaxDirectiveNudges

\* Law I of the tick, "bounded and eternal": an agent that goes silent costs
\* the table nothing.  With a leader installed, a parent that nobody touches
\* for SettleWithin blocks has ended or is collected, whatever its sub-tasks
\* were doing and whatever happens to other parents.
SilenceSettles ==
    \A p \in DOMAIN parents :
        leader # None /\ now - touched[p] >= SettleWithin
            => parents[p].status \in Terminal

Workers == Permutations(Accounts \ {Root})

=============================================================================
