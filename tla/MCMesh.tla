------------------------------- MODULE MCMesh -------------------------------
(***************************************************************************)
(* Mesh for TLC.                                                           *)
(***************************************************************************)
EXTENDS Mesh

\* All members are listed everywhere, each on its own host included: one peers
\* list can be copied to every host.
AllAsPeers == [n \in Nodes |-> Members]

\* Empty stores.
FirstBoot ==
    [n \in Nodes |-> [hard |-> [term |-> 0, votedFor |-> None, headTerm |-> 0],
                      head |-> 0]]

\* One node led term 1 and went on producing for itself; the others then
\* elected a leader for term 2 and have one block of its.
CONSTANTS Old, New

AfterPartition ==
    [n \in Nodes |->
        [hard |-> [term |-> 2, votedFor |-> IF n = Old THEN None ELSE New,
                   headTerm |-> IF n = Old THEN 1 ELSE 2],
         head |-> IF n = Old THEN 2 ELSE 1]]

\* What the old leader said while it led is still on its way.
OldLeadersWord == {[name |-> Old, term |-> 1, leads |-> TRUE, follows |-> None]}

\* The old leader lists the others only, and they all members.
MixedPeers == [n \in Nodes |-> IF n = Old THEN Members \ {n} ELSE Members]

=============================================================================
