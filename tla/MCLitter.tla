------------------------------ MODULE MCLitter ------------------------------
(* An instance of Litter for TLC: long histories of patrons, and shorter   *)
(* ones of everything at once.  Strangers are alike, and so are free names.*)
EXTENDS Litter, TLC

MCBudgets == {[patron |-> 6, other |-> 0], [patron |-> 2, other |-> 2], [patron |-> 0, other |-> 4]}

Alike == Permutations(Strangers) \cup Permutations(Names \ Taken)

=============================================================================
