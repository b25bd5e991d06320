---------------------------- MODULE Subsequences ----------------------------
(***************************************************************************)
(* The subsequence of a sequence whose entries are in a set, stated by     *)
(* positions: what SelectSeq computes by recursion, in a form that can be  *)
(* reasoned about.                                                         *)
(***************************************************************************)
EXTENDS Integers, Sequences, FiniteSets

\* The position of the k-th element of a set of numbers, by rank.
Rank(P, i) == Cardinality({j \in P : j <= i})
Nth(P, k) == CHOOSE i \in P : Rank(P, i) = k

Positions(s, S) == {i \in DOMAIN s : s[i] \in S}

Only(s, S) == [k \in 1..Cardinality(Positions(s, S)) |-> s[Nth(Positions(s, S), k)]]

=============================================================================
