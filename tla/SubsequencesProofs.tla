------------------------- MODULE SubsequencesProofs -------------------------
(***************************************************************************)
(* Lemmas about Subsequences!Only, about sequences, and about how many     *)
(* entries of a log are of a block; and the two facts about numbers they   *)
(* rest on: a set of numbers has a least element, and a set that holds 0   *)
(* and every successor is all of Nat (induction, with the property as a    *)
(* set).                                                                   *)
(***************************************************************************)
EXTENDS Subsequences, Functions, FiniteSetTheorems, WellFoundedInduction, TLAPS

LEMMA LeastNumber ==
    ASSUME NEW T \in SUBSET Nat, T # {}
    PROVE  \E x \in T : \A y \in T : x <= y
<1>1. \E x \in T : \A y \in T : ~ (<<y, x>> \in OpToRel(<, Nat))
  BY NatLessThanWellFounded, WFMin
<1>2. PICK x \in T : \A y \in T : ~ (<<y, x>> \in OpToRel(<, Nat))
  BY <1>1
<1>3. ASSUME NEW y \in T PROVE x <= y
  <2>1. x \in Nat /\ y \in Nat
    OBVIOUS
  <2>2. ~(y < x)
    BY <1>2, <2>1 DEF OpToRel
  <2> QED BY <2>1, <2>2
<1> QED BY <1>3

LEMMA InductionBySet ==
    ASSUME NEW T, 0 \in T, \A n \in Nat : n \in T => n + 1 \in T
    PROVE  Nat \subseteq T
<1>1. SUFFICES ASSUME Nat \ T # {} PROVE FALSE
  OBVIOUS
<1>2. PICK x \in Nat \ T : \A y \in Nat \ T : x <= y
  BY <1>1, LeastNumber
<1>3. x # 0 /\ x - 1 \in Nat
  OBVIOUS
<1>4. x - 1 \in T
  BY <1>2, <1>3
<1> QED BY <1>3, <1>4

-----------------------------------------------------------------------------
(* Ranks: the k-th element of a finite set of positions.                   *)

LEMMA RanksAreNumbers ==
    ASSUME NEW n \in Nat, NEW P \in SUBSET (1..n), NEW i \in Nat
    PROVE  /\ IsFiniteSet(P) /\ Cardinality(P) \in Nat
           /\ IsFiniteSet({j \in P : j <= i})
           /\ Rank(P, i) \in 0..Cardinality(P)
<1>0. IsFiniteSet(1..n)
  BY FS_Interval
<1>1. IsFiniteSet(P)
  BY <1>0, FS_Subset
<1>2. {j \in P : j <= i} \in SUBSET P
  OBVIOUS
<1>3. /\ IsFiniteSet({j \in P : j <= i})
      /\ Cardinality({j \in P : j <= i}) <= Cardinality(P)
  BY <1>1, <1>2, FS_Subset
<1>4. Cardinality(P) \in Nat /\ Cardinality({j \in P : j <= i}) \in Nat
  BY <1>1, <1>3, FS_CardinalityType
<1> QED BY <1>1, <1>3, <1>4 DEF Rank

\* An element adds one to the rank; what is no element adds nothing.
LEMMA RankSteps ==
    ASSUME NEW n \in Nat, NEW P \in SUBSET (1..n), NEW i \in 1..n
    PROVE  Rank(P, i) = IF i \in P THEN Rank(P, i - 1) + 1 ELSE Rank(P, i - 1)
<1>1. i - 1 \in Nat /\ i \in Nat
  OBVIOUS
<1>2. IsFiniteSet({j \in P : j <= i - 1})
  BY <1>1, RanksAreNumbers
<1>3. CASE i \in P
  <2>1. {j \in P : j <= i} = {j \in P : j <= i - 1} \cup {i}
    <3>1. \A j \in P : j \in Nat /\ (j <= i <=> j <= i - 1 \/ j = i)
      OBVIOUS
    <3> QED BY <1>3, <3>1
  <2>2. i \notin {j \in P : j <= i - 1}
    OBVIOUS
  <2> QED BY <1>2, <1>3, <2>1, <2>2, FS_AddElement DEF Rank
<1>4. CASE i \notin P
  <2>1. {j \in P : j <= i} = {j \in P : j <= i - 1}
    <3>1. \A j \in P : j \in Nat /\ j # i
      BY <1>4
    <3>2. \A j \in P : j <= i <=> j <= i - 1
      BY <3>1
    <3> QED BY <3>2
  <2> QED BY <1>4, <2>1 DEF Rank
<1> QED BY <1>3, <1>4

LEMMA RanksGrow ==
    ASSUME NEW n \in Nat, NEW P \in SUBSET (1..n), NEW i \in Nat, NEW k \in P, i < k
    PROVE  Rank(P, i) < Rank(P, k)
<1>1. k \in Nat /\ \A j \in P : j \in Nat
  OBVIOUS
<1>2. IsFiniteSet({j \in P : j <= k}) /\ IsFiniteSet({j \in P : j <= i})
  BY <1>1, RanksAreNumbers
<1>3. {j \in P : j <= i} \in SUBSET {j \in P : j <= k}
  <2>1. \A j \in P : j <= i => j <= k
    BY <1>1
  <2> QED BY <2>1
<1>4. k \in {j \in P : j <= k} /\ k \notin {j \in P : j <= i}
  OBVIOUS
<1>5. /\ Cardinality({j \in P : j <= i}) <= Cardinality({j \in P : j <= k})
      /\ Cardinality({j \in P : j <= i}) # Cardinality({j \in P : j <= k})
  BY <1>2, <1>3, <1>4, FS_Subset
<1>6. Cardinality({j \in P : j <= i}) \in Nat /\ Cardinality({j \in P : j <= k}) \in Nat
  BY <1>2, FS_CardinalityType
<1> QED BY <1>5, <1>6 DEF Rank

\* Every rank up to the size of the set is that of one element.
LEMMA NthIsThere ==
    ASSUME NEW n \in Nat, NEW P \in SUBSET (1..n), NEW k \in 1..Cardinality(P)
    PROVE  Nth(P, k) \in P /\ Rank(P, Nth(P, k)) = k
<1> DEFINE T == {i \in 0..n : Rank(P, i) >= k}
<1>0. n \in Nat /\ Cardinality(P) \in Nat
  BY RanksAreNumbers
<1>1. n \in T
  <2>1. {j \in P : j <= n} = P
    <3>1. \A j \in P : j <= n
      OBVIOUS
    <3> QED BY <3>1
  <2> QED BY <1>0, <2>1 DEF Rank
<1>2. PICK x \in T : \A y \in T : x <= y
  <2>1. T \in SUBSET Nat /\ T # {}
    BY <1>1
  <2> HIDE DEF T
  <2> QED BY <2>1, LeastNumber
<1>3. x # 0
  <2>1. {j \in P : j <= 0} = {}
    <3>1. \A j \in P : ~(j <= 0)
      OBVIOUS
    <3> QED BY <3>1
  <2>2. Rank(P, 0) = 0
    BY <2>1, FS_EmptySet DEF Rank
  <2> QED BY <2>2, <1>0
<1>4. x \in 1..n /\ x - 1 \in 0..n /\ x - 1 \notin T
  BY <1>2, <1>3
<1>5. ~(Rank(P, x - 1) >= k) /\ Rank(P, x) >= k
  BY <1>4
<1>6. Rank(P, x - 1) \in Nat /\ Rank(P, x) \in Nat
  <2>1. \A i \in Nat : Rank(P, i) \in 0..Cardinality(P)
    BY RanksAreNumbers
  <2>2. x \in Nat /\ x - 1 \in Nat
    BY <1>4
  <2> QED BY <1>0, <2>1, <2>2
<1>7. x \in P /\ Rank(P, x) = k
  BY <1>0, <1>4, <1>5, <1>6, RankSteps
<1> QED BY <1>7 DEF Nth

LEMMA NthOfRank ==
    ASSUME NEW n \in Nat, NEW P \in SUBSET (1..n), NEW i \in P
    PROVE  Rank(P, i) \in 1..Cardinality(P) /\ Nth(P, Rank(P, i)) = i
<1> DEFINE k == Rank(P, i)
<1>1. i \in Nat /\ i \in 1..n /\ 0 < i /\ \A j \in P : j \in Nat
  OBVIOUS
<1>2. k \in 0..Cardinality(P) /\ Cardinality(P) \in Nat
  BY <1>1, RanksAreNumbers
<1>3. k # 0
  <2>1. Rank(P, 0) \in Nat /\ Rank(P, 0) < Rank(P, i)
    <3>1. Rank(P, 0) \in 0..Cardinality(P)
      BY RanksAreNumbers
    <3>2. Rank(P, 0) < Rank(P, i)
      BY <1>1, RanksGrow
    <3> QED BY <1>2, <3>1, <3>2
  <2> QED BY <2>1, <1>2
<1>4. k \in 1..Cardinality(P)
  BY <1>2, <1>3
<1>5. Nth(P, k) \in P /\ Rank(P, Nth(P, k)) = k
  BY <1>4, NthIsThere
<1>6. Nth(P, k) = i
  <2> DEFINE x == Nth(P, k)
  <2>0. x \in P /\ Rank(P, x) = Rank(P, i) /\ x \in Nat
    BY <1>1, <1>5
  <2> HIDE DEF x, k
  <2>1. ~(x < i) /\ ~(i < x)
    <3>1. Rank(P, i) \in Nat
      BY <1>2 DEF k
    <3>2. x < i => Rank(P, x) < Rank(P, i)
      BY <2>0, RanksGrow
    <3>3. i < x => Rank(P, i) < Rank(P, x)
      BY <1>1, <2>0, RanksGrow
    <3> QED BY <2>0, <3>1, <3>2, <3>3
  <2> QED BY <2>0, <2>1, <1>1 DEF x
<1> QED BY <1>4, <1>6

\* A later choice is a later position.
LEMMA NthGrows ==
    ASSUME NEW n \in Nat, NEW P \in SUBSET (1..n),
           NEW j \in 1..Cardinality(P), NEW k \in 1..Cardinality(P), j < k
    PROVE  Nth(P, j) < Nth(P, k)
<1> DEFINE a == Nth(P, j)
           b == Nth(P, k)
<1>1. a \in P /\ b \in P /\ Rank(P, a) = j /\ Rank(P, b) = k
  BY NthIsThere
<1> HIDE DEF a, b
<1>2. a \in Nat /\ b \in Nat /\ j \in Nat /\ k \in Nat
  <2>1. \A i \in P : i \in Nat
    OBVIOUS
  <2> QED BY <1>1, <2>1
<1>3. CASE b < a
  <2>1. Rank(P, b) < Rank(P, a)
    BY <1>1, <1>2, <1>3, RanksGrow
  <2> QED BY <1>1, <1>2, <2>1
<1>4. CASE a = b
  BY <1>1, <1>2, <1>4
<1> QED BY <1>2, <1>3, <1>4 DEF a, b

\* Of a set of positions, those with a rank above x are as many as there are
\* ranks above x, however they are numbered in a larger choice.
LEMMA LastOfThem ==
    ASSUME NEW n \in Nat, NEW K \in SUBSET (1..n), NEW C \in SUBSET (1..n), NEW m \in Nat,
           \A i \in K \cap C : Rank(C, i) > Cardinality(C) - m
    PROVE  Cardinality({k \in 1..Cardinality(K) : Nth(K, k) \in C}) <= m
<1> DEFINE S == {k \in 1..Cardinality(K) : Nth(K, k) \in C}
           T == 1..m
           f == [k \in S |-> Rank(C, Nth(K, k)) - (Cardinality(C) - m)]
<1>0. Cardinality(C) \in Nat /\ Cardinality(K) \in Nat
  BY RanksAreNumbers
<1>1. ASSUME NEW k \in S
      PROVE  /\ Nth(K, k) \in K \cap C /\ Rank(C, Nth(K, k)) \in 1..Cardinality(C)
             /\ f[k] \in T
  <2>1. Nth(K, k) \in K \cap C
    BY NthIsThere
  <2>2. Rank(C, Nth(K, k)) \in 1..Cardinality(C)
    BY <2>1, NthOfRank
  <2>3. Rank(C, Nth(K, k)) > Cardinality(C) - m
    BY <2>1
  <2>4. f[k] = Rank(C, Nth(K, k)) - (Cardinality(C) - m)
    OBVIOUS
  <2> DEFINE r == Rank(C, Nth(K, k))
             c == Cardinality(C)
             fk == f[k]
  <2>5. r \in 1..c /\ r > c - m /\ fk = r - (c - m) /\ c \in Nat
    BY <1>0, <2>2, <2>3, <2>4
  <2> HIDE DEF r, c, fk
  <2>6. fk \in 1..m
    BY <2>5
  <2> QED BY <2>1, <2>2, <2>6 DEF fk
<1>2. ASSUME NEW j \in S, NEW k \in S, j < k PROVE f[j] < f[k]
  <2>1. Nth(K, j) < Nth(K, k)
    BY <1>2, NthGrows
  <2>2. Nth(K, j) \in C /\ Nth(K, k) \in C /\ \A i \in C : i \in Nat
    BY <1>1
  <2>3. Rank(C, Nth(K, j)) < Rank(C, Nth(K, k))
    BY <2>1, <2>2, RanksGrow
  <2> QED BY <1>0, <1>1, <2>3
<1>3. f \in Injection(S, T)
  <2>1. f \in [S -> T]
    BY <1>1
  <2>2. ASSUME NEW j \in S, NEW k \in S, f[j] = f[k] PROVE j = k
    <3>1. j \in Nat /\ k \in Nat /\ f[j] \in Nat /\ f[k] \in Nat
      BY <1>0, <1>1
    <3>2. ~(j < k) /\ ~(k < j)
      BY <1>2, <2>2, <3>1
    <3> QED BY <3>1, <3>2
  <2> HIDE DEF f, S, T
  <2> QED BY <2>1, <2>2 DEF Injection, IsInjective
<1>4. IsFiniteSet(T) /\ Cardinality(T) = m
  BY FS_Interval
<1> HIDE DEF S, T, f
<1>5. Cardinality(S) <= Cardinality(T)
  BY <1>3, <1>4, FS_Injection
<1> QED BY <1>4, <1>5 DEF S

-----------------------------------------------------------------------------
(* Sequences.                                                              *)

LEMMA UpToIsFinite == ASSUME NEW n \in Nat PROVE IsFiniteSet(1..n)
BY FS_Interval

LEMMA RangeIsIn == ASSUME NEW X, NEW s \in Seq(X) PROVE Range(s) \subseteq X
<1>1. \A i \in DOMAIN s : s[i] \in X
  OBVIOUS
<1> QED BY <1>1 DEF Range

LEMMA SeqByFunction ==
    ASSUME NEW X, NEW n \in Nat, NEW f \in [1..n -> X] PROVE f \in Seq(X) /\ Len(f) = n
OBVIOUS

LEMMA SeqGrows == ASSUME NEW E, NEW F, E \subseteq F PROVE Seq(E) \subseteq Seq(F)
<1> SUFFICES ASSUME NEW s \in Seq(E) PROVE s \in Seq(F)
  OBVIOUS
<1>1. Len(s) \in Nat /\ s \in [1..Len(s) -> E]
  OBVIOUS
<1>2. s \in [1..Len(s) -> F]
  BY <1>1
<1> QED BY <1>1, <1>2

LEMMA ConcatIs ==
    ASSUME NEW X, NEW s \in Seq(X), NEW u \in Seq(X)
    PROVE  /\ s \o u \in Seq(X) /\ Len(s \o u) = Len(s) + Len(u)
           /\ \A i \in 1..Len(s) : (s \o u)[i] = s[i]
           /\ \A i \in 1..Len(u) : (s \o u)[Len(s) + i] = u[i]
OBVIOUS

LEMMA AppendHas ==
    ASSUME NEW X, NEW s \in Seq(X), NEW x \in X
    PROVE  /\ Append(s, x) \in Seq(X) /\ Len(Append(s, x)) = Len(s) + 1 /\ Len(s) \in Nat
           /\ \A i \in 1..Len(s) : Append(s, x)[i] = s[i]
           /\ Append(s, x)[Len(s) + 1] = x
OBVIOUS

\* The last of the sequences may get one more entry.
Gains(ch2, ch, e) ==
    /\ DOMAIN ch2 = DOMAIN ch
    /\ \A c \in DOMAIN ch : ch2[c] = ch[c] \/ (c = Len(ch) /\ ch2[c] = Append(ch[c], e))

LEMMA GainsIs ==
    ASSUME NEW E, NEW ch \in Seq(Seq(E)), NEW ch2, NEW e, Gains(ch2, ch, e)
    PROVE  \A c \in DOMAIN ch2 : \A p \in DOMAIN ch2[c] :
              /\ c \in DOMAIN ch
              /\ \/ p \in DOMAIN ch[c] /\ ch2[c][p] = ch[c][p]
                 \/ c = Len(ch) /\ p = Len(ch[c]) + 1 /\ ch2[c][p] = e
<1> SUFFICES ASSUME NEW c \in DOMAIN ch2, NEW p \in DOMAIN ch2[c]
             PROVE  /\ c \in DOMAIN ch
                    /\ \/ p \in DOMAIN ch[c] /\ ch2[c][p] = ch[c][p]
                       \/ c = Len(ch) /\ p = Len(ch[c]) + 1 /\ ch2[c][p] = e
  OBVIOUS
<1>1. c \in DOMAIN ch /\ (ch2[c] = ch[c] \/ (c = Len(ch) /\ ch2[c] = Append(ch[c], e)))
  BY DEF Gains
<1>2. CASE ch2[c] = ch[c]
  BY <1>1, <1>2
<1>3. CASE c = Len(ch) /\ ch2[c] = Append(ch[c], e)
  <2> DEFINE s == ch[c]
  <2>1. s \in Seq(E)
    BY <1>1
  <2>2. ch2[c] = Append(s, e)
    BY <1>3
  <2> HIDE DEF s
  <2>3. DOMAIN Append(s, e) = 1..Len(s) + 1 /\ Len(s) \in Nat /\ DOMAIN s = 1..Len(s)
        /\ \A i \in 1..Len(s) + 1 : Append(s, e)[i] = IF i = Len(s) + 1 THEN e ELSE s[i]
    BY <2>1
  <2>4. p \in 1..Len(s) + 1
    BY <2>2, <2>3
  <2>5. CASE p = Len(s) + 1
    BY <1>1, <1>3, <2>2, <2>3, <2>4, <2>5 DEF s
  <2>6. CASE p # Len(s) + 1
    <3>1. p \in DOMAIN s
      BY <2>3, <2>4, <2>6
    <3> QED BY <1>1, <2>2, <2>3, <2>4, <2>6, <3>1 DEF s
  <2> QED BY <2>5, <2>6
<1> QED BY <1>1, <1>2, <1>3

-----------------------------------------------------------------------------
(* What Only returns.                                                      *)

LEMMA PositionsAreInDomain ==
    ASSUME NEW T, NEW s \in Seq(T), NEW S
    PROVE  /\ Len(s) \in Nat /\ Positions(s, S) \in SUBSET (1..Len(s))
           /\ Cardinality(Positions(s, S)) \in Nat
<1>1. Len(s) \in Nat /\ DOMAIN s = 1..Len(s)
  OBVIOUS
<1>2. Positions(s, S) \in SUBSET (1..Len(s))
  BY <1>1 DEF Positions
<1>3. Cardinality(Positions(s, S)) \in Nat
  BY <1>1, <1>2, RanksAreNumbers, 0 \in Nat
<1> QED BY <1>1, <1>2, <1>3

LEMMA OnlyIsASequence ==
    ASSUME NEW T, NEW s \in Seq(T), NEW S
    PROVE  /\ Only(s, S) \in Seq(T \cap S)
           /\ Len(Only(s, S)) = Cardinality(Positions(s, S))
           /\ DOMAIN Only(s, S) = 1..Cardinality(Positions(s, S))
           /\ \A k \in 1..Cardinality(Positions(s, S)) :
                 /\ Nth(Positions(s, S), k) \in Positions(s, S)
                 /\ Only(s, S)[k] = s[Nth(Positions(s, S), k)]
<1> DEFINE P == Positions(s, S)
           m == Cardinality(P)
<1>1. Len(s) \in Nat /\ P \in SUBSET (1..Len(s)) /\ m \in Nat
  BY PositionsAreInDomain
<1>2. \A p \in P : s[p] \in T \cap S
  BY <1>1 DEF Positions
<1>3. \A k \in 1..m : Nth(P, k) \in P
  <2> HIDE DEF P
  <2> QED BY <1>1, NthIsThere
<1>4. Only(s, S) = [k \in 1..m |-> s[Nth(P, k)]]
  BY DEF Only
<1> HIDE DEF P, m
<1>5. Only(s, S) \in [1..m -> T \cap S]
  BY <1>2, <1>3, <1>4
<1>6. Only(s, S) \in Seq(T \cap S) /\ Len(Only(s, S)) = m
  BY <1>1, <1>5
<1>7. DOMAIN Only(s, S) = 1..m /\ \A k \in 1..m : Only(s, S)[k] = s[Nth(P, k)]
  BY <1>4
<1> QED BY <1>3, <1>6, <1>7 DEF P, m

LEMMA OnlyKeepsTheRange ==
    ASSUME NEW T, NEW s \in Seq(T), NEW S
    PROVE  Range(Only(s, S)) = Range(s) \cap S
<1> DEFINE P == Positions(s, S)
           o == Only(s, S)
<1>1. Len(s) \in Nat /\ P \in SUBSET (1..Len(s)) /\ Cardinality(P) \in Nat
  BY PositionsAreInDomain
<1>2. /\ DOMAIN o = 1..Cardinality(P)
      /\ \A k \in 1..Cardinality(P) : Nth(P, k) \in P /\ o[k] = s[Nth(P, k)]
  BY OnlyIsASequence
<1>3. \A p \in P : p \in DOMAIN s /\ s[p] \in S
  BY DEF Positions
<1>4. ASSUME NEW p \in P PROVE \E k \in DOMAIN o : o[k] = s[p]
  <2> HIDE DEF P, o
  <2>1. Rank(P, p) \in 1..Cardinality(P) /\ Nth(P, Rank(P, p)) = p
    BY <1>1, NthOfRank
  <2> QED BY <1>2, <2>1
<1>5. \A i \in DOMAIN s : s[i] \in S => i \in P
  BY DEF Positions
<1> HIDE DEF P, o
<1>6. \A x \in Range(o) : x \in Range(s) \cap S
  BY <1>2, <1>3 DEF Range
<1>7. \A x \in Range(s) \cap S : x \in Range(o)
  BY <1>4, <1>5 DEF Range
<1> QED BY <1>6, <1>7 DEF o

LEMMA OnlyIsIn ==
    ASSUME NEW T, NEW s \in Seq(T), NEW S
    PROVE  Only(s, S) \in Seq(T) /\ Range(Only(s, S)) = Range(s) \cap S
<1>1. Only(s, S) \in Seq(T \cap S)
  BY OnlyIsASequence
<1>2. Seq(T \cap S) \subseteq Seq(T)
  BY SeqGrows
<1> QED BY <1>1, <1>2, OnlyKeepsTheRange

LEMMA OnlyIsInjective ==
    ASSUME NEW T, NEW s \in Seq(T), NEW S, IsInjective(s)
    PROVE  IsInjective(Only(s, S))
<1> DEFINE P == Positions(s, S)
           o == Only(s, S)
<1>1. Len(s) \in Nat /\ P \in SUBSET (1..Len(s)) /\ DOMAIN s = 1..Len(s)
  BY PositionsAreInDomain
<1>2. /\ DOMAIN o = 1..Cardinality(P)
      /\ \A k \in 1..Cardinality(P) : Nth(P, k) \in P /\ o[k] = s[Nth(P, k)]
  BY OnlyIsASequence
<1>3. ASSUME NEW j \in DOMAIN o, NEW k \in DOMAIN o, o[j] = o[k] PROVE j = k
  <2> HIDE DEF P, o
  <2>1. Nth(P, j) = Nth(P, k)
    BY <1>1, <1>2, <1>3 DEF IsInjective
  <2>2. Rank(P, Nth(P, j)) = j /\ Rank(P, Nth(P, k)) = k
    BY <1>1, <1>2, <1>3, NthIsThere
  <2> QED BY <2>1, <2>2
<1> QED BY <1>3 DEF IsInjective

\* What takes out one element of an injective sequence takes out nothing else.
LEMMA OnlyOfAnother ==
    ASSUME NEW T, NEW s \in Seq(T), NEW S, \A i \in DOMAIN s : s[i] \in S
    PROVE  Len(Only(s, S)) = Len(s)
<1>1. Positions(s, S) = 1..Len(s) /\ Len(s) \in Nat
  BY DEF Positions
<1>2. Cardinality(1..Len(s)) = Len(s)
  BY <1>1, FS_Interval
<1> QED BY <1>1, <1>2, OnlyIsASequence

\* What is chosen from the d-th entry on is the rest of the log.
LEMMA OnlyTheLast ==
    ASSUME NEW X, NEW log \in Seq(X), NEW S, NEW d \in Nat, d <= Len(log),
           Positions(log, S) = d + 1..Len(log)
    PROVE  /\ Only(log, S) \in Seq(X) /\ Len(Only(log, S)) = Len(log) - d
           /\ \A k \in 1..Len(log) - d : Only(log, S)[k] = log[d + k]
<1> DEFINE n == Len(log)
           P == Positions(log, S)
<1>1. n \in Nat /\ P \in SUBSET (1..n) /\ P = d + 1..n
  BY PositionsAreInDomain
<1>2. Only(log, S) \in Seq(X \cap S) /\ Len(Only(log, S)) = Cardinality(P)
  BY OnlyIsASequence
<1>3. Only(log, S) \in Seq(X)
  <2>1. Seq(X \cap S) \subseteq Seq(X)
    BY SeqGrows
  <2> QED BY <1>2, <2>1
<1>4. Cardinality(P) = n - d
  <2>1. d + 1 \in Int /\ n \in Int
    BY <1>1
  <2>2. Cardinality(d + 1..n) = IF d + 1 > n THEN 0 ELSE n - (d + 1) + 1
    BY <2>1, FS_Interval
  <2> QED BY <1>1, <2>2
<1>5. ASSUME NEW k \in 1..n - d PROVE Only(log, S)[k] = log[d + k]
  <2>1. d + k \in P /\ {j \in P : j <= d + k} = d + 1..d + k
    BY <1>1
  <2>2. Cardinality(d + 1..d + k) = k
    <3>1. d + 1 \in Int /\ d + k \in Int
      BY <1>1
    <3>2. Cardinality(d + 1..d + k) = IF d + 1 > d + k THEN 0 ELSE d + k - (d + 1) + 1
      BY <3>1, FS_Interval
    <3> QED BY <1>1, <3>2
  <2>3. Rank(P, d + k) = k
    BY <2>1, <2>2 DEF Rank
  <2> HIDE DEF P, n
  <2>4. Nth(P, k) = d + k
    BY <1>1, <2>1, <2>3, NthOfRank
  <2>5. Only(log, S)[k] = log[Nth(P, k)]
    BY <1>4 DEF Only, P
  <2> QED BY <2>4, <2>5
<1> QED BY <1>2, <1>3, <1>4, <1>5

-----------------------------------------------------------------------------
(* How many entries of a log, from one place to another, are of a block.   *)

Count(log, b, lo, hi) == Cardinality({k \in lo..hi : log[k].block = b})

LEMMA CountIs ==
    ASSUME NEW log, NEW b, NEW lo \in Nat, NEW hi \in Nat
    PROVE  /\ IsFiniteSet({k \in lo..hi : log[k].block = b})
           /\ Count(log, b, lo, hi) \in Nat
<1>1. IsFiniteSet(lo..hi)
  BY FS_Interval
<1>2. IsFiniteSet({k \in lo..hi : log[k].block = b})
  BY <1>1, FS_Subset
<1> QED BY <1>2, FS_CardinalityType DEF Count

\* Entries that are in another log t places further are counted there.
LEMMA CountShift ==
    ASSUME NEW log, NEW old, NEW b, NEW lo \in Nat, NEW hi \in Nat, NEW from \in Nat, NEW to \in Nat,
           NEW t \in Int,
           \A k \in lo..hi : log[k].block = b => k + t \in from..to /\ old[k + t].block = b
    PROVE  Count(log, b, lo, hi) <= Count(old, b, from, to)
<1> DEFINE S == {k \in lo..hi : log[k].block = b}
           T == {k \in from..to : old[k].block = b}
           f == [k \in S |-> k + t]
<1>1. f \in Injection(S, T)
  <2>1. \A k \in S : f[k] \in T
    OBVIOUS
  <2>2. \A j, k \in S : f[j] = f[k] => j = k
    OBVIOUS
  <2>3. f \in [S -> T]
    BY <2>1
  <2> HIDE DEF f, S, T
  <2> QED BY <2>2, <2>3 DEF Injection, IsInjective
<1>2. IsFiniteSet(T)
  BY CountIs
<1> HIDE DEF f, S, T
<1>3. Cardinality(S) <= Cardinality(T)
  BY <1>1, <1>2, FS_Injection
<1> QED BY <1>3 DEF Count, S, T

\* The entries from lo to hi are those up to d and those after it.
LEMMA CountSplit ==
    ASSUME NEW log, NEW b, NEW lo \in Nat, NEW d \in Nat, NEW hi \in Nat, lo <= d + 1, d <= hi
    PROVE  Count(log, b, lo, hi) = Count(log, b, lo, d) + Count(log, b, d + 1, hi)
<1> DEFINE S == {k \in lo..d : log[k].block = b}
           T == {k \in d + 1..hi : log[k].block = b}
           U == {k \in lo..hi : log[k].block = b}
<1>1. U = S \cup T /\ S \cap T = {}
  OBVIOUS
<1>2. IsFiniteSet(lo..d) /\ IsFiniteSet(d + 1..hi)
  BY FS_Interval
<1>3. IsFiniteSet(S) /\ IsFiniteSet(T)
  BY <1>2, FS_Subset
<1>6. Count(log, b, lo, d) = Cardinality(S) /\ Count(log, b, d + 1, hi) = Cardinality(T)
      /\ Count(log, b, lo, hi) = Cardinality(U)
  BY DEF Count
<1> HIDE DEF S, T, U
<1>7. Cardinality(S) \in Nat /\ Cardinality(T) \in Nat
  BY <1>3, FS_CardinalityType
<1>4. Cardinality(S \cup T) = Cardinality(S) + Cardinality(T) - Cardinality(S \cap T)
  BY <1>3, FS_Union
<1>5. Cardinality(S \cap T) = 0
  BY <1>1, FS_EmptySet
<1>8. Cardinality(U) = Cardinality(S) + Cardinality(T)
  BY <1>1, <1>4, <1>5, <1>7
<1> QED BY <1>6, <1>8

LEMMA CountNone ==
    ASSUME NEW log, NEW b, NEW lo, NEW hi, \A k \in lo..hi : log[k].block # b
    PROVE  Count(log, b, lo, hi) = 0
<1>1. {k \in lo..hi : log[k].block = b} = {}
  OBVIOUS
<1> QED BY <1>1, FS_EmptySet DEF Count

LEMMA CountOne ==
    ASSUME NEW log, NEW b, NEW k \in Nat
    PROVE  Count(log, b, k, k) = IF log[k].block = b THEN 1 ELSE 0
<1>1. k..k = {k}
  OBVIOUS
<1>2. CASE log[k].block = b
  <2>1. {i \in k..k : log[i].block = b} = {k}
    BY <1>1, <1>2
  <2> QED BY <1>2, <2>1, FS_Singleton DEF Count
<1>3. CASE log[k].block # b
  BY <1>1, <1>3, CountNone
<1> QED BY <1>2, <1>3

LEMMA CountLast ==
    ASSUME NEW log, NEW b, NEW lo \in Nat, NEW hi \in Nat, lo <= hi + 1
    PROVE  Count(log, b, lo, hi + 1) =
              Count(log, b, lo, hi) + (IF log[hi + 1].block = b THEN 1 ELSE 0)
<1>1. hi + 1 \in Nat /\ hi <= hi + 1
  OBVIOUS
<1>2. Count(log, b, lo, hi + 1) = Count(log, b, lo, hi) + Count(log, b, hi + 1, hi + 1)
  BY <1>1, CountSplit
<1> QED BY <1>1, <1>2, CountOne

LEMMA CountFirst ==
    ASSUME NEW log, NEW b, NEW lo \in Nat, NEW hi \in Nat, lo <= hi
    PROVE  Count(log, b, lo, hi) =
              Count(log, b, lo + 1, hi) + (IF log[lo].block = b THEN 1 ELSE 0)
<1>1. Count(log, b, lo, hi) = Count(log, b, lo, lo) + Count(log, b, lo + 1, hi)
  BY CountSplit
<1>2. Count(log, b, lo, lo) \in Nat /\ Count(log, b, lo + 1, hi) \in Nat
  <2>1. lo + 1 \in Nat
    OBVIOUS
  <2> QED BY <2>1, CountIs
<1> QED BY <1>1, <1>2, CountOne

LEMMA CountAtMost ==
    ASSUME NEW log, NEW b, NEW n \in Nat
    PROVE  Count(log, b, 1, n) <= n
<1>1. IsFiniteSet(1..n) /\ Cardinality(1..n) = n
  BY FS_Interval
<1>2. {k \in 1..n : log[k].block = b} \subseteq 1..n
  OBVIOUS
<1> QED BY <1>1, <1>2, FS_Subset DEF Count

\* How much of the log is read.
Read(n, seq) == IF seq <= n.seq - Len(n.log) THEN 0 ELSE seq - (n.seq - Len(n.log))

\* How much is read of a log that has dropped t entries.
LEMMA ReadAfter ==
    ASSUME NEW n, NEW m, n.seq \in Nat, Len(n.log) \in Nat, Len(n.log) <= n.seq,
           NEW k \in Nat, m.seq = n.seq + k, NEW t \in Nat, Len(m.log) = (Len(n.log) + k) - t,
           NEW s \in Nat, s <= n.seq
    PROVE  /\ Read(n, s) \in Nat /\ Read(n, s) <= Len(n.log)
           /\ Read(m, s) = IF Read(n, s) <= t THEN 0 ELSE Read(n, s) - t
<1> DEFINE l == Len(n.log)
           d == Read(n, s)
           d2 == Read(m, s)
           base == n.seq - l
           w == Len(m.log)
<1>1. d = (IF s <= base THEN 0 ELSE s - base) /\ base + l = n.seq
  BY DEF Read
<1>2. d2 = IF s <= m.seq - w THEN 0 ELSE s - (m.seq - w)
  BY DEF Read
<1>3. m.seq - w = base + t
  <2> DEFINE a == m.seq
             b == n.seq
  <2>1. a = b + k /\ b \in Nat /\ l \in Nat /\ w = (l + k) - t
    OBVIOUS
  <2> HIDE DEF a, b, w, l
  <2>2. a - w = (b - l) + t
    BY <2>1
  <2> QED BY <2>2 DEF a, b
<1>4. base \in Int /\ l \in Nat /\ s <= n.seq
  OBVIOUS
<1> HIDE DEF d, d2, l, base, w
<1>5. d2 = IF s <= base + t THEN 0 ELSE s - (base + t)
  BY <1>2, <1>3
<1> QED BY <1>1, <1>4, <1>5 DEF l, d, d2

=============================================================================
