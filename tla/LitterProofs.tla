---------------------------- MODULE LitterProofs ----------------------------
(***************************************************************************)
(* Theorems about Litter: folding the effects of the blocks gives what the *)
(* calls left, from genesis and from the checkpoint, and what the calls    *)
(* leave is sound.                                                         *)
(***************************************************************************)
EXTENDS Litter, SubsequencesProofs

-----------------------------------------------------------------------------
(* Folding, entry by entry. *)

\* f holds the storage after each of the effects es.
IsFold(f, s, es, at) ==
    f = [i \in 0..Len(es) |-> IF i = 0 THEN s ELSE Folded(f[i - 1], es[i], at)]

LEMMA FoldExists ==
    ASSUME NEW s, NEW es, Len(es) \in Nat, NEW at
    PROVE  \E f : IsFold(f, s, es, at)
<1> DEFINE P(f, n) == f = [i \in 0..n |-> IF i = 0 THEN s ELSE Folded(f[i - 1], es[i], at)]
           T == {n \in Nat : \E f : P(f, n)}
<1>1. 0 \in T
  <2> DEFINE f == [i \in 0..0 |-> s]
  <2>1. P(f, 0)
    OBVIOUS
  <2> QED BY <2>1
<1>2. ASSUME NEW n \in Nat, n \in T PROVE n + 1 \in T
  <2>1. PICK f : P(f, n)
    BY <1>2
  <2> DEFINE g == [i \in 0..n + 1 |-> IF i <= n THEN f[i] ELSE Folded(f[n], es[n + 1], at)]
  <2>2. ASSUME NEW i \in 0..n + 1
        PROVE  g[i] = IF i = 0 THEN s ELSE Folded(g[i - 1], es[i], at)
    <3>1. CASE i = 0
      BY <2>1, <3>1
    <3>2. CASE i # 0 /\ i <= n
      <4>1. i \in 0..n /\ i - 1 \in 0..n + 1 /\ i - 1 <= n
        BY <3>2
      <4>2. g[i] = f[i] /\ g[i - 1] = f[i - 1]
        BY <4>1
      <4>3. f[i] = Folded(f[i - 1], es[i], at)
        BY <2>1, <3>2, <4>1
      <4> QED BY <3>2, <4>2, <4>3
    <3>3. CASE i = n + 1
      <4>1. g[i] = Folded(f[n], es[n + 1], at)
        BY <3>3
      <4>2. g[i - 1] = f[n] /\ i # 0
        BY <3>3
      <4> QED BY <3>3, <4>1, <4>2
    <3> QED BY <3>1, <3>2, <3>3
  <2>3. g = [i \in 0..n + 1 |-> g[i]]
    OBVIOUS
  <2>4. P(g, n + 1)
    <3> HIDE DEF g
    <3> QED BY <2>2, <2>3
  <2>5. (\E h : P(h, n + 1)) /\ n + 1 \in Nat
    <3> HIDE DEF g, P
    <3> QED BY <2>4
  <2> HIDE DEF P
  <2> QED BY <2>5
<1>3. Len(es) \in T
  <2> HIDE DEF T
  <2> QED BY <1>1, <1>2, InductionBySet
<1> QED BY <1>3 DEF IsFold

LEMMA FoldIs ==
    ASSUME NEW s, NEW es, Len(es) \in Nat, NEW at
    PROVE  \E f : IsFold(f, s, es, at) /\ FoldedAll(s, es, at) = f[Len(es)]
<1> DEFINE g == CHOOSE f : IsFold(f, s, es, at)
<1>1. IsFold(g, s, es, at)
  BY FoldExists
<1>2. FoldedAll(s, es, at) = g[Len(es)]
  BY DEF FoldedAll, IsFold
<1> QED BY <1>1, <1>2

\* Two functions that take the same steps from the same start agree.
LEMMA SameSteps ==
    ASSUME NEW n \in Nat, NEW f, NEW g, f[0] = g[0],
           \A i \in 1..n : f[i - 1] = g[i - 1] => f[i] = g[i]
    PROVE  f[n] = g[n]
<1> DEFINE T == {i \in Nat : i <= n => f[i] = g[i]}
<1>1. 0 \in T
  OBVIOUS
<1>2. ASSUME NEW i \in Nat, i \in T PROVE i + 1 \in T
  <2>1. i + 1 <= n => i + 1 \in 1..n /\ f[i] = g[i]
    BY <1>2
  <2>2. i + 1 <= n => f[i + 1] = g[i + 1]
    BY <2>1
  <2> QED BY <2>2
<1>3. n \in T
  <2> HIDE DEF T
  <2> QED BY <1>1, <1>2, InductionBySet
<1> QED BY <1>3

\* What the folds of the next lemmas are of: effects, at the height of a block.
LEMMA FoldedNothing ==
    ASSUME NEW s, NEW at PROVE FoldedAll(s, <<>>, at) = s
<1>1. Len(<<>>) = 0 /\ Len(<<>>) \in Nat
  OBVIOUS
<1>2. PICK f : IsFold(f, s, <<>>, at) /\ FoldedAll(s, <<>>, at) = f[0]
  BY <1>1, FoldIs
<1>3. f[0] = s
  BY <1>1, <1>2 DEF IsFold
<1> QED BY <1>2, <1>3

LEMMA FoldedOneMore ==
    ASSUME NEW T, NEW es \in Seq(T), NEW e \in T, NEW s, NEW at
    PROVE  FoldedAll(s, Append(es, e), at) = Folded(FoldedAll(s, es, at), e, at)
<1> DEFINE n == Len(es)
           es2 == Append(es, e)
<1>1. n \in Nat /\ Len(es2) = n + 1 /\ es2[n + 1] = e /\ \A i \in 1..n : es2[i] = es[i]
  OBVIOUS
<1> HIDE DEF n, es2
<1>2. PICK f : IsFold(f, s, es, at) /\ FoldedAll(s, es, at) = f[n]
  BY <1>1, FoldIs DEF n
<1>3. PICK g : IsFold(g, s, es2, at) /\ FoldedAll(s, es2, at) = g[n + 1]
  BY <1>1, FoldIs
<1>4. /\ f[0] = s /\ \A i \in 1..n : f[i] = Folded(f[i - 1], es[i], at)
  BY <1>1, <1>2 DEF IsFold, n
<1>5. /\ g[0] = s /\ \A i \in 1..n + 1 : g[i] = Folded(g[i - 1], es2[i], at)
  BY <1>1, <1>3 DEF IsFold
<1>6. f[n] = g[n]
  <2>1. ASSUME NEW i \in 1..n, f[i - 1] = g[i - 1] PROVE f[i] = g[i]
    BY <1>1, <1>4, <1>5, <2>1
  <2>2. f[0] = g[0] /\ \A i \in 1..n : f[i - 1] = g[i - 1] => f[i] = g[i]
    BY <1>4, <1>5, <2>1
  <2> QED BY <1>1, <2>2, SameSteps
<1>7. g[n + 1] = Folded(g[n], e, at)
  <2>1. n + 1 \in 1..n + 1 /\ (n + 1) - 1 = n
    BY <1>1
  <2>2. g[n + 1] = Folded(g[(n + 1) - 1], es2[n + 1], at)
    BY <1>5, <2>1
  <2> QED BY <1>1, <2>1, <2>2
<1> QED BY <1>2, <1>3, <1>6, <1>7 DEF es2

\* The same of the blocks: f holds the storage after each of them.
IsReplay(f, from, bs) ==
    f = [i \in 0..Len(bs) - from.height |->
            IF i = 0 THEN from.state
            ELSE FoldedAll(f[i - 1], bs[from.height + i], from.height + i)]

LEMMA ReplayExists ==
    ASSUME NEW from, NEW bs, Len(bs) - from.height \in Nat
    PROVE  \E f : IsReplay(f, from, bs)
<1> DEFINE st == from.state
           h == from.height
           P(f, n) == f = [i \in 0..n |-> IF i = 0 THEN st
                                          ELSE FoldedAll(f[i - 1], bs[h + i], h + i)]
           T == {n \in Nat : \E f : P(f, n)}
<1>1. 0 \in T
  <2> DEFINE f == [i \in 0..0 |-> st]
  <2>1. P(f, 0)
    OBVIOUS
  <2> QED BY <2>1
<1>2. ASSUME NEW n \in Nat, n \in T PROVE n + 1 \in T
  <2>1. PICK f : P(f, n)
    BY <1>2
  <2> DEFINE g == [i \in 0..n + 1 |->
                     IF i <= n THEN f[i] ELSE FoldedAll(f[n], bs[h + (n + 1)], h + (n + 1))]
  <2> HIDE DEF st, h
  <2>2. ASSUME NEW i \in 0..n + 1
        PROVE  g[i] = IF i = 0 THEN st ELSE FoldedAll(g[i - 1], bs[h + i], h + i)
    <3>1. CASE i = 0
      BY <2>1, <3>1
    <3>2. CASE i # 0 /\ i <= n
      <4>1. i \in 0..n /\ i - 1 \in 0..n + 1 /\ i - 1 <= n
        BY <3>2
      <4>2. g[i] = f[i] /\ g[i - 1] = f[i - 1]
        BY <4>1
      <4>3. f[i] = FoldedAll(f[i - 1], bs[h + i], h + i)
        BY <2>1, <3>2, <4>1
      <4> QED BY <3>2, <4>2, <4>3
    <3>3. CASE i = n + 1
      <4>1. g[i] = FoldedAll(f[n], bs[h + i], h + i)
        BY <3>3
      <4>2. g[i - 1] = f[n] /\ i # 0
        BY <3>3
      <4> QED BY <3>3, <4>1, <4>2
    <3> QED BY <3>1, <3>2, <3>3
  <2>3. g = [i \in 0..n + 1 |-> g[i]]
    OBVIOUS
  <2>4. P(g, n + 1)
    <3> HIDE DEF g
    <3> QED BY <2>2, <2>3
  <2>5. (\E k : P(k, n + 1)) /\ n + 1 \in Nat
    <3> HIDE DEF g, P
    <3> QED BY <2>4
  <2> HIDE DEF P
  <2> QED BY <2>5
<1>3. Len(bs) - h \in T
  <2> HIDE DEF T
  <2> QED BY <1>1, <1>2, InductionBySet
<1> QED BY <1>3 DEF IsReplay

LEMMA ReplayIs ==
    ASSUME NEW from, NEW bs, Len(bs) - from.height \in Nat
    PROVE  \E f : IsReplay(f, from, bs) /\ Replay(from, bs) = f[Len(bs) - from.height]
<1> DEFINE g == CHOOSE f : IsReplay(f, from, bs)
<1>1. IsReplay(g, from, bs)
  BY ReplayExists
<1>2. Replay(from, bs) = g[Len(bs) - from.height]
  BY DEF Replay, IsReplay
<1> QED BY <1>1, <1>2

LEMMA ReplayNothing ==
    ASSUME NEW from, NEW bs, Len(bs) \in Nat, from.height = Len(bs)
    PROVE  Replay(from, bs) = from.state
<1>1. Len(bs) - from.height = 0 /\ Len(bs) - from.height \in Nat
  OBVIOUS
<1>2. PICK f : IsReplay(f, from, bs) /\ Replay(from, bs) = f[0]
  BY <1>1, ReplayIs
<1>3. f[0] = from.state
  BY <1>1, <1>2 DEF IsReplay
<1> QED BY <1>2, <1>3

LEMMA ReplayOneMore ==
    ASSUME NEW T, NEW bs \in Seq(T), NEW b \in T, NEW from, from.height \in 0..Len(bs)
    PROVE  Replay(from, Append(bs, b)) = FoldedAll(Replay(from, bs), b, Len(bs) + 1)
<1> DEFINE h == from.height
           n == Len(bs) - h
           bs2 == Append(bs, b)
<1>1. /\ Len(bs) \in Nat /\ h \in Nat /\ n \in Nat /\ h + (n + 1) = Len(bs) + 1
      /\ Len(bs2) = Len(bs) + 1 /\ Len(bs2) - h = n + 1
      /\ bs2[h + (n + 1)] = b
      /\ \A i \in 1..n : bs2[h + i] = bs[h + i]
  OBVIOUS
<1> HIDE DEF n, bs2, h
<1>2. PICK f : IsReplay(f, from, bs) /\ Replay(from, bs) = f[n]
  BY <1>1, ReplayIs DEF n, h
<1>3. PICK g : IsReplay(g, from, bs2) /\ Replay(from, bs2) = g[n + 1]
  BY <1>1, ReplayIs DEF h
<1>4. /\ f[0] = from.state /\ \A i \in 1..n : f[i] = FoldedAll(f[i - 1], bs[h + i], h + i)
  BY <1>1, <1>2 DEF IsReplay, n, h
<1>5. /\ g[0] = from.state
      /\ \A i \in 1..n + 1 : g[i] = FoldedAll(g[i - 1], bs2[h + i], h + i)
  BY <1>1, <1>3 DEF IsReplay, h
<1>6. f[n] = g[n]
  <2>1. ASSUME NEW i \in 1..n, f[i - 1] = g[i - 1] PROVE f[i] = g[i]
    <3>1. i \in 1..n + 1
      BY <1>1
    <3>2. f[i] = FoldedAll(f[i - 1], bs[h + i], h + i) /\ g[i] = FoldedAll(g[i - 1], bs2[h + i], h + i)
      BY <1>4, <1>5, <3>1
    <3> QED BY <1>1, <2>1, <3>2
  <2>2. f[0] = g[0] /\ \A i \in 1..n : f[i - 1] = g[i - 1] => f[i] = g[i]
    BY <1>4, <1>5, <2>1
  <2> QED BY <1>1, <2>2, SameSteps
<1>7. g[n + 1] = FoldedAll(g[n], b, Len(bs) + 1)
  <2>1. n + 1 \in 1..n + 1 /\ (n + 1) - 1 = n
    BY <1>1
  <2>2. g[n + 1] = FoldedAll(g[(n + 1) - 1], bs2[h + (n + 1)], h + (n + 1))
    BY <1>5, <2>1
  <2> QED BY <1>1, <2>1, <2>2
<1> QED BY <1>2, <1>3, <1>6, <1>7 DEF bs2

-----------------------------------------------------------------------------
(* What storage and effects are. *)

Accounts == Members \cup Strangers

Partial(A, V) == UNION {[S -> V] : S \in SUBSET A}

Patron == [name : Names, by : Accounts, at : Nat]
Request == [name : Names, at : Nat]
Tally == [up : Seq(Accounts), down : Seq(Accounts)]
Comment == [who : Accounts, at : Nat, epoch : Nat]

Storage ==
    [patrons : Partial(Strangers, Patron), requests : Partial(Strangers, Request),
     votes : [Artifacts -> Tally], comments : [Artifacts -> Seq(Comment)],
     stats : Partial(Accounts, Nat), messages : Partial(Accounts, Nat), epoch : Nat]

PatronEffects ==
    [kind : {"requested"}, who : Strangers, name : Names]
        \cup [kind : {"approved"}, who : Strangers, name : Names, by : Accounts]
        \cup [kind : {"rejected", "revoked"}, who : Strangers]

Effects ==
    [kind : {"stats"}, who : Accounts, turns : Nat]
        \cup [kind : {"stats2"}, who : Accounts, turns : Nat, sent : Nat]
        \cup [kind : {"voted"}, who : Accounts, artifact : Artifacts, up : BOOLEAN]
        \cup [kind : {"message"}, who : Accounts, artifact : Artifacts, offRecord : BOOLEAN]
        \cup [kind : {"said"}, who : Accounts, offRecord : BOOLEAN]
        \cup PatronEffects

LEMMA PutIs ==
    ASSUME NEW A, NEW V, NEW f \in Partial(A, V), NEW x \in A, NEW v \in V
    PROVE  Put(f, x, v) \in Partial(A, V)
<1>1. PICK S \in SUBSET A : f \in [S -> V]
  BY DEF Partial
<1>2. Put(f, x, v) \in [S \cup {x} -> V] /\ S \cup {x} \in SUBSET A
  BY <1>1 DEF Put
<1> QED BY <1>2 DEF Partial

LEMMA WithoutIs ==
    ASSUME NEW A, NEW V, NEW f \in Partial(A, V), NEW x
    PROVE  Without(f, x) \in Partial(A, V)
<1>1. PICK S \in SUBSET A : f \in [S -> V]
  BY DEF Partial
<1>2. Without(f, x) \in [S \ {x} -> V] /\ S \ {x} \in SUBSET A
  BY <1>1 DEF Without
<1> QED BY <1>2 DEF Partial

LEMMA PartialIs ==
    ASSUME NEW A, NEW V, NEW f \in Partial(A, V)
    PROVE  /\ DOMAIN f \subseteq A /\ \A y \in DOMAIN f : f[y] \in V
           /\ Range(f) = {f[y] : y \in DOMAIN f}
BY DEF Partial, Range

LEMMA NothingIsPartial == ASSUME NEW A, NEW V PROVE <<>> \in Partial(A, V)
<1>1. <<>> \in [{} -> V] /\ {} \in SUBSET A
  OBVIOUS
<1> QED BY <1>1 DEF Partial

LEMMA DropIs ==
    ASSUME NEW T, NEW s \in Seq(T), NEW x
    PROVE  /\ Drop(s, x) \in Seq(T) /\ Range(Drop(s, x)) = Range(s) \ {x}
           /\ IsInjective(s) => IsInjective(Drop(s, x))
<1> DEFINE S == Range(s) \ {x}
           d == Only(s, S)
<1>1. d \in Seq(T \cap S) /\ Range(d) = Range(s) \cap S
  BY OnlyIsASequence, OnlyKeepsTheRange
<1>2. IsInjective(s) => IsInjective(d)
  BY OnlyIsInjective
<1>3. d \in Seq(T)
  <2> HIDE DEF d, S
  <2> QED BY <1>1
<1> QED BY <1>1, <1>2, <1>3 DEF Drop

LEMMA AppendIs ==
    ASSUME NEW T, NEW s \in Seq(T), NEW x \in T
    PROVE  /\ Append(s, x) \in Seq(T) /\ Range(Append(s, x)) = Range(s) \cup {x}
           /\ IsInjective(s) /\ x \notin Range(s) => IsInjective(Append(s, x))
<1> DEFINE a == Append(s, x)
<1>1. /\ a \in Seq(T) /\ Len(s) \in Nat /\ Len(a) = Len(s) + 1 /\ DOMAIN a = 1..Len(s) + 1
      /\ DOMAIN s = 1..Len(s) /\ a[Len(s) + 1] = x /\ \A i \in 1..Len(s) : a[i] = s[i]
  OBVIOUS
<1> HIDE DEF a
<1>2. Range(a) = Range(s) \cup {x}
  <2>1. \A i \in DOMAIN a : i \in DOMAIN s \/ i = Len(s) + 1
    BY <1>1
  <2> QED BY <1>1, <2>1 DEF Range
<1>3. ASSUME IsInjective(s), x \notin Range(s), NEW i \in DOMAIN a, NEW j \in DOMAIN a, a[i] = a[j]
      PROVE  i = j
  <2>1. \A k \in 1..Len(s) : s[k] # x
    BY <1>1, <1>3 DEF Range
  <2> QED BY <1>1, <1>3, <2>1 DEF IsInjective
<1> QED BY <1>1, <1>2, <1>3 DEF a, IsInjective

LEMMA VoteIs ==
    ASSUME NEW t \in Tally, NEW who \in Accounts, NEW up \in BOOLEAN
    PROVE  CastVote(t, who, up) \in Tally
<1>1. \A s \in Seq(Accounts) : Drop(s, who) \in Seq(Accounts) /\ Append(s, who) \in Seq(Accounts)
  BY DropIs, AppendIs
<1> QED BY <1>1 DEF CastVote, Tally

\* A comment is added at the end, and the first one goes if there are too many.
LEMMA CommentedIs ==
    ASSUME NEW thread \in Seq(Comment), NEW who \in Accounts, NEW at \in Nat, NEW epoch \in Nat
    PROVE  LET c == Commented(thread, who, at, epoch)
               longer == Append(thread, [who |-> who, at |-> at, epoch |-> epoch])
           IN  /\ c \in Seq(Comment) /\ longer \in Seq(Comment)
               /\ Len(longer) = Len(thread) + 1
               /\ c = IF Len(thread) + 1 > CommentKeep THEN Tail(longer) ELSE longer
<1> DEFINE x == [who |-> who, at |-> at, epoch |-> epoch]
           longer == Append(thread, x)
<1>1. x \in Comment
  BY DEF Comment
<1> HIDE DEF x
<1>2. longer \in Seq(Comment) /\ Len(longer) = Len(thread) + 1 /\ longer # <<>>
  <2> DEFINE S == Comment
  <2>1. thread \in Seq(S) /\ x \in S
    BY <1>1
  <2> HIDE DEF S
  <2>2. longer \in Seq(S) /\ Len(longer) = Len(thread) + 1 /\ Len(thread) \in Nat
    BY <2>1
  <2>3. Len(longer) # 0
    BY <2>2
  <2> HIDE DEF longer
  <2>4. Len(<<>>) = 0
    OBVIOUS
  <2>5. longer # <<>>
    BY Zenon, <2>3, <2>4
  <2> QED BY <2>2, <2>5 DEF S
<1>3. Tail(longer) \in Seq(Comment)
  <2> HIDE DEF longer
  <2> QED BY <1>2
<1>4. Commented(thread, who, at, epoch) = IF Len(longer) > CommentKeep THEN Tail(longer) ELSE longer
  BY DEF Commented, x
<1> QED BY <1>2, <1>3, <1>4 DEF x

-----------------------------------------------------------------------------
(* One effect. *)

\* Folded, by the fields it changes.
LEMMA FoldedIs ==
    ASSUME NEW s \in Storage, NEW e \in Effects, NEW at
    PROVE  LET t == Folded(s, e, at) IN
           \/ /\ e.kind = "stats" /\ e.who \in Accounts /\ e.turns \in Nat
              /\ t = [s EXCEPT !.stats = Put(s.stats, e.who, e.turns)]
           \/ /\ e.kind = "stats2" /\ e.who \in Accounts /\ e.turns \in Nat /\ e.sent \in Nat
              /\ t = [s EXCEPT !.stats = Put(s.stats, e.who, e.turns),
                               !.messages = Put(s.messages, e.who, e.sent)]
           \/ /\ e.kind = "voted" /\ e.who \in Accounts /\ e.artifact \in Artifacts
              /\ e.up \in BOOLEAN
              /\ t = [s EXCEPT !.votes =
                        [@ EXCEPT ![e.artifact] = CastVote(s.votes[e.artifact], e.who, e.up)]]
           \/ /\ e.kind = "message" /\ e.who \in Accounts /\ e.artifact \in Artifacts
              /\ t = [s EXCEPT !.comments =
                        [@ EXCEPT ![e.artifact] =
                            Commented(s.comments[e.artifact], e.who, at, s.epoch)]]
           \/ e.kind = "said" /\ t = s
           \/ e \in PatronEffects /\ t = FoldPatron(s, e, at)
<1>1. CASE e.kind = "stats"
  <2>1. e.who \in Accounts /\ e.turns \in Nat
    BY <1>1 DEF Effects, PatronEffects
  <2> QED BY <1>1, <2>1 DEF Folded
<1>2. CASE e.kind = "stats2"
  <2>1. e.who \in Accounts /\ e.turns \in Nat /\ e.sent \in Nat
    BY <1>2 DEF Effects, PatronEffects
  <2> QED BY <1>2, <2>1 DEF Folded, Storage
<1>3. CASE e.kind = "voted"
  <2>1. e.who \in Accounts /\ e.artifact \in Artifacts /\ e.up \in BOOLEAN
    BY <1>3 DEF Effects, PatronEffects
  <2> QED BY <1>3, <2>1 DEF Folded, Storage
<1>4. CASE e.kind = "message"
  <2>1. e.who \in Accounts /\ e.artifact \in Artifacts
    BY <1>4 DEF Effects, PatronEffects
  <2> QED BY <1>4, <2>1 DEF Folded, Storage
<1>5. CASE e.kind = "said"
  BY <1>5 DEF Folded
<1>6. CASE e.kind \notin {"stats", "stats2", "voted", "message", "said"}
  <2>1. e \in PatronEffects
    BY <1>6 DEF Effects
  <2> QED BY <1>6, <2>1 DEF Folded
<1> QED BY <1>1, <1>2, <1>3, <1>4, <1>5, <1>6

\* And FoldPatron.
LEMMA FoldPatronIs ==
    ASSUME NEW s \in Storage, NEW e \in PatronEffects, NEW at
    PROVE  LET t == FoldPatron(s, e, at) IN
           /\ e.who \in Strangers
           /\ \/ /\ e.kind = "requested" /\ e.name \in Names
                 /\ t = [s EXCEPT !.requests =
                            Put(s.requests, e.who, [name |-> e.name, at |-> at])]
              \/ /\ e.kind = "approved" /\ e.name \in Names /\ e.by \in Accounts
                 /\ t = [s EXCEPT !.requests = Without(s.requests, e.who),
                                  !.patrons = Put(s.patrons, e.who,
                                        [name |-> e.name, by |-> e.by, at |-> at])]
              \/ /\ e.kind = "rejected"
                 /\ t = [s EXCEPT !.requests = Without(s.requests, e.who)]
              \/ /\ e.kind = "revoked"
                 /\ t = [s EXCEPT !.patrons = Without(s.patrons, e.who)]
<1>1. e.who \in Strangers
  BY DEF PatronEffects
<1>2. CASE e.kind = "requested"
  <2>1. e.name \in Names
    BY <1>2 DEF PatronEffects
  <2> QED BY <1>1, <1>2, <2>1 DEF FoldPatron
<1>3. CASE e.kind = "approved"
  <2>1. e.name \in Names /\ e.by \in Accounts
    BY <1>3 DEF PatronEffects
  <2> QED BY <1>1, <1>3, <2>1 DEF FoldPatron, Storage
<1>4. CASE e.kind = "rejected"
  BY <1>1, <1>4 DEF FoldPatron
<1>5. CASE e.kind = "revoked"
  BY <1>1, <1>5 DEF FoldPatron
<1>6. e.kind \in {"requested", "approved", "rejected", "revoked"}
  BY DEF PatronEffects
<1> QED BY <1>2, <1>3, <1>4, <1>5, <1>6

LEMMA FoldedTypes ==
    ASSUME NEW s \in Storage, NEW e \in Effects, NEW at \in Nat
    PROVE  Folded(s, e, at) \in Storage
<1> DEFINE t == Folded(s, e, at)
<1>0. /\ s.patrons \in Partial(Strangers, Patron) /\ s.requests \in Partial(Strangers, Request)
      /\ s.votes \in [Artifacts -> Tally] /\ s.comments \in [Artifacts -> Seq(Comment)]
      /\ s.stats \in Partial(Accounts, Nat) /\ s.messages \in Partial(Accounts, Nat)
      /\ s.epoch \in Nat
  BY DEF Storage
<1>1. CASE /\ e.who \in Accounts /\ e.turns \in Nat
           /\ t = [s EXCEPT !.stats = Put(s.stats, e.who, e.turns)]
  <2>1. Put(s.stats, e.who, e.turns) \in Partial(Accounts, Nat)
    BY <1>0, <1>1, PutIs
  <2> QED BY <1>1, <2>1 DEF Storage
<1>2. CASE /\ e.who \in Accounts /\ e.turns \in Nat /\ e.sent \in Nat
           /\ t = [s EXCEPT !.stats = Put(s.stats, e.who, e.turns),
                            !.messages = Put(s.messages, e.who, e.sent)]
  <2>1. /\ Put(s.stats, e.who, e.turns) \in Partial(Accounts, Nat)
        /\ Put(s.messages, e.who, e.sent) \in Partial(Accounts, Nat)
    BY <1>0, <1>2, PutIs
  <2> QED BY <1>2, <2>1 DEF Storage
<1>3. CASE /\ e.who \in Accounts /\ e.artifact \in Artifacts /\ e.up \in BOOLEAN
           /\ t = [s EXCEPT !.votes =
                     [@ EXCEPT ![e.artifact] = CastVote(s.votes[e.artifact], e.who, e.up)]]
  <2>1. CastVote(s.votes[e.artifact], e.who, e.up) \in Tally
    BY <1>0, <1>3, VoteIs
  <2>2. [s.votes EXCEPT ![e.artifact] = CastVote(s.votes[e.artifact], e.who, e.up)]
            \in [Artifacts -> Tally]
    BY <1>0, <1>3, <2>1
  <2> QED BY <1>3, <2>2 DEF Storage
<1>4. CASE /\ e.who \in Accounts /\ e.artifact \in Artifacts
           /\ t = [s EXCEPT !.comments =
                     [@ EXCEPT ![e.artifact] =
                         Commented(s.comments[e.artifact], e.who, at, s.epoch)]]
  <2> DEFINE c == Commented(s.comments[e.artifact], e.who, at, s.epoch)
  <2>1. c \in Seq(Comment)
    <3>1. s.comments[e.artifact] \in Seq(Comment)
      BY <1>0, <1>4
    <3> QED BY <1>0, <1>4, <3>1, CommentedIs
  <2> HIDE DEF c
  <2>2. [s.comments EXCEPT ![e.artifact] = c] \in [Artifacts -> Seq(Comment)]
    BY <1>0, <1>4, <2>1
  <2>3. t = [s EXCEPT !.comments = [@ EXCEPT ![e.artifact] = c]]
    BY <1>4 DEF c
  <2> QED BY <2>2, <2>3 DEF Storage
<1>5. CASE e \in PatronEffects /\ t = FoldPatron(s, e, at)
  <2>1. CASE /\ e.who \in Strangers /\ e.name \in Names
             /\ t = [s EXCEPT !.requests = Put(s.requests, e.who, [name |-> e.name, at |-> at])]
    <3>1. [name |-> e.name, at |-> at] \in Request
      BY <2>1 DEF Request
    <3>2. Put(s.requests, e.who, [name |-> e.name, at |-> at]) \in Partial(Strangers, Request)
      BY <1>0, <2>1, <3>1, PutIs
    <3> QED BY <2>1, <3>2 DEF Storage
  <2>2. CASE /\ e.who \in Strangers /\ e.name \in Names /\ e.by \in Accounts
             /\ t = [s EXCEPT !.requests = Without(s.requests, e.who),
                              !.patrons = Put(s.patrons, e.who,
                                     [name |-> e.name, by |-> e.by, at |-> at])]
    <3>1. [name |-> e.name, by |-> e.by, at |-> at] \in Patron
      BY <2>2 DEF Patron
    <3>2. /\ Put(s.patrons, e.who, [name |-> e.name, by |-> e.by, at |-> at])
                \in Partial(Strangers, Patron)
          /\ Without(s.requests, e.who) \in Partial(Strangers, Request)
      BY <1>0, <2>2, <3>1, PutIs, WithoutIs
    <3> QED BY <2>2, <3>2 DEF Storage
  <2>3. CASE t = [s EXCEPT !.requests = Without(s.requests, e.who)]
    <3>1. Without(s.requests, e.who) \in Partial(Strangers, Request)
      BY <1>0, WithoutIs
    <3> QED BY <2>3, <3>1 DEF Storage
  <2>4. CASE t = [s EXCEPT !.patrons = Without(s.patrons, e.who)]
    <3>1. Without(s.patrons, e.who) \in Partial(Strangers, Patron)
      BY <1>0, WithoutIs
    <3> QED BY <2>4, <3>1 DEF Storage
  <2> HIDE DEF t
  <2> QED BY <1>5, <2>1, <2>2, <2>3, <2>4, FoldPatronIs
<1>6. CASE t = s
  BY <1>6
<1> HIDE DEF t
<1>7. \/ /\ e.who \in Accounts /\ e.turns \in Nat
         /\ t = [s EXCEPT !.stats = Put(s.stats, e.who, e.turns)]
      \/ /\ e.who \in Accounts /\ e.turns \in Nat /\ e.sent \in Nat
         /\ t = [s EXCEPT !.stats = Put(s.stats, e.who, e.turns),
                          !.messages = Put(s.messages, e.who, e.sent)]
      \/ /\ e.who \in Accounts /\ e.artifact \in Artifacts /\ e.up \in BOOLEAN
         /\ t = [s EXCEPT !.votes =
                   [@ EXCEPT ![e.artifact] = CastVote(s.votes[e.artifact], e.who, e.up)]]
      \/ /\ e.who \in Accounts /\ e.artifact \in Artifacts
         /\ t = [s EXCEPT !.comments =
                   [@ EXCEPT ![e.artifact] =
                       Commented(s.comments[e.artifact], e.who, at, s.epoch)]]
      \/ t = s
      \/ e \in PatronEffects /\ t = FoldPatron(s, e, at)
  BY Zenon, FoldedIs DEF t
<1> QED BY <1>1, <1>2, <1>3, <1>4, <1>5, <1>6, <1>7 DEF t

-----------------------------------------------------------------------------
(* Storage that is alike but for the epochs. *)

SameThread(c, d) ==
    Len(c) = Len(d) /\ \A i \in 1..Len(c) : c[i].who = d[i].who /\ c[i].at = d[i].at

AlikeStorage(s, t) ==
    /\ s.patrons = t.patrons /\ s.requests = t.requests /\ s.votes = t.votes
    /\ s.stats = t.stats /\ s.messages = t.messages
    /\ \A a \in Artifacts : SameThread(s.comments[a], t.comments[a])

LEMMA CommentedAlike ==
    ASSUME NEW c \in Seq(Comment), NEW d \in Seq(Comment), SameThread(c, d),
           NEW who \in Accounts, NEW at \in Nat, NEW ec \in Nat, NEW ed \in Nat
    PROVE  SameThread(Commented(c, who, at, ec), Commented(d, who, at, ed))
<1> DEFINE x == [who |-> who, at |-> at, epoch |-> ec]
           y == [who |-> who, at |-> at, epoch |-> ed]
           lc == Append(c, x)
           ld == Append(d, y)
           S == Comment
           n == Len(c)
<1>1. x \in S /\ y \in S /\ x.who = y.who /\ x.at = y.at
  BY DEF Comment
<1>2. /\ Commented(c, who, at, ec) = IF n + 1 > CommentKeep THEN Tail(lc) ELSE lc
      /\ Commented(d, who, at, ed) = IF Len(d) + 1 > CommentKeep THEN Tail(ld) ELSE ld
  BY CommentedIs
<1> HIDE DEF x, y, S
<1>3. c \in Seq(S) /\ d \in Seq(S) /\ n \in Nat /\ Len(d) = n
      /\ \A i \in 1..n : c[i].who = d[i].who /\ c[i].at = d[i].at
  BY DEF SameThread, S
<1>4. /\ lc \in Seq(S) /\ Len(lc) = n + 1 /\ lc[n + 1] = x /\ \A i \in 1..n : lc[i] = c[i]
      /\ ld \in Seq(S) /\ Len(ld) = n + 1 /\ ld[n + 1] = y /\ \A i \in 1..n : ld[i] = d[i]
  BY <1>1, <1>3
<1> HIDE DEF lc, ld, n
<1>5. \A i \in 1..n + 1 : lc[i].who = ld[i].who /\ lc[i].at = ld[i].at
  BY <1>1, <1>3, <1>4
<1>6. SameThread(lc, ld)
  BY <1>4, <1>5 DEF SameThread
<1>7. SameThread(Tail(lc), Tail(ld))
  <2>1. /\ Len(Tail(lc)) = n /\ \A i \in 1..n : Tail(lc)[i] = lc[i + 1]
    <3>1. Len(lc) # 0 /\ Len(lc) \in Nat
      BY <1>3, <1>4
    <3> QED BY <1>3, <1>4, <3>1
  <2>2. /\ Len(Tail(ld)) = n /\ \A i \in 1..n : Tail(ld)[i] = ld[i + 1]
    <3>1. Len(ld) # 0 /\ Len(ld) \in Nat
      BY <1>3, <1>4
    <3> QED BY <1>3, <1>4, <3>1
  <2>3. \A i \in 1..n : i + 1 \in 1..n + 1
    BY <1>3
  <2> QED BY <1>5, <2>1, <2>2, <2>3 DEF SameThread
<1> QED BY <1>2, <1>3, <1>6, <1>7

\* What an effect does depends on no epoch, but for the one on a new comment.
LEMMA FoldedAlike ==
    ASSUME NEW s \in Storage, NEW t \in Storage, AlikeStorage(s, t),
           NEW e \in Effects, NEW at \in Nat
    PROVE  AlikeStorage(Folded(s, e, at), Folded(t, e, at))
<1> DEFINE u == Folded(s, e, at)
           v == Folded(t, e, at)
<1>0. /\ s.patrons = t.patrons /\ s.requests = t.requests /\ s.votes = t.votes
      /\ s.stats = t.stats /\ s.messages = t.messages
      /\ \A a \in Artifacts : SameThread(s.comments[a], t.comments[a])
      /\ s.epoch \in Nat /\ t.epoch \in Nat
      /\ s.comments \in [Artifacts -> Seq(Comment)] /\ t.comments \in [Artifacts -> Seq(Comment)]
  BY DEF AlikeStorage, Storage
<1>1. CASE e.kind = "message"
  <2> DEFINE c == Commented(s.comments[e.artifact], e.who, at, s.epoch)
             d == Commented(t.comments[e.artifact], e.who, at, t.epoch)
  <2>1. /\ e.who \in Accounts /\ e.artifact \in Artifacts
        /\ u = [s EXCEPT !.comments = [@ EXCEPT ![e.artifact] = c]]
        /\ v = [t EXCEPT !.comments = [@ EXCEPT ![e.artifact] = d]]
    <3>1. e.who \in Accounts /\ e.artifact \in Artifacts
      BY <1>1 DEF Effects, PatronEffects
    <3> QED BY <1>1, <3>1 DEF Folded, Storage
  <2>2. SameThread(c, d)
    <3>1. /\ s.comments[e.artifact] \in Seq(Comment) /\ t.comments[e.artifact] \in Seq(Comment)
          /\ SameThread(s.comments[e.artifact], t.comments[e.artifact])
      BY <1>0, <2>1
    <3> QED BY <1>0, <2>1, <3>1, CommentedAlike
  <2> HIDE DEF c, d, u, v
  <2>3. /\ u.patrons = s.patrons /\ u.requests = s.requests /\ u.votes = s.votes
        /\ u.stats = s.stats /\ u.messages = s.messages
        /\ u.comments = [s.comments EXCEPT ![e.artifact] = c]
    BY <2>1 DEF Storage
  <2>4. /\ v.patrons = t.patrons /\ v.requests = t.requests /\ v.votes = t.votes
        /\ v.stats = t.stats /\ v.messages = t.messages
        /\ v.comments = [t.comments EXCEPT ![e.artifact] = d]
    BY <2>1 DEF Storage
  <2>5. \A a \in Artifacts : SameThread(u.comments[a], v.comments[a])
    BY <1>0, <2>1, <2>2, <2>3, <2>4
  <2>6. AlikeStorage(u, v)
    BY <1>0, <2>3, <2>4, <2>5 DEF AlikeStorage
  <2> QED BY <2>6 DEF u, v
<1>2. CASE e.kind = "voted"
  <2>1. e.artifact \in Artifacts
    BY <1>2 DEF Effects, PatronEffects
  <2> DEFINE c == [s.votes EXCEPT ![e.artifact] = CastVote(s.votes[e.artifact], e.who, e.up)]
             d == [t.votes EXCEPT ![e.artifact] = CastVote(t.votes[e.artifact], e.who, e.up)]
  <2>2. u = [s EXCEPT !.votes = c] /\ v = [t EXCEPT !.votes = d]
    BY <1>2, <2>1 DEF Folded, Storage
  <2>3. c = d
    BY <1>0
  <2> HIDE DEF c, d
  <2> QED BY <1>0, <2>2, <2>3 DEF AlikeStorage, Storage
<1>3. CASE e.kind \in {"stats", "stats2", "said"}
  BY <1>0, <1>3 DEF Folded, AlikeStorage, Storage
<1>4. CASE e \in PatronEffects
  <2>1. u = FoldPatron(s, e, at) /\ v = FoldPatron(t, e, at)
    BY <1>4 DEF Folded, PatronEffects
  <2>2. e.kind \in {"requested", "approved", "rejected", "revoked"}
    BY <1>4 DEF PatronEffects
  <2>3. AlikeStorage(FoldPatron(s, e, at), FoldPatron(t, e, at))
    BY <1>0, <2>2 DEF FoldPatron, AlikeStorage, Storage
  <2> QED BY <2>1, <2>3
<1>5. e.kind \in {"message", "voted", "stats", "stats2", "said"} \/ e \in PatronEffects
  BY DEF Effects
<1> QED BY <1>1, <1>2, <1>3, <1>4, <1>5

\* And so for all the effects of a block.
LEMMA FoldedAllAlike ==
    ASSUME NEW s \in Storage, NEW t \in Storage, AlikeStorage(s, t),
           NEW es \in Seq(Effects), NEW at \in Nat
    PROVE  /\ FoldedAll(s, es, at) \in Storage /\ FoldedAll(t, es, at) \in Storage
           /\ AlikeStorage(FoldedAll(s, es, at), FoldedAll(t, es, at))
<1> DEFINE n == Len(es)
<1>1. n \in Nat /\ \A i \in 1..n : es[i] \in Effects
  OBVIOUS
<1>2. PICK f : IsFold(f, s, es, at) /\ FoldedAll(s, es, at) = f[n]
  BY <1>1, FoldIs
<1>3. PICK g : IsFold(g, t, es, at) /\ FoldedAll(t, es, at) = g[n]
  BY <1>1, FoldIs
<1> HIDE DEF n
<1>4. /\ f[0] = s /\ \A i \in 1..n : f[i] = Folded(f[i - 1], es[i], at)
      /\ g[0] = t /\ \A i \in 1..n : g[i] = Folded(g[i - 1], es[i], at)
  <2>1. f[0] = s /\ \A i \in 1..n : f[i] = Folded(f[i - 1], es[i], at)
    BY <1>1, <1>2 DEF IsFold, n
  <2>2. g[0] = t /\ \A i \in 1..n : g[i] = Folded(g[i - 1], es[i], at)
    BY <1>1, <1>3 DEF IsFold, n
  <2> QED BY <2>1, <2>2
<1> DEFINE Good(i) == f[i] \in Storage /\ g[i] \in Storage /\ AlikeStorage(f[i], g[i])
           T == {i \in Nat : i <= n => Good(i)}
<1>5. 0 \in T
  BY <1>4
<1>6. ASSUME NEW i \in Nat, i \in T PROVE i + 1 \in T
  <2>1. SUFFICES ASSUME i + 1 <= n PROVE Good(i + 1)
    OBVIOUS
  <2>2. i + 1 \in 1..n /\ (i + 1) - 1 = i /\ i <= n
    BY <1>1, <2>1
  <2>3. Good(i)
    BY <1>6, <2>2
  <2>4. f[i + 1] = Folded(f[i], es[i + 1], at) /\ g[i + 1] = Folded(g[i], es[i + 1], at)
    BY <1>4, <2>2
  <2>5. es[i + 1] \in Effects
    BY <1>1, <2>2
  <2> QED BY <2>3, <2>4, <2>5, FoldedTypes, FoldedAlike
<1>7. n \in T
  <2> HIDE DEF T
  <2> QED BY <1>1, <1>5, <1>6, InductionBySet
<1> QED BY <1>1, <1>2, <1>3, <1>7

RecordOf(s, c) ==
    [patrons |-> s.patrons, requests |-> s.requests, votes |-> s.votes, comments |-> c,
     stats |-> s.stats, messages |-> s.messages, epoch |-> 0]

LEMMA RecordIs ==
    ASSUME NEW s \in Storage, NEW c
    PROVE  [s EXCEPT !.epoch = 0, !.comments = c] = RecordOf(s, c)
<1> DEFINE u == [s EXCEPT !.epoch = 0, !.comments = c]
           D == {"patrons", "requests", "votes", "comments", "stats", "messages", "epoch"}
<1>1. DOMAIN s = D
  BY DEF Storage
<1>2. u = [x \in D |-> u[x]] /\ RecordOf(s, c) = [x \in D |-> RecordOf(s, c)[x]]
  BY <1>1 DEF RecordOf
<1>3. /\ u["patrons"] = s.patrons /\ u["requests"] = s.requests /\ u["votes"] = s.votes
      /\ u["comments"] = c /\ u["stats"] = s.stats /\ u["messages"] = s.messages
      /\ u["epoch"] = 0
  BY <1>1
<1>4. \A x \in D : u[x] = RecordOf(s, c)[x]
  <2> HIDE DEF u
  <2> QED BY <1>3 DEF RecordOf
<1> HIDE DEF u
<1>5. u = RecordOf(s, c)
  BY <1>2, <1>4
<1> QED BY <1>5 DEF u

LEMMA AlikeIsTold ==
    ASSUME NEW s \in Storage, NEW t \in Storage, AlikeStorage(s, t)
    PROVE  Told(s) = Told(t)
<1> DEFINE cs == [a \in Artifacts |-> [i \in DOMAIN s.comments[a] |->
                                          [s.comments[a][i] EXCEPT !.epoch = 0]]]
           ct == [a \in Artifacts |-> [i \in DOMAIN t.comments[a] |->
                                          [t.comments[a][i] EXCEPT !.epoch = 0]]]
<1>1. Told(s) = [s EXCEPT !.epoch = 0, !.comments = cs]
      /\ Told(t) = [t EXCEPT !.epoch = 0, !.comments = ct]
  BY DEF Told, Storage
<1>2. ASSUME NEW a \in Artifacts PROVE cs[a] = ct[a]
  <2> DEFINE c == s.comments[a]
             d == t.comments[a]
  <2>1. c \in Seq(Comment) /\ d \in Seq(Comment) /\ SameThread(c, d)
    BY DEF Storage, AlikeStorage
  <2> HIDE DEF c, d
  <2>2. DOMAIN c = 1..Len(c) /\ DOMAIN d = 1..Len(c) /\ \A i \in 1..Len(c) : c[i] \in Comment /\ d[i] \in Comment
    BY <2>1 DEF SameThread
  <2>3. ASSUME NEW i \in 1..Len(c) PROVE [c[i] EXCEPT !.epoch = 0] = [d[i] EXCEPT !.epoch = 0]
    <3>1. c[i] \in Comment /\ d[i] \in Comment /\ c[i].who = d[i].who /\ c[i].at = d[i].at
      BY <2>1, <2>2 DEF SameThread
    <3> QED BY <3>1 DEF Comment
  <2>4. [i \in DOMAIN c |-> [c[i] EXCEPT !.epoch = 0]] = [i \in DOMAIN d |-> [d[i] EXCEPT !.epoch = 0]]
    BY <2>2, <2>3
  <2> QED BY <2>4 DEF c, d
<1>3. cs = ct
  <2> HIDE DEF cs, ct
  <2>1. cs = [a \in Artifacts |-> cs[a]] /\ ct = [a \in Artifacts |-> ct[a]]
    BY DEF cs, ct
  <2> QED BY <1>2, <2>1
<1> HIDE DEF cs, ct
<1>4. /\ [s EXCEPT !.epoch = 0, !.comments = cs] = RecordOf(s, cs)
      /\ [t EXCEPT !.epoch = 0, !.comments = ct] = RecordOf(t, ct)
  BY RecordIs
<1> QED BY <1>1, <1>3, <1>4 DEF AlikeStorage, RecordOf

-----------------------------------------------------------------------------
(* What it takes to be sound. *)

\* The names of patrons and requests, and who is which.
NamesOK(p, r) ==
    /\ DOMAIN p \cap DOMAIN r = {}
    /\ \A a, b \in DOMAIN p : p[a].name = p[b].name => a = b
    /\ \A a, b \in DOMAIN r : r[a].name = r[b].name => a = b
    /\ \A a \in DOMAIN p, b \in DOMAIN r : p[a].name # r[b].name
    /\ \A a \in DOMAIN p : p[a].name \notin Taken
    /\ \A a \in DOMAIN r : r[a].name \notin Taken

FewWait(r) == IsFiniteSet(DOMAIN r) /\ Cardinality(DOMAIN r) <= MaxRequests

VotesOK(v) == \A a \in Artifacts : IsInjective(v[a].up \o v[a].down)

GoodStorage(s) == NamesOK(s.patrons, s.requests) /\ FewWait(s.requests) /\ VotesOK(s.votes)

LEMMA GoodIsSound ==
    ASSUME NEW s \in Storage, GoodStorage(s) PROVE SoundStorage(s)
<1> DEFINE p == s.patrons
           r == s.requests
           named == {<<a, p[a].name>> : a \in DOMAIN p} \cup {<<a, r[a].name>> : a \in DOMAIN r}
<1>1. DOMAIN p \subseteq Strangers /\ DOMAIN r \subseteq Strangers
  BY PartialIs DEF Storage
<1>2. NamesOK(p, r) /\ Cardinality(DOMAIN r) <= MaxRequests /\ VotesOK(s.votes)
  BY DEF GoodStorage, FewWait
<1> HIDE DEF p, r
<1>3. \A x, y \in named : x[2] = y[2] => x[1] = y[1]
  BY <1>2 DEF NamesOK
<1>4. \A x \in named : x[2] \notin Taken
  BY <1>2 DEF NamesOK
<1> QED BY <1>1, <1>2, <1>3, <1>4 DEF SoundStorage, NamesOK, VotesOK, p, r

LEMMA JoinedVotes ==
    ASSUME NEW u \in Seq(Accounts), NEW d \in Seq(Accounts)
    PROVE  IsInjective(u \o d) <=>
               IsInjective(u) /\ IsInjective(d) /\ Range(u) \cap Range(d) = {}
<1> DEFINE j == u \o d
<1>1. /\ Len(u) \in Nat /\ Len(d) \in Nat /\ DOMAIN u = 1..Len(u) /\ DOMAIN d = 1..Len(d)
      /\ DOMAIN j = 1..Len(u) + Len(d)
      /\ \A i \in 1..Len(u) + Len(d) : j[i] = IF i <= Len(u) THEN u[i] ELSE d[i - Len(u)]
  OBVIOUS
<1> HIDE DEF j
<1>2. ASSUME IsInjective(j) PROVE IsInjective(u) /\ IsInjective(d) /\ Range(u) \cap Range(d) = {}
  <2>1. ASSUME NEW i \in 1..Len(u), NEW k \in 1..Len(u), u[i] = u[k] PROVE i = k
    BY <1>1, <1>2, <2>1 DEF IsInjective
  <2>2. ASSUME NEW i \in 1..Len(d), NEW k \in 1..Len(d), d[i] = d[k] PROVE i = k
    <3>1. /\ i + Len(u) \in 1..Len(u) + Len(d) /\ k + Len(u) \in 1..Len(u) + Len(d)
          /\ j[i + Len(u)] = d[i] /\ j[k + Len(u)] = d[k]
      BY <1>1
    <3>2. i + Len(u) = k + Len(u)
      BY <1>1, <1>2, <2>2, <3>1 DEF IsInjective
    <3> QED BY <1>1, <3>2
  <2>3. ASSUME NEW i \in 1..Len(u), NEW k \in 1..Len(d), u[i] = d[k] PROVE FALSE
    <3>1. /\ i \in 1..Len(u) + Len(d) /\ k + Len(u) \in 1..Len(u) + Len(d)
          /\ j[i] = u[i] /\ j[k + Len(u)] = d[k] /\ i # k + Len(u)
      BY <1>1
    <3> QED BY <1>1, <1>2, <2>3, <3>1 DEF IsInjective
  <2> QED BY <1>1, <2>1, <2>2, <2>3 DEF IsInjective, Range
<1>3. ASSUME IsInjective(u), IsInjective(d), Range(u) \cap Range(d) = {},
             NEW i \in DOMAIN j, NEW k \in DOMAIN j, j[i] = j[k]
      PROVE  i = k
  <2>1. \A x \in 1..Len(u), y \in 1..Len(d) : u[x] # d[y]
    BY <1>1, <1>3 DEF Range
  <2>2. ASSUME NEW x \in DOMAIN j
        PROVE  \/ x \in 1..Len(u) /\ j[x] = u[x] /\ x <= Len(u)
               \/ x - Len(u) \in 1..Len(d) /\ j[x] = d[x - Len(u)] /\ x > Len(u)
    BY <1>1
  <2> QED BY <1>1, <1>3, <2>1, <2>2 DEF IsInjective
<1> QED BY <1>2, <1>3 DEF IsInjective, j

LEMMA VoteIsSound ==
    ASSUME NEW t \in Tally, NEW who \in Accounts, NEW up \in BOOLEAN,
           IsInjective(t.up \o t.down)
    PROVE  IsInjective(CastVote(t, who, up).up \o CastVote(t, who, up).down)
<1> DEFINE own == IF up THEN t.up ELSE t.down
           other == IF up THEN t.down ELSE t.up
           mine == IF who \in Range(own) THEN Drop(own, who) ELSE Append(own, who)
           rest == IF who \in Range(own) THEN other ELSE Drop(other, who)
<1>1. own \in Seq(Accounts) /\ other \in Seq(Accounts)
  BY DEF Tally
<1>2. IsInjective(own) /\ IsInjective(other) /\ Range(own) \cap Range(other) = {}
  <2>1. t.up \in Seq(Accounts) /\ t.down \in Seq(Accounts)
    BY DEF Tally
  <2>2. IsInjective(t.up) /\ IsInjective(t.down) /\ Range(t.up) \cap Range(t.down) = {}
    BY <2>1, JoinedVotes
  <2> QED BY <2>2
<1>3. CastVote(t, who, up) = IF up THEN [up |-> mine, down |-> rest]
                                   ELSE [up |-> rest, down |-> mine]
  BY DEF CastVote
<1> HIDE DEF own, other
<1>4. /\ mine \in Seq(Accounts) /\ rest \in Seq(Accounts)
      /\ IsInjective(mine) /\ IsInjective(rest) /\ Range(mine) \cap Range(rest) = {}
  <2>1. CASE who \in Range(own)
    <3>1. mine = Drop(own, who) /\ rest = other
      BY <2>1
    <3> HIDE DEF mine, rest
    <3>2. /\ mine \in Seq(Accounts) /\ Range(mine) = Range(own) \ {who} /\ IsInjective(mine)
      <4>1. /\ Drop(own, who) \in Seq(Accounts) /\ Range(Drop(own, who)) = Range(own) \ {who}
            /\ IsInjective(own) => IsInjective(Drop(own, who))
        BY <1>1, DropIs
      <4> QED BY <1>2, <3>1, <4>1
    <3> QED BY <1>1, <1>2, <3>1, <3>2
  <2>2. CASE who \notin Range(own)
    <3>1. mine = Append(own, who) /\ rest = Drop(other, who)
      BY <2>2
    <3> HIDE DEF mine, rest
    <3>2. /\ mine \in Seq(Accounts) /\ Range(mine) = Range(own) \cup {who} /\ IsInjective(mine)
      BY <1>1, <1>2, <2>2, <3>1, AppendIs
    <3>3. /\ rest \in Seq(Accounts) /\ Range(rest) = Range(other) \ {who} /\ IsInjective(rest)
      <4>1. /\ Drop(other, who) \in Seq(Accounts) /\ Range(Drop(other, who)) = Range(other) \ {who}
            /\ IsInjective(other) => IsInjective(Drop(other, who))
        BY <1>1, DropIs
      <4> QED BY <1>2, <3>1, <4>1
    <3> QED BY <1>2, <3>2, <3>3
  <2> QED BY <2>1, <2>2
<1> HIDE DEF mine, rest
<1>5. IsInjective(mine \o rest) /\ IsInjective(rest \o mine)
  BY <1>4, JoinedVotes
<1> QED BY <1>3, <1>5

LEMMA RequestIsSound ==
    ASSUME NEW s \in Storage, GoodStorage(s), NEW who \in Strangers, NEW rq \in Request,
           who \notin DOMAIN s.patrons \cup DOMAIN s.requests, rq.name \notin Taken,
           \A p \in Range(s.patrons) \cup Range(s.requests) : p.name # rq.name,
           Cardinality(DOMAIN s.requests) < MaxRequests
    PROVE  GoodStorage([s EXCEPT !.requests = Put(s.requests, who, rq)])
<1> DEFINE p == s.patrons
           r == s.requests
           q == Put(r, who, rq)
           u == [s EXCEPT !.requests = q]
<1>1. u.patrons = p /\ u.requests = q /\ u.votes = s.votes
  BY DEF Storage
<1>2. DOMAIN q = DOMAIN r \cup {who} /\ q[who] = rq /\ \A y \in DOMAIN r : y # who => q[y] = r[y]
  <2> HIDE DEF r
  <2> QED BY DEF Put
<1>3. /\ \A a \in DOMAIN p : p[a].name # rq.name
      /\ \A a \in DOMAIN r : r[a].name # rq.name
  BY DEF Range
<1>4. NamesOK(p, r) /\ FewWait(r) /\ VotesOK(s.votes)
  BY DEF GoodStorage
<1> HIDE DEF q, u, p, r
<1>5. who \notin DOMAIN p /\ who \notin DOMAIN r
  BY DEF p, r
<1>6. NamesOK(p, q)
  BY <1>2, <1>3, <1>4, <1>5 DEF NamesOK
<1>7. FewWait(q)
  <2>1. IsFiniteSet(DOMAIN r) /\ Cardinality(DOMAIN r) < MaxRequests
    BY <1>4 DEF FewWait, r
  <2>2. /\ IsFiniteSet(DOMAIN r \cup {who})
        /\ Cardinality(DOMAIN r \cup {who}) = Cardinality(DOMAIN r) + 1
    BY <1>5, <2>1, FS_AddElement
  <2>3. Cardinality(DOMAIN r) \in Nat /\ MaxRequests \in Nat
    BY <2>1, FS_CardinalityType, LitterAssumption DEF LitterAssumption
  <2> QED BY <1>2, <2>1, <2>2, <2>3 DEF FewWait
<1>8. GoodStorage(u)
  BY <1>1, <1>4, <1>6, <1>7 DEF GoodStorage
<1> QED BY <1>8 DEF u, q, r

\* Whatever takes rows away, or moves one from the requests to the patrons.
LEMMA FewerIsSound ==
    ASSUME NEW s \in Storage, GoodStorage(s), NEW who \in Strangers
    PROVE  /\ GoodStorage([s EXCEPT !.requests = Without(s.requests, who)])
           /\ GoodStorage([s EXCEPT !.patrons = Without(s.patrons, who)])
           /\ \A pt \in Patron :
                 who \in DOMAIN s.requests /\ pt.name = s.requests[who].name
                    => GoodStorage([s EXCEPT !.requests = Without(s.requests, who),
                                             !.patrons = Put(s.patrons, who, pt)])
<1> DEFINE p == s.patrons
           r == s.requests
           q == Without(r, who)
           o == Without(p, who)
<1>1. /\ DOMAIN q = DOMAIN r \ {who} /\ \A y \in DOMAIN r \ {who} : q[y] = r[y]
      /\ DOMAIN o = DOMAIN p \ {who} /\ \A y \in DOMAIN p \ {who} : o[y] = p[y]
  <2> HIDE DEF p, r
  <2> QED BY DEF Without
<1>2. NamesOK(p, r) /\ FewWait(r) /\ VotesOK(s.votes)
  BY DEF GoodStorage
<1>3. FewWait(q)
  <2>1. IsFiniteSet(DOMAIN r) /\ DOMAIN q \subseteq DOMAIN r /\ Cardinality(DOMAIN r) <= MaxRequests
    BY <1>1, <1>2 DEF FewWait
  <2>2. IsFiniteSet(DOMAIN q) /\ Cardinality(DOMAIN q) <= Cardinality(DOMAIN r)
    BY <2>1, FS_Subset
  <2>3. Cardinality(DOMAIN r) \in Nat /\ Cardinality(DOMAIN q) \in Nat /\ MaxRequests \in Nat
    BY <2>1, <2>2, FS_CardinalityType, LitterAssumption DEF LitterAssumption
  <2> QED BY <2>1, <2>2, <2>3 DEF FewWait
<1> HIDE DEF q, o
<1>4. GoodStorage([s EXCEPT !.requests = q])
  <2> DEFINE u == [s EXCEPT !.requests = q]
  <2>1. u.patrons = p /\ u.requests = q /\ u.votes = s.votes
    BY DEF Storage
  <2>2. NamesOK(p, q)
    BY <1>1, <1>2 DEF NamesOK
  <2> HIDE DEF u
  <2>3. GoodStorage(u)
    BY <1>2, <1>3, <2>1, <2>2 DEF GoodStorage
  <2> QED BY <2>3 DEF u
<1>5. GoodStorage([s EXCEPT !.patrons = o])
  <2> DEFINE u == [s EXCEPT !.patrons = o]
  <2>1. u.patrons = o /\ u.requests = r /\ u.votes = s.votes
    BY DEF Storage
  <2>2. NamesOK(o, r)
    BY <1>1, <1>2 DEF NamesOK
  <2> HIDE DEF u
  <2>3. GoodStorage(u)
    BY <1>2, <2>1, <2>2 DEF GoodStorage
  <2> QED BY <2>3 DEF u
<1>6. ASSUME NEW pt \in Patron, who \in DOMAIN r, pt.name = r[who].name
      PROVE  GoodStorage([s EXCEPT !.requests = q, !.patrons = Put(p, who, pt)])
  <2> DEFINE n == Put(p, who, pt)
             u == [s EXCEPT !.requests = q, !.patrons = n]
  <2>1. u.patrons = n /\ u.requests = q /\ u.votes = s.votes
    BY DEF Storage
  <2>2. /\ DOMAIN n = DOMAIN p \cup {who} /\ n[who] = pt
        /\ \A y \in DOMAIN p : y # who => n[y] = p[y]
    <3> HIDE DEF p
    <3> QED BY DEF Put
  <2> HIDE DEF n, u, p, r
  <2>3. who \notin DOMAIN p
    BY <1>2, <1>6 DEF NamesOK
  <2>4. NamesOK(n, q)
    BY <1>1, <1>2, <1>6, <2>2, <2>3 DEF NamesOK
  <2>5. GoodStorage(u)
    BY <1>2, <1>3, <2>1, <2>4 DEF GoodStorage
  <2> QED BY <2>5 DEF u, n
<1> QED BY <1>4, <1>5, <1>6 DEF q, o

-----------------------------------------------------------------------------
(* The invariant. *)

\* What a replica, and the node itself at a reload, make of the sealed blocks.
Sealed == Replay([height |-> 0, state |-> Genesis], blocks)
Reloadable == Replay(cp, blocks)

Types ==
    /\ live \in Storage /\ asked \in BOOLEAN
    /\ open \in Seq(Effects) /\ blocks \in Seq(Seq(Effects))
    /\ cp \in [height : Nat, state : Storage] /\ cp.height <= Len(blocks)

\* What the open block adds to the sealed ones is live, and without a
\* compaction to come, which no effect tells of, to the last epoch.
FoldsToLive ==
    /\ Sealed \in Storage /\ Reloadable \in Storage
    /\ AlikeStorage(Sealed, Reloadable)
    /\ AlikeStorage(FoldedAll(Sealed, open, Now), live)
    /\ ~asked => FoldedAll(Reloadable, open, Now) = live

\* A reload brings Reloadable back, so this has to be sound as live is.
StaysGood == GoodStorage(live) /\ GoodStorage(Reloadable)

Inv == Types /\ FoldsToLive /\ StaysGood

LEMMA AlikeItself == ASSUME NEW s \in Storage PROVE AlikeStorage(s, s)
<1>1. \A a \in Artifacts : Len(s.comments[a]) = Len(s.comments[a])
  OBVIOUS
<1> QED BY DEF AlikeStorage, SameThread

LEMMA GenesisIsGood == Genesis \in Storage /\ GoodStorage(Genesis)
<1> DEFINE none == [a \in Artifacts |-> [up |-> <<>>, down |-> <<>>]]
           silent == [a \in Artifacts |-> <<>>]
<1>1. none \in [Artifacts -> Tally]
  <2>1. <<>> \in Seq(Accounts)
    OBVIOUS
  <2>2. [up |-> <<>>, down |-> <<>>] \in Tally
    BY <2>1 DEF Tally
  <2> QED BY <2>2
<1>2. silent \in [Artifacts -> Seq(Comment)]
  <2>1. <<>> \in Seq(Comment)
    OBVIOUS
  <2> QED BY <2>1
<1>3. /\ <<>> \in Partial(Strangers, Patron) /\ <<>> \in Partial(Strangers, Request)
      /\ <<>> \in Partial(Accounts, Nat)
  BY NothingIsPartial
<1>4. Genesis = [patrons |-> <<>>, requests |-> <<>>, votes |-> none, comments |-> silent,
                 stats |-> <<>>, messages |-> <<>>, epoch |-> 0]
  BY DEF Genesis
<1> HIDE DEF none, silent
<1>5. Genesis \in Storage
  BY <1>1, <1>2, <1>3, <1>4 DEF Storage
<1>6. Genesis.patrons = <<>> /\ Genesis.requests = <<>> /\ Genesis.votes = none
  BY <1>4
<1>7. DOMAIN <<>> = {}
  OBVIOUS
<1>8. FewWait(Genesis.requests)
  <2>1. IsFiniteSet({}) /\ Cardinality({}) = 0
    BY FS_EmptySet
  <2>2. 0 <= MaxRequests
    BY LitterAssumption DEF LitterAssumption
  <2> QED BY <1>6, <1>7, <2>1, <2>2 DEF FewWait
<1>9. VotesOK(Genesis.votes)
  <2>1. ASSUME NEW a \in Artifacts PROVE IsInjective(none[a].up \o none[a].down)
    <3>1. none[a].up = <<>> /\ none[a].down = <<>>
      BY DEF none
    <3>2. <<>> \o <<>> = <<>>
      OBVIOUS
    <3>3. IsInjective(<<>>)
      BY <1>7 DEF IsInjective
    <3> QED BY <3>1, <3>2, <3>3
  <2> QED BY <1>6, <2>1 DEF VotesOK
<1>10. NamesOK(Genesis.patrons, Genesis.requests)
  BY <1>6, <1>7 DEF NamesOK
<1> QED BY <1>5, <1>8, <1>9, <1>10 DEF GoodStorage

LEMMA InitInv == Init => Inv
<1>1. SUFFICES ASSUME Init PROVE Inv
  OBVIOUS
<1> DEFINE from == [height |-> 0, state |-> Genesis]
<1>2. live = Genesis /\ asked = FALSE /\ open = <<>> /\ blocks = <<>> /\ cp = from
  BY <1>1 DEF Init
<1>3. Len(blocks) = 0 /\ from.height = 0 /\ from.state = Genesis
  BY <1>2
<1>4. Sealed = Genesis /\ Reloadable = Genesis
  <2>1. Replay(from, blocks) = from.state
    BY <1>3, ReplayNothing
  <2> QED BY <1>2, <1>3, <2>1 DEF Sealed, Reloadable
<1>5. Genesis \in Storage /\ GoodStorage(Genesis) /\ AlikeStorage(Genesis, Genesis)
  BY GenesisIsGood, AlikeItself
<1>6. FoldedAll(Genesis, open, Now) = Genesis
  BY <1>2, FoldedNothing
<1>7. Types
  <2>1. <<>> \in Seq(Effects) /\ <<>> \in Seq(Seq(Effects))
    OBVIOUS
  <2>2. from \in [height : Nat, state : Storage]
    BY <1>5
  <2>3. cp.height <= Len(blocks)
    BY <1>2, <1>3
  <2> HIDE DEF from
  <2> QED BY <1>2, <1>5, <2>1, <2>2, <2>3 DEF Types
<1>8. FoldsToLive
  BY <1>2, <1>4, <1>5, <1>6 DEF FoldsToLive
<1>9. StaysGood
  BY <1>2, <1>4, <1>5 DEF StaysGood
<1> QED BY <1>7, <1>8, <1>9 DEF Inv

-----------------------------------------------------------------------------
(* Every step keeps it. *)

\* A call leaves what folding its effect into live leaves.
LEMMA CallStep ==
    ASSUME Inv, NEW e \in Effects, live' = Folded(live, e, Now), GoodStorage(live'),
           open' = IF ToBlock(e) THEN Append(open, e) ELSE open, UNCHANGED <<asked, blocks, cp>>
    PROVE  Inv'
<1>1. Types /\ FoldsToLive /\ StaysGood
  BY DEF Inv
<1>2. /\ live \in Storage /\ open \in Seq(Effects) /\ blocks \in Seq(Seq(Effects))
      /\ Len(blocks) \in Nat /\ Now \in Nat /\ Now' = Now
  BY <1>1 DEF Types, Now
<1>3. Sealed' = Sealed /\ Reloadable' = Reloadable
  BY DEF Sealed, Reloadable
<1>4. open' \in Seq(Effects) /\ live' \in Storage
  <2>1. Append(open, e) \in Seq(Effects)
    BY <1>2
  <2> QED BY <1>2, <2>1, FoldedTypes
<1> DEFINE a == FoldedAll(Sealed, open, Now)
           b == FoldedAll(Reloadable, open, Now)
<1>5. a \in Storage /\ b \in Storage /\ AlikeStorage(a, live)
  <2>1. Sealed \in Storage /\ Reloadable \in Storage /\ AlikeStorage(Sealed, Reloadable)
    BY <1>1 DEF FoldsToLive
  <2>2. a \in Storage /\ b \in Storage
    BY <1>2, <2>1, FoldedAllAlike
  <2> QED BY <1>1, <2>2 DEF FoldsToLive
<1>6. /\ AlikeStorage(FoldedAll(Sealed, open', Now), live')
      /\ ~asked => FoldedAll(Reloadable, open', Now) = live'
  <2>1. CASE ToBlock(e)
    <3>1. open' = Append(open, e)
      BY <2>1
    <3>2. /\ FoldedAll(Sealed, open', Now) = Folded(a, e, Now)
          /\ FoldedAll(Reloadable, open', Now) = Folded(b, e, Now)
      BY <1>2, <3>1, FoldedOneMore
    <3>3. AlikeStorage(Folded(a, e, Now), Folded(live, e, Now))
      BY <1>2, <1>5, FoldedAlike
    <3>4. ~asked => b = live
      BY <1>1 DEF FoldsToLive
    <3> QED BY <3>2, <3>3, <3>4
  <2>2. CASE ~ToBlock(e)
    <3>1. e.kind = "said"
      BY <2>2 DEF ToBlock
    <3>2. live' = live /\ open' = open
      BY <2>2, <3>1 DEF Folded
    <3> QED BY <1>1, <3>2 DEF FoldsToLive
  <2> QED BY <2>1, <2>2
<1>7. Types'
  BY <1>1, <1>4 DEF Types
<1>8. FoldsToLive'
  <2>1. asked' = asked
    OBVIOUS
  <2>2. Sealed \in Storage /\ Reloadable \in Storage /\ AlikeStorage(Sealed, Reloadable)
    BY <1>1 DEF FoldsToLive
  <2> HIDE DEF a, b
  <2> QED BY <1>2, <1>3, <1>6, <2>1, <2>2 DEF FoldsToLive
<1>9. StaysGood'
  BY <1>1, <1>3 DEF StaysGood
<1> QED BY <1>7, <1>8, <1>9 DEF Inv

LEMMA EndEpochStep ==
    ASSUME Inv, NEW who, NEW call \in {"clear_all", "request_compaction"}, EndEpoch(who, call)
    PROVE  Inv'
<1>1. Types /\ FoldsToLive /\ StaysGood
  BY DEF Inv
<1>2. /\ live' = [live EXCEPT !.epoch = @ + 1] /\ asked' = TRUE
      /\ open' = open /\ blocks' = blocks /\ cp' = cp
  BY DEF EndEpoch, WantsCompaction
<1>3. Sealed' = Sealed /\ Reloadable' = Reloadable /\ Now' = Now
  BY <1>2 DEF Sealed, Reloadable, Now
<1>4. live \in Storage
  BY <1>1 DEF Types
<1>5. /\ live' \in Storage
      /\ live'.patrons = live.patrons /\ live'.requests = live.requests
      /\ live'.votes = live.votes /\ live'.comments = live.comments
      /\ live'.stats = live.stats /\ live'.messages = live.messages
  BY <1>2, <1>4 DEF Storage
<1>6. Types'
  BY <1>1, <1>2, <1>5 DEF Types
<1>7. FoldsToLive'
  <2>1. AlikeStorage(FoldedAll(Sealed, open, Now), live')
    BY <1>1, <1>5 DEF FoldsToLive, AlikeStorage
  <2> QED BY <1>1, <1>2, <1>3, <2>1 DEF FoldsToLive
<1>8. StaysGood'
  BY <1>1, <1>3, <1>5 DEF StaysGood, GoodStorage
<1> QED BY <1>6, <1>7, <1>8 DEF Inv

LEMMA SealStep == ASSUME Inv, Seal PROVE Inv'
<1>1. Types /\ FoldsToLive /\ StaysGood
  BY DEF Inv
<1>2. /\ blocks' = Append(blocks, open) /\ open' = <<>> /\ asked' = FALSE /\ live' = live
      /\ cp' = IF asked THEN [height |-> Now, state |-> live] ELSE cp
  BY DEF Seal
<1>3. /\ live \in Storage /\ open \in Seq(Effects) /\ blocks \in Seq(Seq(Effects))
      /\ cp \in [height : Nat, state : Storage] /\ cp.height <= Len(blocks) /\ asked \in BOOLEAN
      /\ Len(blocks) \in Nat /\ Now = Len(blocks) + 1
  BY <1>1 DEF Types, Now
<1> DEFINE S == Seq(Effects)
           from == [height |-> 0, state |-> Genesis]
<1>4. blocks' \in Seq(S) /\ Len(blocks') = Now
  <2>1. blocks \in Seq(S) /\ open \in S
    BY <1>3
  <2> HIDE DEF S
  <2> QED BY <1>2, <1>3, <2>1
<1>5. Types'
  <2>1. cp' \in [height : Nat, state : Storage] /\ cp'.height <= Len(blocks')
    BY <1>2, <1>3, <1>4
  <2>2. open' \in Seq(Effects)
    BY <1>2
  <2> QED BY <1>2, <1>3, <1>4, <2>1, <2>2 DEF Types
<1>6. Sealed' = FoldedAll(Sealed, open, Now)
  <2>1. from.height \in 0..Len(blocks)
    BY <1>3
  <2>2. Replay(from, Append(blocks, open)) = FoldedAll(Replay(from, blocks), open, Len(blocks) + 1)
    <3> HIDE DEF from
    <3> QED BY <1>3, <2>1, ReplayOneMore
  <2> QED BY <1>2, <1>3, <2>2 DEF Sealed
<1>7. Reloadable' = live
  <2>1. CASE asked
    <3>1. cp'.height = Len(blocks') /\ cp'.state = live /\ Len(blocks') \in Nat
      BY <1>2, <1>3, <1>4, <2>1
    <3> QED BY <3>1, ReplayNothing DEF Reloadable
  <2>2. CASE ~asked
    <3>1. cp' = cp /\ cp.height \in 0..Len(blocks)
      BY <1>2, <1>3, <2>2
    <3>2. Replay(cp, Append(blocks, open)) = FoldedAll(Replay(cp, blocks), open, Len(blocks) + 1)
      BY <1>3, <3>1, ReplayOneMore
    <3>3. Reloadable' = FoldedAll(Reloadable, open, Now)
      BY <1>2, <1>3, <3>1, <3>2 DEF Reloadable
    <3> QED BY <1>1, <2>2, <3>3 DEF FoldsToLive
  <2> QED BY <2>1, <2>2
<1>8. Sealed' \in Storage /\ AlikeStorage(Sealed', live)
  <2>1. Sealed \in Storage /\ Reloadable \in Storage /\ AlikeStorage(Sealed, Reloadable)
    BY <1>1 DEF FoldsToLive
  <2>2. FoldedAll(Sealed, open, Now) \in Storage
    BY <1>3, <2>1, FoldedAllAlike
  <2> QED BY <1>1, <1>6, <2>2 DEF FoldsToLive
<1>9. /\ FoldedAll(Sealed', open', Now') = Sealed'
      /\ FoldedAll(Reloadable', open', Now') = Reloadable'
  BY <1>2, FoldedNothing
<1>10. FoldsToLive'
  BY <1>2, <1>3, <1>7, <1>8, <1>9 DEF FoldsToLive
<1>11. StaysGood'
  BY <1>1, <1>2, <1>7 DEF StaysGood
<1> QED BY <1>5, <1>10, <1>11 DEF Inv

LEMMA ReloadStep == ASSUME Inv, Reload PROVE Inv'
<1>1. Types /\ FoldsToLive /\ StaysGood
  BY DEF Inv
<1>2. /\ live' = Reloadable /\ open' = <<>> /\ asked' = FALSE
      /\ blocks' = blocks /\ cp' = cp
  BY DEF Reload, Reloadable
<1>3. Sealed' = Sealed /\ Reloadable' = Reloadable
  BY <1>2 DEF Sealed, Reloadable
<1>4. Sealed \in Storage /\ Reloadable \in Storage /\ AlikeStorage(Sealed, Reloadable)
  BY <1>1 DEF FoldsToLive
<1>5. /\ FoldedAll(Sealed', open', Now') = Sealed'
      /\ FoldedAll(Reloadable', open', Now') = Reloadable'
  BY <1>2, FoldedNothing
<1>6. open' \in Seq(Effects)
  BY <1>2
<1>7. Types'
  BY <1>1, <1>2, <1>4, <1>6 DEF Types
<1>8. FoldsToLive'
  BY <1>2, <1>3, <1>4, <1>5 DEF FoldsToLive
<1>9. StaysGood'
  BY <1>1, <1>2, <1>3 DEF StaysGood
<1> QED BY <1>7, <1>8, <1>9 DEF Inv

LEMMA CallsKeep ==
    ASSUME Inv, NEW sort, NEW storage, NEW e \in Effects, Calls(sort, storage, e),
           storage = Folded(live, e, Now), GoodStorage(storage)
    PROVE  Inv'
<1>1. /\ live' = Folded(live, e, Now) /\ GoodStorage(live')
      /\ open' = IF ToBlock(e) THEN Append(open, e) ELSE open
      /\ UNCHANGED <<asked, blocks, cp>>
  BY DEF Calls
<1> QED BY <1>1, CallStep

LEMMA StatsStep ==
    ASSUME Inv, NEW who \in Accounts, NEW n \in Nat, NEW sent \in Nat,
           ReportStats(who, n) \/ ReportStats2(who, n, sent)
    PROVE  Inv'
<1>1. live \in Storage /\ GoodStorage(live)
  BY DEF Inv, Types, StaysGood
<1>2. CASE ReportStats(who, n)
  <2> DEFINE e == [kind |-> "stats", who |-> who, turns |-> n]
             to == [live EXCEPT !.stats = Put(@, who, n)]
  <2>1. Calls("other", to, e)
    BY <1>2 DEF ReportStats
  <2>2. e \in Effects
    BY DEF Effects
  <2>3. to = Folded(live, e, Now)
    BY DEF Folded
  <2>4. GoodStorage(to)
    <3>1. to.patrons = live.patrons /\ to.requests = live.requests /\ to.votes = live.votes
      BY <1>1 DEF Storage
    <3> HIDE DEF to
    <3> QED BY <1>1, <3>1 DEF GoodStorage
  <2> HIDE DEF e, to
  <2> QED BY <2>1, <2>2, <2>3, <2>4, CallsKeep
<1>3. CASE ReportStats2(who, n, sent)
  <2> DEFINE e == [kind |-> "stats2", who |-> who, turns |-> n, sent |-> sent]
             to == [live EXCEPT !.stats = Put(@, who, n), !.messages = Put(@, who, sent)]
  <2>1. Calls("other", to, e)
    BY <1>3 DEF ReportStats2
  <2>2. e \in Effects
    BY DEF Effects
  <2>3. to = Folded(live, e, Now)
    BY DEF Folded
  <2>4. GoodStorage(to)
    <3>1. to.patrons = live.patrons /\ to.requests = live.requests /\ to.votes = live.votes
      BY <1>1 DEF Storage
    <3> HIDE DEF to
    <3> QED BY <1>1, <3>1 DEF GoodStorage
  <2> HIDE DEF e, to
  <2> QED BY <2>1, <2>2, <2>3, <2>4, CallsKeep
<1> QED BY <1>2, <1>3

LEMMA SayStep ==
    ASSUME Inv, NEW who \in Accounts, NEW off \in BOOLEAN, Say(who, off) PROVE Inv'
<1> DEFINE e == [kind |-> "said", who |-> who, offRecord |-> off]
<1>1. GoodStorage(live)
  BY DEF Inv, StaysGood
<1>2. Calls("other", live, e)
  BY DEF Say
<1>3. e \in Effects
  BY DEF Effects
<1>4. live = Folded(live, e, Now)
  BY DEF Folded
<1> HIDE DEF e
<1> QED BY <1>1, <1>2, <1>3, <1>4, CallsKeep

LEMMA PostStep ==
    ASSUME Inv, NEW who \in Accounts, NEW a \in Artifacts, NEW off \in BOOLEAN, Post(who, a, off)
    PROVE  Inv'
<1> DEFINE e == [kind |-> "message", who |-> who, artifact |-> a, offRecord |-> off]
           to == [live EXCEPT !.comments[a] = Commented(@, who, Now, live.epoch)]
<1>1. live \in Storage /\ GoodStorage(live)
  BY DEF Inv, Types, StaysGood
<1>2. Calls("other", to, e)
  BY DEF Post
<1>3. e \in Effects
  BY DEF Effects
<1>4. to = Folded(live, e, Now)
  BY DEF Folded
<1>5. GoodStorage(to)
  <2>1. to.patrons = live.patrons /\ to.requests = live.requests /\ to.votes = live.votes
    BY <1>1 DEF Storage
  <2> HIDE DEF to
  <2> QED BY <1>1, <2>1 DEF GoodStorage
<1> HIDE DEF e, to
<1> QED BY <1>2, <1>3, <1>4, <1>5, CallsKeep

LEMMA VoteStep ==
    ASSUME Inv, NEW who \in Accounts, NEW a \in Artifacts, NEW up \in BOOLEAN, Vote(who, a, up)
    PROVE  Inv'
<1> DEFINE e == [kind |-> "voted", who |-> who, artifact |-> a, up |-> up]
           cast == CastVote(live.votes[a], who, up)
           to == [live EXCEPT !.votes[a] = cast]
<1>1. live \in Storage /\ GoodStorage(live) /\ live.votes \in [Artifacts -> Tally]
  BY DEF Inv, Types, StaysGood, Storage
<1>2. Calls("other", to, e)
  BY <1>1 DEF Vote, Storage
<1>3. e \in Effects
  BY DEF Effects
<1>4. to = Folded(live, e, Now)
  BY <1>1 DEF Folded, Storage
<1>5. GoodStorage(to)
  <2>1. live.votes[a] \in Tally /\ IsInjective(live.votes[a].up \o live.votes[a].down)
    BY <1>1 DEF GoodStorage, VotesOK
  <2>2. IsInjective(cast.up \o cast.down)
    BY <2>1, VoteIsSound
  <2> HIDE DEF cast
  <2>3. /\ to.patrons = live.patrons /\ to.requests = live.requests
        /\ to.votes = [live.votes EXCEPT ![a] = cast]
    BY <1>1 DEF Storage
  <2> HIDE DEF to
  <2>4. ASSUME NEW b \in Artifacts PROVE IsInjective(to.votes[b].up \o to.votes[b].down)
    <3>1. CASE b = a
      BY <1>1, <2>2, <2>3, <3>1
    <3>2. CASE b # a
      <4>1. to.votes[b] = live.votes[b]
        BY <1>1, <2>3, <3>2
      <4> QED BY <1>1, <4>1 DEF GoodStorage, VotesOK
    <3> QED BY <3>1, <3>2
  <2> QED BY <1>1, <2>3, <2>4 DEF GoodStorage, VotesOK
<1> HIDE DEF e, to
<1> QED BY <1>2, <1>3, <1>4, <1>5, CallsKeep

\* The effects of patronage, which the call and the replay both fold.
LEMMA PatronStep ==
    ASSUME Inv, NEW e \in PatronEffects, PatronCall(e), GoodStorage(FoldPatron(live, e, Now))
    PROVE  Inv'
<1>1. Calls("patron", FoldPatron(live, e, Now), e)
  BY DEF PatronCall
<1>2. e \in Effects
  BY DEF Effects
<1>3. FoldPatron(live, e, Now) = Folded(live, e, Now)
  BY DEF Folded, PatronEffects
<1> QED BY <1>1, <1>2, <1>3, CallsKeep

LEMMA CarryStep ==
    ASSUME Inv, NEW carrier, NEW who \in Strangers, NEW name \in Names,
           CarryPatronRequest(carrier, who, name)
    PROVE  Inv'
<1> DEFINE e == [kind |-> "requested", who |-> who, name |-> name]
           rq == [name |-> name, at |-> Now]
           to == FoldPatron(live, e, Now)
<1>1. live \in Storage /\ GoodStorage(live) /\ Now \in Nat
  BY DEF Inv, Types, StaysGood, Now
<1>2. PatronCall(e)
  BY DEF CarryPatronRequest
<1>3. e \in PatronEffects
  BY DEF PatronEffects
<1>4. to = [live EXCEPT !.requests = Put(live.requests, who, rq)]
  BY DEF FoldPatron
<1>5. rq \in Request /\ rq.name = name
  BY <1>1 DEF Request
<1> HIDE DEF rq
<1>6. /\ who \notin DOMAIN live.patrons \cup DOMAIN live.requests /\ name \notin Taken
      /\ \A p \in Range(live.patrons) \cup Range(live.requests) : p.name # name
      /\ Cardinality(DOMAIN live.requests) < MaxRequests
  BY DEF CarryPatronRequest, NameIsFree
<1>7. GoodStorage([live EXCEPT !.requests = Put(live.requests, who, rq)])
  BY <1>1, <1>5, <1>6, RequestIsSound
<1> HIDE DEF e, to
<1>8. GoodStorage(to)
  BY <1>4, <1>7
<1> QED BY <1>2, <1>3, <1>8, PatronStep DEF to

LEMMA AnswerStep ==
    ASSUME Inv, NEW by \in Accounts, NEW who \in Strangers,
           ApprovePatron(by, who) \/ RejectPatronRequest(by, who) \/ RevokePatron(by, who)
    PROVE  Inv'
<1>1. live \in Storage /\ GoodStorage(live) /\ Now \in Nat
  BY DEF Inv, Types, StaysGood, Now
<1>2. CASE ApprovePatron(by, who)
  <2> DEFINE e == [kind |-> "approved", who |-> who, name |-> live.requests[who].name, by |-> by]
             pt == [name |-> live.requests[who].name, by |-> by, at |-> Now]
             to == FoldPatron(live, e, Now)
  <2>1. who \in DOMAIN live.requests /\ PatronCall(e)
    BY <1>2 DEF ApprovePatron
  <2>2. live.requests[who].name \in Names
    <3>1. live.requests \in Partial(Strangers, Request)
      BY <1>1 DEF Storage
    <3>2. live.requests[who] \in Request
      BY <2>1, <3>1, PartialIs
    <3> QED BY <3>2 DEF Request
  <2>3. e \in PatronEffects
    BY <2>2 DEF PatronEffects
  <2>4. to = [live EXCEPT !.requests = Without(live.requests, who),
                          !.patrons = Put(live.patrons, who, pt)]
    BY <1>1 DEF FoldPatron, Storage
  <2>5. pt \in Patron /\ pt.name = live.requests[who].name
    BY <1>1, <2>2 DEF Patron
  <2> HIDE DEF e, pt, to
  <2>6. GoodStorage(to)
    BY <1>1, <2>1, <2>4, <2>5, FewerIsSound
  <2> QED BY <2>1, <2>3, <2>6, PatronStep DEF to
<1>3. CASE RejectPatronRequest(by, who)
  <2> DEFINE e == [kind |-> "rejected", who |-> who]
             to == FoldPatron(live, e, Now)
  <2>1. PatronCall(e)
    BY <1>3 DEF RejectPatronRequest
  <2>2. e \in PatronEffects
    BY DEF PatronEffects
  <2>3. to = [live EXCEPT !.requests = Without(live.requests, who)]
    BY DEF FoldPatron
  <2> HIDE DEF e, to
  <2>4. GoodStorage(to)
    BY <1>1, <2>3, FewerIsSound
  <2> QED BY <2>1, <2>2, <2>4, PatronStep DEF to
<1>4. CASE RevokePatron(by, who)
  <2> DEFINE e == [kind |-> "revoked", who |-> who]
             to == FoldPatron(live, e, Now)
  <2>1. PatronCall(e)
    BY <1>4 DEF RevokePatron
  <2>2. e \in PatronEffects
    BY DEF PatronEffects
  <2>3. to = [live EXCEPT !.patrons = Without(live.patrons, who)]
    BY DEF FoldPatron
  <2> HIDE DEF e, to
  <2>4. GoodStorage(to)
    BY <1>1, <2>3, FewerIsSound
  <2> QED BY <2>1, <2>2, <2>4, PatronStep DEF to
<1> QED BY <1>2, <1>3, <1>4

LEMMA NextInv == Inv /\ [Next]_vars => Inv'
<1> SUFFICES ASSUME Inv, [Next]_vars PROVE Inv'
  OBVIOUS
<1>1. \A a \in Signers : a \in Accounts
  <2>1. live.patrons \in Partial(Strangers, Patron)
    BY DEF Inv, Types, Storage
  <2>2. DOMAIN live.patrons \subseteq Strangers
    BY <2>1, PartialIs
  <2> QED BY <2>2 DEF Signers, Accounts
<1>2. ASSUME NEW who \in Signers,
             \/ ReportStats(who, 1) \/ ReportStats2(who, 2, 1)
             \/ \E off \in BOOLEAN : Say(who, off) \/ \E a \in Artifacts : Post(who, a, off)
             \/ \E a \in Artifacts, up \in BOOLEAN : Vote(who, a, up)
             \/ \E s \in Strangers :
                   \/ \E n \in Names : CarryPatronRequest(who, s, n)
                   \/ ApprovePatron(who, s) \/ RejectPatronRequest(who, s) \/ RevokePatron(who, s)
             \/ \E c \in {"clear_all", "request_compaction"} : EndEpoch(who, c)
      PROVE  Inv'
  <2>1. who \in Accounts
    BY <1>1
  <2>2. CASE ReportStats(who, 1)
    BY <2>1, <2>2, StatsStep
  <2>3. CASE ReportStats2(who, 2, 1)
    BY <2>1, <2>3, StatsStep
  <2>4. CASE \E off \in BOOLEAN : Say(who, off) \/ \E a \in Artifacts : Post(who, a, off)
    BY <2>1, <2>4, SayStep, PostStep
  <2>5. CASE \E a \in Artifacts, up \in BOOLEAN : Vote(who, a, up)
    BY <2>1, <2>5, VoteStep
  <2>6. CASE \E s \in Strangers :
                \/ \E n \in Names : CarryPatronRequest(who, s, n)
                \/ ApprovePatron(who, s) \/ RejectPatronRequest(who, s) \/ RevokePatron(who, s)
    BY <2>1, <2>6, CarryStep, AnswerStep
  <2>7. CASE \E c \in {"clear_all", "request_compaction"} : EndEpoch(who, c)
    BY <2>7, EndEpochStep
  <2> QED BY <1>2, <2>2, <2>3, <2>4, <2>5, <2>6, <2>7
<1>3. CASE Seal
  BY <1>3, SealStep
<1>4. CASE Reload
  BY <1>4, ReloadStep
<1>5. CASE UNCHANGED vars
  BY <1>5 DEF vars, Inv, Types, FoldsToLive, StaysGood, Sealed, Reloadable, Now
<1> QED BY <1>2, <1>3, <1>4, <1>5 DEF Next

LEMMA SpecInv == Spec => []Inv
BY InitInv, NextInv, PTL DEF Spec

-----------------------------------------------------------------------------
(* What runs check of Litter. *)

\* Whoever folds the effects of the sealed blocks from genesis (replay_effect),
\* and of the open block when it is sealed, holds what the calls left on the
\* node that ran them, epochs apart.
THEOREM ReplicasAgree == Spec => []ReplicaAgrees
<1>1. Inv => ReplicaAgrees
  <2> SUFFICES ASSUME Inv PROVE ReplicaAgrees
    OBVIOUS
  <2> DEFINE from == [height |-> 0, state |-> Genesis]
             a == FoldedAll(Sealed, open, Now)
  <2>1. /\ live \in Storage /\ open \in Seq(Effects) /\ blocks \in Seq(Seq(Effects))
        /\ from.height \in 0..Len(blocks) /\ Now = Len(blocks) + 1 /\ Now \in Nat
    BY DEF Inv, Types, Now
  <2>2. Sealed \in Storage /\ AlikeStorage(Sealed, Sealed) /\ AlikeStorage(a, live)
    BY AlikeItself DEF Inv, FoldsToLive
  <2>3. a \in Storage
    BY <2>1, <2>2, FoldedAllAlike
  <2>4. Replay(from, Append(blocks, open)) = FoldedAll(Replay(from, blocks), open, Len(blocks) + 1)
    <3> HIDE DEF from
    <3> QED BY <2>1, ReplayOneMore
  <2>5. Replay(from, Append(blocks, open)) = a
    BY <2>1, <2>4 DEF Sealed
  <2>6. Told(a) = Told(live)
    <3> HIDE DEF a
    <3> QED BY <2>1, <2>2, <2>3, AlikeIsTold
  <2> QED BY <2>5, <2>6 DEF ReplicaAgrees
<1> QED BY <1>1, SpecInv, PTL

\* A node that reloads its store between two blocks, no compaction asked for,
\* gets back the very storage it had (reload_from_store: the checkpoint, and
\* the blocks above it), the epochs on comments included.
THEOREM ReloadsKeep == Spec => []ReloadKeeps
<1>1. Inv => ReloadKeeps
  <2> SUFFICES ASSUME Inv, open = <<>>, ~asked PROVE Replay(cp, blocks) = live
    BY DEF ReloadKeeps
  <2>1. FoldedAll(Reloadable, open, Now) = live
    BY DEF Inv, FoldsToLive
  <2>2. FoldedAll(Reloadable, open, Now) = Reloadable
    BY FoldedNothing
  <2> QED BY <2>1, <2>2 DEF Reloadable
<1> QED BY <1>1, SpecInv, PTL

\* Whatever the calls (and the restarts between them): nobody is a patron and
\* asks to be one, a name is one account's and not the roster's, at most
\* MAX_PATRON_REQUESTS wait, and a voter is on one side of an artifact, once.
THEOREM PatronsAreSound == Spec => []PatronsSound
<1>1. Inv => PatronsSound
  <2>1. Inv => live \in Storage /\ GoodStorage(live)
    BY DEF Inv, Types, StaysGood
  <2> QED BY <2>1, GoodIsSound DEF PatronsSound
<1> QED BY <1>1, SpecInv, PTL

=============================================================================
