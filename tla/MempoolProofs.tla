---------------------------- MODULE MempoolProofs ----------------------------
(***************************************************************************)
(* Proofs about Mempool, for every mesh, every routes and every limits:    *)
(* the queues are sound, a reign runs an extrinsic once at most, and what  *)
(* is marked as carried is elsewhere.                                      *)
(*                                                                         *)
(* The parts: what the operations on one node do (NodeOK); the type        *)
(* invariant, by which every node is NodeOK; the order in which a reign    *)
(* runs nonces (ReignInv); and what holds while the roles stand still      *)
(* (CalmInv).                                                              *)
(***************************************************************************)
EXTENDS Mempool, SequenceTheorems, SubsequencesProofs

-----------------------------------------------------------------------------
(* The types, as sets of records.                                          *)

Pools == UNION {[S -> BOOLEAN] : S \in SUBSET Txs}

Says == [s : {"unknown", "pending", "applied", "sealed"}, h : 0..MaxBlocks + 1]

NodeState ==
    [producing : BOOLEAN, peer : Nodes \cup {NoNode}, pool : Pools, order : Seq(Txs),
     status : [Txs -> Says], carried : Seq(Txs), offered : Seq(Txs), nonce : Nat,
     open : Seq(Txs), todo : Pools, here : SUBSET Txs]

Requests == [tx : Txs, at : Nodes, from : {"client", "round", "carry", "relay"},
             of : Nodes, here : BOOLEAN]

Bounds == [submits : Nat, moves : Nat, faults : Nat, reign : Nat,
           taken : SUBSET Txs, over : SUBSET Txs]

\* A node whose queue is bounded and sound.
NodeOK(d) ==
    /\ d \in NodeState
    /\ Len(d.carried) <= CarriedKeep
    /\ Len(d.order) <= MempoolCap
    /\ DOMAIN d.pool \subseteq Range(d.order)

AllOK(nd) == nd \in [Nodes -> NodeState] /\ \A n \in Nodes : NodeOK(nd[n])

\* Two states of a node that run the same; and follow the same.
RunsAs(d, e) == e.producing = d.producing /\ e.open = d.open /\ e.nonce = d.nonce
Alike(d, e) == RunsAs(d, e) /\ e.peer = d.peer /\ e.here = d.here

TypeInv ==
    /\ AllOK(node)
    /\ req \in SUBSET Requests
    /\ chain \in Seq([reign : Nat, txs : Seq(Txs)]) /\ Len(chain) <= MaxBlocks
    /\ env \in Bounds

-----------------------------------------------------------------------------
(* Operations on one node.                                                 *)

LEMMA PoolsAre ==
    \A f : f \in Pools <=> /\ DOMAIN f \subseteq Txs /\ f = [u \in DOMAIN f |-> f[u]]
                           /\ \A u \in DOMAIN f : f[u] \in BOOLEAN
BY DEF Pools

LEMMA WithoutIs ==
    ASSUME NEW f \in Pools, NEW S
    PROVE  /\ Without(f, S) \in Pools
           /\ DOMAIN Without(f, S) = DOMAIN f \ S
           /\ \A u \in DOMAIN f \ S : Without(f, S)[u] = f[u]
BY PoolsAre DEF Without, Restrict

\* One more entry, not carried, in what is left of a queue.
LEMMA AddedIs ==
    ASSUME NEW f \in Pools, NEW t \in Txs
    PROVE  LET g == [u \in DOMAIN f \cup {t} |-> u # t /\ f[u]]
           IN  /\ g \in Pools /\ DOMAIN g = DOMAIN f \cup {t} /\ ~g[t]
               /\ \A u \in DOMAIN f \ {t} : g[u] = f[u]
<1> DEFINE g == [u \in DOMAIN f \cup {t} |-> u # t /\ f[u]]
<1>1. \A u \in DOMAIN f : f[u] \in BOOLEAN
  BY PoolsAre
<1>2. DOMAIN g = DOMAIN f \cup {t}
  OBVIOUS
<1>3. \A u \in DOMAIN g : g[u] \in BOOLEAN
  OBVIOUS
<1>4. \A u \in DOMAIN f \ {t} : g[u] = f[u]
  BY <1>1
<1>5. g \in Pools
  <2>1. DOMAIN g \subseteq Txs
    BY PoolsAre
  <2>2. g = [u \in DOMAIN g |-> g[u]]
    OBVIOUS
  <2> QED BY <1>3, <2>1, <2>2, PoolsAre
<1> QED BY <1>2, <1>4, <1>5

\* A bounded queue of hashes: at the cap the oldest goes.
LEMMA Shifted ==
    ASSUME NEW q \in Seq(Txs), NEW cap \in Nat \ {0}, Len(q) <= cap, NEW t \in Txs
    PROVE  LET p == Append(IF Len(q) >= cap THEN Tail(q) ELSE q, t)
           IN  /\ p \in Seq(Txs) /\ Len(p) <= cap /\ t \in Range(p)
               /\ \A u \in Range(q) : u \in Range(p) \/ (Len(q) >= cap /\ u = Head(q))
               /\ \A u \in Range(p) : u = t \/ u \in Range(q)
<1> DEFINE r == IF Len(q) >= cap THEN Tail(q) ELSE q
           p == Append(r, t)
<1>1. Len(q) \in Nat /\ (Len(q) >= cap => q # <<>>)
  OBVIOUS
<1>2. r \in Seq(Txs) /\ Len(r) \in Nat /\ Len(r) + 1 <= cap
  BY <1>1
<1>3. p \in Seq(Txs) /\ Len(p) = Len(r) + 1 /\ p[Len(r) + 1] = t
      /\ \A i \in 1..Len(r) : p[i] = r[i]
  <2> HIDE DEF r
  <2> QED BY <1>2
<1>4. t \in Range(p)
  <2> HIDE DEF r, p
  <2> QED BY <1>2, <1>3 DEF Range
<1>5. \A u \in Range(r) : u \in Range(p)
  <2> HIDE DEF r, p
  <2> QED BY <1>2, <1>3 DEF Range
<1>6. \A u \in Range(q) : u \in Range(r) \/ (Len(q) >= cap /\ u = Head(q))
  <2>1. CASE ~(Len(q) >= cap)
    BY <2>1
  <2>2. CASE Len(q) >= cap
    <3>1. \A i \in 1..Len(q) : i = 1 \/ (i - 1 \in 1..Len(Tail(q)) /\ q[i] = Tail(q)[i - 1])
      BY <1>1, <2>2
    <3>2. Head(q) = q[1]
      BY <1>1, <2>2
    <3>3. r = Tail(q) /\ Len(r) \in Nat
      BY <1>2, <2>2
    <3> HIDE DEF r
    <3>4. \A i \in 1..Len(q) : q[i] = Head(q) \/ \E j \in 1..Len(r) : q[i] = r[j]
      BY <3>1, <3>2, <3>3
    <3> QED BY <1>1, <1>2, <2>2, <3>4 DEF Range
  <2> QED BY <2>1, <2>2
<1>7. \A u \in Range(p) : u = t \/ u \in Range(r)
  <2> HIDE DEF r, p
  <2>1. \A i \in 1..Len(p) : i = Len(r) + 1 \/ i \in 1..Len(r)
    BY <1>2, <1>3
  <2> QED BY <1>2, <1>3, <2>1 DEF Range
<1>8. \A u \in Range(r) : u \in Range(q)
  <2>1. CASE ~(Len(q) >= cap)
    BY <2>1
  <2>2. CASE Len(q) >= cap
    <3>1. \A i \in 1..Len(Tail(q)) : i + 1 \in 1..Len(q) /\ q[i + 1] = Tail(q)[i]
      BY <1>1, <2>2
    <3>2. r = Tail(q) /\ Len(r) \in Nat
      BY <1>2, <2>2
    <3> HIDE DEF r
    <3>3. \A i \in 1..Len(r) : \E j \in 1..Len(q) : r[i] = q[j]
      BY <3>1, <3>2
    <3> QED BY <1>1, <1>2, <2>2, <3>3 DEF Range
  <2> QED BY <2>1, <2>2
<1> HIDE DEF r
<1>9. \A u \in Range(q) : u \in Range(p) \/ (Len(q) >= cap /\ u = Head(q))
  BY <1>5, <1>6
<1>10. \A u \in Range(p) : u = t \/ u \in Range(q)
  BY <1>7, <1>8
<1>11. Len(p) <= cap
  BY <1>2, <1>3
<1> QED BY <1>3, <1>4, <1>9, <1>10, <1>11 DEF r

LEMMA LessIsOK ==
    ASSUME NEW d, NodeOK(d), NEW S
    PROVE  /\ NodeOK([d EXCEPT !.pool = Without(@, S)])
           /\ NodeOK([d EXCEPT !.todo = Without(@, S)])
           /\ NodeOK([d EXCEPT !.pool = Without(@, S), !.todo = Without(@, S)])
<1>1. d.pool \in Pools /\ d.todo \in Pools
  BY DEF NodeOK, NodeState
<1>2. Without(d.pool, S) \in Pools /\ Without(d.todo, S) \in Pools
      /\ DOMAIN Without(d.pool, S) \subseteq DOMAIN d.pool
  BY <1>1, WithoutIs
<1> DEFINE p == Without(d.pool, S)  q == Without(d.todo, S)
<1> HIDE DEF p, q
<1>3. p \in Pools /\ q \in Pools /\ DOMAIN p \subseteq DOMAIN d.pool
  BY <1>2 DEF p, q
<1>4. /\ NodeOK([d EXCEPT !.pool = p]) /\ NodeOK([d EXCEPT !.todo = q])
      /\ NodeOK([d EXCEPT !.pool = p, !.todo = q])
  BY <1>3 DEF NodeOK, NodeState
<1> QED BY <1>4 DEF p, q

\* mempool_insert keeps the queue sound; what it evicts is all it takes away.
LEMMA InsertedIs ==
    ASSUME NEW d, NodeOK(d), NEW t \in Txs
    PROVE  /\ NodeOK(Inserted(d, t))
           /\ Alike(d, Inserted(d, t)) /\ Inserted(d, t).carried = d.carried
           /\ Inserted(d, t).todo = d.todo
           /\ t \in DOMAIN Inserted(d, t).pool
           /\ Evicts(d, t) \subseteq Txs
           /\ \A u \in DOMAIN Inserted(d, t).pool :
                 (u # t \/ t \in DOMAIN d.pool)
                     => u \in DOMAIN d.pool /\ Inserted(d, t).pool[u] = d.pool[u]
           /\ t \notin DOMAIN d.pool => ~Inserted(d, t).pool[t]
           /\ \A u \in Txs : Inserted(d, t).status[u] \in {Pending, d.status[u]}
<1>1. /\ d.pool \in Pools /\ d.order \in Seq(Txs) /\ d.status \in [Txs -> Says]
      /\ DOMAIN d.pool \subseteq Txs /\ Len(d.order) <= MempoolCap
      /\ DOMAIN d.pool \subseteq Range(d.order)
  BY PoolsAre DEF NodeOK, NodeState
<1>2. Evicts(d, t) \subseteq Txs
  BY <1>1 DEF Evicts
<1>3. CASE t \in DOMAIN d.pool
  <2>1. Inserted(d, t) = d
    BY <1>3 DEF Inserted
  <2> QED BY <1>2, <1>3, <2>1 DEF Alike, RunsAs
<1>4. CASE t \notin DOMAIN d.pool
  <2> DEFINE full == Len(d.order) >= MempoolCap
             left == IF full THEN Without(d.pool, {Head(d.order)}) ELSE d.pool
             pool == [u \in DOMAIN left \cup {t} |-> u # t /\ left[u]]
             order == Append(IF Len(d.order) >= MempoolCap THEN Tail(d.order) ELSE d.order, t)
             status == [d.status EXCEPT ![t] = Pending]
  <2>1. Inserted(d, t) = [d EXCEPT !.pool = pool, !.order = order, !.status = status]
    <3>1. d \in NodeState
      BY DEF NodeOK
    <3>2. Tracked(d, t, Pending) = [d EXCEPT !.status = status]
      BY <3>1 DEF Tracked, NodeState
    <3> HIDE DEF status
    <3>3. [d EXCEPT !.status = status].order = d.order
      BY <3>1 DEF NodeState
    <3>4. Inserted(d, t) = [[d EXCEPT !.status = status] EXCEPT !.pool = pool,
                              !.order = Append(IF full THEN Tail(@) ELSE @, t)]
      BY <1>4, <3>2 DEF Inserted
    <3> HIDE DEF pool
    <3> QED BY <3>1, <3>3, <3>4 DEF NodeState
  <2>2. /\ left \in Pools /\ DOMAIN left \subseteq DOMAIN d.pool
        /\ \A u \in DOMAIN left : left[u] = d.pool[u]
        /\ full => Head(d.order) \notin DOMAIN left
    <3>1. CASE full
      <4> DEFINE S == {Head(d.order)}
      <4>1. left = Without(d.pool, S) /\ Head(d.order) \in S
        BY <3>1
      <4> HIDE DEF S, left
      <4> DEFINE w == Without(d.pool, S)
      <4>2. w \in Pools /\ DOMAIN w = DOMAIN d.pool \ S
            /\ \A u \in DOMAIN d.pool \ S : w[u] = d.pool[u]
        BY <1>1, WithoutIs
      <4>3. left = w
        BY <4>1
      <4> HIDE DEF w
      <4> QED BY <4>1, <4>2, <4>3
    <3>2. CASE ~full
      BY <1>1, <3>2
    <3> QED BY <3>1, <3>2
  <2>3. /\ pool \in Pools /\ DOMAIN pool = DOMAIN left \cup {t} /\ ~pool[t]
        /\ \A u \in DOMAIN left \ {t} : pool[u] = left[u]
    <3> HIDE DEF left
    <3> QED BY <2>2, AddedIs
  <2>4. /\ order \in Seq(Txs) /\ Len(order) <= MempoolCap /\ t \in Range(order)
        /\ \A u \in Range(d.order) : u \in Range(order) \/ (full /\ u = Head(d.order))
    BY <1>1, MempoolAssumption, Shifted
  <2>5. status \in [Txs -> Says] /\ \A u \in Txs : status[u] \in {Pending, d.status[u]}
    BY <1>1, MempoolAssumption DEF Says, Pending
  <2>6. DOMAIN pool \subseteq Range(order)
    <3> HIDE DEF left, pool, order
    <3> QED BY <1>1, <2>2, <2>3, <2>4
  <2> DEFINE e == [d EXCEPT !.pool = pool, !.order = order, !.status = status]
  <2>7. /\ NodeOK(e) /\ e.pool = pool /\ e.order = order /\ e.status = status
        /\ Alike(d, e) /\ e.carried = d.carried /\ e.todo = d.todo
    <3> HIDE DEF left, pool, order, status
    <3> QED BY <2>3, <2>4, <2>5, <2>6 DEF NodeOK, NodeState, Alike, RunsAs
  <2>8. Inserted(d, t) = e
    BY <2>1
  <2> HIDE DEF left, pool, order, status, e
  <2> QED BY <1>1, <1>2, <1>4, <2>2, <2>3, <2>5, <2>7, <2>8
<1> QED BY <1>3, <1>4

\* Node::submit, when it takes the extrinsic.
LEMMA RanIs ==
    ASSUME NEW d, NodeOK(d), NEW t \in Txs, Len(chain) \in Nat, Len(chain) <= MaxBlocks
    PROVE  /\ NodeOK(Ran(d, t))
           /\ Ran(d, t).producing = d.producing /\ Ran(d, t).peer = d.peer
           /\ Ran(d, t).open = Append(d.open, t) /\ Ran(d, t).nonce = d.nonce + 1
           /\ Ran(d, t).status = [d.status EXCEPT ![t] = Applied(Height)]
           /\ Ran(d, t).pool = d.pool /\ Ran(d, t).todo = d.todo
           /\ Ran(d, t).carried = d.carried /\ Ran(d, t).here = d.here
<1> DEFINE status == [d.status EXCEPT ![t] = Applied(Height)]
<1>1. d \in NodeState
  BY DEF NodeOK
<1>2. Applied(Height) \in Says
  <2>1. Len(chain) + 1 \in 0..MaxBlocks + 1
    BY MempoolAssumption
  <2> QED BY <2>1 DEF Applied, Height, Says
<1>3. status \in [Txs -> Says]
  BY <1>1, <1>2 DEF NodeState
<1>4. Tracked(d, t, Applied(Height)) = [d EXCEPT !.status = status]
  BY <1>1 DEF Tracked, NodeState
<1> HIDE DEF status
<1>5. Ran(d, t) = [d EXCEPT !.status = status, !.open = Append(d.open, t), !.nonce = d.nonce + 1]
  BY <1>1, <1>4 DEF Ran, NodeState
<1>6. Append(d.open, t) \in Seq(Txs) /\ d.nonce + 1 \in Nat
  BY <1>1 DEF NodeState
<1>7. NodeOK(Ran(d, t))
  BY <1>1, <1>3, <1>5, <1>6 DEF NodeOK, NodeState
<1> QED BY <1>1, <1>5, <1>7 DEF status, NodeState

\* carry_offered remembers the extrinsic, and forgets at most the oldest.
LEMMA CarryIs ==
    ASSUME NEW d, NodeOK(d), NEW t \in Txs
    PROVE  /\ NodeOK(Carry(d, t))
           /\ Alike(d, Carry(d, t)) /\ Carry(d, t).pool = d.pool
           /\ Carry(d, t).todo = d.todo /\ Carry(d, t).status = d.status
           /\ \A u \in Range(Carry(d, t).carried) : u = t \/ u \in Range(d.carried)
<1> DEFINE p == Append(IF Len(d.carried) >= CarriedKeep THEN Tail(d.carried) ELSE d.carried, t)
<1>1. /\ p \in Seq(Txs) /\ Len(p) <= CarriedKeep
      /\ \A u \in Range(p) : u = t \/ u \in Range(d.carried)
  BY MempoolAssumption, Shifted DEF NodeOK, NodeState
<1>2. Carry(d, t) = [d EXCEPT !.carried = p]
  BY DEF Carry, NodeOK, NodeState
<1> HIDE DEF p
<1> QED BY <1>1, <1>2 DEF NodeOK, NodeState, Alike, RunsAs

\* status_wire offers queued extrinsics.
LEMMA OffersAre ==
    ASSUME NEW d, NodeOK(d)
    PROVE  Offers(d) \in Seq(Txs)
<1> DEFINE live == Only(d.order, {t \in DOMAIN d.pool : ~d.pool[t]})
<1>1. live \in Seq(Txs)
  <2>1. d.order \in Seq(Txs)
    BY DEF NodeOK, NodeState
  <2>2. live \in Seq(Txs \cap {t \in DOMAIN d.pool : ~d.pool[t]})
    BY <2>1, OnlyIsASequence
  <2> HIDE DEF live
  <2> QED BY <2>2
<1> HIDE DEF live
<1>2. \A k \in 0..Len(live) : SubSeq(live, 1, k) \in Seq(Txs)
  BY <1>1
<1>3. (IF Len(live) < CarryPerPoll THEN Len(live) ELSE CarryPerPoll) \in 0..Len(live)
  BY <1>1, MempoolAssumption
<1> QED BY <1>2, <1>3 DEF Offers, live

\* What a poller says it took changes flags, and no entry.
LEMMA MarksAre ==
    ASSUME NEW d, NodeOK(d), NEW a
    PROVE  /\ NodeOK(Marks(d, a))
           /\ Alike(d, Marks(d, a)) /\ Marks(d, a).todo = d.todo
           /\ Marks(d, a).carried = d.carried /\ Marks(d, a).status = d.status
           /\ DOMAIN Marks(d, a).pool = DOMAIN d.pool
           /\ \A u \in DOMAIN d.pool : Marks(d, a).pool[u] => d.pool[u] \/ u \in Range(a.carried)
<1> DEFINE p == [t \in DOMAIN d.pool |-> d.pool[t] \/ t \in Range(a.carried)]
<1>1. d.pool \in Pools /\ d \in NodeState
  BY DEF NodeOK, NodeState
<1>2. p \in Pools
  <2>1. \A u \in DOMAIN p : p[u] \in BOOLEAN
    OBVIOUS
  <2>2. DOMAIN p \subseteq Txs /\ p = [u \in DOMAIN p |-> p[u]]
    BY <1>1, PoolsAre
  <2> HIDE DEF p
  <2> QED BY <2>1, <2>2, PoolsAre
<1>3. Marks(d, a) = [d EXCEPT !.pool = p]
  BY <1>1 DEF Marks, NodeState
<1>4. DOMAIN p = DOMAIN d.pool /\ \A u \in DOMAIN p : p[u] => d.pool[u] \/ u \in Range(a.carried)
  OBVIOUS
<1> HIDE DEF p
<1> QED BY <1>1, <1>2, <1>3, <1>4 DEF NodeOK, NodeState, Alike, RunsAs

-----------------------------------------------------------------------------
(* The type invariant, and the queue: a lemma for each action.             *)

LEMMA OneChanged ==
    ASSUME NEW nd, AllOK(nd), NEW n \in Nodes, NEW d, NodeOK(d)
    PROVE  AllOK([nd EXCEPT ![n] = d])
BY DEF AllOK, NodeOK

\* What becomes of a node n in state d when r is answered: its queue and the rest
\* of its round lose at most the extrinsic, and only a carrier that was answered
\* remembers it.
AfterAnswer(d, e, r, n, code) ==
    /\ Alike(d, e) /\ e.status = d.status
    /\ \A u \in DOMAIN d.pool :
          u \in DOMAIN e.pool \/ (u = r.tx /\ code = "ok" /\ r.from = "round")
    /\ \A u \in DOMAIN e.pool : u \in DOMAIN d.pool /\ e.pool[u] = d.pool[u]
    /\ DOMAIN e.todo \subseteq DOMAIN d.todo
    /\ \A u \in Range(e.carried) :
          \/ u \in Range(d.carried)
          \/ n = r.of /\ u = r.tx /\ r.from = "carry" /\ code # "failed"

LEMMA HeardIs ==
    ASSUME NEW nd, AllOK(nd), NEW r \in Requests, NEW code
    PROVE  /\ AllOK(Heard(nd, r, code))
           /\ \A n \in Nodes : AfterAnswer(nd[n], Heard(nd, r, code)[n], r, n, code)
<1> DEFINE h == Heard(nd, r, code)
           d == nd[r.of]
<1>1. r.of \in Nodes /\ r.tx \in Txs /\ nd \in [Nodes -> NodeState]
  BY DEF Requests, AllOK
<1>2. d \in NodeState /\ NodeOK(d) /\ d.pool \in Pools
  BY <1>1 DEF AllOK, NodeState
<1>3. \A n \in Nodes : Alike(nd[n], nd[n])
  BY DEF Alike, RunsAs
<1>4. CASE h = nd
  BY <1>3, <1>4 DEF AfterAnswer
<1>5. CASE r.from = "round"
  <2> DEFINE p == IF code = "ok" THEN Without(d.pool, {r.tx}) ELSE d.pool
             q == Without(d.todo, {r.tx})
             e == [d EXCEPT !.pool = p, !.todo = q]
  <2>1. h = [nd EXCEPT ![r.of] = e]
    <3>1. h = [nd EXCEPT ![r.of].todo = Without(@, {r.tx}),
                         ![r.of].pool = IF code = "ok" THEN Without(@, {r.tx}) ELSE @]
      BY <1>5 DEF Heard
    <3> QED BY <1>1, <3>1 DEF NodeState
  <2>2. NodeOK(e)
    <3>1. CASE code = "ok"
      BY <1>2, <3>1, LessIsOK
    <3>2. CASE code # "ok"
      <4>1. e = [d EXCEPT !.todo = Without(@, {r.tx})]
        BY <1>2, <3>2 DEF NodeState
      <4> HIDE DEF e
      <4> QED BY <1>2, <4>1, LessIsOK
    <3> QED BY <3>1, <3>2
  <2>3. /\ DOMAIN p \subseteq DOMAIN d.pool /\ \A u \in DOMAIN p : p[u] = d.pool[u]
        /\ \A u \in DOMAIN d.pool : u \in DOMAIN p \/ (u = r.tx /\ code = "ok")
        /\ DOMAIN q \subseteq DOMAIN d.todo
    <3>3. d.todo \in Pools
      BY <1>2 DEF NodeState
    <3>4. DOMAIN q \subseteq DOMAIN d.todo
      <4>1. DOMAIN Without(d.todo, {r.tx}) = DOMAIN d.todo \ {r.tx}
        BY <3>3, WithoutIs
      <4> QED BY <4>1
    <3> DEFINE w == Without(d.pool, {r.tx})
    <3>1. DOMAIN w = DOMAIN d.pool \ {r.tx} /\ \A u \in DOMAIN d.pool \ {r.tx} : w[u] = d.pool[u]
      BY <1>2, WithoutIs
    <3>2. p = IF code = "ok" THEN w ELSE d.pool
      OBVIOUS
    <3> HIDE DEF w, p, q
    <3> QED BY <3>1, <3>2, <3>4
  <2> HIDE DEF p, q
  <2>4. e.pool = p /\ e.todo = q /\ e.carried = d.carried
        /\ Alike(d, e) /\ e.status = d.status
    BY <1>2 DEF NodeState, Alike, RunsAs
  <2> HIDE DEF e
  <2>5. AllOK(h)
    <3>1. AllOK([nd EXCEPT ![r.of] = e])
      BY <1>1, <2>2, OneChanged
    <3> QED BY <2>1, <3>1
  <2>6. \A n \in Nodes : h[n] = IF n = r.of THEN e ELSE nd[n]
    BY <1>1, <2>1
  <2> HIDE DEF h
  <2>7. ASSUME NEW n \in Nodes
        PROVE  AfterAnswer(nd[n], h[n], r, n, code)
    <3>1. CASE n = r.of
      BY <1>5, <2>3, <2>4, <2>6, <3>1 DEF AfterAnswer
    <3>2. CASE n # r.of
      <4>1. h[n] = nd[n]
        BY <2>6, <3>2
      <4> QED BY <1>3, <4>1 DEF AfterAnswer
    <3> QED BY <3>1, <3>2
  <2> QED BY <1>5, <2>5, <2>7 DEF h
<1>6. CASE r.from = "carry" /\ code # "failed"
  <2> DEFINE e == Carry(d, r.tx)
  <2>1. h = [nd EXCEPT ![r.of] = e]
    <3>1. h = [nd EXCEPT ![r.of] = Carry(@, r.tx)]
      BY <1>6 DEF Heard
    <3> QED BY <1>1, <3>1
  <2>2. /\ NodeOK(e) /\ Alike(d, e) /\ e.status = d.status
        /\ \A u \in Range(e.carried) : u = r.tx \/ u \in Range(d.carried)
    BY <1>1, <1>2, CarryIs
  <2>3. e.pool = d.pool /\ e.todo = d.todo
    BY <1>1, <1>2, CarryIs
  <2> HIDE DEF e
  <2>4. AllOK(h)
    <3>1. AllOK([nd EXCEPT ![r.of] = e])
      BY <1>1, <2>2, OneChanged
    <3> QED BY <2>1, <3>1
  <2>5. \A n \in Nodes : h[n] = IF n = r.of THEN e ELSE nd[n]
    BY <1>1, <2>1
  <2> HIDE DEF h
  <2>6. ASSUME NEW n \in Nodes
        PROVE  AfterAnswer(nd[n], h[n], r, n, code)
    <3>1. CASE n = r.of
      BY <1>6, <2>2, <2>3, <2>5, <3>1 DEF AfterAnswer
    <3>2. CASE n # r.of
      <4>1. h[n] = nd[n]
        BY <2>5, <3>2
      <4> QED BY <1>3, <4>1 DEF AfterAnswer
    <3> QED BY <3>1, <3>2
  <2> QED BY <1>6, <2>4, <2>6 DEF h
<1>7. h = nd \/ r.from = "round" \/ (r.from = "carry" /\ code # "failed")
  BY DEF Heard
<1> QED BY <1>4, <1>5, <1>6, <1>7

LEMMA InitTypes == Init => TypeInv
<1> SUFFICES ASSUME Init PROVE TypeInv
  OBVIOUS
<1>1. Unknown \in Says
  BY MempoolAssumption DEF Unknown, Says
<1> DEFINE none == <<>>
<1>2. none \in Pools /\ none \in Seq(Txs) /\ DOMAIN none = {} /\ Len(none) = 0
  <2>1. none \in Seq(Txs) /\ DOMAIN none = {} /\ Len(none) = 0
    OBVIOUS
  <2>2. none \in [{} -> BOOLEAN]
    OBVIOUS
  <2> HIDE DEF none
  <2>3. none \in Pools
    BY <2>2 DEF Pools
  <2> QED BY <2>1, <2>3
<1>3. PICK lead : lead \in Nodes \cup {NoNode} /\ node = Calm(lead)
  BY DEF Init
<1>4. ASSUME NEW n \in Nodes
      PROVE  NodeOK(node[n])
  <2>1. node[n] = [Blank EXCEPT !.producing = (n = lead),
                                !.peer = IF <<n, lead>> \in Reach THEN lead ELSE NoNode]
    BY <1>3 DEF Calm
  <2>2. (IF <<n, lead>> \in Reach THEN lead ELSE NoNode) \in Nodes \cup {NoNode}
    BY <1>3
  <2> DEFINE said == [t \in Txs |-> Unknown]
             at == IF <<n, lead>> \in Reach THEN lead ELSE NoNode
             leads == (n = lead)
  <2>3. said \in [Txs -> Says] /\ leads \in BOOLEAN
    BY <1>1
  <2>4. node[n] = [producing |-> leads, peer |-> at, pool |-> none, order |-> none,
                   status |-> said, carried |-> none, offered |-> none, nonce |-> 0,
                   open |-> none, todo |-> none, here |-> {}]
    BY <2>1 DEF Blank
  <2> HIDE DEF said, at, leads, none
  <2>5. node[n] \in NodeState
    BY <1>2, <2>2, <2>3, <2>4 DEF NodeState, at
  <2>6. Len(node[n].carried) <= CarriedKeep /\ Len(node[n].order) <= MempoolCap
        /\ DOMAIN node[n].pool = {}
    BY <1>2, <2>4, MempoolAssumption
  <2> QED BY <2>5, <2>6 DEF NodeOK
<1>5. AllOK(node)
  BY <1>3, <1>4 DEF AllOK, NodeOK, Calm
<1>6. env \in Bounds
  BY DEF Init, Bounds
<1>7. req \in SUBSET Requests /\ chain \in Seq([reign : Nat, txs : Seq(Txs)])
      /\ Len(chain) <= MaxBlocks
  BY MempoolAssumption DEF Init
<1> QED BY <1>5, <1>6, <1>7 DEF TypeInv

LEMMA BoundsGrow ==
    ASSUME NEW e \in Bounds, NEW S \in SUBSET Txs
    PROVE  /\ [e EXCEPT !.submits = @ + 1] \in Bounds
           /\ [e EXCEPT !.faults = @ + 1] \in Bounds
           /\ [e EXCEPT !.moves = @ + 1] \in Bounds
           /\ [e EXCEPT !.moves = @ + 1, !.reign = @ + 1] \in Bounds
           /\ [e EXCEPT !.over = @ \cup S] \in Bounds
           /\ [e EXCEPT !.moves = @ + 1, !.over = @ \cup S] \in Bounds
<1>1. e.submits \in Nat /\ e.faults \in Nat /\ e.moves \in Nat /\ e.reign \in Nat
      /\ e.over \cup S \in SUBSET Txs
  BY DEF Bounds
<1>2. e.submits + 1 \in Nat /\ e.faults + 1 \in Nat /\ e.moves + 1 \in Nat /\ e.reign + 1 \in Nat
  BY <1>1
<1> QED BY <1>1, <1>2 DEF Bounds

LEMMA SubmitTypes ==
    ASSUME TypeInv, NEW n \in Nodes, NEW t \in Txs, Submit(n, t)
    PROVE  TypeInv'
<1>1. Request(t, n, "client", n) \in Requests
  BY DEF Request, Requests
<1>2. env' \in Bounds
  <2>1. env' = [env EXCEPT !.submits = @ + 1]
    BY DEF Submit
  <2>2. env \in Bounds
    BY DEF TypeInv
  <2> QED BY <2>1, <2>2, BoundsGrow
<1> QED BY <1>1, <1>2 DEF TypeInv, Submit

LEMMA AcceptHereTypes ==
    ASSUME TypeInv, NEW r \in req, AcceptHere(r)
    PROVE  TypeInv'
<1>1. [r EXCEPT !.here = TRUE] \in Requests
  BY DEF TypeInv, Requests
<1> QED BY <1>1 DEF TypeInv, AcceptHere

LEMMA AcceptForwardTypes ==
    ASSUME TypeInv, NEW r \in req, AcceptForward(r)
    PROVE  TypeInv'
<1>1. r \in Requests /\ node[r.at] \in NodeState /\ node[r.at].peer # NoNode
  BY DEF TypeInv, AllOK, AcceptForward, Route, Requests
<1>2. node[r.at].peer \in Nodes
  BY <1>1 DEF NodeState
<1>3. [r EXCEPT !.at = node[r.at].peer] \in Requests
  BY <1>1, <1>2 DEF Requests
<1> QED BY <1>3 DEF TypeInv, AcceptForward

LEMMA AnswerIs ==
    ASSUME NEW nd, AllOK(nd), NEW r \in Requests, NEW code, NEW e \in Bounds,
           AnswerWith(nd, r, code, e)
    PROVE  /\ AllOK(node') /\ env' \in Bounds
           /\ node' \in {Heard(nd, r, code), Heard(nd, r, "failed")}
           /\ env'.reign = e.reign /\ env'.moves = e.moves /\ env'.over = e.over
<1>1. AllOK(Heard(nd, r, code)) /\ AllOK(Heard(nd, r, "failed"))
  BY HeardIs
<1>3. CASE node' = Heard(nd, r, code) /\ env' = e
  BY <1>1, <1>3
<1>4. CASE node' = Heard(nd, r, "failed") /\ env' = [e EXCEPT !.faults = @ + 1]
  <2>1. env' \in Bounds /\ env'.reign = e.reign /\ env'.moves = e.moves /\ env'.over = e.over
    BY <1>4 DEF Bounds
  <2> QED BY <1>1, <1>4, <2>1
<1> QED BY <1>3, <1>4 DEF AnswerWith

LEMMA AcceptQueueTypes ==
    ASSUME TypeInv, NEW r \in req, AcceptQueue(r)
    PROVE  TypeInv'
<1> DEFINE nd == [node EXCEPT ![r.at] = Inserted(@, r.tx)]
           e == [env EXCEPT !.taken = @ \cup {r.tx}, !.over = @ \cup Evicts(node[r.at], r.tx)]
<1>1. r \in Requests /\ r.at \in Nodes /\ r.tx \in Txs /\ NodeOK(node[r.at]) /\ AllOK(node)
  BY DEF TypeInv, AllOK, Requests
<1>2. NodeOK(Inserted(node[r.at], r.tx)) /\ Evicts(node[r.at], r.tx) \subseteq Txs
  BY <1>1, InsertedIs
<1>3. AllOK(nd)
  BY <1>1, <1>2, OneChanged
<1>4. e \in Bounds
  BY <1>1, <1>2 DEF TypeInv, Bounds
<1>5. AnswerWith(nd, r, "ok", e) /\ req' = req \ {r} /\ UNCHANGED chain
  BY DEF AcceptQueue
<1> HIDE DEF nd, e
<1>6. AllOK(node') /\ env' \in Bounds
  BY <1>1, <1>3, <1>4, <1>5, AnswerIs
<1> QED BY <1>5, <1>6 DEF TypeInv, AllOK

\* The node on which an extrinsic ran.
RanHere(n, t) == [Ran(node[n], t) EXCEPT !.pool = Without(@, {t})]

LEMMA RanHereIs ==
    ASSUME TypeInv, NEW n \in Nodes, NEW t \in Txs
    PROVE  /\ NodeOK(RanHere(n, t)) /\ AllOK([node EXCEPT ![n] = RanHere(n, t)])
           /\ RanHere(n, t).producing = node[n].producing /\ RanHere(n, t).peer = node[n].peer
           /\ RanHere(n, t).open = Append(node[n].open, t)
           /\ RanHere(n, t).nonce = node[n].nonce + 1
           /\ RanHere(n, t).status = [node[n].status EXCEPT ![t] = Applied(Height)]
           /\ RanHere(n, t).pool = Without(node[n].pool, {t})
           /\ RanHere(n, t).todo = node[n].todo /\ RanHere(n, t).here = node[n].here
           /\ RanHere(n, t).carried = node[n].carried
<1> DEFINE d == node[n]
           g == Ran(node[n], t)
           f == [g EXCEPT !.pool = Without(@, {t})]
<1>1. NodeOK(node[n]) /\ Len(chain) \in Nat /\ Len(chain) <= MaxBlocks
  BY DEF TypeInv, AllOK
<1>2. /\ NodeOK(g) /\ g.producing = d.producing /\ g.peer = d.peer
      /\ g.open = Append(d.open, t) /\ g.nonce = d.nonce + 1
      /\ g.status = [d.status EXCEPT ![t] = Applied(Height)]
      /\ g.pool = d.pool /\ g.todo = d.todo /\ g.carried = d.carried /\ g.here = d.here
  BY <1>1, RanIs
<1> HIDE DEF g
<1>3. NodeOK(f)
  BY <1>2, LessIsOK
<1>4. /\ f.producing = g.producing /\ f.peer = g.peer /\ f.open = g.open /\ f.nonce = g.nonce
      /\ f.status = g.status /\ f.pool = Without(g.pool, {t}) /\ f.todo = g.todo
      /\ f.carried = g.carried /\ f.here = g.here
  BY <1>2 DEF NodeOK, NodeState
<1>5. RanHere(n, t) = f
  BY DEF RanHere, g
<1> HIDE DEF f
<1>6. AllOK([node EXCEPT ![n] = f])
  BY <1>3, OneChanged DEF TypeInv
<1> QED BY <1>2, <1>3, <1>4, <1>5, <1>6

LEMMA AcceptRunTypes ==
    ASSUME TypeInv, NEW r \in req, AcceptRun(r)
    PROVE  TypeInv'
<1> DEFINE nd == [node EXCEPT ![r.at] = RanHere(r.at, r.tx)]
           e1 == [env EXCEPT !.taken = @ \cup {r.tx}]
           e2 == [env EXCEPT !.over = @ \cup {r.tx}]
<1>1. r \in Requests /\ r.at \in Nodes /\ r.tx \in Txs /\ AllOK(node) /\ env \in Bounds
  BY DEF TypeInv, Requests
<1>2. AllOK(nd)
  BY <1>1, RanHereIs
<1>3. e1 \in Bounds /\ e2 \in Bounds
  BY <1>1 DEF Bounds
<1>4. /\ req' = req \ {r} /\ UNCHANGED chain
      /\ \/ AnswerWith(node, r, "failed", env)
         \/ AnswerWith(nd, r, "ok", e1)
         \/ AnswerWith(node, r, "refused", e2)
  <2>1. nd = [node EXCEPT ![r.at] = [Ran(node[r.at], r.tx) EXCEPT !.pool = Without(@, {r.tx})]]
    BY DEF RanHere
  <2> HIDE DEF nd
  <2> QED BY <2>1 DEF AcceptRun
<1> HIDE DEF nd, e1, e2
<1>5. AllOK(node') /\ env' \in Bounds
  BY <1>1, <1>2, <1>3, <1>4, AnswerIs
<1> QED BY <1>4, <1>5 DEF TypeInv, AllOK

LEMMA LoseRequestTypes ==
    ASSUME TypeInv, NEW r \in req, LoseRequest(r)
    PROVE  TypeInv'
<1>1. r \in Requests /\ AllOK(node)
  BY DEF TypeInv
<1>2. AllOK(node')
  BY <1>1, HeardIs DEF LoseRequest
<1>3. env' \in Bounds
  <2>1. env' = [env EXCEPT !.faults = @ + 1]
    BY DEF LoseRequest
  <2>2. env \in Bounds
    BY DEF TypeInv
  <2> QED BY <2>1, <2>2, BoundsGrow
<1> QED BY <1>2, <1>3 DEF TypeInv, AllOK, LoseRequest

LEMMA RoundStartTypes ==
    ASSUME TypeInv, NEW n \in Nodes, RoundStart(n)
    PROVE  TypeInv'
<1>1. AllOK(node) /\ NodeOK(node[n]) /\ node[n] \in NodeState /\ node \in [Nodes -> NodeState]
  BY DEF TypeInv, AllOK
<1>2. PICK old \in SUBSET Queued(n) :
        /\ node' = [node EXCEPT ![n].pool = Without(node[n].pool, old),
                                ![n].todo = Without(node[n].pool, old)]
        /\ env' = IF old = {} THEN env ELSE [env EXCEPT !.moves = @ + 1, !.over = @ \cup old]
  BY DEF RoundStart
<1> DEFINE left == Without(node[n].pool, old)
           e == [node[n] EXCEPT !.pool = left, !.todo = left]
<1>3. left \in Pools /\ DOMAIN left \subseteq DOMAIN node[n].pool /\ old \in SUBSET Txs
  <2>1. node[n].pool \in Pools
    BY <1>1 DEF NodeState
  <2> QED BY <2>1, WithoutIs, PoolsAre DEF Queued
<1> HIDE DEF left
<1>4. NodeOK(e)
  BY <1>1, <1>3 DEF NodeOK, NodeState
<1>5. node' = [node EXCEPT ![n] = e]
  BY <1>1, <1>2 DEF NodeState, left
<1> HIDE DEF e
<1>6. AllOK(node')
  BY <1>1, <1>4, <1>5, OneChanged
<1>7. env' \in Bounds
  BY <1>2, <1>3, BoundsGrow DEF TypeInv
<1> QED BY <1>6, <1>7 DEF TypeInv, AllOK, RoundStart

LEMMA RoundDropTypes ==
    ASSUME TypeInv, NEW n \in Nodes, NEW t \in Txs, RoundDrop(n, t)
    PROVE  TypeInv'
<1> DEFINE e == [node[n] EXCEPT !.pool = Without(@, {t}), !.todo = Without(@, {t})]
<1>1. AllOK(node) /\ NodeOK(node[n]) /\ node \in [Nodes -> NodeState]
  BY DEF TypeInv, AllOK
<1>2. NodeOK(e)
  BY <1>1, LessIsOK
<1>3. node' = [node EXCEPT ![n] = e]
  BY <1>1 DEF RoundDrop
<1> HIDE DEF e
<1>4. AllOK(node')
  BY <1>1, <1>2, <1>3, OneChanged
<1> QED BY <1>4 DEF TypeInv, AllOK, RoundDrop

LEMMA RoundHereTypes ==
    ASSUME TypeInv, NEW n \in Nodes, NEW t \in Txs, RoundHere(n, t)
    PROVE  TypeInv'
<1> DEFINE e == [node[n] EXCEPT !.here = {t}]
<1>1. AllOK(node) /\ NodeOK(node[n]) /\ node \in [Nodes -> NodeState]
  BY DEF TypeInv, AllOK
<1>2. NodeOK(e)
  BY <1>1 DEF NodeOK, NodeState
<1>3. node' = [node EXCEPT ![n] = e]
  BY <1>1 DEF RoundHere
<1> HIDE DEF e
<1>4. AllOK(node')
  BY <1>1, <1>2, <1>3, OneChanged
<1> QED BY <1>4 DEF TypeInv, AllOK, RoundHere

LEMMA RoundRunTypes ==
    ASSUME TypeInv, NEW n \in Nodes, NEW t \in Txs, RoundRun(n, t)
    PROVE  TypeInv'
<1> DEFINE d == IF Runs(node[n], t) THEN Ran(node[n], t) ELSE node[n]
           e == [d EXCEPT !.pool = Without(@, {t}), !.todo = Without(@, {t})]
           f == [d EXCEPT !.pool = Without(@, {t}), !.todo = Without(@, {t}), !.here = {}]
<1>1. AllOK(node) /\ NodeOK(node[n]) /\ Len(chain) \in Nat /\ Len(chain) <= MaxBlocks
  BY DEF TypeInv, AllOK
<1>2. NodeOK(d)
  BY <1>1, RanIs
<1>3. node' = [node EXCEPT ![n] = f]
  BY DEF RoundRun
<1> HIDE DEF d
<1>4. NodeOK(e)
  BY <1>2, LessIsOK
<1>5. f = [e EXCEPT !.here = {}]
  BY <1>2 DEF NodeOK, NodeState
<1> HIDE DEF e, f
<1>6. NodeOK(f)
  BY <1>4, <1>5 DEF NodeOK, NodeState
<1>7. AllOK(node')
  <2>1. AllOK([node EXCEPT ![n] = f])
    BY <1>1, <1>6, OneChanged
  <2> QED BY <1>3, <2>1
<1>8. env' \in Bounds
  BY BoundsGrow DEF TypeInv, RoundRun
<1> QED BY <1>7, <1>8 DEF TypeInv, AllOK, RoundRun

LEMMA RoundForwardTypes ==
    ASSUME TypeInv, NEW n \in Nodes, NEW t \in Txs, RoundForward(n, t)
    PROVE  TypeInv'
<1>1. node[n] \in NodeState /\ node[n].peer # NoNode
  BY DEF TypeInv, AllOK, RoundForward, Route
<1>2. node[n].peer \in Nodes
  BY <1>1 DEF NodeState
<1>3. Request(t, node[n].peer, "round", n) \in Requests
  BY <1>2 DEF Request, Requests
<1> QED BY <1>3 DEF TypeInv, RoundForward

\* What a node answers of a hash.
LEMMA TxAnswerIs ==
    ASSUME AllOK(node), NEW p \in Nodes, NEW t \in Txs
    PROVE  TxAnswer(p, t) \in Says
<1>1. node[p] \in NodeState
  BY DEF AllOK
<1>2. CASE node[p].peer = NoNode
  BY <1>1, <1>2 DEF TxAnswer, NodeState
<1>3. CASE node[p].peer # NoNode
  <2>1. node[node[p].peer] \in NodeState
    BY <1>1, <1>3 DEF AllOK, NodeState
  <2> QED BY <1>1, <2>1 DEF TxAnswer, NodeState
<1> QED BY <1>2, <1>3

\* A node that asked says what it heard; its round is without the extrinsic, and
\* so is its queue when it heard that the extrinsic is sealed.
Settles(n, t, a) == node' = [node EXCEPT ![n].status[t] = a, ![n].pool = Without(@, {t}),
                                         ![n].todo = Without(@, {t})]
GoesOn(n, t, a) == node' = [node EXCEPT ![n].status[t] = a, ![n].todo = Without(@, {t})]

LEMMA RoundAskIs ==
    ASSUME AllOK(node), req \in SUBSET Requests, NEW n \in Nodes, NEW t \in Txs, RoundAsk(n, t)
    PROVE  /\ \E a \in Says :
                 \/ /\ Settles(n, t, a)
                    /\ \E p \in Nodes : a = TxAnswer(p, t) /\ a.s = "sealed"
                 \/ /\ GoesOn(n, t, a)
                    /\ \/ a = node[n].status[t]
                       \/ \E p \in Nodes : a = TxAnswer(p, t) /\ a.s = "applied"
           /\ req' \in SUBSET Requests
           /\ \A r \in req' : r \in req \/ r.from = "relay"
<1> DEFINE peers == {p \in Nodes : <<n, p>> \in Reach}
           said(s) == {TxAnswer(p, t) : p \in {q \in peers : TxAnswer(q, t).s = s}}
           relayed == {Request(t, p, "relay", n) : p \in peers}
           known == said("applied") \cup
                      (IF said("applied") = {} THEN {node[n].status[t]} ELSE {})
<1>1. \A s : \A a \in said(s) :
        a \in Says /\ \E p \in Nodes : a = TxAnswer(p, t) /\ a.s = s
  BY TxAnswerIs
<1>2. node[n].status[t] \in Says
  BY DEF AllOK, NodeState
<1>3. relayed \in SUBSET Requests /\ \A r \in relayed : r.from = "relay"
  <2>1. \A p \in Nodes : /\ Request(t, p, "relay", n) \in Requests
                         /\ Request(t, p, "relay", n).from = "relay"
    BY DEF Request, Requests
  <2> QED BY <2>1
<1>4. \A a \in known : \/ a \in said("applied") \/ a = node[n].status[t]
  OBVIOUS
<1>5. \/ /\ \E a \in said("sealed") : Settles(n, t, a)
         /\ req' = req
      \/ /\ \E a \in known : GoesOn(n, t, a)
         /\ req' = req \/ req' = req \cup relayed
  BY DEF RoundAsk, Settles, GoesOn
<1> HIDE DEF peers, said, relayed, known
<1>6. req' \in SUBSET Requests /\ \A r \in req' : r \in req \/ r.from = "relay"
  BY <1>3, <1>5
<1>7. CASE \E a \in said("sealed") : Settles(n, t, a)
  BY <1>1, <1>6, <1>7
<1>8. CASE \E a \in known : GoesOn(n, t, a)
  BY <1>1, <1>2, <1>4, <1>6, <1>8
<1> QED BY <1>5, <1>7, <1>8

\* What that is for the node: it becomes e.
Asked(n, t, a, e) ==
    /\ node' = [node EXCEPT ![n] = e] /\ NodeOK(e)
    /\ Alike(node[n], e) /\ e.carried = node[n].carried
    /\ e.status = [node[n].status EXCEPT ![t] = a]
    /\ e.todo = Without(node[n].todo, {t})

LEMMA AskedIs ==
    ASSUME AllOK(node), NEW n \in Nodes, NEW t \in Txs, NEW a \in Says
    PROVE  /\ Settles(n, t, a) => \E e : /\ Asked(n, t, a, e)
                                         /\ e.pool = Without(node[n].pool, {t})
           /\ GoesOn(n, t, a) => \E e : Asked(n, t, a, e) /\ e.pool = node[n].pool
<1> DEFINE said == [node[n].status EXCEPT ![t] = a]
           d == [node[n] EXCEPT !.status = said]
           e == [d EXCEPT !.pool = Without(@, {t}), !.todo = Without(@, {t})]
           f == [d EXCEPT !.todo = Without(@, {t})]
<1>1. NodeOK(node[n]) /\ node \in [Nodes -> NodeState] /\ node[n] \in NodeState
  BY DEF AllOK
<1>2. said \in [Txs -> Says]
  BY <1>1 DEF NodeState
<1>3. Settles(n, t, a) => node' = [node EXCEPT ![n] = e]
  BY <1>1 DEF NodeState, Settles
<1>4. GoesOn(n, t, a) => node' = [node EXCEPT ![n] = f]
  BY <1>1 DEF NodeState, GoesOn
<1> HIDE DEF said
<1>5. NodeOK(d) /\ Alike(node[n], d) /\ d.carried = node[n].carried /\ d.status = said
      /\ d.pool = node[n].pool /\ d.todo = node[n].todo
  BY <1>1, <1>2 DEF NodeOK, NodeState, Alike, RunsAs
<1> HIDE DEF d
<1>6. NodeOK(e) /\ NodeOK(f)
  BY <1>5, LessIsOK
<1>7. /\ Alike(d, e) /\ e.carried = d.carried /\ e.status = d.status
      /\ e.pool = Without(d.pool, {t}) /\ e.todo = Without(d.todo, {t})
      /\ Alike(d, f) /\ f.carried = d.carried /\ f.status = d.status
      /\ f.pool = d.pool /\ f.todo = Without(d.todo, {t})
  BY <1>5 DEF NodeOK, NodeState, Alike, RunsAs
<1>8. Alike(node[n], e) /\ Alike(node[n], f)
  BY <1>5, <1>7 DEF Alike, RunsAs
<1> HIDE DEF e, f
<1>9. ASSUME Settles(n, t, a)
      PROVE  Asked(n, t, a, e) /\ e.pool = Without(node[n].pool, {t})
  BY <1>3, <1>5, <1>6, <1>7, <1>8, <1>9 DEF Asked, said
<1>10. ASSUME GoesOn(n, t, a)
       PROVE  Asked(n, t, a, f) /\ f.pool = node[n].pool
  BY <1>4, <1>5, <1>6, <1>7, <1>8, <1>10 DEF Asked, said
<1> QED BY <1>9, <1>10

LEMMA RoundAskTypes ==
    ASSUME TypeInv, NEW n \in Nodes, NEW t \in Txs, RoundAsk(n, t)
    PROVE  TypeInv'
<1>1. AllOK(node) /\ req \in SUBSET Requests
  BY DEF TypeInv
<1>2. req' \in SUBSET Requests
  BY <1>1, RoundAskIs
<1>3. PICK a \in Says : Settles(n, t, a) \/ GoesOn(n, t, a)
  BY <1>1, RoundAskIs
<1>4. PICK e : node' = [node EXCEPT ![n] = e] /\ NodeOK(e)
  BY <1>1, <1>3, AskedIs DEF Asked
<1>5. AllOK(node')
  BY <1>1, <1>4, OneChanged
<1> QED BY <1>2, <1>5 DEF TypeInv, AllOK, RoundAsk

\* A poll: what it does to both nodes.
LEMMA PollIs ==
    ASSUME AllOK(node), NEW a \in Nodes, NEW b \in Nodes, Poll(a, b)
    PROVE  /\ AllOK(node')
           /\ \E o \in Seq(Txs) :
                 node' = [node EXCEPT ![b] = Marks(node[b], node[a]), ![a].offered = o]
<1> DEFINE there == Marks(node[b], node[a])
<1>1. NodeOK(node[a]) /\ NodeOK(node[b]) /\ node \in [Nodes -> NodeState]
      /\ node[a] \in NodeState
  BY DEF AllOK
<1>2. NodeOK(there)
  BY <1>1, MarksAre
<1>3. a # b
  BY MempoolAssumption DEF Poll
<1>4. PICK o \in Seq(Txs) : node' = [node EXCEPT ![b] = there, ![a].offered = o]
  <2>1. CASE node' = [node EXCEPT ![b] = there, ![a].offered = Offers(there)]
    BY <1>2, <2>1, OffersAre
  <2>2. CASE node' = [node EXCEPT ![b] = there]
    <3>1. node[a].offered \in Seq(Txs) /\ node[a] = [node[a] EXCEPT !.offered = node[a].offered]
      BY <1>1 DEF NodeState
    <3> HIDE DEF there
    <3>2. node' = [node EXCEPT ![b] = there, ![a].offered = node[a].offered]
      BY <1>1, <1>3, <2>2, <3>1
    <3> QED BY <3>1, <3>2
  <2> QED BY <2>1, <2>2 DEF Poll
<1> HIDE DEF there
<1> DEFINE e == [node[a] EXCEPT !.offered = o]
<1>5. NodeOK(e)
  BY <1>1 DEF NodeOK, NodeState
<1> HIDE DEF e
<1>6. AllOK([node EXCEPT ![b] = there])
  BY <1>2, OneChanged
<1>7. AllOK([[node EXCEPT ![b] = there] EXCEPT ![a] = e])
  BY <1>5, <1>6, OneChanged
<1>8. node' = [[node EXCEPT ![b] = there] EXCEPT ![a] = e]
  BY <1>1, <1>3, <1>4 DEF e
<1> QED BY <1>4, <1>7, <1>8 DEF there

LEMMA PollTypes ==
    ASSUME TypeInv, NEW a \in Nodes, NEW b \in Nodes, Poll(a, b)
    PROVE  TypeInv'
<1>1. AllOK(node')
  BY PollIs DEF TypeInv
<1>2. env' \in Bounds
  BY BoundsGrow DEF TypeInv, Poll
<1> QED BY <1>1, <1>2 DEF TypeInv, AllOK, Poll

LEMMA CarryOfferedTypes ==
    ASSUME TypeInv, NEW a \in Nodes, CarryOffered(a)
    PROVE  TypeInv'
<1> DEFINE t == Head(node[a].offered)
           e == [node[a] EXCEPT !.offered = Tail(@)]
<1>1. AllOK(node) /\ NodeOK(node[a]) /\ node \in [Nodes -> NodeState] /\ node[a].offered # <<>>
  BY DEF TypeInv, AllOK, CarryOffered
<1>2. node[a].offered \in Seq(Txs)
  BY <1>1 DEF NodeOK, NodeState
<1>3. t \in Txs /\ Tail(node[a].offered) \in Seq(Txs)
  BY <1>1, <1>2
<1>4. NodeOK(e)
  BY <1>1, <1>3 DEF NodeOK, NodeState
<1>5. node' = [node EXCEPT ![a] = e]
  BY <1>1 DEF CarryOffered
<1>6. req' = req \/ req' = req \cup {Request(t, a, "carry", a)}
  BY DEF CarryOffered
<1> HIDE DEF t, e
<1>7. Request(t, a, "carry", a) \in Requests
  BY <1>3 DEF Request, Requests
<1>8. AllOK(node')
  BY <1>1, <1>4, <1>5, OneChanged
<1>9. UNCHANGED <<chain, env>>
  BY DEF CarryOffered
<1> QED BY <1>6, <1>7, <1>8, <1>9 DEF TypeInv, AllOK

LEMMA AdvanceTypes ==
    ASSUME TypeInv, NEW n \in Nodes, Advance(n)
    PROVE  TypeInv'
<1> DEFINE said == [t \in Txs |-> IF node[n].status[t] = Applied(Height) THEN Sealed(Height)
                                  ELSE node[n].status[t]]
           e == [node[n] EXCEPT !.open = <<>>, !.status = said]
<1>1. AllOK(node) /\ NodeOK(node[n]) /\ node \in [Nodes -> NodeState] /\ env \in Bounds
  BY DEF TypeInv, AllOK
<1>2. node[n].open \in Seq(Txs) /\ node[n].status \in [Txs -> Says] /\ node[n] \in NodeState
  BY <1>1 DEF NodeOK, NodeState
<1>3. said \in [Txs -> Says]
  <2>1. Len(chain) + 1 \in 0..MaxBlocks + 1
    BY MempoolAssumption DEF TypeInv
  <2>2. Sealed(Height) \in Says
    BY <2>1 DEF Sealed, Says, Height
  <2> QED BY <1>2, <2>2
<1>4. node' = [node EXCEPT ![n] = e]
  BY <1>1, <1>2 DEF Advance, NodeState
<1> HIDE DEF said
<1>5. NodeOK(e)
  <2>1. <<>> \in Seq(Txs)
    OBVIOUS
  <2> QED BY <1>1, <1>3, <2>1 DEF NodeOK, NodeState
<1> HIDE DEF e
<1>6. AllOK(node')
  BY <1>1, <1>4, <1>5, OneChanged
<1>7. chain' \in Seq([reign : Nat, txs : Seq(Txs)]) /\ Len(chain') <= MaxBlocks
  <2>1. [reign |-> env.reign, txs |-> node[n].open] \in [reign : Nat, txs : Seq(Txs)]
    BY <1>1, <1>2 DEF Bounds
  <2>2. chain \in Seq([reign : Nat, txs : Seq(Txs)]) /\ Len(chain) < MaxBlocks
        /\ chain' = Append(chain, [reign |-> env.reign, txs |-> node[n].open])
    BY DEF TypeInv, Advance
  <2> QED BY <2>1, <2>2, MempoolAssumption
<1> QED BY <1>6, <1>7 DEF TypeInv, AllOK, Advance

\* The mesh decides.
LEMMA LeadTypes ==
    ASSUME TypeInv, NEW n \in Nodes, Lead(n)
    PROVE  TypeInv'
<1> DEFINE e == [node[n] EXCEPT !.producing = TRUE, !.peer = NoNode]
<1>1. AllOK(node) /\ NodeOK(node[n]) /\ node \in [Nodes -> NodeState]
  BY DEF TypeInv, AllOK
<1>2. NodeOK(e)
  BY <1>1 DEF NodeOK, NodeState
<1>3. node' = [node EXCEPT ![n] = e]
  BY <1>1 DEF Lead, NodeState
<1> HIDE DEF e
<1>4. AllOK(node')
  BY <1>1, <1>2, <1>3, OneChanged
<1>5. env' \in Bounds
  BY BoundsGrow DEF TypeInv, Lead
<1> QED BY <1>4, <1>5 DEF TypeInv, AllOK, Lead

LEMMA DemoteTypes ==
    ASSUME TypeInv, NEW n \in Nodes, Demote(n)
    PROVE  TypeInv'
<1>1. AllOK(node) /\ NodeOK(node[n]) /\ node \in [Nodes -> NodeState]
  BY DEF TypeInv, AllOK
<1>2. NodeOK(Demoted(node[n])) /\ Range(node[n].open) \in SUBSET Txs
  <2>1. <<>> \in Seq(Txs) /\ 0 \in Nat
    OBVIOUS
  <2>2. Range(node[n].open) \in SUBSET Txs
    BY <1>1 DEF NodeOK, NodeState, Range
  <2> QED BY <1>1, <2>1, <2>2 DEF NodeOK, NodeState, Demoted
<1>3. AllOK([node EXCEPT ![n] = Demoted(node[n])])
  BY <1>1, <1>2, OneChanged
<1>4. env' \in Bounds
  BY <1>2, BoundsGrow DEF TypeInv, Demote
<1> QED BY <1>3, <1>4 DEF TypeInv, AllOK, Demote

LEMMA FollowTypes ==
    ASSUME TypeInv, NEW n \in Nodes, NEW p \in Nodes \cup {NoNode}, Follow(n, p)
    PROVE  TypeInv'
<1> DEFINE e == [node[n] EXCEPT !.peer = p]
<1>1. AllOK(node) /\ NodeOK(node[n]) /\ node \in [Nodes -> NodeState]
  BY DEF TypeInv, AllOK
<1>2. NodeOK(e)
  BY <1>1 DEF NodeOK, NodeState
<1>3. node' = [node EXCEPT ![n] = e]
  BY <1>1 DEF Follow, NodeState
<1> HIDE DEF e
<1>4. AllOK(node')
  BY <1>1, <1>2, <1>3, OneChanged
<1>5. env' \in Bounds
  BY BoundsGrow DEF TypeInv, Follow
<1> QED BY <1>4, <1>5 DEF TypeInv, AllOK, Follow

LEMMA BlankIsOK == NodeOK(Blank)
<1> DEFINE none == <<>>
           said == [t \in Txs |-> Unknown]
<1>1. none \in Seq(Txs) /\ DOMAIN none = {} /\ Len(none) = 0 /\ none \in [{} -> BOOLEAN]
  OBVIOUS
<1>2. said \in [Txs -> Says]
  BY MempoolAssumption DEF Unknown, Says
<1>3. Blank = [producing |-> FALSE, peer |-> NoNode, pool |-> none, order |-> none,
               status |-> said, carried |-> none, offered |-> none, nonce |-> 0,
               open |-> none, todo |-> none, here |-> {}]
  BY DEF Blank
<1> HIDE DEF none, said
<1>4. none \in Pools
  BY <1>1 DEF Pools
<1>5. Blank \in NodeState
  BY <1>1, <1>2, <1>3, <1>4 DEF NodeState
<1>6. Len(Blank.carried) <= CarriedKeep /\ Len(Blank.order) <= MempoolCap
      /\ DOMAIN Blank.pool = {}
  BY <1>1, <1>3, MempoolAssumption
<1> QED BY <1>5, <1>6 DEF NodeOK

LEMMA RestartTypes ==
    ASSUME TypeInv, NEW n \in Nodes, Restart(n)
    PROVE  TypeInv'
<1> DEFINE cut == {r \in req : r.at = n \/ r.of = n}
           failed(x) == \E r \in cut : r.from = "round" /\ r.of = x
           lost(x) == {r.tx : r \in {q \in cut : q.of = x /\ q.from = "round"}}
           e(x) == [node[x] EXCEPT !.todo = IF failed(x) THEN Without(@, lost(x)) ELSE @]
<1>1. AllOK(node) /\ NodeOK(node[n]) /\ node \in [Nodes -> NodeState]
  BY DEF TypeInv, AllOK
<1>2. node' = [x \in Nodes |-> IF x = n THEN Blank ELSE e(x)]
  BY DEF Restart
<1>3. ASSUME NEW x \in Nodes
      PROVE  NodeOK(e(x))
  <2>1. NodeOK(node[x])
    BY <1>1 DEF AllOK
  <2>2. CASE failed(x)
    <3> DEFINE S == lost(x)
    <3>1. e(x) = [node[x] EXCEPT !.todo = Without(@, S)]
      BY <2>2
    <3> HIDE DEF S, e
    <3>2. NodeOK([node[x] EXCEPT !.todo = Without(@, S)])
      BY <2>1, LessIsOK
    <3> QED BY <3>1, <3>2
  <2>3. CASE ~failed(x)
    <3>1. e(x) = node[x]
      BY <2>1, <2>3 DEF NodeOK, NodeState
    <3> QED BY <2>1, <3>1
  <2> QED BY <2>2, <2>3
<1> HIDE DEF e
<1>4. AllOK(node')
  BY <1>2, <1>3, BlankIsOK DEF AllOK, NodeOK
<1>5. env' \in Bounds
  <2> DEFINE S == Queued(n) \cup Range(node[n].open)
  <2>1. S \in SUBSET Txs
    <3>1. node[n].pool \in Pools /\ node[n].open \in Seq(Txs)
      BY <1>1 DEF NodeOK, NodeState
    <3>2. DOMAIN node[n].pool \subseteq Txs
      BY <3>1, PoolsAre
    <3>3. Range(node[n].open) \subseteq Txs
      BY <3>1 DEF Range
    <3> QED BY <3>2, <3>3 DEF Queued
  <2>2. env' = [env EXCEPT !.moves = @ + 1, !.over = @ \cup S]
    <3>1. env' = [env EXCEPT !.moves = @ + 1, !.over = @ \cup Queued(n) \cup Range(node[n].open)]
      BY DEF Restart
    <3>2. env.over \cup Queued(n) \cup Range(node[n].open) = env.over \cup S
      OBVIOUS
    <3> QED BY <3>1, <3>2
  <2> HIDE DEF S
  <2> QED BY <2>1, <2>2, BoundsGrow DEF TypeInv
<1>6. req' \subseteq req /\ UNCHANGED chain
  BY DEF Restart
<1> QED BY <1>4, <1>5, <1>6 DEF TypeInv, AllOK

LEMMA TypesKept == TypeInv /\ [Next]_vars => TypeInv'
<1> SUFFICES ASSUME TypeInv, [Next]_vars PROVE TypeInv'
  OBVIOUS
<1>1. CASE UNCHANGED vars
  BY <1>1 DEF TypeInv, AllOK, NodeOK, vars
<1>2. ASSUME NEW n \in Nodes, NEW t \in Txs, Submit(n, t) \/ Round(n, t)
      PROVE  TypeInv'
  BY <1>2, SubmitTypes, RoundDropTypes, RoundHereTypes, RoundRunTypes, RoundForwardTypes,
     RoundAskTypes DEF Round
<1>3. ASSUME NEW r \in req, Handle(r) \/ LoseRequest(r)
      PROVE  TypeInv'
  BY <1>3, AcceptHereTypes, AcceptForwardTypes, AcceptQueueTypes, AcceptRunTypes,
     LoseRequestTypes DEF Handle
<1>4. ASSUME NEW n \in Nodes, \/ RoundStart(n) \/ CarryOffered(n) \/ Advance(n)
                              \/ Lead(n) \/ Demote(n) \/ Restart(n)
      PROVE  TypeInv'
  BY <1>4, RoundStartTypes, CarryOfferedTypes, AdvanceTypes, LeadTypes, DemoteTypes,
     RestartTypes
<1>5. ASSUME NEW a \in Nodes, NEW b \in Nodes, Poll(a, b) \/ Follow(a, b)
      PROVE  TypeInv'
  BY <1>5, PollTypes, FollowTypes
<1>6. ASSUME NEW n \in Nodes, Follow(n, NoNode)
      PROVE  TypeInv'
  BY <1>6, FollowTypes
<1> QED BY <1>1, <1>2, <1>3, <1>4, <1>5, <1>6 DEF Next

LEMMA TypesHold == Spec => []TypeInv
BY InitTypes, TypesKept, PTL DEF Spec

LEMMA TypesSay == TypeInv => QueueSound
<1> SUFFICES ASSUME TypeInv PROVE QueueSound
  OBVIOUS
<1>1. ASSUME NEW n \in Nodes
      PROVE  /\ NodeOK(node[n]) /\ node[n] \in NodeState
             /\ node[n].producing \in BOOLEAN /\ node[n].peer \in Nodes \cup {NoNode}
             /\ node[n].pool \in Pools /\ node[n].todo \in Pools
             /\ \A q \in {node[n].order, node[n].carried, node[n].offered, node[n].open} :
                   Range(q) \subseteq Txs
             /\ \A t \in Txs : node[n].status[t].h \in 0..MaxBlocks + 1
             /\ node[n].nonce \in Nat /\ node[n].here \in SUBSET Txs
  <2>1. NodeOK(node[n]) /\ node[n] \in NodeState
    BY DEF TypeInv, AllOK, NodeOK
  <2>2. \A q \in Seq(Txs) : Range(q) \subseteq Txs
    BY DEF Range
  <2>3. node[n].status \in [Txs -> Says]
    BY <2>1 DEF NodeState
  <2>4. \A t \in Txs : node[n].status[t].h \in 0..MaxBlocks + 1
    BY <2>3 DEF Says
  <2> QED BY <2>1, <2>2, <2>4 DEF NodeState
<1>2. \A r \in req : r.tx \in Txs /\ r.at \in Nodes /\ r.of \in Nodes
  BY DEF TypeInv, Requests
<1>3. env.taken \in SUBSET Txs /\ env.over \in SUBSET Txs
  BY DEF TypeInv, Bounds
<1>4. TypeOK
  BY <1>1, <1>2, <1>3 DEF TypeOK, NodeOK, Pools
<1> QED BY <1>1, <1>4 DEF QueueSound, NodeOK, Queued

\* Whatever the mesh and the order of calls, a node's queue stays within
\* MEMPOOL_CAP and every entry is in its order: mempool_insert evicts the entry
\* of what it drops from the order, and nothing else leaves the order.
THEOREM QueuesAreSound == Spec => []QueueSound
BY TypesHold, TypesSay, PTL

-----------------------------------------------------------------------------
(* What a reign runs: nonces, each once, in order.                         *)

\* Of the chain and one node: what ran in its open block is in order and below
\* its nonce; and, while it leads, above all that this reign has sealed.
RunsInOrder(n) ==
    /\ \A p, q \in 1..Len(node[n].open) : p < q => node[n].open[p] < node[n].open[q]
    /\ \A p \in 1..Len(node[n].open) : node[n].open[p] < node[n].nonce
    /\ node[n].producing =>
          \A i \in 1..Len(chain) : chain[i].reign = env.reign =>
              \A q \in 1..Len(chain[i].txs) :
                  /\ chain[i].txs[q] < node[n].nonce
                  /\ \A p \in 1..Len(node[n].open) : chain[i].txs[q] < node[n].open[p]

ReignInv ==
    /\ \A m, n \in Nodes : node[m].producing /\ node[n].producing => m = n
    /\ \A i \in 1..Len(chain) : chain[i].reign <= env.reign
    /\ \A n \in Nodes : RunsInOrder(n)
    /\ OncePerReign

\* What all steps but a block and a change of leader have in common: a node runs
\* what it ran, runs one extrinsic more, or starts anew without leading.
RunsOn(n) ==
    \/ /\ node'[n].producing = node[n].producing
       /\ node'[n].open = node[n].open /\ node'[n].nonce = node[n].nonce
    \/ /\ node'[n].producing = node[n].producing
       /\ node'[n].open = Append(node[n].open, node[n].nonce)
       /\ node'[n].nonce = node[n].nonce + 1
Stops(n) == ~node'[n].producing /\ node'[n].open = <<>> /\ node'[n].nonce = 0

RunsOnOrStops ==
    UNCHANGED chain /\ env'.reign = env.reign /\ \A n \in Nodes : RunsOn(n) \/ Stops(n)
RunStep == UNCHANGED chain /\ env'.reign = env.reign /\ \A n \in Nodes : RunsOn(n)

LEMMA RunStepKeepsOrder ==
    ASSUME TypeInv, ReignInv, RunsOnOrStops, NEW n \in Nodes
    PROVE  RunsInOrder(n)'
<1>1. /\ node[n].open \in Seq(Txs) /\ node[n].nonce \in Nat /\ Txs \subseteq Nat
      /\ node[n].producing \in BOOLEAN
  <2>1. node[n] \in NodeState
    BY DEF TypeInv, AllOK
  <2> QED BY <2>1, MempoolAssumption DEF NodeState
<1>2. \A p \in 1..Len(node[n].open) : node[n].open[p] \in Nat
  <2>1. \A p \in 1..Len(node[n].open) : node[n].open[p] \in Txs
    BY <1>1, ElementOfSeq
  <2> QED BY <1>1, <2>1
<1>3. ASSUME NEW i \in 1..Len(chain), NEW q \in 1..Len(chain[i].txs)
      PROVE  chain[i].txs[q] \in Nat
  <2>1. chain \in Seq([reign : Nat, txs : Seq(Txs)])
    BY DEF TypeInv
  <2>2. chain[i] \in [reign : Nat, txs : Seq(Txs)]
    BY <2>1, ElementOfSeq
  <2>3. chain[i].txs \in Seq(Txs)
    BY <2>2
  <2>4. chain[i].txs[q] \in Txs
    BY <2>3, ElementOfSeq
  <2> QED BY <1>1, <2>4
<1>4. chain' = chain /\ env'.reign = env.reign
  BY DEF RunsOnOrStops
<1>5. RunsInOrder(n)
  BY DEF ReignInv
<1>6. CASE /\ node'[n].producing = node[n].producing
           /\ node'[n].open = node[n].open /\ node'[n].nonce = node[n].nonce
  BY <1>4, <1>5, <1>6 DEF RunsInOrder
<1>7. CASE /\ node'[n].producing = node[n].producing
           /\ node'[n].open = Append(node[n].open, node[n].nonce)
           /\ node'[n].nonce = node[n].nonce + 1
  <2> DEFINE o == node[n].open
             c == node[n].nonce
             w == Append(o, c)
  <2>1. /\ Len(o) \in Nat /\ Len(w) = Len(o) + 1 /\ w[Len(o) + 1] = c
        /\ \A p \in 1..Len(o) : w[p] = o[p]
    BY <1>1
  <2>2. \A p \in 1..Len(o) : o[p] < c
    BY <1>5 DEF RunsInOrder
  <2>3. \A p, q \in 1..Len(o) : p < q => o[p] < o[q]
    BY <1>5 DEF RunsInOrder
  <2>9. node'[n].open = w /\ node'[n].nonce = c + 1 /\ node'[n].producing = node[n].producing
    BY <1>7
  <2> HIDE DEF w, o, c
  <2>4. c \in Nat /\ \A p \in 1..Len(o) : o[p] \in Nat
    BY <1>1, <1>2 DEF o, c
  <2>5. \A p \in 1..Len(w) : w[p] < c + 1
    BY <2>1, <2>2, <2>4
  <2>6. ASSUME NEW p \in 1..Len(w), NEW q \in 1..Len(w), p < q
        PROVE  w[p] < w[q]
    <3>1. CASE q = Len(o) + 1
      BY <2>1, <2>2, <2>6, <3>1
    <3>2. CASE q # Len(o) + 1
      BY <2>1, <2>3, <2>6, <3>2
    <3> QED BY <3>1, <3>2
  <2>7. ASSUME node[n].producing, NEW i \in 1..Len(chain), chain[i].reign = env.reign,
               NEW q \in 1..Len(chain[i].txs)
        PROVE  /\ chain[i].txs[q] < c + 1
               /\ \A p \in 1..Len(w) : chain[i].txs[q] < w[p]
    <3>1. /\ chain[i].txs[q] < c
          /\ \A p \in 1..Len(o) : chain[i].txs[q] < o[p]
      BY <1>5, <2>7 DEF RunsInOrder, o, c
    <3>2. chain[i].txs[q] \in Nat
      BY <1>3
    <3>3. \A p \in 1..Len(w) : p \in 1..Len(o) \/ w[p] = c
      BY <2>1
    <3>4. \A p \in 1..Len(w) : chain[i].txs[q] < w[p]
      BY <2>1, <3>1, <3>3
    <3>5. chain[i].txs[q] < c + 1
      BY <2>4, <3>1, <3>2
    <3> QED BY <3>4, <3>5
  <2>8. \A p \in 1..Len(w) : w[p] < c + 1
    BY <2>5
  <2> QED BY <1>4, <2>6, <2>7, <2>8, <2>9 DEF RunsInOrder
<1>8. CASE ~node'[n].producing /\ node'[n].open = <<>> /\ node'[n].nonce = 0
  BY <1>8 DEF RunsInOrder
<1> QED BY <1>6, <1>7, <1>8 DEF RunsOnOrStops, RunsOn, Stops

LEMMA RunStepKeepsReigns ==
    ASSUME TypeInv, ReignInv, RunsOnOrStops
    PROVE  ReignInv'
<1>1. \A m, n \in Nodes : node'[m].producing /\ node'[n].producing => m = n
  <2>1. \A n \in Nodes : node'[n].producing => node[n].producing
    BY DEF RunsOnOrStops, RunsOn, Stops
  <2> QED BY <2>1 DEF ReignInv
<1>2. \A i \in 1..Len(chain') : chain'[i].reign <= env'.reign
  BY DEF RunsOnOrStops, ReignInv
<1>3. OncePerReign'
  BY DEF RunsOnOrStops, ReignInv, OncePerReign
<1> QED BY <1>1, <1>2, <1>3, RunStepKeepsOrder DEF ReignInv

LEMMA RunsAlike ==
    ASSUME NEW n \in Nodes, Alike(node[n], node'[n])
    PROVE  RunsOn(n)
BY DEF Alike, RunsAs, RunsOn

LEMMA OneRunsAlike ==
    ASSUME TypeInv, NEW m \in Nodes, NEW e, node' = [node EXCEPT ![m] = e], RunsAs(node[m], e)
    PROVE  \A n \in Nodes : RunsOn(n)
<1>1. node \in [Nodes -> NodeState]
  BY DEF TypeInv, AllOK
<1>2. \A n \in Nodes : RunsAs(node[n], node'[n])
  BY <1>1 DEF RunsAs
<1> QED BY <1>2 DEF RunsOn, RunsAs

LEMMA AnswerRuns ==
    ASSUME NEW nd, AllOK(nd), NEW r \in Requests, NEW code, NEW e \in Bounds,
           e.reign = env.reign, AnswerWith(nd, r, code, e)
    PROVE  env'.reign = env.reign /\ \A n \in Nodes : Alike(nd[n], node'[n])
<1>1. node' \in {Heard(nd, r, code), Heard(nd, r, "failed")} /\ env'.reign = e.reign
  BY AnswerIs
<1>2. \A n \in Nodes : Alike(nd[n], Heard(nd, r, code)[n]) /\ Alike(nd[n], Heard(nd, r, "failed")[n])
  BY HeardIs DEF AfterAnswer
<1> QED BY <1>1, <1>2

LEMMA AcceptQueueRuns ==
    ASSUME TypeInv, NEW r \in req, AcceptQueue(r)
    PROVE  RunStep
<1> DEFINE nd == [node EXCEPT ![r.at] = Inserted(@, r.tx)]
           e == [env EXCEPT !.taken = @ \cup {r.tx}, !.over = @ \cup Evicts(node[r.at], r.tx)]
<1>1. r \in Requests /\ r.at \in Nodes /\ r.tx \in Txs /\ NodeOK(node[r.at]) /\ AllOK(node)
      /\ node \in [Nodes -> NodeState]
  BY DEF TypeInv, AllOK, Requests
<1>2. /\ NodeOK(Inserted(node[r.at], r.tx)) /\ Evicts(node[r.at], r.tx) \subseteq Txs
      /\ Alike(node[r.at], Inserted(node[r.at], r.tx))
  BY <1>1, InsertedIs
<1>3. AllOK(nd)
  BY <1>1, <1>2, OneChanged
<1>4. e \in Bounds /\ e.reign = env.reign
  BY <1>1, <1>2 DEF TypeInv, Bounds
<1>5. AnswerWith(nd, r, "ok", e) /\ UNCHANGED chain
  BY DEF AcceptQueue
<1>6. \A n \in Nodes : Alike(node[n], nd[n])
  BY <1>1, <1>2 DEF Alike, RunsAs
<1> HIDE DEF nd, e
<1>7. env'.reign = env.reign /\ \A n \in Nodes : Alike(nd[n], node'[n])
  BY <1>1, <1>3, <1>4, <1>5, AnswerRuns
<1> QED BY <1>5, <1>6, <1>7 DEF RunStep, RunsOn, Alike, RunsAs

LEMMA AcceptRunRuns ==
    ASSUME TypeInv, NEW r \in req, AcceptRun(r)
    PROVE  RunStep
<1> DEFINE d == node[r.at]
           f == RanHere(r.at, r.tx)
           nd == [node EXCEPT ![r.at] = f]
           e1 == [env EXCEPT !.taken = @ \cup {r.tx}]
           e2 == [env EXCEPT !.over = @ \cup {r.tx}]
<1>1. r \in Requests /\ r.at \in Nodes /\ r.tx \in Txs /\ AllOK(node) /\ env \in Bounds
      /\ node \in [Nodes -> NodeState] /\ NodeOK(d) /\ d \in NodeState
      /\ Len(chain) \in Nat /\ Len(chain) <= MaxBlocks
  BY DEF TypeInv, Requests, AllOK
<1>2. AllOK(nd) /\ NodeOK(f)
  BY <1>1, RanHereIs
<1>3. e1 \in Bounds /\ e2 \in Bounds /\ e1.reign = env.reign /\ e2.reign = env.reign
  BY <1>1 DEF Bounds
<1>4. /\ UNCHANGED chain
      /\ \/ AnswerWith(node, r, "failed", env)
         \/ Runs(d, r.tx) /\ AnswerWith(nd, r, "ok", e1)
         \/ AnswerWith(node, r, "refused", e2)
  <2>1. nd = [node EXCEPT ![r.at] = [Ran(node[r.at], r.tx) EXCEPT !.pool = Without(@, {r.tx})]]
    BY DEF RanHere
  <2> HIDE DEF nd
  <2> QED BY <2>1 DEF AcceptRun
<1>5. f.producing = d.producing /\ f.open = Append(d.open, r.tx) /\ f.nonce = d.nonce + 1
  BY <1>1, RanHereIs
<1>6. \A n \in Nodes : nd[n] = IF n = r.at THEN f ELSE node[n]
  BY <1>1
<1> HIDE DEF nd, e1, e2, f
<1>7. CASE AnswerWith(node, r, "failed", env) \/ AnswerWith(node, r, "refused", e2)
  <2>1. env'.reign = env.reign /\ \A n \in Nodes : Alike(node[n], node'[n])
    BY <1>1, <1>3, <1>7, AnswerRuns
  <2> QED BY <1>4, <2>1, RunsAlike DEF RunStep
<1>8. CASE Runs(d, r.tx) /\ AnswerWith(nd, r, "ok", e1)
  <2>1. env'.reign = env.reign /\ \A n \in Nodes : Alike(nd[n], node'[n])
    BY <1>1, <1>2, <1>3, <1>8, AnswerRuns
  <2>2. r.tx = d.nonce
    BY <1>8 DEF Runs
  <2>3. ASSUME NEW n \in Nodes
        PROVE  RunsOn(n)
    <3>1. CASE n = r.at
      BY <1>5, <1>6, <2>1, <2>2, <3>1 DEF RunsOn, Alike, RunsAs
    <3>2. CASE n # r.at
      BY <1>6, <2>1, <3>2 DEF RunsOn, Alike, RunsAs
    <3> QED BY <3>1, <3>2
  <2> QED BY <1>4, <2>1, <2>3 DEF RunStep
<1> QED BY <1>4, <1>7, <1>8

LEMMA RoundRunRuns ==
    ASSUME TypeInv, NEW m \in Nodes, NEW t \in Txs, RoundRun(m, t)
    PROVE  RunStep
<1> DEFINE c == IF Runs(node[m], t) THEN Ran(node[m], t) ELSE node[m]
           f == [c EXCEPT !.pool = Without(@, {t}), !.todo = Without(@, {t}), !.here = {}]
<1>1. AllOK(node) /\ NodeOK(node[m]) /\ Len(chain) \in Nat /\ Len(chain) <= MaxBlocks
      /\ node \in [Nodes -> NodeState] /\ node[m] \in NodeState
  BY DEF TypeInv, AllOK
<1>2. /\ NodeOK(Ran(node[m], t)) /\ Ran(node[m], t).producing = node[m].producing
      /\ Ran(node[m], t).open = Append(node[m].open, t)
      /\ Ran(node[m], t).nonce = node[m].nonce + 1
  BY <1>1, RanIs
<1>3. Runs(node[m], t) => /\ c.producing = node[m].producing
                          /\ c.open = Append(node[m].open, t) /\ c.nonce = node[m].nonce + 1
  BY <1>2
<1>4. c \in NodeState /\ (~Runs(node[m], t) => c = node[m])
  BY <1>1, <1>2 DEF NodeOK
<1>5. node' = [node EXCEPT ![m] = f] /\ UNCHANGED chain
  BY DEF RoundRun
<1> HIDE DEF c
<1>6. f.producing = c.producing /\ f.open = c.open /\ f.nonce = c.nonce
  BY <1>4 DEF NodeState
<1> HIDE DEF f
<1>7. \A n \in Nodes : node'[n] = IF n = m THEN f ELSE node[n]
  BY <1>1, <1>5
<1>8. env'.reign = env.reign
  BY DEF RoundRun, TypeInv, Bounds
<1>9. ASSUME NEW n \in Nodes
      PROVE  RunsOn(n)
  <2>1. CASE n # m
    BY <1>7, <2>1 DEF RunsOn
  <2>2. CASE n = m /\ ~Runs(node[m], t)
    BY <1>4, <1>6, <1>7, <2>2 DEF RunsOn, Alike, RunsAs
  <2>3. CASE n = m /\ Runs(node[m], t)
    <3>1. t = node[m].nonce
      BY <2>3 DEF Runs
    <3> QED BY <1>3, <1>6, <1>7, <2>3, <3>1 DEF RunsOn, Alike, RunsAs
  <2> QED BY <2>1, <2>2, <2>3
<1> QED BY <1>5, <1>8, <1>9 DEF RunStep

\* The steps that leave the running alone: queues, routes, calls.
LEMMA CallsRun ==
    ASSUME TypeInv,
           \/ \E n \in Nodes, t \in Txs : Submit(n, t) \/ RoundForward(n, t)
           \/ \E r \in req : AcceptHere(r) \/ AcceptForward(r)
    PROVE  RunStep
<1>1. UNCHANGED <<node, chain>>
  BY DEF Submit, RoundForward, AcceptHere, AcceptForward
<1>2. env'.reign = env.reign
  BY DEF Submit, RoundForward, AcceptHere, AcceptForward, TypeInv, Bounds
<1> QED BY <1>1, <1>2 DEF RunStep, RunsOn

LEMMA QueuesRun ==
    ASSUME TypeInv, NEW n \in Nodes,
           \/ \E t \in Txs : RoundDrop(n, t) \/ RoundHere(n, t)
           \/ RoundStart(n) \/ CarryOffered(n)
           \/ \E b \in Nodes \cup {NoNode} : Follow(n, b)
    PROVE  RunStep
<1>1. node \in [Nodes -> NodeState] /\ env \in Bounds
  BY DEF TypeInv, AllOK
<1>2. UNCHANGED chain /\ env'.reign = env.reign
  BY <1>1 DEF RoundDrop, RoundHere, RoundStart, CarryOffered, Follow, Bounds
<1>3. \A m \in Nodes : RunsOn(m)
  <2>1. CASE \E t \in Txs : RoundDrop(n, t)
    <3>1. PICK t \in Txs : RoundDrop(n, t)
      BY <2>1
    <3> DEFINE e == [node[n] EXCEPT !.pool = Without(@, {t}), !.todo = Without(@, {t})]
    <3>2. node' = [node EXCEPT ![n] = e]
      BY <1>1, <3>1 DEF RoundDrop
    <3>3. RunsAs(node[n], e)
      BY <1>1 DEF RunsAs, NodeState
    <3> QED BY <3>2, <3>3, OneRunsAlike
  <2>2. CASE \E t \in Txs : RoundHere(n, t)
    <3>1. PICK t \in Txs : RoundHere(n, t)
      BY <2>2
    <3> DEFINE e == [node[n] EXCEPT !.here = {t}]
    <3>2. node' = [node EXCEPT ![n] = e]
      BY <1>1, <3>1 DEF RoundHere
    <3>3. RunsAs(node[n], e)
      BY <1>1 DEF RunsAs, NodeState
    <3> QED BY <3>2, <3>3, OneRunsAlike
  <2>3. CASE RoundStart(n)
    <3>1. PICK old : node' = [node EXCEPT ![n].pool = Without(node[n].pool, old),
                                          ![n].todo = Without(node[n].pool, old)]
      BY <2>3 DEF RoundStart
    <3> DEFINE e == [node[n] EXCEPT !.pool = Without(node[n].pool, old),
                                    !.todo = Without(node[n].pool, old)]
    <3>2. node' = [node EXCEPT ![n] = e]
      BY <1>1, <3>1 DEF NodeState
    <3>3. RunsAs(node[n], e)
      BY <1>1 DEF RunsAs, NodeState
    <3> QED BY <3>2, <3>3, OneRunsAlike
  <2>4. CASE CarryOffered(n)
    <3> DEFINE e == [node[n] EXCEPT !.offered = Tail(@)]
    <3>1. node' = [node EXCEPT ![n] = e]
      BY <1>1, <2>4 DEF CarryOffered
    <3>2. RunsAs(node[n], e)
      BY <1>1 DEF RunsAs, NodeState
    <3> QED BY <3>1, <3>2, OneRunsAlike
  <2>5. CASE \E b \in Nodes \cup {NoNode} : Follow(n, b)
    <3>1. PICK b : Follow(n, b)
      BY <2>5
    <3> DEFINE e == [node[n] EXCEPT !.peer = b]
    <3>2. node' = [node EXCEPT ![n] = e]
      BY <1>1, <3>1 DEF Follow
    <3>3. RunsAs(node[n], e)
      BY <1>1 DEF RunsAs, NodeState
    <3> QED BY <3>2, <3>3, OneRunsAlike
  <2> QED BY <2>1, <2>2, <2>3, <2>4, <2>5
<1> QED BY <1>2, <1>3 DEF RunStep

LEMMA RoundAskRuns ==
    ASSUME TypeInv, NEW m \in Nodes, NEW t \in Txs, RoundAsk(m, t)
    PROVE  RunStep
<1>1. AllOK(node) /\ req \in SUBSET Requests
  BY DEF TypeInv
<1>2. PICK a \in Says : Settles(m, t, a) \/ GoesOn(m, t, a)
  BY <1>1, RoundAskIs
<1>3. PICK e : node' = [node EXCEPT ![m] = e] /\ Alike(node[m], e)
  BY <1>1, <1>2, AskedIs DEF Asked
<1>4. \A n \in Nodes : RunsOn(n)
  BY <1>3, OneRunsAlike DEF Alike
<1>5. UNCHANGED <<chain, env>>
  BY DEF RoundAsk
<1> QED BY <1>4, <1>5 DEF RunStep

LEMMA PollRuns ==
    ASSUME TypeInv, NEW a \in Nodes, NEW b \in Nodes, Poll(a, b)
    PROVE  RunStep
<1>1. node \in [Nodes -> NodeState] /\ AllOK(node) /\ NodeOK(node[b])
  BY DEF TypeInv, AllOK
<1>2. PICK o \in Seq(Txs) :
        node' = [node EXCEPT ![b] = Marks(node[b], node[a]), ![a].offered = o]
  BY <1>1, PollIs
<1>4. Marks(node[b], node[a]) \in NodeState /\ Alike(node[b], Marks(node[b], node[a]))
  BY <1>1, MarksAre DEF NodeOK
<1>5. a # b
  BY MempoolAssumption DEF Poll
<1>6. \A n \in Nodes : Alike(node[n], node'[n])
  BY <1>1, <1>2, <1>4, <1>5 DEF Alike, RunsAs, NodeState
<1>7. UNCHANGED chain /\ env'.reign = env.reign
  BY DEF Poll, TypeInv, Bounds
<1> QED BY <1>6, <1>7, RunsAlike DEF RunStep

LEMMA LostRequestRuns ==
    ASSUME TypeInv, NEW r \in req, LoseRequest(r)
    PROVE  RunStep
<1>1. AllOK(node) /\ r \in Requests
  BY DEF TypeInv
<1>2. \A n \in Nodes : Alike(node[n], node'[n])
  BY <1>1, HeardIs DEF LoseRequest, AfterAnswer
<1>3. UNCHANGED chain /\ env'.reign = env.reign
  BY DEF LoseRequest, TypeInv, Bounds
<1> QED BY <1>2, <1>3, RunsAlike DEF RunStep

LEMMA StopsRun ==
    ASSUME TypeInv, NEW m \in Nodes, Demote(m) \/ Restart(m)
    PROVE  RunsOnOrStops
<1>1. node \in [Nodes -> NodeState]
  BY DEF TypeInv, AllOK
<1>2. UNCHANGED chain /\ env'.reign = env.reign
  BY DEF Demote, Restart, TypeInv, Bounds
<1>3. CASE Demote(m)
  <2>1. \A n \in Nodes : RunsOn(n) \/ Stops(n)
    BY <1>1, <1>3 DEF Demote, Demoted, RunsOn, Stops, NodeState
  <2> QED BY <1>2, <2>1 DEF RunsOnOrStops
<1>4. CASE Restart(m)
  <2> DEFINE cut == {r \in req : r.at = m \/ r.of = m}
             q(x) == IF \E r \in cut : r.from = "round" /\ r.of = x
                     THEN Without(node[x].todo, {r.tx : r \in {p \in cut : p.of = x /\ p.from = "round"}})
                     ELSE node[x].todo
  <2>5. \A n \in Nodes : n # m => node'[n] = [node[n] EXCEPT !.todo = q(n)]
    BY <1>4 DEF Restart
  <2> HIDE DEF q
  <2>1. \A n \in Nodes : n # m => RunsAs(node[n], node'[n])
    BY <1>1, <2>5 DEF RunsAs, NodeState
  <2>2. node'[m] = Blank
    BY <1>4 DEF Restart
  <2>3. ~Blank.producing /\ Blank.open = <<>> /\ Blank.nonce = 0
    BY DEF Blank
  <2>4. \A n \in Nodes : RunsOn(n) \/ Stops(n)
    BY <2>1, <2>2, <2>3 DEF RunsOn, Stops, RunsAs
  <2> QED BY <1>2, <2>4 DEF RunsOnOrStops
<1> QED BY <1>3, <1>4

LEMMA LeadKeepsReigns ==
    ASSUME TypeInv, ReignInv, NEW n \in Nodes, Lead(n)
    PROVE  ReignInv'
<1>1. /\ node \in [Nodes -> NodeState] /\ env \in Bounds
      /\ chain \in Seq([reign : Nat, txs : Seq(Txs)])
  BY DEF TypeInv, AllOK
<1>2. /\ \A p \in Nodes : ~node[p].producing
      /\ chain' = chain /\ env'.reign = env.reign + 1 /\ env.reign \in Nat
      /\ node' = [node EXCEPT ![n].producing = TRUE, ![n].peer = NoNode]
  BY <1>1 DEF Lead, Bounds
<1>3. \A m \in Nodes : /\ node'[m].open = node[m].open /\ node'[m].nonce = node[m].nonce
                       /\ m # n => node'[m].producing = node[m].producing
  BY <1>1, <1>2 DEF NodeState
<1>4. \A i \in 1..Len(chain) : chain[i].reign \in Nat /\ chain[i].reign <= env.reign
  <2>1. \A i \in 1..Len(chain) : chain[i] \in [reign : Nat, txs : Seq(Txs)]
    BY <1>1, ElementOfSeq
  <2> QED BY <2>1 DEF ReignInv
<1>5. \A i \in 1..Len(chain') : chain'[i].reign <= env'.reign /\ chain'[i].reign # env'.reign
  BY <1>2, <1>4
<1>6. \A m \in Nodes : RunsInOrder(m)'
  BY <1>2, <1>3, <1>5 DEF ReignInv, RunsInOrder
<1>7. OncePerReign'
  BY <1>2 DEF ReignInv, OncePerReign
<1>8. \A l, m \in Nodes : node'[l].producing /\ node'[m].producing => l = m
  BY <1>2, <1>3
<1> QED BY <1>5, <1>6, <1>7, <1>8 DEF ReignInv

\* A block: all of it is in order, below the nonce, and above what this reign has
\* sealed.
LEMMA AdvanceKeepsReigns ==
    ASSUME TypeInv, ReignInv, NEW n \in Nodes, Advance(n)
    PROVE  ReignInv'
<1> DEFINE o == node[n].open
           c == node[n].nonce
           b == [reign |-> env.reign, txs |-> o]
           k == Len(chain)
<1>1. /\ node \in [Nodes -> NodeState] /\ env.reign \in Nat /\ k \in Nat
      /\ chain \in Seq([reign : Nat, txs : Seq(Txs)])
  BY DEF TypeInv, AllOK, Bounds
<1>2. /\ node[n].producing /\ chain' = Append(chain, b) /\ env'.reign = env.reign
      /\ \A m \in Nodes : /\ node'[m].producing = node[m].producing
                          /\ node'[m].nonce = node[m].nonce
                          /\ node'[m].open = IF m = n THEN <<>> ELSE node[m].open
  BY <1>1 DEF Advance, NodeState
<1>3. /\ Len(chain') = k + 1 /\ chain'[k + 1] = b
      /\ \A i \in 1..k : chain'[i] = chain[i]
  <2>1. b \in [reign : Nat, txs : Seq(Txs)]
    BY <1>1 DEF NodeState
  <2> HIDE DEF b
  <2> QED BY <1>1, <1>2, <2>1
<1>4. o \in Seq(Txs) /\ c \in Nat /\ Len(o) \in Nat /\ Len(<<>>) = 0
  BY <1>1 DEF NodeState
<1>5. /\ \A p, q \in 1..Len(o) : p < q => o[p] < o[q]
      /\ \A p \in 1..Len(o) : o[p] < c /\ o[p] \in Nat
  <2>1. \A p \in 1..Len(o) : o[p] \in Txs
    BY <1>4, ElementOfSeq
  <2> QED BY <2>1, MempoolAssumption DEF ReignInv, RunsInOrder
<1>6. ASSUME NEW i \in 1..k, chain[i].reign = env.reign, NEW q \in 1..Len(chain[i].txs)
      PROVE  /\ chain[i].txs[q] < c /\ chain[i].txs[q] \in Nat
             /\ \A p \in 1..Len(o) : chain[i].txs[q] < o[p]
  <2>1. chain[i] \in [reign : Nat, txs : Seq(Txs)]
    BY <1>1, ElementOfSeq
  <2>2. chain[i].txs \in Seq(Txs)
    BY <2>1
  <2>3. chain[i].txs[q] \in Txs
    BY <2>2, ElementOfSeq
  <2> QED BY <1>2, <1>6, <2>3, MempoolAssumption DEF ReignInv, RunsInOrder
<1>7. b.reign = env.reign /\ b.txs = o
  OBVIOUS
<1> HIDE DEF b, o, c, k
<1>8. \A m \in Nodes : RunsInOrder(m)'
  <2> SUFFICES ASSUME NEW m \in Nodes PROVE RunsInOrder(m)'
    OBVIOUS
  <2>1. CASE m # n
    <3>1. ~node[m].producing
      BY <1>2, <2>1 DEF ReignInv
    <3> QED BY <1>2, <2>1, <3>1 DEF ReignInv, RunsInOrder
  <2>2. CASE m = n
    <3>1. node'[m].open = <<>> /\ node'[m].nonce = c
      BY <1>2, <2>2 DEF c
    <3>2. ASSUME NEW i \in 1..Len(chain'), chain'[i].reign = env'.reign,
                 NEW q \in 1..Len(chain'[i].txs)
          PROVE  chain'[i].txs[q] < c
      <4>1. CASE i = k + 1
        BY <1>3, <1>5, <1>7, <4>1
      <4>2. CASE i # k + 1
        <5>1. i \in 1..k
          BY <1>1, <1>3, <4>2 DEF k
        <5> QED BY <1>2, <1>3, <1>6, <3>2, <5>1
      <4> QED BY <4>1, <4>2
    <3>3. 1..Len(<<>>) = {}
      BY <1>4
    <3> QED BY <3>1, <3>2, <3>3 DEF RunsInOrder
  <2> QED BY <2>1, <2>2
<1>9. OncePerReign'
  <2>1. DOMAIN chain' = 1..k + 1 /\ DOMAIN chain = 1..k /\ DOMAIN o = 1..Len(o)
    BY <1>1, <1>2, <1>4, <1>7 DEF k, b
  <2>2. \A i \in 1..k : DOMAIN chain[i].txs = 1..Len(chain[i].txs)
    <3>1. \A i \in 1..k : chain[i] \in [reign : Nat, txs : Seq(Txs)]
      BY <1>1, ElementOfSeq DEF k
    <3> QED BY <3>1
  <2>3. ASSUME NEW i \in 1..k, NEW p \in DOMAIN chain[i].txs, NEW q \in DOMAIN o,
               chain[i].reign = env.reign
        PROVE  chain[i].txs[p] # o[q]
    BY <1>5, <1>6, <2>1, <2>2, <2>3
  <2>4. ASSUME NEW p \in DOMAIN o, NEW q \in DOMAIN o, o[p] = o[q]
        PROVE  p = q
    <3>1. p \in Nat /\ q \in Nat /\ o[p] \in Nat
      BY <1>4, <1>5, <2>1
    <3>2. ~(p < q) /\ ~(q < p)
      BY <1>5, <2>1, <2>4, <3>1
    <3> QED BY <3>1, <3>2
  <2>5. \A i \in 1..k + 1 : i \in 1..k \/ i = k + 1
    BY <1>1 DEF k
  <2> SUFFICES ASSUME NEW i \in 1..k + 1, NEW j \in 1..k + 1,
                      NEW p \in DOMAIN chain'[i].txs, NEW q \in DOMAIN chain'[j].txs,
                      chain'[i].reign = chain'[j].reign, chain'[i].txs[p] = chain'[j].txs[q]
               PROVE  i = j /\ p = q
    BY <2>1 DEF OncePerReign
  <2>6. CASE i \in 1..k /\ j \in 1..k
    BY <1>3, <2>1, <2>6 DEF ReignInv, OncePerReign
  <2>7. CASE i \in 1..k /\ j = k + 1
    BY <1>3, <1>7, <2>3, <2>7
  <2>8. CASE i = k + 1 /\ j \in 1..k
    BY <1>3, <1>7, <2>3, <2>8
  <2>9. CASE i = k + 1 /\ j = k + 1
    BY <1>3, <1>7, <2>4, <2>9
  <2> QED BY <2>5, <2>6, <2>7, <2>8, <2>9
<1>10. \A i \in 1..Len(chain') : chain'[i].reign <= env'.reign
  <2>1. \A i \in 1..Len(chain') : i = k + 1 \/ i \in 1..k
    BY <1>1, <1>3 DEF k
  <2> QED BY <1>1, <1>2, <1>3, <1>7, <2>1 DEF ReignInv, k
<1>11. \A l, m \in Nodes : node'[l].producing /\ node'[m].producing => l = m
  BY <1>2 DEF ReignInv
<1> QED BY <1>8, <1>9, <1>10, <1>11 DEF ReignInv

LEMMA InitReigns == Init => ReignInv
<1> SUFFICES ASSUME Init PROVE ReignInv
  OBVIOUS
<1>1. PICK lead : lead \in Nodes \cup {NoNode} /\ node = Calm(lead)
  BY DEF Init
<1>2. chain = <<>> /\ Len(chain) = 0 /\ DOMAIN chain = {}
  BY DEF Init
<1>3. \A n \in Nodes : /\ node[n].producing = (n = lead) /\ node[n].open = <<>>
                       /\ Len(node[n].open) = 0
  BY <1>1 DEF Calm, Blank
<1>4. \A n \in Nodes : RunsInOrder(n)
  BY <1>2, <1>3 DEF RunsInOrder
<1>5. \A m, n \in Nodes : node[m].producing /\ node[n].producing => m = n
  BY <1>3
<1>6. OncePerReign /\ \A i \in 1..Len(chain) : chain[i].reign <= env.reign
  BY <1>2 DEF OncePerReign
<1> QED BY <1>4, <1>5, <1>6 DEF ReignInv

LEMMA ReignsKept == TypeInv /\ ReignInv /\ [Next]_vars => ReignInv'
<1> SUFFICES ASSUME TypeInv, ReignInv, [Next]_vars PROVE ReignInv'
  OBVIOUS
<1>1. CASE UNCHANGED vars
  BY <1>1 DEF ReignInv, RunsInOrder, OncePerReign, vars
<1>2. ASSUME NEW n \in Nodes, NEW t \in Txs, Submit(n, t) \/ Round(n, t)
      PROVE  ReignInv'
  <2>1. RunsOnOrStops
    BY <1>2, CallsRun, QueuesRun, RoundRunRuns, RoundAskRuns DEF Round, RunStep, RunsOnOrStops
  <2> QED BY <2>1, RunStepKeepsReigns
<1>3. ASSUME NEW r \in req, Handle(r) \/ LoseRequest(r)
      PROVE  ReignInv'
  <2>1. RunsOnOrStops
    BY <1>3, CallsRun, AcceptQueueRuns, AcceptRunRuns, LostRequestRuns DEF Handle, RunStep, RunsOnOrStops
  <2> QED BY <2>1, RunStepKeepsReigns
<1>4. ASSUME NEW n \in Nodes, RoundStart(n) \/ CarryOffered(n) \/ Demote(n) \/ Restart(n)
      PROVE  ReignInv'
  <2>1. RunsOnOrStops
    BY <1>4, QueuesRun, StopsRun DEF RunStep, RunsOnOrStops
  <2> QED BY <2>1, RunStepKeepsReigns
<1>5. ASSUME NEW a \in Nodes, NEW b \in Nodes \cup {NoNode}, Follow(a, b) \/ (b \in Nodes /\ Poll(a, b))
      PROVE  ReignInv'
  <2>1. RunsOnOrStops
    BY <1>5, QueuesRun, PollRuns DEF RunStep, RunsOnOrStops
  <2> QED BY <2>1, RunStepKeepsReigns
<1> QED BY <1>1, <1>2, <1>3, <1>4, <1>5, LeadKeepsReigns, AdvanceKeepsReigns DEF Next

LEMMA ReignsHold == Spec => [](TypeInv /\ ReignInv)
<1>1. Init => TypeInv /\ ReignInv
  BY InitTypes, InitReigns
<1>2. TypeInv /\ ReignInv /\ [Next]_vars => (TypeInv /\ ReignInv)'
  BY TypesKept, ReignsKept
<1> QED BY <1>1, <1>2, PTL DEF Spec

\* A reign runs an extrinsic once at most, whatever ways it takes to the primary
\* (the client's retry, relays, carries, the round that had it in its snapshot):
\* Node::submit compares the nonce, which only grows while the node leads.
THEOREM ReignsRunOnce == Spec => []OncePerReign
<1>1. TypeInv /\ ReignInv => OncePerReign
  BY DEF ReignInv
<1> QED BY <1>1, ReignsHold, PTL

-----------------------------------------------------------------------------
(* While the roles stand still.                                            *)

\* A node with a route has no queue; a round neither runs nor forwards anything;
\* a carrier's call is at home or at the leader.
CalmRoutes ==
    /\ \A n \in Nodes :
          /\ node[n].peer # NoNode => node[n].peer \in Nodes /\ node[node[n].peer].producing
          /\ node[n].here = {}
          /\ Route(n) # "nobody" => DOMAIN node[n].pool = {} /\ DOMAIN node[n].todo = {}
    /\ \A r \in req : /\ r.from # "round"
                      /\ (r.from = "carry" /\ r.at # r.of) => node[r.at].producing

SaysRan(d, t) == d.status[t].s \in {"applied", "sealed"}

\* What a node says has run did; what it took from others it still has queued,
\* or it is settled; and so for what others took from it.
CalmQueues ==
    /\ \A n \in Nodes, t \in Txs : SaysRan(node[n], t) => HasRun(t)
    /\ \A n \in Nodes : \A t \in Range(node[n].carried) : Settled(t) \/ t \in Queued(n)
    /\ \A n \in Nodes : \A t \in Queued(n) :
          node[n].pool[t] => Settled(t) \/ \E p \in Nodes \ {n} : t \in Queued(p)

CalmInv == env.moves = 0 => CalmRoutes /\ CalmQueues

\* What a step does to a node while the roles stand still, and to the calls.
CalmNode(n) ==
    /\ node'[n].producing = node[n].producing /\ node'[n].peer = node[n].peer
    /\ node'[n].here = {}
    /\ Route(n) # "nobody" => DOMAIN node'[n].pool = {} /\ DOMAIN node'[n].todo = {}
    /\ \A t \in DOMAIN node[n].pool : t \in DOMAIN node'[n].pool \/ Settled(t)'
    /\ \A t \in Range(node'[n].carried) :
          t \in Range(node[n].carried) \/ t \in DOMAIN node'[n].pool \/ Settled(t)'
    /\ \A t \in DOMAIN node'[n].pool : node'[n].pool[t] =>
          \/ t \in DOMAIN node[n].pool /\ node[n].pool[t]
          \/ \E p \in Nodes \ {n} : t \in Range(node[p].carried)
    /\ \A t \in Txs : SaysRan(node'[n], t) => HasRun(t)'

CalmStep ==
    /\ \A n \in Nodes : CalmNode(n)
    /\ \A r \in req' : /\ r.from # "round"
                       /\ (r.from = "carry" /\ r.at # r.of) => node[r.at].producing
    /\ \A t \in Txs : Settled(t) => Settled(t)'

LEMMA CalmStepKeepsCalm ==
    ASSUME TypeInv, TypeInv', CalmRoutes, CalmQueues, CalmStep
    PROVE  CalmRoutes' /\ CalmQueues'
<1>1. \A n \in Nodes : CalmNode(n)
  BY DEF CalmStep
<1>2. CalmRoutes'
  <2>1. ASSUME NEW n \in Nodes
        PROVE  /\ node'[n].peer # NoNode => node'[n].peer \in Nodes /\ node'[node'[n].peer].producing
               /\ node'[n].here = {}
    BY <1>1 DEF CalmNode, CalmRoutes
  <2>2. ASSUME NEW n \in Nodes, Route(n)' # "nobody"
        PROVE  DOMAIN node'[n].pool = {} /\ DOMAIN node'[n].todo = {}
    <3>1. Route(n) # "nobody"
      BY <1>1, <2>2 DEF CalmNode, Route
    <3> QED BY <1>1, <3>1 DEF CalmNode
  <2>3. ASSUME NEW r \in req'
        PROVE  /\ r.from # "round"
               /\ (r.from = "carry" /\ r.at # r.of) => node'[r.at].producing
    <3>1. r.at \in Nodes
      BY DEF TypeInv, Requests
    <3> QED BY <1>1, <3>1 DEF CalmStep, CalmNode
  <2> QED BY <2>1, <2>2, <2>3 DEF CalmRoutes
<1>3. \A n \in Nodes : Range(node[n].carried) \subseteq Txs /\ DOMAIN node[n].pool \subseteq Txs
  <2>1. \A n \in Nodes : node[n].pool \in Pools /\ node[n].carried \in Seq(Txs)
    BY DEF TypeInv, AllOK, NodeState
  <2>2. \A q \in Seq(Txs) : Range(q) \subseteq Txs
    BY DEF Range
  <2> QED BY <2>1, <2>2, PoolsAre
<1>4. ASSUME NEW n \in Nodes, NEW t \in Range(node[n].carried)
      PROVE  Settled(t)' \/ t \in DOMAIN node'[n].pool
  <2>1. Settled(t) \/ t \in DOMAIN node[n].pool
    BY DEF CalmQueues, Queued
  <2>2. t \in Txs
    BY <1>3
  <2> QED BY <1>1, <2>1, <2>2 DEF CalmStep, CalmNode
<1>5. ASSUME NEW n \in Nodes, NEW t \in Range(node'[n].carried)
      PROVE  Settled(t)' \/ t \in DOMAIN node'[n].pool
  BY <1>1, <1>4 DEF CalmNode
<1>6. ASSUME NEW n \in Nodes, NEW t \in DOMAIN node'[n].pool, node'[n].pool[t]
      PROVE  Settled(t)' \/ \E p \in Nodes \ {n} : t \in DOMAIN node'[p].pool
  <2>1. CASE \E p \in Nodes \ {n} : t \in Range(node[p].carried)
    BY <1>4, <2>1
  <2>2. CASE t \in DOMAIN node[n].pool /\ node[n].pool[t]
    <3>1. Settled(t) \/ \E p \in Nodes \ {n} : t \in DOMAIN node[p].pool
      BY <2>2 DEF CalmQueues, Queued
    <3>2. t \in Txs
      BY <1>3, <2>2
    <3> QED BY <1>1, <3>1, <3>2 DEF CalmStep, CalmNode
  <2> QED BY <1>1, <1>6, <2>1, <2>2 DEF CalmNode
<1>7. \A n \in Nodes, t \in Txs : SaysRan(node'[n], t) => HasRun(t)'
  BY <1>1 DEF CalmNode
<1>8. CalmQueues'
  <2>1. \A n \in Nodes, t \in Txs : SaysRan(node[n], t)' => HasRun(t)'
    BY <1>7 DEF SaysRan
  <2>2. \A n \in Nodes : Queued(n)' = DOMAIN node'[n].pool
    BY DEF Queued
  <2> QED BY <1>5, <1>6, <2>1, <2>2 DEF CalmQueues
<1> QED BY <1>2, <1>8

\* What ran stays, in the open block or in the chain.
LEMMA RunsStay ==
    ASSUME TypeInv, RunStep, NEW t, HasRun(t)
    PROVE  HasRun(t)'
<1>1. CASE \E n \in Nodes : t \in Range(node[n].open)
  <2>1. PICK n \in Nodes : t \in Range(node[n].open)
    BY <1>1
  <2>2. node[n].open \in Seq(Txs)
    BY DEF TypeInv, AllOK, NodeState
  <2>3. t \in Range(node'[n].open)
    <3>1. CASE node'[n].open = node[n].open
      BY <2>1, <3>1
    <3>2. CASE node'[n].open = Append(node[n].open, node[n].nonce)
      <4> DEFINE o == node[n].open
                 w == node'[n].open
      <4>1. Len(o) \in Nat /\ DOMAIN o = 1..Len(o) /\ DOMAIN w = 1..Len(o) + 1
            /\ \A i \in 1..Len(o) : w[i] = o[i]
        BY <2>2, <3>2
      <4>2. t \in Range(o)
        BY <2>1
      <4> HIDE DEF o, w
      <4>3. PICK i \in DOMAIN o : t = o[i]
        BY <4>2 DEF Range
      <4>4. i \in DOMAIN w /\ w[i] = t
        BY <4>1, <4>3
      <4>5. t \in Range(w)
        BY <4>4 DEF Range
      <4> QED BY <4>5 DEF w
    <3> QED BY <3>1, <3>2 DEF RunStep, RunsOn
  <2> QED BY <2>3 DEF HasRun
<1>2. CASE \E i \in DOMAIN chain : t \in Range(chain[i].txs)
  BY <1>2 DEF HasRun, RunStep
<1> QED BY <1>1, <1>2 DEF HasRun

LEMMA SettledStays ==
    ASSUME TypeInv, RunStep, env.over \subseteq env'.over, NEW t, Settled(t)
    PROVE  Settled(t)'
BY RunsStay DEF Settled

\* A node nothing happens to.
LEMMA CalmSame ==
    ASSUME TypeInv, CalmRoutes, CalmQueues, RunStep, NEW n \in Nodes, node'[n] = node[n]
    PROVE  CalmNode(n)
<1>1. \A t \in Txs : SaysRan(node'[n], t) => HasRun(t)'
  <2>1. \A t \in Txs : SaysRan(node[n], t) => HasRun(t)
    BY DEF CalmQueues
  <2> QED BY <2>1, RunsStay
<1> QED BY <1>1 DEF CalmNode, CalmRoutes

LEMMA CallsCalm ==
    ASSUME TypeInv, CalmRoutes, CalmQueues,
           \/ \E n \in Nodes, t \in Txs : Submit(n, t) \/ RoundForward(n, t)
           \/ \E r \in req : AcceptHere(r) \/ AcceptForward(r)
    PROVE  CalmStep
<1>1. RunStep /\ node' = node
  BY CallsRun DEF Submit, RoundForward, AcceptHere, AcceptForward
<1>2. env'.over = env.over
  BY DEF Submit, RoundForward, AcceptHere, AcceptForward, TypeInv, Bounds
<1>3. \A n \in Nodes : CalmNode(n)
  BY <1>1, CalmSame
<1>4. \A t \in Txs : Settled(t) => Settled(t)'
  BY <1>1, <1>2, SettledStays
<1>5. ASSUME NEW s \in req'
      PROVE  s.from # "round" /\ ((s.from = "carry" /\ s.at # s.of) => node[s.at].producing)
  <2>1. CASE s \in req
    BY <2>1 DEF CalmRoutes
  <2>2. CASE \E n \in Nodes, t \in Txs : Submit(n, t) /\ s = Request(t, n, "client", n)
    BY <2>2 DEF Request
  <2>3. CASE \E n \in Nodes, t \in Txs : RoundForward(n, t)
    <3>1. PICK n \in Nodes, t \in Txs : RoundForward(n, t)
      BY <2>3
    <3>2. Route(n) # "nobody" /\ t \in DOMAIN node[n].todo
      BY <3>1 DEF RoundForward, RoundAt
    <3> QED BY <3>2 DEF CalmRoutes
  <2>4. CASE \E r \in req : AcceptHere(r) /\ s = [r EXCEPT !.here = TRUE]
    <3>1. PICK r \in req : s = [r EXCEPT !.here = TRUE]
      BY <2>4
    <3>2. r \in Requests
      BY DEF TypeInv
    <3>3. s.from = r.from /\ s.at = r.at /\ s.of = r.of
      BY <3>1, <3>2 DEF Requests
    <3> QED BY <3>3 DEF CalmRoutes
  <2>5. CASE \E r \in req : AcceptForward(r) /\ s = [r EXCEPT !.at = node[r.at].peer]
    <3>1. PICK r \in req : AcceptForward(r) /\ s = [r EXCEPT !.at = node[r.at].peer]
      BY <2>5
    <3>2. r \in Requests
      BY DEF TypeInv
    <3>3. s.from = r.from /\ s.at = node[r.at].peer /\ r.at \in Nodes
      BY <3>1, <3>2 DEF Requests
    <3>4. node[r.at].peer # NoNode
      BY <3>1 DEF AcceptForward, Route
    <3> QED BY <3>3, <3>4 DEF CalmRoutes
  <2>6. \/ s \in req
        \/ \E n \in Nodes, t \in Txs : Submit(n, t) /\ s = Request(t, n, "client", n)
        \/ \E n \in Nodes, t \in Txs : RoundForward(n, t)
        \/ \E r \in req : AcceptHere(r) /\ s = [r EXCEPT !.here = TRUE]
        \/ \E r \in req : AcceptForward(r) /\ s = [r EXCEPT !.at = node[r.at].peer]
    BY DEF Submit, AcceptHere, AcceptForward
  <2> QED BY <2>1, <2>2, <2>3, <2>4, <2>5, <2>6
<1> QED BY <1>3, <1>4, <1>5 DEF CalmStep

\* A call that is answered: nd is the state at the answer.
LEMMA AnsweredCalm ==
    ASSUME TypeInv, CalmRoutes, CalmQueues, RunStep, NEW r \in req, req' = req \ {r},
           NEW nd, AllOK(nd), NEW code,
           node' \in {Heard(nd, r, code), Heard(nd, r, "failed")},
           env.over \subseteq env'.over,
           \A n \in Nodes :
              /\ nd[n].producing = node[n].producing /\ nd[n].peer = node[n].peer
              /\ nd[n].here = {} /\ nd[n].carried = node[n].carried
              /\ Route(n) # "nobody" => DOMAIN nd[n].pool = {} /\ DOMAIN nd[n].todo = {}
              /\ \A t \in DOMAIN node[n].pool : t \in DOMAIN nd[n].pool \/ Settled(t)'
              /\ \A t \in DOMAIN nd[n].pool : nd[n].pool[t] =>
                    t \in DOMAIN node[n].pool /\ node[n].pool[t]
              /\ \A t \in Txs : SaysRan(nd[n], t) => HasRun(t)',
           (r.from = "carry" /\ code # "failed")
               => r.tx \in DOMAIN nd[r.of].pool \/ Settled(r.tx)'
    PROVE  CalmStep
<1>1. r \in Requests /\ r.from # "round"
  BY DEF TypeInv, CalmRoutes
<1>2. ASSUME NEW n \in Nodes
      PROVE  AfterAnswer(nd[n], node'[n], r, n, code) \/ AfterAnswer(nd[n], node'[n], r, n, "failed")
  <2>1. CASE node' = Heard(nd, r, code)
    BY <1>1, <2>1, HeardIs
  <2>2. CASE node' = Heard(nd, r, "failed")
    BY <1>1, <2>2, HeardIs
  <2> QED BY <2>1, <2>2
<1>3. ASSUME NEW n \in Nodes
      PROVE  /\ Alike(nd[n], node'[n]) /\ node'[n].status = nd[n].status
             /\ DOMAIN node'[n].pool = DOMAIN nd[n].pool
             /\ \A u \in DOMAIN nd[n].pool : node'[n].pool[u] = nd[n].pool[u]
             /\ DOMAIN node'[n].todo \subseteq DOMAIN nd[n].todo
             /\ \A u \in Range(node'[n].carried) :
                   \/ u \in Range(nd[n].carried)
                   \/ n = r.of /\ u = r.tx /\ r.from = "carry" /\ code # "failed"
  <2>1. /\ \A u \in DOMAIN nd[n].pool : u \in DOMAIN node'[n].pool
        /\ \A u \in DOMAIN node'[n].pool : u \in DOMAIN nd[n].pool /\ node'[n].pool[u] = nd[n].pool[u]
    BY <1>1, <1>2 DEF AfterAnswer
  <2>2. DOMAIN node'[n].pool = DOMAIN nd[n].pool
    BY <2>1
  <2> QED BY <1>2, <2>1, <2>2 DEF AfterAnswer
<1>4. ASSUME NEW n \in Nodes
      PROVE  CalmNode(n)
  <2>1. node'[n].producing = node[n].producing /\ node'[n].peer = node[n].peer /\ node'[n].here = {}
    BY <1>3 DEF Alike, RunsAs
  <2>2. Route(n) # "nobody" => DOMAIN node'[n].pool = {} /\ DOMAIN node'[n].todo = {}
    BY <1>3
  <2>3. \A t \in DOMAIN node[n].pool : t \in DOMAIN node'[n].pool \/ Settled(t)'
    BY <1>3
  <2>4. \A t \in Range(node'[n].carried) :
          t \in Range(node[n].carried) \/ t \in DOMAIN node'[n].pool \/ Settled(t)'
    BY <1>3
  <2>5. \A t \in DOMAIN node'[n].pool : node'[n].pool[t] => t \in DOMAIN node[n].pool /\ node[n].pool[t]
    BY <1>3
  <2>6. \A t \in Txs : SaysRan(node'[n], t) => HasRun(t)'
    BY <1>3 DEF SaysRan
  <2> QED BY <2>1, <2>2, <2>3, <2>4, <2>5, <2>6 DEF CalmNode
<1>5. \A t \in Txs : Settled(t) => Settled(t)'
  BY SettledStays
<1> QED BY <1>4, <1>5 DEF CalmStep, CalmRoutes

LEMMA LostCalm ==
    ASSUME TypeInv, CalmRoutes, CalmQueues, NEW r \in req, LoseRequest(r)
    PROVE  CalmStep
<1>1. RunStep
  BY LostRequestRuns
<1>2. AllOK(node) /\ req' = req \ {r} /\ node' = Heard(node, r, "failed")
  BY DEF TypeInv, LoseRequest
<1>3. env.over \subseteq env'.over
  BY DEF LoseRequest, TypeInv, Bounds
<1>4. \A n \in Nodes, t \in Txs : SaysRan(node[n], t) => HasRun(t)'
  BY <1>1, RunsStay DEF CalmQueues
<1> QED BY <1>1, <1>2, <1>3, <1>4, AnsweredCalm DEF CalmRoutes

\* What mempool_insert evicts is settled; the extrinsic is queued where it was
\* called, so a carrier that was answered has it queued itself.
LEMMA QueuedCalm ==
    ASSUME TypeInv, CalmRoutes, CalmQueues, NEW r \in req, AcceptQueue(r)
    PROVE  CalmStep
<1> DEFINE d == node[r.at]
           i == Inserted(d, r.tx)
           nd == [node EXCEPT ![r.at] = i]
           e == [env EXCEPT !.taken = @ \cup {r.tx}, !.over = @ \cup Evicts(d, r.tx)]
<1>1. r \in Requests /\ r.at \in Nodes /\ r.tx \in Txs /\ NodeOK(d) /\ AllOK(node)
      /\ node \in [Nodes -> NodeState] /\ env \in Bounds
  BY DEF TypeInv, AllOK, Requests
<1>2. /\ NodeOK(i) /\ Alike(d, i) /\ i.carried = d.carried /\ i.todo = d.todo
      /\ r.tx \in DOMAIN i.pool /\ Evicts(d, r.tx) \subseteq Txs
      /\ \A u \in DOMAIN i.pool : (u # r.tx \/ r.tx \in DOMAIN d.pool)
                                    => u \in DOMAIN d.pool /\ i.pool[u] = d.pool[u]
      /\ r.tx \notin DOMAIN d.pool => ~i.pool[r.tx]
      /\ \A u \in Txs : i.status[u] \in {Pending, d.status[u]}
  BY <1>1, InsertedIs
<1>3. AllOK(nd)
  BY <1>1, <1>2, OneChanged
<1>4. e \in Bounds /\ env.over \subseteq e.over /\ Evicts(d, r.tx) \subseteq e.over
  BY <1>1, <1>2 DEF Bounds
<1>5. AnswerWith(nd, r, "ok", e) /\ req' = req \ {r} /\ Route(r.at) = "nobody"
  BY DEF AcceptQueue
<1>6. \A u \in DOMAIN d.pool : u \in DOMAIN i.pool \/ u \in Evicts(d, r.tx)
  BY DEF Evicts
<1>7. \A n \in Nodes : nd[n] = IF n = r.at THEN i ELSE node[n]
  BY <1>1
<1>8. RunStep
  BY AcceptQueueRuns
<1> HIDE DEF nd, e, i
<1>9. node' \in {Heard(nd, r, "ok"), Heard(nd, r, "failed")} /\ env'.over = e.over
  BY <1>1, <1>3, <1>4, <1>5, AnswerIs
<1>10. \A u \in Evicts(d, r.tx) : Settled(u)'
  BY <1>4, <1>9 DEF Settled
<1>11. \A n \in Nodes, t \in Txs : SaysRan(node[n], t) => HasRun(t)'
  BY <1>8, RunsStay DEF CalmQueues
<1>12. ASSUME NEW n \in Nodes
       PROVE  /\ nd[n].producing = node[n].producing /\ nd[n].peer = node[n].peer
              /\ nd[n].here = {} /\ nd[n].carried = node[n].carried
              /\ Route(n) # "nobody" => DOMAIN nd[n].pool = {} /\ DOMAIN nd[n].todo = {}
              /\ \A t \in DOMAIN node[n].pool : t \in DOMAIN nd[n].pool \/ Settled(t)'
              /\ \A t \in DOMAIN nd[n].pool : nd[n].pool[t] =>
                    t \in DOMAIN node[n].pool /\ node[n].pool[t]
              /\ \A t \in Txs : SaysRan(nd[n], t) => HasRun(t)'
  <2>1. CASE n # r.at
    BY <1>7, <1>11, <2>1 DEF CalmRoutes
  <2>2. CASE n = r.at
    <3>1. nd[n] = i /\ node[n] = d /\ Route(n) = "nobody"
      BY <1>5, <1>7, <2>2
    <3>2. d.here = {}
      BY <1>1 DEF CalmRoutes
    <3>3. \A t \in Txs : SaysRan(i, t) => SaysRan(d, t)
      BY <1>2 DEF SaysRan, Pending
    <3> HIDE DEF d
    <3>4. \A t \in DOMAIN i.pool : i.pool[t] => t \in DOMAIN d.pool /\ d.pool[t]
      BY <1>2
    <3> QED BY <1>2, <1>6, <1>10, <1>11, <3>1, <3>2, <3>3, <3>4 DEF Alike, RunsAs
  <2> QED BY <2>1, <2>2
<1>13. r.from = "carry" => r.tx \in DOMAIN nd[r.of].pool
  <2>1. ~node[r.at].producing
    BY <1>5 DEF Route
  <2>2. r.from = "carry" => r.at = r.of
    BY <2>1 DEF CalmRoutes
  <2> QED BY <1>1, <1>2, <1>7, <2>2
<1>14. env.over \subseteq env'.over
  BY <1>4, <1>9
<1> QED BY <1>3, <1>5, <1>8, <1>9, <1>12, <1>13, <1>14, AnsweredCalm

\* What runs has run, and what is refused is settled.
LEMMA RunCalm ==
    ASSUME TypeInv, CalmRoutes, CalmQueues, NEW r \in req, AcceptRun(r)
    PROVE  CalmStep
<1> DEFINE d == node[r.at]
           f == RanHere(r.at, r.tx)
           nd == [node EXCEPT ![r.at] = f]
           e1 == [env EXCEPT !.taken = @ \cup {r.tx}]
           e2 == [env EXCEPT !.over = @ \cup {r.tx}]
<1>1. r \in Requests /\ r.at \in Nodes /\ r.tx \in Txs /\ AllOK(node)
      /\ node \in [Nodes -> NodeState] /\ env \in Bounds
  BY DEF TypeInv, AllOK, Requests
<1>2. /\ AllOK(nd) /\ f.producing = d.producing /\ f.peer = d.peer
      /\ f.open = Append(d.open, r.tx) /\ f.status = [d.status EXCEPT ![r.tx] = Applied(Height)]
      /\ f.pool = Without(d.pool, {r.tx}) /\ f.todo = d.todo /\ f.here = d.here
      /\ f.carried = d.carried
  BY <1>1, RanHereIs
<1>3. /\ e1 \in Bounds /\ e1.over = env.over
      /\ e2 \in Bounds /\ e2.over = env.over \cup {r.tx}
  BY <1>1 DEF Bounds
<1>4. /\ req' = req \ {r}
      /\ \/ AnswerWith(node, r, "failed", env)
         \/ AnswerWith(nd, r, "ok", e1)
         \/ AnswerWith(node, r, "refused", e2)
  <2>1. nd = [node EXCEPT ![r.at] = [Ran(node[r.at], r.tx) EXCEPT !.pool = Without(@, {r.tx})]]
    BY DEF RanHere
  <2> HIDE DEF nd
  <2> QED BY <2>1 DEF AcceptRun
<1>5. RunStep
  BY AcceptRunRuns
<1>6. \A n \in Nodes : nd[n] = IF n = r.at THEN f ELSE node[n]
  BY <1>1
<1>7. \A n \in Nodes, t \in Txs : SaysRan(node[n], t) => HasRun(t)'
  BY <1>5, RunsStay DEF CalmQueues
<1>8. d \in NodeState
  BY <1>1
<1> HIDE DEF nd, e1, e2, f
<1>9. CASE AnswerWith(node, r, "failed", env)
  <2>1. node' \in {Heard(node, r, "failed"), Heard(node, r, "failed")} /\ env'.over = env.over
    BY <1>1, <1>9, AnswerIs
  <2> QED BY <1>1, <1>4, <1>5, <1>7, <2>1, AnsweredCalm DEF CalmRoutes
<1>10. CASE AnswerWith(node, r, "refused", e2)
  <2>1. /\ node' \in {Heard(node, r, "refused"), Heard(node, r, "failed")}
        /\ env'.over = env.over \cup {r.tx}
    BY <1>1, <1>3, <1>10, AnswerIs
  <2>2. Settled(r.tx)'
    BY <2>1 DEF Settled
  <2> QED BY <1>1, <1>4, <1>5, <1>7, <2>1, <2>2, AnsweredCalm DEF CalmRoutes
<1>11. CASE AnswerWith(nd, r, "ok", e1)
  <2>1. node' \in {Heard(nd, r, "ok"), Heard(nd, r, "failed")} /\ env'.over = env.over
    BY <1>1, <1>2, <1>3, <1>11, AnswerIs
  <2>2. node'[r.at].open = Append(d.open, r.tx)
    <3>1. Alike(nd[r.at], node'[r.at])
      BY <1>1, <1>2, <2>1, HeardIs DEF AfterAnswer
    <3> QED BY <1>1, <1>2, <1>6, <3>1 DEF Alike, RunsAs
  <2>3. HasRun(r.tx)' /\ Settled(r.tx)'
    <3> DEFINE o == d.open
               w == node'[r.at].open
    <3>1. o \in Seq(Txs)
      BY <1>8 DEF NodeState
    <3>2. w = Append(o, r.tx)
      BY <2>2
    <3> HIDE DEF o, w
    <3>3. Len(o) + 1 \in DOMAIN w /\ w[Len(o) + 1] = r.tx
      BY <3>1, <3>2
    <3>4. r.tx \in Range(w)
      BY <3>3 DEF Range
    <3> QED BY <1>1, <3>4 DEF HasRun, Settled, w
  <2>4. /\ DOMAIN f.pool = DOMAIN d.pool \ {r.tx}
        /\ \A u \in DOMAIN f.pool : f.pool[u] = d.pool[u]
    <3>1. d.pool \in Pools
      BY <1>8 DEF NodeState
    <3> DEFINE w == Without(d.pool, {r.tx})
    <3>2. /\ DOMAIN w = DOMAIN d.pool \ {r.tx}
          /\ \A u \in DOMAIN d.pool \ {r.tx} : w[u] = d.pool[u]
      BY <3>1, WithoutIs
    <3>3. f.pool = w
      BY <1>2
    <3> HIDE DEF w
    <3> QED BY <3>2, <3>3
  <2>5. \A t \in Txs : SaysRan(f, t) => SaysRan(d, t) \/ t = r.tx
    <3>1. d.status \in [Txs -> Says]
      BY <1>8 DEF NodeState
    <3> QED BY <1>2, <3>1 DEF SaysRan
  <2>6. ASSUME NEW n \in Nodes
        PROVE  /\ nd[n].producing = node[n].producing /\ nd[n].peer = node[n].peer
               /\ nd[n].here = {} /\ nd[n].carried = node[n].carried
               /\ Route(n) # "nobody" => DOMAIN nd[n].pool = {} /\ DOMAIN nd[n].todo = {}
               /\ \A t \in DOMAIN node[n].pool : t \in DOMAIN nd[n].pool \/ Settled(t)'
               /\ \A t \in DOMAIN nd[n].pool : nd[n].pool[t] =>
                     t \in DOMAIN node[n].pool /\ node[n].pool[t]
               /\ \A t \in Txs : SaysRan(nd[n], t) => HasRun(t)'
    <3>1. CASE n # r.at
      BY <1>6, <1>7, <3>1 DEF CalmRoutes
    <3>2. CASE n = r.at
      <4>1. nd[n] = f /\ node[n] = d
        BY <1>6, <3>2
      <4>2. /\ d.here = {}
            /\ Route(n) # "nobody" => DOMAIN d.pool = {} /\ DOMAIN d.todo = {}
        BY <1>1, <3>2 DEF CalmRoutes
      <4>3. \A t \in Txs : SaysRan(d, t) => HasRun(t)'
        BY <1>1, <1>7
      <4> HIDE DEF d
      <4> QED BY <1>2, <2>3, <2>4, <2>5, <4>1, <4>2, <4>3
    <3> QED BY <3>1, <3>2
  <2> QED BY <1>2, <1>4, <1>5, <2>1, <2>3, <2>6, AnsweredCalm
<1> QED BY <1>4, <1>9, <1>10, <1>11

\* One node changes, and runs, follows and calls as before.
LEMMA QueueCalm ==
    ASSUME TypeInv, CalmRoutes, CalmQueues, RunStep, NEW n \in Nodes, NEW e,
           node' = [node EXCEPT ![n] = e], Alike(node[n], e), e.carried = node[n].carried,
           Route(n) # "nobody" => DOMAIN e.pool = {} /\ DOMAIN e.todo = {},
           \A t \in DOMAIN node[n].pool : t \in DOMAIN e.pool \/ Settled(t)',
           \A t \in DOMAIN e.pool : e.pool[t] =>
              \/ t \in DOMAIN node[n].pool /\ node[n].pool[t]
              \/ \E p \in Nodes \ {n} : t \in Range(node[p].carried),
           \A t \in Txs : SaysRan(e, t) => HasRun(t)'
    PROVE  \A m \in Nodes : CalmNode(m)
<1> SUFFICES ASSUME NEW m \in Nodes PROVE CalmNode(m)
  OBVIOUS
<1>1. node'[m] = IF m = n THEN e ELSE node[m]
  BY DEF TypeInv, AllOK
<1>2. CASE m # n
  BY <1>1, <1>2, CalmSame
<1>3. CASE m = n
  <2>1. node'[m] = e /\ e.producing = node[m].producing /\ e.peer = node[m].peer /\ e.here = {}
    BY <1>1, <1>3 DEF Alike, RunsAs, CalmRoutes
  <2> QED BY <1>3, <2>1 DEF CalmNode
<1> QED BY <1>2, <1>3

LEMMA RoundStartCalm ==
    ASSUME TypeInv, CalmRoutes, CalmQueues, NEW n \in Nodes, RoundStart(n), env'.moves = 0
    PROVE  CalmStep
<1>1. node[n] \in NodeState /\ node \in [Nodes -> NodeState] /\ node[n].pool \in Pools /\ env \in Bounds
  <2>1. node[n] \in NodeState
    BY DEF TypeInv, AllOK
  <2> QED BY <2>1 DEF TypeInv, AllOK, NodeState
<1>2. PICK old \in SUBSET Queued(n) :
        /\ node' = [node EXCEPT ![n].pool = Without(node[n].pool, old),
                                ![n].todo = Without(node[n].pool, old)]
        /\ env' = IF old = {} THEN env ELSE [env EXCEPT !.moves = @ + 1, !.over = @ \cup old]
  BY DEF RoundStart
<1>3. old = {} /\ env' = env
  <2>1. CASE old # {}
    <3>1. env'.moves = env.moves + 1 /\ env.moves \in Nat
      BY <1>1, <1>2, <2>1 DEF Bounds
    <3> QED BY <3>1
  <2> QED BY <1>2, <2>1
<1> DEFINE left == Without(node[n].pool, {})
           e == [node[n] EXCEPT !.pool = left, !.todo = left]
<1>4. DOMAIN left = DOMAIN node[n].pool /\ \A u \in DOMAIN left : left[u] = node[n].pool[u]
  <2>1. DOMAIN left = DOMAIN node[n].pool \ {}
        /\ \A u \in DOMAIN node[n].pool \ {} : left[u] = node[n].pool[u]
    BY <1>1, WithoutIs
  <2> HIDE DEF left
  <2> QED BY <2>1
<1>5. node' = [node EXCEPT ![n] = e]
  BY <1>1, <1>2, <1>3 DEF NodeState
<1> HIDE DEF left
<1>6. /\ Alike(node[n], e) /\ e.carried = node[n].carried /\ e.status = node[n].status
      /\ e.pool = left /\ e.todo = left
  BY <1>1 DEF NodeState, Alike, RunsAs
<1> HIDE DEF e
<1>7. RunStep
  BY QueuesRun
<1>8. \A t \in Txs : SaysRan(e, t) => HasRun(t)'
  BY <1>6, <1>7, RunsStay DEF CalmQueues, SaysRan
<1>9. Route(n) # "nobody" => DOMAIN e.pool = {} /\ DOMAIN e.todo = {}
  BY <1>4, <1>6 DEF CalmRoutes
<1>10. /\ \A t \in DOMAIN node[n].pool : t \in DOMAIN e.pool
       /\ \A t \in DOMAIN e.pool : e.pool[t] => t \in DOMAIN node[n].pool /\ node[n].pool[t]
  BY <1>4, <1>6
<1>11. \A m \in Nodes : CalmNode(m)
  BY <1>5, <1>6, <1>7, <1>8, <1>9, <1>10, QueueCalm
<1>12. \A t \in Txs : Settled(t) => Settled(t)'
  BY <1>3, <1>7, SettledStays
<1> QED BY <1>11, <1>12 DEF CalmStep, CalmRoutes, RoundStart

\* A round has nothing to do where there is a route.
LEMMA NoRoundCalm ==
    ASSUME CalmRoutes, NEW n \in Nodes, NEW t \in Txs,
           RoundDrop(n, t) \/ RoundHere(n, t) \/ RoundRun(n, t)
    PROVE  FALSE
<1>1. t \in node[n].here \/ (Route(n) # "nobody" /\ t \in DOMAIN node[n].todo)
  BY DEF RoundDrop, RoundHere, RoundRun, RoundAt
<1> QED BY <1>1 DEF CalmRoutes

LEMMA RoundAskCalm ==
    ASSUME TypeInv, CalmRoutes, CalmQueues, NEW n \in Nodes, NEW t \in Txs, RoundAsk(n, t)
    PROVE  CalmStep
<1>1. AllOK(node) /\ req \in SUBSET Requests /\ node[n] \in NodeState
      /\ node[n].pool \in Pools /\ node[n].status \in [Txs -> Says]
  <2>1. node[n] \in NodeState
    BY DEF TypeInv, AllOK
  <2> QED BY <2>1 DEF TypeInv, AllOK, NodeState
<1>2. PICK a \in Says :
        \/ /\ Settles(n, t, a)
           /\ \E p \in Nodes : a = TxAnswer(p, t) /\ a.s = "sealed"
        \/ /\ GoesOn(n, t, a)
           /\ \/ a = node[n].status[t]
              \/ \E p \in Nodes : a = TxAnswer(p, t) /\ a.s = "applied"
  BY <1>1, RoundAskIs
<1>3. \A r \in req' : r \in req \/ r.from = "relay"
  BY <1>1, RoundAskIs
<1>5. RunStep /\ env' = env
  BY RoundAskRuns DEF RoundAsk
<1>6. \A p \in Nodes : TxAnswer(p, t).s \in {"applied", "sealed"} => HasRun(t)
  <2> SUFFICES ASSUME NEW p \in Nodes, TxAnswer(p, t).s \in {"applied", "sealed"}
               PROVE  HasRun(t)
    OBVIOUS
  <2>1. PICK q \in Nodes : TxAnswer(p, t) = node[q].status[t]
    <3>1. node[p].peer \in Nodes \cup {NoNode}
      BY <1>1 DEF AllOK, NodeState
    <3> QED BY <3>1 DEF TxAnswer
  <2> QED BY <2>1 DEF CalmQueues, SaysRan
<1>7. a.s \in {"applied", "sealed"} => HasRun(t)
  <2>1. CASE a = node[n].status[t]
    BY <2>1 DEF CalmQueues, SaysRan
  <2>2. CASE \E p \in Nodes : a = TxAnswer(p, t)
    BY <1>6, <2>2
  <2> QED BY <1>2, <2>1, <2>2
<1>8. ASSUME NEW e, Asked(n, t, a, e), NEW u \in Txs, SaysRan(e, u)
      PROVE  HasRun(u)'
  <2>1. SaysRan(node[n], u) \/ (u = t /\ a.s \in {"applied", "sealed"})
    BY <1>1, <1>8 DEF Asked, SaysRan
  <2>2. HasRun(u)
    BY <1>7, <2>1 DEF CalmQueues
  <2> QED BY <1>5, <2>2, RunsStay
<1>9. Route(n) = "nobody"
  BY DEF RoundAsk
<1>10. ASSUME Settles(n, t, a), a.s = "sealed"
       PROVE  \A m \in Nodes : CalmNode(m)
  <2>1. PICK e : Asked(n, t, a, e) /\ e.pool = Without(node[n].pool, {t})
    BY <1>1, <1>10, AskedIs
  <2>2. Settled(t)'
    BY <1>5, <1>7, <1>10, RunsStay DEF Settled
  <2> DEFINE w == Without(node[n].pool, {t})
  <2>3. /\ DOMAIN w = DOMAIN node[n].pool \ {t}
        /\ \A u \in DOMAIN node[n].pool \ {t} : w[u] = node[n].pool[u]
    BY <1>1, WithoutIs
  <2>4. e.pool = w
    BY <2>1
  <2> HIDE DEF w
  <2>5. /\ \A u \in DOMAIN node[n].pool : u \in DOMAIN e.pool \/ Settled(u)'
        /\ \A u \in DOMAIN e.pool : u \in DOMAIN node[n].pool /\ e.pool[u] = node[n].pool[u]
    BY <2>2, <2>3, <2>4
  <2>6. \A u \in Txs : SaysRan(e, u) => HasRun(u)'
    BY <1>8, <2>1
  <2>7. /\ node' = [node EXCEPT ![n] = e] /\ Alike(node[n], e) /\ e.carried = node[n].carried
    BY <2>1 DEF Asked
  <2> QED BY <1>5, <1>9, <2>5, <2>6, <2>7, QueueCalm
<1>11. ASSUME GoesOn(n, t, a)
       PROVE  \A m \in Nodes : CalmNode(m)
  <2>1. PICK e : Asked(n, t, a, e) /\ e.pool = node[n].pool
    BY <1>1, <1>11, AskedIs
  <2>2. \A u \in Txs : SaysRan(e, u) => HasRun(u)'
    BY <1>8, <2>1
  <2>3. /\ node' = [node EXCEPT ![n] = e] /\ Alike(node[n], e) /\ e.carried = node[n].carried
    BY <2>1 DEF Asked
  <2> QED BY <1>5, <1>9, <2>1, <2>2, <2>3, QueueCalm
<1>12. \A u \in Txs : Settled(u) => Settled(u)'
  BY <1>5, SettledStays
<1> QED BY <1>2, <1>3, <1>10, <1>11, <1>12 DEF CalmStep, CalmRoutes

\* A poll marks what the poller carries.
LEMMA PollCalm ==
    ASSUME TypeInv, CalmRoutes, CalmQueues, NEW a \in Nodes, NEW b \in Nodes, Poll(a, b)
    PROVE  CalmStep
<1> DEFINE there == Marks(node[b], node[a])
<1>1. AllOK(node) /\ NodeOK(node[b]) /\ node \in [Nodes -> NodeState] /\ node[a] \in NodeState
  BY DEF TypeInv, AllOK
<1>2. a # b
  BY MempoolAssumption DEF Poll
<1>3. PICK o \in Seq(Txs) : node' = [node EXCEPT ![b] = there, ![a].offered = o]
  BY <1>1, PollIs
<1>4. /\ Alike(node[b], there) /\ there.todo = node[b].todo
      /\ there.carried = node[b].carried /\ there.status = node[b].status
      /\ DOMAIN there.pool = DOMAIN node[b].pool
      /\ \A u \in DOMAIN node[b].pool : there.pool[u] => node[b].pool[u] \/ u \in Range(node[a].carried)
  BY <1>1, MarksAre
<1>5. RunStep
  BY PollRuns
<1> DEFINE e == [node[a] EXCEPT !.offered = o]
<1> HIDE DEF there
<1>6. /\ Alike(node[a], e) /\ e.carried = node[a].carried /\ e.pool = node[a].pool
      /\ e.todo = node[a].todo /\ e.status = node[a].status
  BY <1>1 DEF NodeState, Alike, RunsAs
<1>7. \A m \in Nodes : node'[m] = IF m = a THEN e ELSE IF m = b THEN there ELSE node[m]
  BY <1>1, <1>2, <1>3
<1> HIDE DEF e
<1>8. \A m \in Nodes, t \in Txs : SaysRan(node[m], t) => HasRun(t)'
  BY <1>5, RunsStay DEF CalmQueues
<1>9. CalmNode(a)
  BY <1>6, <1>7, <1>8 DEF CalmNode, CalmRoutes, Alike, RunsAs, SaysRan
<1>10. CalmNode(b)
  <2>1. node'[b] = there
    BY <1>2, <1>7
  <2>2. \A u \in DOMAIN node'[b].pool : node'[b].pool[u] =>
          \/ u \in DOMAIN node[b].pool /\ node[b].pool[u]
          \/ \E p \in Nodes \ {b} : u \in Range(node[p].carried)
    BY <1>2, <1>4, <2>1
  <2>3. \A t \in Txs : SaysRan(node'[b], t) => HasRun(t)'
    BY <1>4, <1>8, <2>1 DEF SaysRan
  <2>4. /\ node'[b].producing = node[b].producing /\ node'[b].peer = node[b].peer
        /\ node'[b].here = {}
        /\ Route(b) # "nobody" => DOMAIN node'[b].pool = {} /\ DOMAIN node'[b].todo = {}
    BY <1>4, <2>1 DEF Alike, RunsAs, CalmRoutes
  <2> QED BY <1>4, <2>1, <2>2, <2>3, <2>4 DEF CalmNode
<1>11. \A m \in Nodes : CalmNode(m)
  BY <1>5, <1>7, <1>9, <1>10, CalmSame
<1>12. env.over \subseteq env'.over
  BY DEF Poll, TypeInv, Bounds
<1>13. \A t \in Txs : Settled(t) => Settled(t)'
  BY <1>5, <1>12, SettledStays
<1> QED BY <1>11, <1>13 DEF CalmStep, CalmRoutes, Poll

LEMMA CarryOfferedCalm ==
    ASSUME TypeInv, CalmRoutes, CalmQueues, NEW a \in Nodes, CarryOffered(a)
    PROVE  CalmStep
<1> DEFINE e == [node[a] EXCEPT !.offered = Tail(@)]
<1>1. node \in [Nodes -> NodeState] /\ node[a] \in NodeState
  BY DEF TypeInv, AllOK
<1>2. node' = [node EXCEPT ![a] = e]
  BY <1>1 DEF CarryOffered
<1>3. /\ Alike(node[a], e) /\ e.carried = node[a].carried /\ e.pool = node[a].pool
      /\ e.todo = node[a].todo /\ e.status = node[a].status
  BY <1>1 DEF NodeState, Alike, RunsAs
<1> HIDE DEF e
<1>4. RunStep /\ env' = env
  BY QueuesRun DEF CarryOffered
<1>5. \A t \in Txs : SaysRan(e, t) => HasRun(t)'
  BY <1>3, <1>4, RunsStay DEF CalmQueues, SaysRan
<1>6. \A m \in Nodes : CalmNode(m)
  <2>1. Route(a) # "nobody" => DOMAIN e.pool = {} /\ DOMAIN e.todo = {}
    BY <1>3 DEF CalmRoutes
  <2> QED BY <1>2, <1>3, <1>4, <1>5, <2>1, QueueCalm
<1>7. \A r \in req' : r \in req \/ r = Request(Head(node[a].offered), a, "carry", a)
  BY DEF CarryOffered
<1>8. \A r \in req' : r.from # "round" /\ ((r.from = "carry" /\ r.at # r.of) => node[r.at].producing)
  BY <1>7 DEF CalmRoutes, Request
<1>9. \A t \in Txs : Settled(t) => Settled(t)'
  BY <1>4, SettledStays
<1> QED BY <1>6, <1>8, <1>9 DEF CalmStep

\* A block takes what ran from the node to the chain.
LEMMA AdvanceCalm ==
    ASSUME TypeInv, CalmRoutes, CalmQueues, NEW n \in Nodes, Advance(n)
    PROVE  CalmStep
<1> DEFINE said == [t \in Txs |-> IF node[n].status[t] = Applied(Height) THEN Sealed(Height)
                                  ELSE node[n].status[t]]
           e == [node[n] EXCEPT !.open = <<>>, !.status = said]
           b == [reign |-> env.reign, txs |-> node[n].open]
           k == Len(chain)
<1>1. /\ node \in [Nodes -> NodeState] /\ node[n] \in NodeState /\ k \in Nat
      /\ chain \in Seq([reign : Nat, txs : Seq(Txs)]) /\ env.reign \in Nat
      /\ node[n].open \in Seq(Txs)
  <2>1. node \in [Nodes -> NodeState] /\ node[n] \in NodeState
    BY DEF TypeInv, AllOK
  <2>2. chain \in Seq([reign : Nat, txs : Seq(Txs)]) /\ env.reign \in Nat
    BY DEF TypeInv, Bounds
  <2>3. k \in Nat
    BY <2>2
  <2>4. node[n].open \in Seq(Txs)
    BY <2>1 DEF NodeState
  <2> QED BY <2>1, <2>2, <2>3, <2>4
<1>2. node' = [node EXCEPT ![n] = e] /\ chain' = Append(chain, b) /\ UNCHANGED <<req, env>>
  BY <1>1 DEF Advance, NodeState
<1>3. \A t \in Txs : SaysRan([node[n] EXCEPT !.status = said], t) => SaysRan(node[n], t)
  <2>1. \A t \in Txs : said[t] = node[n].status[t] \/ node[n].status[t] = Applied(Height)
    OBVIOUS
  <2>2. \A t \in Txs : node[n].status[t] = Applied(Height) => node[n].status[t].s = "applied"
    BY DEF Applied
  <2> HIDE DEF said
  <2>3. [node[n] EXCEPT !.status = said].status = said
    BY <1>1 DEF NodeState
  <2> QED BY <2>1, <2>2, <2>3 DEF SaysRan
<1> HIDE DEF said
<1>4. /\ e.producing = node[n].producing /\ e.peer = node[n].peer /\ e.here = node[n].here
      /\ e.pool = node[n].pool /\ e.todo = node[n].todo /\ e.carried = node[n].carried
      /\ \A t \in Txs : SaysRan(e, t) => SaysRan(node[n], t)
  BY <1>1, <1>3 DEF NodeState, SaysRan
<1>5. \A m \in Nodes : node'[m] = IF m = n THEN e ELSE node[m]
  BY <1>1, <1>2
<1>6. /\ k + 1 \in DOMAIN chain' /\ chain'[k + 1].txs = node[n].open
      /\ \A i \in DOMAIN chain : i \in DOMAIN chain' /\ chain'[i] = chain[i]
  <2>1. b \in [reign : Nat, txs : Seq(Txs)] /\ b.txs = node[n].open
    BY <1>1
  <2> HIDE DEF b
  <2>2. Len(chain') = k + 1 /\ chain'[k + 1] = b /\ \A i \in 1..k : chain'[i] = chain[i]
    BY <1>1, <1>2, <2>1
  <2>3. DOMAIN chain' = 1..k + 1 /\ DOMAIN chain = 1..k
    BY <1>1, <1>2, <2>1
  <2> QED BY <1>1, <2>1, <2>2, <2>3
<1> HIDE DEF e, b, k
<1>7. ASSUME NEW t, HasRun(t)
      PROVE  HasRun(t)'
  <2>1. CASE \E m \in Nodes : t \in Range(node[m].open)
    <3>1. PICK m \in Nodes : t \in Range(node[m].open)
      BY <2>1
    <3>2. CASE m = n
      BY <1>6, <3>1, <3>2 DEF HasRun
    <3>3. CASE m # n
      BY <1>5, <3>1, <3>3 DEF HasRun
    <3> QED BY <3>2, <3>3
  <2>2. CASE \E i \in DOMAIN chain : t \in Range(chain[i].txs)
    BY <1>6, <2>2 DEF HasRun
  <2> QED BY <1>7, <2>1, <2>2 DEF HasRun
<1>8. ASSUME NEW m \in Nodes
      PROVE  CalmNode(m)
  <2>1. /\ node'[m].producing = node[m].producing /\ node'[m].peer = node[m].peer
        /\ node'[m].here = node[m].here
        /\ node'[m].pool = node[m].pool /\ node'[m].todo = node[m].todo
        /\ node'[m].carried = node[m].carried
        /\ \A t \in Txs : SaysRan(node'[m], t) => SaysRan(node[m], t)
    BY <1>4, <1>5
  <2>2. \A t \in Txs : SaysRan(node'[m], t) => HasRun(t)'
    BY <1>7, <2>1 DEF CalmQueues
  <2> QED BY <2>1, <2>2 DEF CalmNode, CalmRoutes
<1>9. \A t \in Txs : Settled(t) => Settled(t)'
  BY <1>2, <1>7 DEF Settled
<1> QED BY <1>2, <1>8, <1>9 DEF CalmStep, CalmRoutes

LEMMA InitCalm == Init => CalmInv
<1> SUFFICES ASSUME Init PROVE CalmRoutes /\ CalmQueues
  BY DEF CalmInv
<1>1. PICK lead : lead \in Nodes \cup {NoNode} /\ node = Calm(lead)
  BY DEF Init
<1>2. req = {}
  BY DEF Init
<1>3. ASSUME NEW n \in Nodes
      PROVE  /\ node[n].producing = (n = lead)
             /\ node[n].peer = IF <<n, lead>> \in Reach THEN lead ELSE NoNode
             /\ node[n].here = {} /\ DOMAIN node[n].pool = {} /\ DOMAIN node[n].todo = {}
             /\ Range(node[n].carried) = {}
             /\ \A t \in Txs : ~SaysRan(node[n], t)
  <2> DEFINE none == <<>>
             said == [t \in Txs |-> Unknown]
  <2>1. DOMAIN none = {} /\ Range(none) = {}
    BY DEF Range
  <2>2. \A t \in Txs : said[t].s = "unknown"
    BY DEF Unknown
  <2>3. /\ node[n].producing = (n = lead)
        /\ node[n].peer = IF <<n, lead>> \in Reach THEN lead ELSE NoNode
        /\ node[n].here = {} /\ node[n].pool = none /\ node[n].todo = none
        /\ node[n].carried = none /\ node[n].status = said
    BY <1>1 DEF Calm, Blank
  <2> HIDE DEF none, said
  <2> QED BY <2>1, <2>2, <2>3 DEF SaysRan
<1>4. CalmRoutes
  <2>1. \A n \in Nodes : node[n].peer # NoNode => lead \in Nodes /\ node[n].peer = lead
    BY <1>1, <1>3
  <2> QED BY <1>2, <1>3, <2>1 DEF CalmRoutes
<1>5. CalmQueues
  BY <1>3 DEF CalmQueues, Queued
<1> QED BY <1>4, <1>5

\* The roles have not moved if they have not after a step.
LEMMA MovesGrow ==
    ASSUME TypeInv, Next, env'.moves = 0
    PROVE  env.moves = 0
<1>1. env \in Bounds /\ env.moves \in Nat
  BY DEF TypeInv, Bounds
<1>2. ASSUME NEW n \in Nodes, NEW t \in Txs, Submit(n, t) \/ Round(n, t)
      PROVE  env'.moves = env.moves
  BY <1>1, <1>2 DEF Submit, Round, RoundDrop, RoundHere, RoundRun, RoundForward, RoundAsk, Bounds
<1>3. ASSUME NEW r \in req, Handle(r) \/ LoseRequest(r)
      PROVE  env'.moves = env.moves
  <2>1. ASSUME NEW nd, NEW code, NEW e \in Bounds, e.moves = env.moves, AnswerWith(nd, r, code, e)
        PROVE  env'.moves = env.moves
    BY <2>1 DEF AnswerWith, Bounds
  <2>2. CASE AcceptHere(r) \/ AcceptForward(r) \/ LoseRequest(r)
    BY <1>1, <2>2 DEF AcceptHere, AcceptForward, LoseRequest, Bounds
  <2>3. CASE AcceptQueue(r)
    <3> DEFINE e == [env EXCEPT !.taken = @ \cup {r.tx}, !.over = @ \cup Evicts(node[r.at], r.tx)]
    <3>1. r.tx \in Txs /\ NodeOK(node[r.at])
      BY DEF TypeInv, AllOK, Requests
    <3>2. Evicts(node[r.at], r.tx) \subseteq Txs
      BY <3>1, InsertedIs
    <3>3. e \in Bounds /\ e.moves = env.moves
      BY <1>1, <3>1, <3>2 DEF Bounds
    <3> QED BY <2>1, <2>3, <3>3 DEF AcceptQueue
  <2>4. CASE AcceptRun(r)
    <3> DEFINE e1 == [env EXCEPT !.taken = @ \cup {r.tx}]
               e2 == [env EXCEPT !.over = @ \cup {r.tx}]
    <3>1. r.tx \in Txs
      BY DEF TypeInv, Requests
    <3>2. /\ e1 \in Bounds /\ e1.moves = env.moves
          /\ e2 \in Bounds /\ e2.moves = env.moves
      BY <1>1, <3>1 DEF Bounds
    <3> QED BY <1>1, <2>1, <2>4, <3>2 DEF AcceptRun
  <2> QED BY <1>3, <2>2, <2>3, <2>4 DEF Handle
<1>4. ASSUME NEW n \in Nodes,
             RoundStart(n) \/ CarryOffered(n) \/ Advance(n) \/ Lead(n) \/ Demote(n) \/ Restart(n)
      PROVE  env'.moves \in {env.moves, env.moves + 1}
  <2>1. CASE RoundStart(n)
    BY <1>1, <2>1 DEF RoundStart, Bounds
  <2>2. CASE CarryOffered(n) \/ Advance(n)
    BY <1>1, <2>2 DEF CarryOffered, Advance
  <2>3. CASE Lead(n) \/ Demote(n) \/ Restart(n)
    BY <1>1, <2>3 DEF Lead, Demote, Restart, Bounds
  <2> QED BY <1>4, <2>1, <2>2, <2>3
<1>5. ASSUME NEW a, NEW b, Poll(a, b) \/ Follow(a, b)
      PROVE  env'.moves \in {env.moves, env.moves + 1}
  BY <1>1, <1>5 DEF Poll, Follow, Bounds
<1>6. env'.moves \in {env.moves, env.moves + 1}
  BY <1>2, <1>3, <1>4, <1>5 DEF Next
<1> QED BY <1>1, <1>6

LEMMA CalmKept == TypeInv /\ CalmInv /\ [Next]_vars => CalmInv'
<1> SUFFICES ASSUME TypeInv, CalmInv, [Next]_vars, env'.moves = 0
             PROVE  CalmRoutes' /\ CalmQueues'
  BY DEF CalmInv
<1>1. TypeInv'
  BY TypesKept
<1>2. env.moves \in Nat /\ env \in Bounds
  BY DEF TypeInv, Bounds
<1>3. CASE UNCHANGED vars
  <2>1. CalmRoutes /\ CalmQueues
    BY <1>3 DEF CalmInv, vars
  <2> QED BY <1>3, <2>1 DEF CalmRoutes, CalmQueues, Route, Queued, Settled, HasRun, vars
<1>4. ASSUME NEW n \in Nodes, Lead(n) \/ Demote(n) \/ Restart(n)
      PROVE  FALSE
  <2>1. env'.moves = env.moves + 1
    BY <1>2, <1>4 DEF Lead, Demote, Restart, Bounds
  <2> QED BY <1>2, <2>1
<1>5. ASSUME NEW n \in Nodes, NEW p, Follow(n, p)
      PROVE  FALSE
  <2>1. env'.moves = env.moves + 1
    BY <1>2, <1>5 DEF Follow, Bounds
  <2> QED BY <1>2, <2>1
<1>6. CASE Next
  <2>1. env.moves = 0
    BY <1>2, <1>6, MovesGrow
  <2>2. CalmRoutes /\ CalmQueues
    BY <2>1 DEF CalmInv
  <2>3. CASE \E n \in Nodes, t \in Txs : Submit(n, t) \/ Round(n, t)
    <3>1. PICK n \in Nodes, t \in Txs : Submit(n, t) \/ Round(n, t)
      BY <2>3
    <3>2. CASE Submit(n, t) \/ RoundForward(n, t)
      BY <1>1, <2>2, <3>2, CallsCalm, CalmStepKeepsCalm
    <3>3. CASE RoundDrop(n, t) \/ RoundHere(n, t) \/ RoundRun(n, t)
      BY <2>2, <3>3, NoRoundCalm
    <3>4. CASE RoundAsk(n, t)
      BY <1>1, <2>2, <3>4, RoundAskCalm, CalmStepKeepsCalm
    <3> QED BY <3>1, <3>2, <3>3, <3>4 DEF Round
  <2>4. CASE \E r \in req : Handle(r) \/ LoseRequest(r)
    <3>1. PICK r \in req : Handle(r) \/ LoseRequest(r)
      BY <2>4
    <3>2. CASE AcceptHere(r) \/ AcceptForward(r)
      BY <1>1, <2>2, <3>2, CallsCalm, CalmStepKeepsCalm
    <3>3. CASE AcceptQueue(r)
      BY <1>1, <2>2, <3>3, QueuedCalm, CalmStepKeepsCalm
    <3>4. CASE AcceptRun(r)
      BY <1>1, <2>2, <3>4, RunCalm, CalmStepKeepsCalm
    <3>5. CASE LoseRequest(r)
      BY <1>1, <2>2, <3>5, LostCalm, CalmStepKeepsCalm
    <3> QED BY <3>1, <3>2, <3>3, <3>4, <3>5 DEF Handle
  <2>5. CASE \E n \in Nodes : RoundStart(n) \/ CarryOffered(n) \/ Advance(n)
    <3>1. PICK n \in Nodes : RoundStart(n) \/ CarryOffered(n) \/ Advance(n)
      BY <2>5
    <3>2. CASE RoundStart(n)
      BY <1>1, <2>2, <3>2, RoundStartCalm, CalmStepKeepsCalm
    <3>3. CASE CarryOffered(n)
      BY <1>1, <2>2, <3>3, CarryOfferedCalm, CalmStepKeepsCalm
    <3>4. CASE Advance(n)
      BY <1>1, <2>2, <3>4, AdvanceCalm, CalmStepKeepsCalm
    <3> QED BY <3>1, <3>2, <3>3, <3>4
  <2>6. CASE \E a, b \in Nodes : Poll(a, b)
    BY <1>1, <2>2, <2>6, PollCalm, CalmStepKeepsCalm
  <2>7. CASE \E n \in Nodes : Lead(n) \/ Demote(n) \/ Restart(n)
    BY <1>4, <2>7
  <2>8. CASE \E n \in Nodes, p \in Nodes \cup {NoNode} : Follow(n, p)
    BY <1>5, <2>8
  <2> QED BY <1>6, <2>3, <2>4, <2>5, <2>6, <2>7, <2>8 DEF Next
<1> QED BY <1>3, <1>6

\* With the types, CalmInv is inductive.
LEMMA CalmHolds == Spec => []CalmInv
<1>1. TypeInv /\ CalmInv /\ [Next]_vars => CalmInv'
  BY CalmKept
<1> QED BY <1>1, InitCalm, TypesHold, PTL DEF Spec

\* While the roles stand still, what a poller said it took is settled, or queued
\* at another node (mesh_status_post, mempool_round, carry_offered).
THEOREM MarksAreElsewhere == Spec => []MarkedIsElsewhere
<1>1. CalmInv => MarkedIsElsewhere
  BY DEF CalmInv, CalmQueues, MarkedIsElsewhere
<1> QED BY <1>1, CalmHolds, PTL

=============================================================================
