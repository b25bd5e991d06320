------------------------------ MODULE Mempool -------------------------------
(***************************************************************************)
(* How a signed extrinsic reaches the primary (kot, node.rs): any node     *)
(* takes one in, runs it if it is the primary, forwards it if it has a     *)
(* route to the primary, and else queues it.  What is queued goes on in    *)
(* three ways: mempool_round runs, forwards or relays it; a peer that      *)
(* polls this node (mesh_round) takes it from the status answer and hands  *)
(* it on; and it expires.                                                  *)
(*                                                                         *)
(* An extrinsic is its nonce: all are of one account.  A request is one    *)
(* call of accept_extrinsic on its way, from the client, a relay, a        *)
(* mempool round or a carry; it is followed hop by hop, and what its       *)
(* origin does with the answer happens when it is answered.  The sealed    *)
(* blocks are one log every node has (replication is Replication's         *)
(* matter); who leads changes as the mesh decides (Mesh's matter).         *)
(***************************************************************************)
EXTENDS Integers, Sequences, FiniteSets, Functions, Subsequences

CONSTANTS
    Nodes,
    NoNode,
    Reach,          \* <<a, b>>: a can call b
    Txs,            \* the account's extrinsics, by nonce
    MempoolCap,     \* MEMPOOL_CAP
    CarriedKeep,    \* CARRIED_KEEP
    CarryPerPoll,   \* CARRY_PER_POLL
    MaxSubmits,     \* bound: calls of clients
    MaxRequests,    \* bound: requests on their way at a time
    MaxTrouble,     \* bound: changes of role, restarts, expiries, calls or answers lost
    MaxBlocks       \* bound: sealed blocks

\* No node lists itself among its peers.
ASSUME MempoolAssumption ==
    /\ Reach \subseteq Nodes \X Nodes /\ \A n \in Nodes : <<n, n>> \notin Reach
    /\ NoNode \notin Nodes
    /\ Txs \subseteq Nat
    /\ MempoolCap \in Nat \ {0} /\ CarriedKeep \in Nat \ {0}
    /\ CarryPerPoll \in Nat \ {0}
    /\ {MaxSubmits, MaxRequests, MaxTrouble, MaxBlocks} \subseteq Nat

VARIABLES
    node,       \* per node: its role, its queue, what it says of each hash
    req,        \* the requests on their way
    chain,      \* the sealed blocks: [reign, txs]
    env         \* bounds, and what became of extrinsics the nodes gave up

vars == <<node, req, chain, env>>

-----------------------------------------------------------------------------
(* The state.                                                              *)

Unknown == [s |-> "unknown", h |-> 0]
Pending == [s |-> "pending", h |-> 0]
Applied(h) == [s |-> "applied", h |-> h]
Sealed(h) == [s |-> "sealed", h |-> h]

\* pool: the queued hashes, each with its `carried' flag; order: mempool_order;
\* carried: what this node took from others; offered: what the peers it polled
\* offer; open: what ran in the open block; todo: the entries left of a mempool
\* round, flagged as they were when it began; here: the one it is about to run.
Blank == [producing |-> FALSE, peer |-> NoNode, pool |-> <<>>, order |-> <<>>,
          status |-> [t \in Txs |-> Unknown], carried |-> <<>>, offered |-> <<>>,
          nonce |-> 0, open |-> <<>>, todo |-> <<>>, here |-> {}]

\* A settled mesh: somebody leads, or nobody; who can call the leader follows
\* it over that route, the others by push.
Calm(lead) ==
    [n \in Nodes |-> [Blank EXCEPT !.producing = (n = lead),
                                   !.peer = IF <<n, lead>> \in Reach THEN lead ELSE NoNode]]

Init == /\ \E lead \in Nodes \cup {NoNode} : node = Calm(lead)
        /\ req = {} /\ chain = <<>>
        /\ env = [submits |-> 0, moves |-> 0, faults |-> 0, reign |-> 0,
                  taken |-> {}, over |-> {}]

Height == Len(chain) + 1

Trouble == env.moves + env.faults < MaxTrouble

Queued(n) == DOMAIN node[n].pool
Without(pool, S) == Restrict(pool, DOMAIN pool \ S)

-----------------------------------------------------------------------------
(* One node's queue.                                                       *)

\* set_tx_status.  (That a node forgets the oldest at TX_STATUS_CAP is left out.)
Tracked(d, t, st) == [d EXCEPT !.status[t] = st]

\* Mutant: the cap is compared with the entries, not with the order.
InsertedByEntries(d, t) ==
    IF t \in DOMAIN d.pool THEN d
    ELSE LET full == Cardinality(DOMAIN d.pool) >= MempoolCap
             pool == IF full THEN Without(d.pool, {Head(d.order)}) ELSE d.pool
         IN [Tracked(d, t, Pending) EXCEPT
                !.pool = [u \in DOMAIN pool \cup {t} |-> u # t /\ pool[u]],
                !.order = Append(IF full THEN Tail(@) ELSE @, t)]

\* mempool_insert: nothing if queued already; at the cap the oldest of the
\* order goes, with its entry if it still has one.  (The order keeps hashes
\* whose entries are gone.)
Inserted(d, t) ==
    IF t \in DOMAIN d.pool THEN d
    ELSE LET full == Len(d.order) >= MempoolCap
             pool == IF full THEN Without(d.pool, {Head(d.order)}) ELSE d.pool
         IN [Tracked(d, t, Pending) EXCEPT
                !.pool = [u \in DOMAIN pool \cup {t} |-> u # t /\ pool[u]],
                !.order = Append(IF full THEN Tail(@) ELSE @, t)]

\* What an insertion evicts.
Evicts(d, t) == DOMAIN d.pool \ DOMAIN Inserted(d, t).pool

\* status_wire: the queue in order, without what a poller already took.
Offers(d) ==
    LET live == Only(d.order, {t \in DOMAIN d.pool : ~d.pool[t]})
    IN SubSeq(live, 1, IF Len(live) < CarryPerPoll THEN Len(live) ELSE CarryPerPoll)

\* carry_offered keeps the last CarriedKeep hashes.
Carry(d, t) == [d EXCEPT !.carried = Append(IF Len(@) >= CarriedKeep THEN Tail(@) ELSE @, t)]

\* Mutant: the nonce is not compared.
RunsAny(d, t) == TRUE

\* Node::submit: the extrinsic is valid only at its nonce (Stale and Future are
\* refused), and then runs in the open block.
Runs(d, t) == t = d.nonce

Ran(d, t) == [Tracked(d, t, Applied(Height)) EXCEPT !.open = Append(@, t), !.nonce = @ + 1]

-----------------------------------------------------------------------------
(* Requests: accept_extrinsic, from wherever it was called.                *)

Request(t, at, from, of) == [tx |-> t, at |-> at, from |-> from, of |-> of, here |-> FALSE]

Route(n) == IF node[n].producing THEN "here"
            ELSE IF node[n].peer # NoNode THEN "primary" ELSE "nobody"

InRound(n) == \E r \in req : r.from = "round" /\ r.of = n
Carrying(n) == \E r \in req : r.from = "carry" /\ r.of = n

\* Mutant: whatever the answer, the carrier announces that it took it.
HeardAnyCarry(nd, r, code) ==
    CASE r.from = "round" -> [nd EXCEPT ![r.of].todo = Without(@, {r.tx}),
                                ![r.of].pool = IF code = "ok" THEN Without(@, {r.tx}) ELSE @]
      [] r.from = "carry" -> [nd EXCEPT ![r.of] = Carry(@, r.tx)]
      [] OTHER -> nd

\* What the caller does with the answer: a mempool round drops what was taken,
\* a carrier remembers what was taken or refused for good.
Heard(nd, r, code) ==
    CASE r.from = "round" -> [nd EXCEPT ![r.of].todo = Without(@, {r.tx}),
                                ![r.of].pool = IF code = "ok" THEN Without(@, {r.tx}) ELSE @]
      [] r.from = "carry" /\ code # "failed" -> [nd EXCEPT ![r.of] = Carry(@, r.tx)]
      [] OTHER -> nd

\* The answer of a remote node may be lost.
AnswerWith(nd, r, code, e) ==
    \/ node' = Heard(nd, r, code) /\ env' = e
    \/ /\ r.at # r.of /\ r.from \in {"round", "carry"} /\ Trouble
       /\ node' = Heard(nd, r, "failed")
       /\ env' = [e EXCEPT !.faults = @ + 1]

Submit(n, t) ==
    /\ env.submits < MaxSubmits /\ Cardinality(req) < MaxRequests
    /\ req' = req \cup {Request(t, n, "client", n)}
    /\ env' = [env EXCEPT !.submits = @ + 1]
    /\ UNCHANGED <<node, chain>>

\* The route is looked up under the lock, which is then let go.
AcceptHere(r) ==
    /\ ~r.here /\ Route(r.at) = "here"
    /\ req' = (req \ {r}) \cup {[r EXCEPT !.here = TRUE]}
    /\ UNCHANGED <<node, chain, env>>

AcceptForward(r) ==
    /\ ~r.here /\ Route(r.at) = "primary"
    /\ req' = (req \ {r}) \cup {[r EXCEPT !.at = node[r.at].peer]}
    /\ UNCHANGED <<node, chain, env>>

AcceptQueue(r) ==
    /\ ~r.here /\ Route(r.at) = "nobody"
    /\ AnswerWith([node EXCEPT ![r.at] = Inserted(@, r.tx)], r, "ok",
                  [env EXCEPT !.taken = @ \cup {r.tx}, !.over = @ \cup Evicts(node[r.at], r.tx)])
    /\ req' = req \ {r}
    /\ UNCHANGED chain

\* Locked again: a node demoted meanwhile sends the caller away.
AcceptRun(r) ==
    /\ r.here
    /\ LET d == node[r.at] IN
       IF ~d.producing THEN AnswerWith(node, r, "failed", env)
       ELSE IF Runs(d, r.tx)
       THEN AnswerWith([node EXCEPT ![r.at] = [Ran(d, r.tx) EXCEPT !.pool = Without(@, {r.tx})]],
                       r, "ok", [env EXCEPT !.taken = @ \cup {r.tx}])
       ELSE AnswerWith(node, r, "refused", [env EXCEPT !.over = @ \cup {r.tx}])
    /\ req' = req \ {r}
    /\ UNCHANGED chain

LoseRequest(r) ==
    /\ Trouble
    /\ node' = Heard(node, r, "failed")
    /\ req' = req \ {r}
    /\ env' = [env EXCEPT !.faults = @ + 1]
    /\ UNCHANGED chain

-----------------------------------------------------------------------------
(* mempool_round, one entry at a time.                                     *)

RoundStart(n) ==
    /\ node[n].todo = <<>> /\ Queued(n) # {}
    /\ \E old \in SUBSET Queued(n) :
          /\ old = {} \/ Trouble
          /\ LET left == Without(node[n].pool, old)
             IN node' = [node EXCEPT ![n].pool = left, ![n].todo = left]
          /\ env' = IF old = {} THEN env
                    ELSE [env EXCEPT !.moves = @ + 1, !.over = @ \cup old]
    /\ UNCHANGED <<req, chain>>

\* The entry the round turns to; at most one at a time.
RoundAt(n, t) == /\ t \in DOMAIN node[n].todo /\ node[n].here = {} /\ ~InRound(n)

RoundDrop(n, t) ==
    /\ RoundAt(n, t) /\ node[n].todo[t] /\ Route(n) # "nobody"
    /\ node' = [node EXCEPT ![n].pool = Without(@, {t}), ![n].todo = Without(@, {t})]
    /\ UNCHANGED <<req, chain, env>>

RoundHere(n, t) ==
    /\ RoundAt(n, t) /\ ~node[n].todo[t] /\ Route(n) = "here"
    /\ node' = [node EXCEPT ![n].here = {t}]
    /\ UNCHANGED <<req, chain, env>>

\* Locked again, without a look at the role: it runs whoever leads by now, and
\* leaves the queue whatever the chain said.
RoundRun(n, t) ==
    /\ t \in node[n].here
    /\ LET d == IF Runs(node[n], t) THEN Ran(node[n], t) ELSE node[n]
       IN node' = [node EXCEPT ![n] = [d EXCEPT !.pool = Without(@, {t}),
                                          !.todo = Without(@, {t}), !.here = {}]]
    /\ env' = IF Runs(node[n], t) THEN env ELSE [env EXCEPT !.over = @ \cup {t}]
    /\ UNCHANGED <<req, chain>>

RoundForward(n, t) ==
    /\ RoundAt(n, t) /\ ~node[n].todo[t] /\ Route(n) = "primary"
    /\ Cardinality(req) < MaxRequests
    /\ req' = req \cup {Request(t, node[n].peer, "round", n)}
    /\ UNCHANGED <<node, chain, env>>

\* tx_status at a peer: its own view, or the primary's.
TxAnswer(p, t) == IF node[p].status[t] # Unknown \/ node[p].peer = NoNode
                  THEN node[p].status[t] ELSE node[node[p].peer].status[t]

\* No route: ask the peers that can be called, then relay to them unless it is
\* known to be applied or carried.
RoundAsk(n, t) ==
    /\ RoundAt(n, t) /\ Route(n) = "nobody"
    /\ LET peers   == {p \in Nodes : <<n, p>> \in Reach}
           said(s) == {TxAnswer(p, t) : p \in {q \in peers : TxAnswer(q, t).s = s}}
           relayed == {Request(t, p, "relay", n) : p \in peers}
       IN IF said("sealed") # {}
          THEN /\ \E a \in said("sealed") :
                    node' = [node EXCEPT ![n].status[t] = a, ![n].pool = Without(@, {t}),
                                         ![n].todo = Without(@, {t})]
               /\ UNCHANGED req
          ELSE LET known == said("applied") \cup
                            (IF said("applied") = {} THEN {node[n].status[t]} ELSE {})
               IN \E a \in known :
                    /\ node' = [node EXCEPT ![n].status[t] = a, ![n].todo = Without(@, {t})]
                    /\ req' = IF a.s = "applied" \/ node[n].todo[t] THEN req
                              ELSE req \cup relayed
                    /\ Cardinality(req') <= MaxRequests
    /\ UNCHANGED <<chain, env>>

-----------------------------------------------------------------------------
(* mesh_round's carrying, sealing, and what the mesh decides.              *)

\* mesh_status_post: what the poller took is no longer offered.
Marks(d, a) == [d EXCEPT !.pool = [t \in DOMAIN @ |-> @[t] \/ t \in Range(a.carried)]]

Poll(a, b) ==
    /\ <<a, b>> \in Reach /\ node[a].offered = <<>> /\ ~Carrying(a)
    /\ LET there == Marks(node[b], node[a])
       IN \/ /\ node' = [node EXCEPT ![b] = there, ![a].offered = Offers(there)]
             /\ UNCHANGED env
          \/ /\ Trouble
             /\ node' = [node EXCEPT ![b] = there]
             /\ env' = [env EXCEPT !.faults = @ + 1]
    /\ UNCHANGED <<req, chain>>

CarryOffered(a) ==
    /\ node[a].offered # <<>> /\ ~Carrying(a)
    /\ LET t == Head(node[a].offered) IN
          /\ node' = [node EXCEPT ![a].offered = Tail(@)]
          /\ req' = IF t \in Range(node[a].carried) \cup Queued(a) THEN req
                    ELSE req \cup {Request(t, a, "carry", a)}
          /\ Cardinality(req') <= MaxRequests
    /\ UNCHANGED <<chain, env>>

\* advance: the open block is appended, and every status applied at its height
\* becomes sealed, wherever the extrinsic ran.
Advance(n) ==
    /\ node[n].producing /\ node[n].open # <<>> /\ Len(chain) < MaxBlocks
    /\ chain' = Append(chain, [reign |-> env.reign, txs |-> node[n].open])
    /\ node' = [node EXCEPT ![n].open = <<>>,
                  ![n].status = [t \in Txs |-> IF @[t] = Applied(Height) THEN Sealed(Height)
                                               ELSE @[t]]]
    /\ UNCHANGED <<req, env>>

\* follow_mesh on a change of leader.  A node that stops leading is rebuilt
\* from the store: its open block is gone, and with it the nonces, which no
\* block carries.
Demoted(d) == [d EXCEPT !.producing = FALSE, !.open = <<>>, !.nonce = 0]

Lead(n) ==
    /\ Trouble /\ \A p \in Nodes : ~node[p].producing
    /\ node' = [node EXCEPT ![n].producing = TRUE, ![n].peer = NoNode]
    /\ env' = [env EXCEPT !.moves = @ + 1, !.reign = @ + 1]
    /\ UNCHANGED <<req, chain>>

Demote(n) ==
    /\ Trouble /\ node[n].producing
    /\ node' = [node EXCEPT ![n] = Demoted(@)]
    /\ env' = [env EXCEPT !.moves = @ + 1, !.over = @ \cup Range(node[n].open)]
    /\ UNCHANGED <<req, chain>>

Follow(n, p) ==
    /\ Trouble /\ ~node[n].producing /\ node[n].peer # p
    /\ p = NoNode \/ (<<n, p>> \in Reach /\ node[p].producing)
    /\ node' = [node EXCEPT ![n].peer = p]
    /\ env' = [env EXCEPT !.moves = @ + 1]
    /\ UNCHANGED <<req, chain>>

\* Nothing of this survives a restart; callers waiting on the node see it fail.
Restart(n) ==
    /\ Trouble
    /\ LET cut == {r \in req : r.at = n \/ r.of = n}
           failed(x, from) == \E r \in cut : r.from = from /\ r.of = x
       IN /\ node' = [x \in Nodes |-> IF x = n THEN Blank
                        ELSE [node[x] EXCEPT !.todo = IF failed(x, "round")
                               THEN Without(@, {r.tx : r \in {q \in cut : q.of = x /\ q.from = "round"}})
                               ELSE @]]
          /\ req' = req \ cut
    /\ env' = [env EXCEPT !.moves = @ + 1, !.over = @ \cup Queued(n) \cup Range(node[n].open)]
    /\ UNCHANGED chain

Handle(r) == \/ AcceptHere(r) \/ AcceptForward(r) \/ AcceptQueue(r) \/ AcceptRun(r)
Round(n, t) == \/ RoundDrop(n, t) \/ RoundHere(n, t) \/ RoundRun(n, t)
               \/ RoundForward(n, t) \/ RoundAsk(n, t)

Next == \/ \E n \in Nodes, t \in Txs : Submit(n, t) \/ Round(n, t)
        \/ \E r \in req : Handle(r) \/ LoseRequest(r)
        \/ \E n \in Nodes : \/ RoundStart(n) \/ CarryOffered(n) \/ Advance(n)
                            \/ Lead(n) \/ Demote(n) \/ Restart(n)
        \/ \E a, b \in Nodes : Poll(a, b) \/ Follow(a, b)
        \/ \E n \in Nodes : Follow(n, NoNode)

Spec == Init /\ [][Next]_vars

-----------------------------------------------------------------------------
(* Properties.                                                             *)

\* The type of the state, with the bound carry_offered keeps on what a node
\* remembers to have taken from others.
TypeOK ==
    /\ \A n \in Nodes :
          /\ node[n].producing \in BOOLEAN /\ node[n].peer \in Nodes \cup {NoNode}
          /\ node[n].pool \in UNION {[S -> BOOLEAN] : S \in SUBSET Txs}
          /\ node[n].todo \in UNION {[S -> BOOLEAN] : S \in SUBSET Txs}
          /\ \A q \in {node[n].order, node[n].carried, node[n].offered, node[n].open} :
                Range(q) \subseteq Txs
          /\ Len(node[n].carried) <= CarriedKeep
          /\ \A t \in Txs : node[n].status[t].h \in 0..MaxBlocks + 1
          /\ node[n].nonce \in Nat /\ node[n].here \in SUBSET Txs
    /\ \A r \in req : r.tx \in Txs /\ r.at \in Nodes /\ r.of \in Nodes
    /\ env.taken \in SUBSET Txs /\ env.over \in SUBSET Txs

\* On top of the types, the queue is bounded and sound: the order never outgrows MEMPOOL_CAP, and
\* every entry is in it, or it could be neither offered nor evicted.
QueueSound ==
    /\ TypeOK
    /\ \A n \in Nodes : /\ Len(node[n].order) <= MempoolCap
                        /\ Queued(n) \subseteq Range(node[n].order)

\* However many ways an extrinsic takes (the client's retry, a relay, a carry,
\* the round that had it in its snapshot), one reign runs it once at most.
OncePerReign ==
    \A i, j \in DOMAIN chain :
        \A p \in DOMAIN chain[i].txs, q \in DOMAIN chain[j].txs :
            (chain[i].reign = chain[j].reign /\ chain[i].txs[p] = chain[j].txs[q])
                => i = j /\ p = q

HasRun(t) == \/ \E n \in Nodes : t \in Range(node[n].open)
           \/ \E i \in DOMAIN chain : t \in Range(chain[i].txs)

\* It was refused or evicted, or it ran.
Settled(t) == t \in env.over \/ HasRun(t)

\* While the roles stand still, what a poller said it took is not held by the
\* node it took it from alone: it is settled, or another node has it queued.
MarkedIsElsewhere ==
    env.moves = 0 => \A n \in Nodes : \A t \in Queued(n) :
        node[n].pool[t] => Settled(t) \/ \E p \in Nodes \ {n} : t \in Queued(p)

\* While the roles stand still, an extrinsic somebody took in is never left to
\* nobody: it is settled, or on its way, or in a queue that still sends it
\* ("Someone else is delivering it").
SomeoneDelivers ==
    env.moves = 0 => \A t \in env.taken :
        \/ Settled(t)
        \/ \E r \in req : r.tx = t
        \/ \E n \in Nodes : t \in Queued(n) /\ ~node[n].pool[t]

=============================================================================
