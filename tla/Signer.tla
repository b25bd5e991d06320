------------------------------- MODULE Signer -------------------------------
(***************************************************************************)
(* How acts get onto the chain: three writers sign with an account's next  *)
(* nonce and submit until they are answered - a cat (agent.rs: record,     *)
(* submit), the node that carries a stranger's request with the same key   *)
(* (node.rs: carry_patron_request), and the operator's client (client.rs:  *)
(* submit_or_queue).  The node either runs an extrinsic, forwards it to    *)
(* the primary, or, with no primary to be had, takes it into its mempool.  *)
(* How mempools relay is Mempool's matter.                                 *)
(***************************************************************************)
EXTENDS Integers, Sequences, FiniteSets, Functions

CONSTANTS
    Acts,           \* the acts to be put on the chain
    Plans,          \* who does what: see PlanOK
    MaxRounds,      \* bound: how often a queued line is sent (QUEUE_FOR)
    MaxFaults       \* bound: calls lost, and times the primary is

Kinds == {"cat", "carry", "line"}

\* A plan says whose each act is, which acts the chain refuses, which are
\* refused for their arguments before they are signed, and which act an act
\* waits for (a vote's comment for the vote).
PlanOK(p) ==
    /\ p.kind \in [Acts -> Kinds]
    /\ p.bad \subseteq Acts /\ p.malformed \subseteq Acts
    /\ p.after \subseteq Acts \X Acts

ASSUME SignerAssumption == {MaxRounds, MaxFaults} \subseteq Nat /\ \A p \in Plans : PlanOK(p)

VARIABLES
    plan,       \* the plan of this behaviour
    act,        \* where each act stands
    cached,     \* the cat's next nonce, if it knows it
    chain,      \* the account's nonce, the acts run, the node's mempool
    route,      \* what the node answers with
    seen        \* what the properties remember: faults, and lost answers

vars == <<plan, act, cached, chain, route, seen>>

Unknown == -1

\* Nonces are in no block: the node's own storage never counts what another
\* node ran, and nor does that of the next primary.
OwnNonce == 0

-----------------------------------------------------------------------------
(* Signing.                                                                *)

Fault == seen.faults < MaxFaults /\ seen' = [seen EXCEPT !.faults = @ + 1]

Cat(a) == plan.kind[a] = "cat"

\* The composer waits until the line before is answered, or in the background.
InForeground(a) == plan.kind[a] = "line" /\ act[a].pc \notin {"idle", "done"} /\ act[a].round = 0

\* What record makes no call of, for the arguments it was given.
Refused(a) == a \in plan.malformed

\* record: refused, or to be submitted; a vote's comment after the vote.
Record(a) ==
    /\ act[a].pc = "idle"
    /\ ~\E b \in Acts : InForeground(b)
    /\ \A b \in Acts : <<a, b>> \in plan.after => act[b].out = "ok"
    /\ act' = IF Refused(a)
              THEN [act EXCEPT ![a].pc = "done", ![a].out = "refused"]
              ELSE [act EXCEPT ![a].pc = "sign"]
    /\ UNCHANGED <<plan, cached, chain, route, seen>>

\* GET /account: the primary's nonce; with none to ask, this node's own; a
\* body without a nonce reads as 0.
FetchedNonce ==
    CASE route = "primary" -> chain.nonce
      [] route = "nobody"  -> OwnNonce
      [] route = "dead"    -> 0

Signed(a, nonce) ==
    /\ act' = [act EXCEPT ![a].pc = "sent", ![a].nonce = nonce]
    /\ cached' = IF Cat(a) THEN nonce + 1 ELSE cached

\* The nonce is read and counted in one go (a cat holds the lock meanwhile);
\* a carrier that gets none from its primary has used up an attempt.
Sign(a) ==
    /\ act[a].pc = "sign"
    /\ IF plan.kind[a] = "carry" /\ route = "dead"
       THEN act' = [act EXCEPT ![a].pc = "back", ![a].answer = "no nonce"] /\ UNCHANGED cached
       ELSE Signed(a, IF Cat(a) /\ cached # Unknown THEN cached ELSE FetchedNonce)
    /\ UNCHANGED <<plan, chain, route, seen>>

\* The node does not answer: a cat takes the nonce to be 0; a client tries
\* again later.
SignBlind(a) ==
    /\ act[a].pc = "sign" /\ plan.kind[a] # "carry"
    /\ IF Cat(a) THEN cached = Unknown /\ Signed(a, 0)
       ELSE act' = [act EXCEPT ![a].pc = "back", ![a].answer = "lost"] /\ UNCHANGED cached
    /\ Fault
    /\ UNCHANGED <<plan, chain, route>>

-----------------------------------------------------------------------------
(* The node.                                                               *)

NonceFits(nonce) == nonce = chain.nonce

\* A dispatched act uses up its nonce, refused or not.
Run(a) ==
    [chain EXCEPT !.nonce = @ + 1,
                  !.ran = IF a \in plan.bad THEN @ ELSE Append(@, a)]

Answered(a, answer) == act' = [act EXCEPT ![a].pc = "back", ![a].answer = answer]

\* accept_extrinsic, on this node or by a forward.
Arrive(a) ==
    /\ act[a].pc = "sent"
    /\ LET x == <<a, act[a].nonce>>
       IN CASE route = "primary" /\ NonceFits(x[2]) ->
                 chain' = Run(a) /\ Answered(a, IF a \in plan.bad THEN "refused" ELSE "ok")
            [] route = "primary" /\ ~NonceFits(x[2]) ->
                 UNCHANGED chain /\ Answered(a, "bad nonce")
            [] route = "nobody" ->
                 /\ chain' = [chain EXCEPT !.mempool = IF x \in Range(@) THEN @ ELSE Append(@, x)]
                 /\ Answered(a, "pending")
            [] route = "dead" -> UNCHANGED chain /\ Answered(a, "primary unreachable")
    /\ UNCHANGED <<plan, cached, route, seen>>

RequestLost(a) ==
    /\ act[a].pc = "sent" /\ plan.kind[a] # "carry"
    /\ Answered(a, "lost")
    /\ Fault
    /\ UNCHANGED <<plan, cached, chain, route>>

\* From the node, or from the primary the node forwarded to.
AnswerLost(a) ==
    /\ act[a].pc = "back" /\ act[a].answer \in {"ok", "pending", "refused", "bad nonce"}
    /\ \E lost \in {"lost", "primary unreachable"} :
          (plan.kind[a] = "carry" => lost # "lost") /\ Answered(a, lost)
    /\ seen.faults < MaxFaults
    /\ seen' = [faults |-> seen.faults + 1, lostAnswers |-> TRUE]
    /\ UNCHANGED <<plan, cached, chain, route>>

\* mempool_round: the entry is run or forwarded; refused, it is dropped.
MempoolRuns ==
    /\ route = "primary" /\ chain.mempool # <<>>
    /\ LET x == Head(chain.mempool)
       IN chain' = [IF NonceFits(x[2]) THEN Run(x[1]) ELSE chain
                      EXCEPT !.mempool = Tail(chain.mempool), !.dropped =
                        IF NonceFits(x[2]) /\ x[1] \notin plan.bad THEN @ ELSE @ \cup {x[1]}]
    /\ UNCHANGED <<plan, act, cached, route, seen>>

\* The primary dies; the mesh has none, or this node no route to it; the
\* route comes back, to the old primary or to a newly elected one.
Reroute(r) ==
    /\ <<route, r>> \in {"primary", "dead"} \X {"dead", "nobody"} \cup {"dead", "nobody"} \X {"primary"}
    /\ route # r /\ route' = r
    /\ \/ UNCHANGED chain
       \/ r = "primary" /\ chain' = [chain EXCEPT !.nonce = OwnNonce]
    /\ IF route = "primary" THEN Fault ELSE UNCHANGED seen
    /\ UNCHANGED <<plan, act, cached>>

-----------------------------------------------------------------------------
(* Answers.                                                                *)

\* How many attempts one go has: a line's first go, and each later one.
Attempts(a) ==
    CASE plan.kind[a] = "cat"   -> 4
      [] plan.kind[a] = "carry" -> 3
      [] plan.kind[a] = "line"  -> IF act[a].round = 0 THEN 2 ELSE 1

\* What is worth another attempt.
Transient(a) ==
    CASE plan.kind[a] = "cat"   -> {"bad nonce", "lost"}
      [] plan.kind[a] = "carry" -> {"bad nonce", "no nonce"}
      [] plan.kind[a] = "line"  -> {"bad nonce", "lost", "primary unreachable"}

\* The line goes, or stays, in the background.
Queues(a) ==
    /\ plan.kind[a] = "line" /\ act[a].answer \in {"lost", "primary unreachable"}
    /\ act[a].round < MaxRounds

\* Mutant: what is only queued has not succeeded.
AcceptedIfRun == {"ok"}

\* A success, be it "applied" or "pending".
Accepted == {"ok", "pending"}

\* Mutant: the cached nonce outlives a failure.
CacheAfterKept(a) == cached

\* On any failure the cat forgets the nonce.
CacheAfter(a) == IF Cat(a) /\ act[a].answer \notin Accepted THEN Unknown ELSE cached

Over(a, out) == act' = [act EXCEPT ![a].pc = "done", ![a].out = out]

Answer(a) ==
    /\ act[a].pc = "back"
    /\ cached' = CacheAfter(a)
    /\ CASE act[a].answer \in Accepted -> Over(a, "ok")
         [] act[a].answer \in Transient(a) /\ act[a].try < Attempts(a) ->
              act' = [act EXCEPT ![a].pc = "sign", ![a].try = @ + 1]
         [] act[a].answer \in Transient(a) /\ act[a].try = Attempts(a) /\ Queues(a) ->
              act' = [act EXCEPT ![a].pc = "sign", ![a].try = 1, ![a].round = @ + 1]
         [] act[a].answer \in Transient(a) /\ act[a].try = Attempts(a) /\ ~Queues(a) ->
              Over(a, "gave up")
         [] OTHER -> Over(a, "refused")
    /\ UNCHANGED <<plan, chain, route, seen>>

-----------------------------------------------------------------------------

Init ==
    /\ plan \in Plans
    /\ act = [a \in Acts |-> [pc |-> "idle", try |-> 1, round |-> 0, nonce |-> 0,
                              answer |-> "none", out |-> "none"]]
    /\ cached = Unknown
    /\ chain = [nonce |-> 0, ran |-> <<>>, mempool |-> <<>>, dropped |-> {}]
    /\ route = "primary"
    /\ seen = [faults |-> 0, lostAnswers |-> FALSE]

Next ==
    \/ \E a \in Acts : \/ Record(a) \/ Sign(a) \/ SignBlind(a)
                       \/ Arrive(a) \/ RequestLost(a) \/ AnswerLost(a) \/ Answer(a)
    \/ MempoolRuns
    \/ \E r \in {"primary", "dead", "nobody"} : Reroute(r)

Spec == Init /\ [][Next]_vars

-----------------------------------------------------------------------------
(* Properties.                                                             *)

\* The acts a mempool holds, in order.
Queue(q) == [i \in DOMAIN q |-> q[i][1]]

HasRun(a) == a \in Range(chain.ran)
Waiting(a) == a \in Range(Queue(chain.mempool))

Once(q) == \A i, j \in DOMAIN q : q[i] = q[j] => i = j

\* Unless an answer is lost, an act is never on the chain or on its way there
\* twice, and its author is told the truth: what it was told is done has been
\* run, or is in the mempool, or was dropped from there; what it was told failed
\* was not run and never will be.
ToldTheTruth ==
    ~seen.lostAnswers =>
        /\ Once(chain.ran) /\ Once(Queue(chain.mempool))
        /\ \A a \in Acts :
              /\ ~(HasRun(a) /\ Waiting(a))
              /\ act[a].out = "ok" => HasRun(a) \/ Waiting(a) \/ a \in chain.dropped
              /\ act[a].out \in {"refused", "gave up"} => ~HasRun(a) /\ ~Waiting(a)

\* As long as nothing is lost and the primary stays, no act is given up, and
\* only what the chain, or record, refuses is refused, whoever else signs with
\* the same account meanwhile.
NobodyGivesUp ==
    seen.faults = 0 => \A a \in Acts :
        /\ act[a].out # "gave up"
        /\ act[a].out = "refused" => a \in plan.bad \cup plan.malformed

=============================================================================
