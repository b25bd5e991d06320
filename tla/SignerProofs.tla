---------------------------- MODULE SignerProofs -----------------------------
(***************************************************************************)
(* Proofs about Signer, for every plan and any number of acts, rounds and  *)
(* faults: authors are told the truth.                                     *)
(***************************************************************************)
EXTENDS Signer, SequenceTheorems, TLAPS

-----------------------------------------------------------------------------
(* The invariant.                                                          *)

Replies == {"none", "ok", "pending", "refused", "bad nonce", "no nonce", "lost",
            "primary unreachable"}

Steps == {"idle", "sign", "sent", "back", "done"}

Outcomes == {"none", "ok", "refused", "gave up"}

ActState == [pc : Steps, try : Nat, round : Nat, nonce : Int, answer : Replies, out : Outcomes]

ChainState == [nonce : Nat, ran : Seq(Acts), mempool : Seq(Acts \X Int), dropped : SUBSET Acts]

TypeInv ==
    /\ plan \in Plans
    /\ act \in [Acts -> ActState]
    /\ cached \in Int
    /\ chain \in ChainState
    /\ route \in {"primary", "dead", "nobody"}
    /\ seen \in [faults : Nat, lostAnswers : BOOLEAN]

\* The author of a has been told that it is done, or is about to be.
Told(a) == \/ act[a].pc = "back" /\ act[a].answer \in Accepted
           \/ act[a].pc = "done" /\ act[a].out = "ok"

\* The chain, or the node, has dealt with a.
Taken(a) == HasRun(a) \/ Waiting(a) \/ a \in chain.dropped

\* An act is taken if and only if its author hears of it, and in one place.
TruthInv ==
    /\ \A a \in Acts : act[a].out # "none" => act[a].pc = "done"
    /\ ~seen.lostAnswers =>
        /\ Once(chain.ran) /\ Once(Queue(chain.mempool))
        /\ \A a \in Acts : /\ Taken(a) <=> Told(a)
                           /\ ~(HasRun(a) /\ Waiting(a))

-----------------------------------------------------------------------------
(* Types.                                                                  *)

\* Where an act goes, in the terms of each action.
LEMMA ActsKept ==
    ASSUME act \in [Acts -> ActState], NEW a \in Acts, NEW x
    PROVE  /\ x \in Steps => [act EXCEPT ![a].pc = x] \in [Acts -> ActState]
           /\ x \in Replies =>
                [act EXCEPT ![a].pc = "back", ![a].answer = x] \in [Acts -> ActState]
           /\ x \in Outcomes =>
                [act EXCEPT ![a].pc = "done", ![a].out = x] \in [Acts -> ActState]
           /\ x \in Int =>
                [act EXCEPT ![a].pc = "sent", ![a].nonce = x] \in [Acts -> ActState]
           /\ [act EXCEPT ![a].pc = "sign", ![a].try = @ + 1] \in [Acts -> ActState]
           /\ [act EXCEPT ![a].pc = "sign", ![a].try = 1, ![a].round = @ + 1]
                 \in [Acts -> ActState]
<1>1. ASSUME x \in Steps
      PROVE  [act EXCEPT ![a].pc = x] \in [Acts -> ActState]
  BY <1>1 DEF ActState
<1>2. ASSUME x \in Replies
      PROVE  [act EXCEPT ![a].pc = "back", ![a].answer = x] \in [Acts -> ActState]
  BY <1>2 DEF ActState, Steps
<1>3. ASSUME x \in Outcomes
      PROVE  [act EXCEPT ![a].pc = "done", ![a].out = x] \in [Acts -> ActState]
  BY <1>3 DEF ActState, Steps
<1>4. ASSUME x \in Int
      PROVE  [act EXCEPT ![a].pc = "sent", ![a].nonce = x] \in [Acts -> ActState]
  BY <1>4 DEF ActState, Steps
<1>5. [act EXCEPT ![a].pc = "sign", ![a].try = @ + 1] \in [Acts -> ActState]
  <2>1. act[a].try + 1 \in Nat
    BY DEF ActState
  <2>2. [act[a] EXCEPT !.pc = "sign", !.try = act[a].try + 1] \in ActState
    BY <2>1 DEF ActState, Steps
  <2> QED BY <2>2
<1>6. [act EXCEPT ![a].pc = "sign", ![a].try = 1, ![a].round = @ + 1] \in [Acts -> ActState]
  <2>1. act[a].round + 1 \in Nat
    BY DEF ActState
  <2>2. [act[a] EXCEPT !.pc = "sign", !.try = 1, !.round = act[a].round + 1] \in ActState
    BY <2>1 DEF ActState, Steps
  <2> QED BY <2>2
<1> QED BY <1>1, <1>2, <1>3, <1>4, <1>5, <1>6

LEMMA SignsAnInteger ==
    ASSUME TypeInv
    PROVE  FetchedNonce \in Int
BY DEF TypeInv, ChainState, FetchedNonce, OwnNonce

LEMMA RunIs ==
    ASSUME chain \in ChainState, NEW a \in Acts
    PROVE  /\ Run(a) \in ChainState
           /\ Run(a).ran = IF a \in plan.bad THEN chain.ran ELSE Append(chain.ran, a)
           /\ Run(a).mempool = chain.mempool /\ Run(a).dropped = chain.dropped
<1> DEFINE r == IF a \in plan.bad THEN chain.ran ELSE Append(chain.ran, a)
<1>1. r \in Seq(Acts)
  BY DEF ChainState
<1> HIDE DEF r
<1>2. Run(a) = [chain EXCEPT !.nonce = @ + 1, !.ran = r]
  BY DEF Run, r
<1>3. Run(a) \in ChainState
  <2>1. chain.nonce + 1 \in Nat
    BY DEF ChainState
  <2>2. Run(a) = [chain EXCEPT !.nonce = chain.nonce + 1, !.ran = r]
    BY <1>2
  <2> QED BY <1>1, <2>1, <2>2 DEF ChainState
<1>4. Run(a).ran = r /\ Run(a).mempool = chain.mempool /\ Run(a).dropped = chain.dropped
  BY <1>2 DEF ChainState
<1> QED BY <1>3, <1>4 DEF r

-----------------------------------------------------------------------------
(* What the steps are: a quiet one, of an act that is not with the node; an *)
(* act that arrives; one that leaves the mempool.                          *)

\* a goes on and nothing is taken, and its author is told nothing new.
Quiet(a) ==
    /\ act' \in [Acts -> ActState] /\ cached' \in Int
    /\ UNCHANGED chain /\ seen'.lostAnswers = seen.lostAnswers
    /\ \A b \in Acts \ {a} : act'[b] = act[b]
    /\ act'[a].out # "none" => act'[a].pc = "done"
    /\ Told(a)' <=> Told(a)

LEMMA InitTypes == Init => TypeInv
<1> SUFFICES ASSUME Init PROVE TypeInv
  OBVIOUS
<1>1. act \in [Acts -> ActState]
  BY DEF Init, ActState, Steps, Replies, Outcomes
<1>2. chain \in ChainState
  BY DEF Init, ChainState
<1>3. cached \in Int
  BY DEF Init, Unknown
<1> QED BY <1>1, <1>2, <1>3 DEF Init, TypeInv

LEMMA FaultIs == TypeInv /\ Fault => seen' \in [faults : Nat, lostAnswers : BOOLEAN]
                                      /\ seen'.lostAnswers = seen.lostAnswers
BY DEF TypeInv, Fault

LEMMA RecordIsQuiet ==
    ASSUME TypeInv, NEW a \in Acts, act[a].out = "none", Record(a)
    PROVE  Quiet(a)
<1>1. CASE act' = [act EXCEPT ![a].pc = "done", ![a].out = "refused"]
  <2>1. act' \in [Acts -> ActState]
    BY <1>1, ActsKept DEF TypeInv, Outcomes
  <2>2. act'[a].pc = "done" /\ act'[a].out = "refused" /\ \A b \in Acts \ {a} : act'[b] = act[b]
    BY <1>1 DEF TypeInv, ActState
  <2> QED BY <2>1, <2>2 DEF Record, Quiet, Told, TypeInv
<1>2. CASE act' = [act EXCEPT ![a].pc = "sign"]
  <2>1. act' \in [Acts -> ActState]
    BY <1>2, ActsKept DEF TypeInv, Steps
  <2>2. act'[a].pc = "sign" /\ act'[a].out = "none" /\ \A b \in Acts \ {a} : act'[b] = act[b]
    BY <1>2 DEF TypeInv, ActState
  <2> QED BY <2>1, <2>2 DEF Record, Quiet, Told, TypeInv
<1> QED BY <1>1, <1>2 DEF Record

LEMMA SignIsQuiet ==
    ASSUME TypeInv, NEW a \in Acts, act[a].out = "none", Sign(a) \/ SignBlind(a) \/ RequestLost(a)
    PROVE  Quiet(a)
<1>1. act[a].pc \in {"sign", "sent"} /\ UNCHANGED chain /\ seen'.lostAnswers = seen.lostAnswers
  BY FaultIs DEF Sign, SignBlind, RequestLost
<1>2. ASSUME NEW x \in Replies \ Accepted,
             act' = [act EXCEPT ![a].pc = "back", ![a].answer = x], cached' = cached
      PROVE  Quiet(a)
  <2>1. act' \in [Acts -> ActState]
    BY <1>2, ActsKept DEF TypeInv
  <2>2. act'[a].pc = "back" /\ act'[a].answer = x /\ act'[a].out = "none"
        /\ \A b \in Acts \ {a} : act'[b] = act[b]
    BY <1>2 DEF TypeInv, ActState
  <2> QED BY <1>1, <1>2, <2>1, <2>2 DEF Quiet, Told, TypeInv
<1>3. ASSUME NEW n \in Int, Signed(a, n)
      PROVE  Quiet(a)
  <2>1. act' = [act EXCEPT ![a].pc = "sent", ![a].nonce = n]
    BY <1>3 DEF Signed
  <2>2. act' \in [Acts -> ActState]
    BY <2>1, ActsKept DEF TypeInv
  <2>3. act'[a].pc = "sent" /\ act'[a].out = "none" /\ \A b \in Acts \ {a} : act'[b] = act[b]
    BY <2>1 DEF TypeInv, ActState
  <2>4. cached' \in Int
    BY <1>3 DEF Signed, TypeInv
  <2> QED BY <1>1, <2>2, <2>3, <2>4 DEF Quiet, Told
<1>4. {"no nonce", "lost"} \subseteq Replies \ Accepted
  BY DEF Replies, Accepted
<1>5. cached \in Int /\ FetchedNonce \in Int /\ 0 \in Int
  BY SignsAnInteger DEF TypeInv
<1>6. CASE Sign(a)
  <2>1. CASE plan.kind[a] = "carry" /\ route = "dead"
    BY <1>2, <1>4, <1>6, <2>1 DEF Sign
  <2>2. CASE ~(plan.kind[a] = "carry" /\ route = "dead")
    <3> DEFINE n == IF Cat(a) /\ cached # Unknown THEN cached ELSE FetchedNonce
    <3>1. Signed(a, n)
      BY <1>6, <2>2 DEF Sign
    <3>2. n \in Int
      BY <1>5
    <3> HIDE DEF n
    <3> QED BY <1>3, <3>1, <3>2
  <2> QED BY <2>1, <2>2
<1>7. CASE SignBlind(a)
  BY <1>2, <1>3, <1>4, <1>5, <1>7 DEF SignBlind
<1>8. CASE RequestLost(a)
  BY <1>2, <1>4, <1>8 DEF RequestLost, Answered
<1> QED BY <1>6, <1>7, <1>8

LEMMA AnswerIsQuiet ==
    ASSUME TypeInv, NEW a \in Acts, act[a].out = "none", Answer(a)
    PROVE  Quiet(a)
<1>1. act[a].pc = "back" /\ UNCHANGED <<chain, seen>>
  BY DEF Answer
<1>2. cached' \in Int
  <2>1. cached' = cached \/ cached' = Unknown
    BY DEF Answer, CacheAfter
  <2> QED BY <2>1 DEF TypeInv, Unknown
<1>3. ASSUME NEW x \in Outcomes \ {"none"}, Over(a, x), x = "ok" <=> act[a].answer \in Accepted
      PROVE  Quiet(a)
  <2>1. act' = [act EXCEPT ![a].pc = "done", ![a].out = x]
    BY <1>3 DEF Over
  <2>2. act' \in [Acts -> ActState]
    BY <2>1, ActsKept DEF TypeInv
  <2>3. act'[a].pc = "done" /\ act'[a].out = x /\ \A b \in Acts \ {a} : act'[b] = act[b]
    BY <2>1 DEF TypeInv, ActState
  <2> QED BY <1>1, <1>2, <1>3, <2>2, <2>3 DEF Quiet, Told
<1>4. ASSUME act[a].answer \notin Accepted,
             \/ act' = [act EXCEPT ![a].pc = "sign", ![a].try = @ + 1]
             \/ act' = [act EXCEPT ![a].pc = "sign", ![a].try = 1, ![a].round = @ + 1]
      PROVE  Quiet(a)
  <2>1. act' \in [Acts -> ActState]
    BY <1>4, ActsKept DEF TypeInv
  <2>2. act'[a].pc = "sign" /\ act'[a].out = "none" /\ \A b \in Acts \ {a} : act'[b] = act[b]
    <3>1. CASE act' = [act EXCEPT ![a].pc = "sign", ![a].try = @ + 1]
      BY <3>1 DEF TypeInv, ActState
    <3>2. CASE act' = [act EXCEPT ![a].pc = "sign", ![a].try = 1, ![a].round = @ + 1]
      BY <3>2 DEF TypeInv, ActState
    <3> QED BY <1>4, <3>1, <3>2
  <2> QED BY <1>1, <1>2, <1>4, <2>1, <2>2 DEF Quiet, Told
<1>5. \/ act[a].answer \in Accepted /\ Over(a, "ok")
      \/ /\ act[a].answer \notin Accepted
         /\ \/ act' = [act EXCEPT ![a].pc = "sign", ![a].try = @ + 1]
            \/ act' = [act EXCEPT ![a].pc = "sign", ![a].try = 1, ![a].round = @ + 1]
            \/ Over(a, "gave up")
            \/ Over(a, "refused")
  <2>1. Transient(a) \cap Accepted = {}
    <3>1. plan.kind[a] \in {"cat", "carry", "line"}
      BY SignerAssumption DEF TypeInv, PlanOK, Kinds
    <3> QED BY <3>1 DEF Transient, Accepted
  <2> QED BY <2>1 DEF Answer
<1>6. {"ok", "gave up", "refused"} \subseteq Outcomes \ {"none"}
  BY DEF Outcomes
<1> QED BY <1>3, <1>4, <1>5, <1>6

LEMMA AnswerLostIs ==
    ASSUME TypeInv, NEW a \in Acts, act[a].out = "none", AnswerLost(a)
    PROVE  /\ act' \in [Acts -> ActState] /\ act'[a].out = "none"
           /\ \A b \in Acts \ {a} : act'[b] = act[b]
<1>1. PICK x \in {"lost", "primary unreachable"} :
        act' = [act EXCEPT ![a].pc = "back", ![a].answer = x]
  BY DEF AnswerLost, Answered
<1>2. x \in Replies
  BY DEF Replies
<1>3. act' \in [Acts -> ActState]
  BY <1>1, <1>2, ActsKept DEF TypeInv
<1>4. act'[a].out = "none" /\ \A b \in Acts \ {a} : act'[b] = act[b]
  BY <1>1 DEF TypeInv, ActState
<1> QED BY <1>3, <1>4

\* An act that arrives is run, queued, or refused; its author will hear of it.
LEMMA ArriveIs ==
    ASSUME TypeInv, NEW a \in Acts, act[a].out = "none", Arrive(a)
    PROVE  \E x \in Replies :
             /\ act' \in [Acts -> ActState] /\ act'[a].pc = "back" /\ act'[a].answer = x
             /\ act'[a].out = "none" /\ \A b \in Acts \ {a} : act'[b] = act[b]
             /\ \/ x = "ok" /\ a \notin plan.bad /\ chain' = Run(a)
                \/ x = "refused" /\ a \in plan.bad /\ chain' = Run(a)
                \/ x \in {"bad nonce", "primary unreachable"} /\ chain' = chain
                \/ /\ x = "pending"
                   /\ LET e == <<a, act[a].nonce>>
                      IN chain' = [chain EXCEPT !.mempool =
                                      IF e \in Range(@) THEN @ ELSE Append(@, e)]
<1>1. ASSUME NEW x \in Replies, Answered(a, x)
      PROVE  /\ act' \in [Acts -> ActState] /\ act'[a].pc = "back" /\ act'[a].answer = x
             /\ act'[a].out = "none" /\ \A b \in Acts \ {a} : act'[b] = act[b]
  <2>1. act' = [act EXCEPT ![a].pc = "back", ![a].answer = x]
    BY <1>1 DEF Answered
  <2>2. act' \in [Acts -> ActState]
    BY <2>1, ActsKept DEF TypeInv
  <2>3. act'[a].pc = "back" /\ act'[a].answer = x /\ act'[a].out = "none"
        /\ \A b \in Acts \ {a} : act'[b] = act[b]
    BY <2>1 DEF TypeInv, ActState
  <2> QED BY <2>2, <2>3
<1>2. {"ok", "refused", "bad nonce", "primary unreachable", "pending"} \subseteq Replies
  BY DEF Replies
<1>3. CASE route = "primary" /\ NonceFits(act[a].nonce) /\ a \in plan.bad
  BY <1>1, <1>2, <1>3 DEF Arrive
<1>4. CASE route = "primary" /\ NonceFits(act[a].nonce) /\ a \notin plan.bad
  BY <1>1, <1>2, <1>4 DEF Arrive
<1>5. CASE route = "primary" /\ ~NonceFits(act[a].nonce)
  BY <1>1, <1>2, <1>5 DEF Arrive
<1>6. CASE route = "nobody"
  BY <1>1, <1>2, <1>6 DEF Arrive
<1>7. CASE route = "dead"
  BY <1>1, <1>2, <1>7 DEF Arrive
<1> QED BY <1>3, <1>4, <1>5, <1>6, <1>7 DEF TypeInv

\* The mempool's turn: its first entry is run, or dropped.
LEMMA MempoolRunsIs ==
    ASSUME TypeInv, MempoolRuns
    PROVE  LET x == Head(chain.mempool)
           IN  /\ x[1] \in Acts /\ chain.mempool # <<>>
               /\ chain' \in ChainState /\ chain'.mempool = Tail(chain.mempool)
               /\ \/ /\ chain'.ran = Append(chain.ran, x[1])
                     /\ chain'.dropped = chain.dropped
                  \/ /\ chain'.ran = chain.ran
                     /\ chain'.dropped = chain.dropped \cup {x[1]}
<1> DEFINE x == Head(chain.mempool)
           c == IF NonceFits(x[2]) THEN Run(x[1]) ELSE chain
           d == IF NonceFits(x[2]) /\ x[1] \notin plan.bad THEN chain.dropped
                ELSE chain.dropped \cup {x[1]}
           t == Tail(chain.mempool)
<1>1. chain \in ChainState /\ chain.mempool \in Seq(Acts \X Int) /\ chain.mempool # <<>>
  BY DEF TypeInv, ChainState, MempoolRuns
<1>2. x \in Acts \X Int /\ t \in Seq(Acts \X Int)
  BY <1>1
<1>3. x[1] \in Acts
  BY <1>2
<1>4. /\ c \in ChainState /\ c.mempool = chain.mempool /\ c.dropped = chain.dropped
      /\ c.ran = IF NonceFits(x[2]) /\ x[1] \notin plan.bad THEN Append(chain.ran, x[1])
                 ELSE chain.ran
  BY <1>1, <1>3, RunIs
<1>5. chain' = [c EXCEPT !.mempool = t, !.dropped = d]
  BY <1>4 DEF MempoolRuns
<1>6. d \in SUBSET Acts
  BY <1>1, <1>3 DEF ChainState
<1>7. (c.ran = Append(chain.ran, x[1]) /\ d = chain.dropped)
      \/ (c.ran = chain.ran /\ d = chain.dropped \cup {x[1]})
  BY <1>4
<1> HIDE DEF c, d, t
<1>8. chain' \in ChainState /\ chain'.mempool = t /\ chain'.dropped = d /\ chain'.ran = c.ran
  BY <1>2, <1>4, <1>5, <1>6 DEF ChainState
<1> QED BY <1>1, <1>3, <1>7, <1>8 DEF t

LEMMA RerouteIs ==
    ASSUME TypeInv, NEW r, Reroute(r)
    PROVE  /\ UNCHANGED <<plan, act, cached>> /\ chain' \in ChainState
           /\ chain'.ran = chain.ran /\ chain'.mempool = chain.mempool
           /\ chain'.dropped = chain.dropped /\ route' \in {"primary", "dead", "nobody"}
           /\ seen' \in [faults : Nat, lostAnswers : BOOLEAN]
           /\ seen'.lostAnswers = seen.lostAnswers
<1>1. chain' = chain \/ chain' = [chain EXCEPT !.nonce = 0]
  BY DEF Reroute, OwnNonce
<1>2. /\ chain' \in ChainState /\ chain'.ran = chain.ran /\ chain'.mempool = chain.mempool
      /\ chain'.dropped = chain.dropped
  <2>1. CASE chain' = [chain EXCEPT !.nonce = 0]
    BY <2>1 DEF TypeInv, ChainState
  <2> QED BY <1>1, <2>1 DEF TypeInv
<1>3. seen' \in [faults : Nat, lostAnswers : BOOLEAN] /\ seen'.lostAnswers = seen.lostAnswers
  BY FaultIs DEF Reroute, TypeInv
<1> QED BY <1>2, <1>3 DEF Reroute

-----------------------------------------------------------------------------
(* Sequences without repetition.                                           *)

LEMMA AppendIs ==
    ASSUME NEW S, NEW q \in Seq(S), NEW x \in S
    PROVE  /\ Range(Append(q, x)) = Range(q) \cup {x}
           /\ Once(q) /\ x \notin Range(q) => Once(Append(q, x))
<1> DEFINE p == Append(q, x)
<1>1. /\ Len(q) \in Nat /\ DOMAIN q = 1..Len(q) /\ DOMAIN p = 1..(Len(q) + 1)
      /\ p[Len(q) + 1] = x /\ \A i \in 1..Len(q) : p[i] = q[i]
  OBVIOUS
<1> HIDE DEF p
<1>2. \A i \in DOMAIN p : i = Len(q) + 1 \/ i \in DOMAIN q
  BY <1>1
<1>3. Len(q) + 1 \in DOMAIN p /\ DOMAIN q \subseteq DOMAIN p
  BY <1>1
<1>4. Range(p) = Range(q) \cup {x}
  BY <1>1, <1>2, <1>3 DEF Range
<1>5. ASSUME Once(q), x \notin Range(q)
      PROVE  Once(p)
  <2>1. \A i \in DOMAIN q : q[i] # x
    BY <1>5 DEF Range
  <2> QED BY <1>1, <1>2, <1>5, <2>1 DEF Once
<1> QED BY <1>4, <1>5 DEF p

LEMMA TailIs ==
    ASSUME NEW S, NEW q \in Seq(S), q # <<>>
    PROVE  /\ Range(q) = Range(Tail(q)) \cup {Head(q)}
           /\ Once(q) => Once(Tail(q)) /\ Head(q) \notin Range(Tail(q))
<1> DEFINE p == Tail(q)
<1>1. /\ Len(q) \in Nat \ {0} /\ DOMAIN q = 1..Len(q) /\ DOMAIN p = 1..(Len(q) - 1)
      /\ Head(q) = q[1] /\ \A i \in 1..(Len(q) - 1) : p[i] = q[i + 1]
  OBVIOUS
<1> HIDE DEF p
<1>2. \A i \in DOMAIN q : i = 1 \/ (i - 1 \in DOMAIN p /\ p[i - 1] = q[i])
  BY <1>1
<1>3. \A i \in DOMAIN p : i + 1 \in DOMAIN q /\ p[i] = q[i + 1] /\ i + 1 # 1 /\ i \in Int
  BY <1>1
<1>4. 1 \in DOMAIN q
  BY <1>1
<1>5. Range(q) = Range(p) \cup {Head(q)}
  <2>1. \A y \in Range(q) : y \in Range(p) \/ y = Head(q)
    BY <1>1, <1>2 DEF Range
  <2>2. \A y \in Range(p) : y \in Range(q)
    BY <1>3 DEF Range
  <2>3. Head(q) \in Range(q)
    BY <1>1, <1>4 DEF Range
  <2> QED BY <2>1, <2>2, <2>3
<1>6. ASSUME Once(q)
      PROVE  Once(p) /\ Head(q) \notin Range(p)
  <2>1. ASSUME NEW i \in DOMAIN p, NEW j \in DOMAIN p, p[i] = p[j]
        PROVE  i = j
    <3>1. i + 1 = j + 1
      BY <1>3, <1>6, <2>1 DEF Once
    <3> QED BY <1>3, <3>1
  <2>2. \A i \in DOMAIN p : p[i] # Head(q)
    BY <1>1, <1>3, <1>4, <1>6 DEF Once
  <2> QED BY <2>1, <2>2 DEF Once, Range
<1> QED BY <1>5, <1>6 DEF p

LEMMA QueueIs ==
    ASSUME NEW q \in Seq(Acts \X Int)
    PROVE  /\ Queue(q) \in Seq(Acts)
           /\ q # <<>> => /\ Queue(q) # <<>> /\ Head(Queue(q)) = Head(q)[1]
                          /\ Queue(Tail(q)) = Tail(Queue(q))
           /\ \A e \in Acts \X Int : /\ Queue(Append(q, e)) = Append(Queue(q), e[1])
                                     /\ e \in Range(q) => e[1] \in Range(Queue(q))
<1>1. Len(q) \in Nat /\ DOMAIN q = 1..Len(q) /\ \A i \in 1..Len(q) : q[i] \in Acts \X Int
  OBVIOUS
<1>2. DOMAIN Queue(q) = 1..Len(q) /\ \A i \in 1..Len(q) : Queue(q)[i] = q[i][1]
  BY <1>1 DEF Queue
<1>3. Queue(q) \in Seq(Acts) /\ Len(Queue(q)) = Len(q)
  BY <1>1 DEF Queue
<1>4. ASSUME q # <<>>
      PROVE  /\ Queue(q) # <<>> /\ Head(Queue(q)) = Head(q)[1]
             /\ Queue(Tail(q)) = Tail(Queue(q))
  <2>1. Len(q) # 0 /\ Queue(q) # <<>> /\ Head(q) = q[1] /\ Head(Queue(q)) = Queue(q)[1]
    BY <1>3, <1>4
  <2>2. /\ Tail(q) \in Seq(Acts \X Int) /\ DOMAIN Tail(q) = 1..(Len(q) - 1)
        /\ \A i \in 1..(Len(q) - 1) : Tail(q)[i] = q[i + 1]
    BY <1>4
  <2>3. /\ Tail(Queue(q)) \in Seq(Acts) /\ Len(Tail(Queue(q))) = Len(q) - 1
        /\ \A i \in 1..(Len(q) - 1) : Tail(Queue(q))[i] = Queue(q)[i + 1]
    <3> DEFINE p == Queue(q)
    <3>1. p \in Seq(Acts) /\ Len(p) = Len(q) /\ p # <<>>
      BY <1>3, <2>1
    <3> HIDE DEF p
    <3>2. /\ Tail(p) \in Seq(Acts) /\ Len(Tail(p)) = Len(q) - 1
          /\ \A i \in 1..(Len(q) - 1) : Tail(p)[i] = p[i + 1]
      BY <3>1
    <3> QED BY <3>2 DEF p
  <2>4. Queue(Tail(q)) = [i \in 1..(Len(q) - 1) |-> q[i + 1][1]]
    BY <2>2 DEF Queue
  <2>5. \A i \in 1..(Len(q) - 1) : Queue(q)[i + 1] = q[i + 1][1] /\ q[i + 1][1] \in Acts
    BY <1>1, <1>2
  <2>6. /\ Queue(Tail(q)) \in Seq(Acts) /\ Len(Queue(Tail(q))) = Len(q) - 1
        /\ \A i \in 1..(Len(q) - 1) : Queue(Tail(q))[i] = Queue(q)[i + 1]
    <3> DEFINE n == Len(q) - 1
               g == Queue(Tail(q))
    <3>1. n \in Nat
      BY <1>1, <2>1
    <3>2. g \in [1..n -> Acts] /\ \A i \in 1..n : g[i] = Queue(q)[i + 1]
      BY <2>4, <2>5
    <3> HIDE DEF n, g
    <3>3. g \in Seq(Acts) /\ Len(g) = n
      BY <3>1, <3>2
    <3> QED BY <3>2, <3>3 DEF n, g
  <2>7. Queue(Tail(q)) = Tail(Queue(q))
    BY <2>3, <2>6, SeqEqual
  <2> QED BY <1>1, <1>2, <2>1, <2>7
<1>5. ASSUME NEW e \in Acts \X Int
      PROVE  /\ Queue(Append(q, e)) = Append(Queue(q), e[1])
             /\ e \in Range(q) => e[1] \in Range(Queue(q))
  <2>1. Queue(Append(q, e)) = [i \in 1..(Len(q) + 1) |-> Append(q, e)[i][1]]
    BY DEF Queue
  <2>2. Append(Queue(q), e[1]) =
          [i \in 1..(Len(q) + 1) |-> IF i <= Len(q) THEN Queue(q)[i] ELSE e[1]]
    BY <1>3
  <2>3. \A i \in 1..(Len(q) + 1) : Append(q, e)[i] = IF i <= Len(q) THEN q[i] ELSE e
    OBVIOUS
  <2>4. \A i \in 1..(Len(q) + 1) :
           Append(q, e)[i][1] = IF i <= Len(q) THEN Queue(q)[i] ELSE e[1]
    BY <1>1, <1>2, <2>3
  <2>5. e \in Range(q) => e[1] \in Range(Queue(q))
    BY <1>1, <1>2 DEF Range
  <2> QED BY <2>1, <2>2, <2>4, <2>5
<1> QED BY <1>3, <1>4, <1>5

-----------------------------------------------------------------------------
(* The truth.                                                              *)

LEMMA QuietKeepsTruth ==
    ASSUME TypeInv, TruthInv, NEW a \in Acts, Quiet(a)
    PROVE  TruthInv'
<1>1. /\ chain' = chain /\ seen'.lostAnswers = seen.lostAnswers
      /\ \A b \in Acts \ {a} : act'[b] = act[b]
      /\ act'[a].out # "none" => act'[a].pc = "done"
      /\ Told(a)' <=> Told(a)
  BY DEF Quiet
<1>2. \A b \in Acts : Told(b)' <=> Told(b)
  BY <1>1 DEF Told
<1>3. \A b \in Acts : (Taken(b)' <=> Taken(b)) /\ (HasRun(b)' <=> HasRun(b))
                      /\ (Waiting(b)' <=> Waiting(b))
  BY <1>1 DEF Taken, HasRun, Waiting
<1>4. \A b \in Acts : act'[b].out # "none" => act'[b].pc = "done"
  BY <1>1 DEF TruthInv
<1> QED BY <1>1, <1>2, <1>3, <1>4 DEF TruthInv

LEMMA ArriveKeepsTruth ==
    ASSUME TypeInv, TruthInv, NEW a \in Acts, Arrive(a)
    PROVE  TruthInv' /\ act' \in [Acts -> ActState] /\ chain' \in ChainState
<1>1. act[a].pc = "sent" /\ seen' = seen /\ plan' = plan
  BY DEF Arrive
<1>2. act[a].out = "none"
  BY <1>1 DEF TruthInv
<1>3. PICK x \in Replies :
        /\ act' \in [Acts -> ActState] /\ act'[a].pc = "back" /\ act'[a].answer = x
        /\ act'[a].out = "none" /\ \A b \in Acts \ {a} : act'[b] = act[b]
        /\ \/ x = "ok" /\ a \notin plan.bad /\ chain' = Run(a)
           \/ x = "refused" /\ a \in plan.bad /\ chain' = Run(a)
           \/ x \in {"bad nonce", "primary unreachable"} /\ chain' = chain
           \/ /\ x = "pending"
              /\ LET e == <<a, act[a].nonce>>
                 IN chain' = [chain EXCEPT !.mempool = IF e \in Range(@) THEN @ ELSE Append(@, e)]
  BY <1>2, ArriveIs
<1>4. /\ ~Told(a) /\ (Told(a)' <=> x \in {"ok", "pending"})
      /\ \A b \in Acts \ {a} : Told(b)' <=> Told(b)
      /\ \A b \in Acts : act'[b].out # "none" => act'[b].pc = "done"
  BY <1>1, <1>3 DEF Told, Accepted, TruthInv
<1>5. chain \in ChainState /\ chain.ran \in Seq(Acts) /\ chain.mempool \in Seq(Acts \X Int)
  BY DEF TypeInv, ChainState
<1>6. CASE x = "ok"
  <2>1. /\ chain' \in ChainState /\ chain'.ran = Append(chain.ran, a)
        /\ chain'.mempool = chain.mempool /\ chain'.dropped = chain.dropped
    BY <1>3, <1>5, <1>6, RunIs
  <2>2. /\ Range(chain'.ran) = Range(chain.ran) \cup {a}
        /\ Once(chain.ran) /\ a \notin Range(chain.ran) => Once(chain'.ran)
    BY <1>5, <2>1, AppendIs
  <2>3. /\ HasRun(a)' /\ \A b \in Acts \ {a} : HasRun(b)' <=> HasRun(b)
        /\ \A b \in Acts : Waiting(b)' <=> Waiting(b)
    BY <2>1, <2>2 DEF HasRun, Waiting
  <2>4. Taken(a)' /\ \A b \in Acts \ {a} : Taken(b)' <=> Taken(b)
    BY <2>1, <2>3 DEF Taken
  <2>5. ~seen.lostAnswers => ~HasRun(a) /\ ~Waiting(a)
    BY <1>4 DEF TruthInv, Taken
  <2>6. ~seen.lostAnswers => Once(chain'.ran)
    BY <2>2, <2>5 DEF TruthInv, HasRun
  <2> QED BY <1>1, <1>3, <1>4, <1>6, <2>1, <2>3, <2>4, <2>5, <2>6 DEF TruthInv
<1>7. CASE x \in {"refused", "bad nonce", "primary unreachable"}
  <2>1. /\ chain' \in ChainState /\ chain'.ran = chain.ran
        /\ chain'.mempool = chain.mempool /\ chain'.dropped = chain.dropped
    BY <1>3, <1>5, <1>7, RunIs
  <2>2. \A b \in Acts : (HasRun(b)' <=> HasRun(b)) /\ (Waiting(b)' <=> Waiting(b))
                         /\ (Taken(b)' <=> Taken(b))
    BY <2>1 DEF HasRun, Waiting, Taken
  <2>3. \A b \in Acts : Told(b)' <=> Told(b)
    BY <1>4, <1>7
  <2> QED BY <1>1, <1>3, <1>4, <2>1, <2>2, <2>3 DEF TruthInv
<1>8. CASE x = "pending"
  <2> DEFINE e == <<a, act[a].nonce>>
             m == IF e \in Range(chain.mempool) THEN chain.mempool ELSE Append(chain.mempool, e)
  <2>1. e \in Acts \X Int /\ e[1] = a
    BY DEF TypeInv, ActState
  <2>2. m \in Seq(Acts \X Int) /\ chain' = [chain EXCEPT !.mempool = m]
    BY <1>3, <1>5, <1>8, <2>1
  <2>3. /\ Range(Queue(m)) = Range(Queue(chain.mempool)) \cup {a}
        /\ Once(Queue(chain.mempool)) /\ ~Waiting(a) => Once(Queue(m))
    <3>1. CASE e \in Range(chain.mempool)
      BY <1>5, <2>1, <3>1, QueueIs
    <3>2. CASE e \notin Range(chain.mempool)
      <4>1. Queue(m) = Append(Queue(chain.mempool), a) /\ Queue(chain.mempool) \in Seq(Acts)
        BY <1>5, <2>1, <3>2, QueueIs
      <4> HIDE DEF e, m
      <4> QED BY <4>1, AppendIs DEF Waiting
    <3> QED BY <3>1, <3>2
  <2> HIDE DEF e, m
  <2>4. /\ chain' \in ChainState /\ chain'.ran = chain.ran
        /\ chain'.mempool = m /\ chain'.dropped = chain.dropped
    BY <1>5, <2>2 DEF ChainState
  <2>5. /\ Waiting(a)' /\ \A b \in Acts \ {a} : Waiting(b)' <=> Waiting(b)
        /\ \A b \in Acts : HasRun(b)' <=> HasRun(b)
    BY <2>3, <2>4 DEF HasRun, Waiting
  <2>6. Taken(a)' /\ \A b \in Acts \ {a} : Taken(b)' <=> Taken(b)
    BY <2>4, <2>5 DEF Taken
  <2>7. ~seen.lostAnswers => ~HasRun(a) /\ ~Waiting(a)
    BY <1>4 DEF TruthInv, Taken
  <2>8. ~seen.lostAnswers => Once(Queue(chain'.mempool))
    BY <2>3, <2>4, <2>7 DEF TruthInv
  <2> QED BY <1>1, <1>3, <1>4, <1>8, <2>4, <2>5, <2>6, <2>7, <2>8 DEF TruthInv
<1> QED BY <1>3, <1>6, <1>7, <1>8

LEMMA MempoolKeepsTruth ==
    ASSUME TypeInv, TruthInv, MempoolRuns
    PROVE  TruthInv'
<1>. PICK a \in Acts : a = Head(chain.mempool)[1]
  BY MempoolRunsIs
<1>1. /\ a \in Acts /\ chain.mempool # <<>>
      /\ chain' \in ChainState /\ chain'.mempool = Tail(chain.mempool)
      /\ \/ chain'.ran = Append(chain.ran, a) /\ chain'.dropped = chain.dropped
         \/ chain'.ran = chain.ran /\ chain'.dropped = chain.dropped \cup {a}
  BY MempoolRunsIs
<1>2. chain.ran \in Seq(Acts) /\ chain.mempool \in Seq(Acts \X Int)
  BY DEF TypeInv, ChainState
<1>3. /\ Queue(chain.mempool) \in Seq(Acts) /\ Queue(chain.mempool) # <<>>
      /\ Head(Queue(chain.mempool)) = a
      /\ Queue(chain'.mempool) = Tail(Queue(chain.mempool))
  BY <1>1, <1>2, QueueIs
<1>4. /\ Range(Queue(chain.mempool)) = Range(Queue(chain'.mempool)) \cup {a}
      /\ Once(Queue(chain.mempool)) =>
            Once(Queue(chain'.mempool)) /\ a \notin Range(Queue(chain'.mempool))
  BY <1>3, TailIs
<1>5. /\ Range(Append(chain.ran, a)) = Range(chain.ran) \cup {a}
      /\ Once(chain.ran) /\ a \notin Range(chain.ran) => Once(Append(chain.ran, a))
  BY <1>1, <1>2, AppendIs
<1>6. UNCHANGED <<act, seen>>
  BY DEF MempoolRuns
<1>7. /\ Waiting(a) /\ \A b \in Acts \ {a} : Waiting(b)' <=> Waiting(b)
      /\ \A b \in Acts \ {a} : HasRun(b)' <=> HasRun(b)
  BY <1>1, <1>4, <1>5 DEF Waiting, HasRun
<1>8. \A b \in Acts : (Taken(b)' <=> Taken(b)) /\ (Told(b)' <=> Told(b))
  <2>1. Taken(a)' /\ Taken(a)
    BY <1>1, <1>5, <1>7 DEF Taken, HasRun
  <2> QED BY <1>1, <1>6, <1>7, <2>1 DEF Taken, Told
<1>9. ASSUME ~seen.lostAnswers
      PROVE  /\ Once(chain'.ran) /\ Once(Queue(chain'.mempool))
             /\ \A b \in Acts : ~(HasRun(b)' /\ Waiting(b)')
  <2>1. /\ Once(chain.ran) /\ Once(Queue(chain.mempool))
        /\ \A b \in Acts : ~(HasRun(b) /\ Waiting(b))
    BY <1>9 DEF TruthInv
  <2>2. ~HasRun(a) /\ ~Waiting(a)'
    BY <1>1, <1>4, <1>7, <2>1 DEF Waiting
  <2> QED BY <1>1, <1>4, <1>5, <1>7, <2>1, <2>2 DEF HasRun
<1> QED BY <1>6, <1>8, <1>9 DEF TruthInv

LEMMA TruthKept == TypeInv /\ TruthInv /\ [Next]_vars => (TypeInv /\ TruthInv)'
<1> SUFFICES ASSUME TypeInv, TruthInv, [Next]_vars PROVE (TypeInv /\ TruthInv)'
  OBVIOUS
<1>1. ASSUME NEW a \in Acts, Quiet(a), plan' = plan, route' = route,
             seen' \in [faults : Nat, lostAnswers : BOOLEAN]
      PROVE  (TypeInv /\ TruthInv)'
  BY <1>1, QuietKeepsTruth DEF Quiet, TypeInv
<1>2. ASSUME NEW a \in Acts, Record(a) \/ Answer(a)
      PROVE  (TypeInv /\ TruthInv)'
  <2>1. act[a].out = "none"
    BY <1>2 DEF Record, Answer, TruthInv
  <2> QED BY <1>1, <1>2, <2>1, RecordIsQuiet, AnswerIsQuiet DEF Record, Answer, TypeInv
<1>3. ASSUME NEW a \in Acts, Sign(a) \/ SignBlind(a) \/ RequestLost(a)
      PROVE  (TypeInv /\ TruthInv)'
  <2>1. act[a].out = "none"
    BY <1>3 DEF Sign, SignBlind, RequestLost, TruthInv
  <2>2. seen' \in [faults : Nat, lostAnswers : BOOLEAN]
    BY <1>3, FaultIs DEF Sign, SignBlind, RequestLost, TypeInv
  <2> QED BY <1>1, <1>3, <2>1, <2>2, SignIsQuiet DEF Sign, SignBlind, RequestLost
<1>4. ASSUME NEW a \in Acts, Arrive(a)
      PROVE  (TypeInv /\ TruthInv)'
  BY <1>4, ArriveKeepsTruth DEF Arrive, TypeInv
<1>5. ASSUME NEW a \in Acts, AnswerLost(a)
      PROVE  (TypeInv /\ TruthInv)'
  <2>1. act[a].out = "none"
    BY <1>5 DEF AnswerLost, TruthInv
  <2>2. /\ act' \in [Acts -> ActState] /\ act'[a].out = "none"
        /\ \A b \in Acts \ {a} : act'[b] = act[b]
    BY <1>5, <2>1, AnswerLostIs
  <2>3. seen' \in [faults : Nat, lostAnswers : BOOLEAN] /\ seen'.lostAnswers
    <3>1. seen' = [faults |-> seen.faults + 1, lostAnswers |-> TRUE] /\ seen.faults \in Nat
      BY <1>5 DEF AnswerLost, TypeInv
    <3> QED BY <3>1
  <2>4. TypeInv'
    BY <1>5, <2>2, <2>3 DEF AnswerLost, TypeInv
  <2> QED BY <2>2, <2>3, <2>4 DEF TruthInv
<1>6. CASE MempoolRuns
  <2>1. TypeInv'
    BY <1>6, MempoolRunsIs DEF MempoolRuns, TypeInv
  <2> QED BY <1>6, <2>1, MempoolKeepsTruth
<1>7. ASSUME NEW r, Reroute(r)
      PROVE  (TypeInv /\ TruthInv)'
  <2>1. TypeInv'
    BY <1>7, RerouteIs DEF TypeInv
  <2>2. TruthInv'
    BY <1>7, RerouteIs DEF TruthInv, Taken, Told, HasRun, Waiting
  <2> QED BY <2>1, <2>2
<1>8. CASE UNCHANGED vars
  BY <1>8 DEF vars, TypeInv, TruthInv, Taken, Told, HasRun, Waiting
<1> QED BY <1>2, <1>3, <1>4, <1>5, <1>6, <1>7, <1>8 DEF Next

LEMMA InitTruth == Init => TruthInv
<1> SUFFICES ASSUME Init PROVE TruthInv
  OBVIOUS
<1>1. /\ chain.ran = <<>> /\ chain.mempool = <<>> /\ chain.dropped = {}
      /\ \A a \in Acts : act[a].pc = "idle" /\ act[a].out = "none"
  BY DEF Init
<1>2. /\ Once(chain.ran) /\ Once(Queue(chain.mempool))
      /\ Range(chain.ran) = {} /\ Range(Queue(chain.mempool)) = {}
  BY <1>1 DEF Once, Queue, Range
<1> QED BY <1>1, <1>2 DEF TruthInv, Taken, Told, HasRun, Waiting

\* For any plan, any number of acts, attempts and rounds: as long as no answer
\* is lost, an act is on the chain once at most, and an author (Cat::submit,
\* carry_patron_request, submit_or_queue) is told that it is done exactly if it
\* was run, queued, or dropped from the queue.
THEOREM AuthorsAreToldTheTruth == Spec => []ToldTheTruth
<1>1. TypeInv /\ TruthInv => ToldTheTruth
  BY DEF TruthInv, ToldTheTruth, Taken, Told
<1>2. Init => TypeInv /\ TruthInv
  BY InitTypes, InitTruth
<1> QED BY <1>1, <1>2, TruthKept, PTL DEF Spec

=============================================================================
