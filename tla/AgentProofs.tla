----------------------------- MODULE AgentProofs -----------------------------
(***************************************************************************)
(* Proofs about Agent, for any number of calls, any answers and any        *)
(* budgets: the turns nobody asked for are bounded, the history a restart  *)
(* would load is current, the counters of the loop are exact, an id of the *)
(* conversation names one result, and the loop implements ToolCalls.       *)
(***************************************************************************)
EXTENDS Agent, SequenceTheorems, SubsequencesProofs

-----------------------------------------------------------------------------
(* The types. *)

Inbound == {"wake", "reset"}
Wakes == {"wake", "release", "nudge"}

Pcs == {"check", "select", "batch", "decide", "think", "compact", "done"}
Fields == {"pc", "open", "was_idle", "idle_since", "session", "queries", "bg",
           "records", "followups", "held", "notices", "noted", "check_armed",
           "check_ins", "local_nudges", "held_releases", "synthetic_wakes",
           "awaiting", "pending", "cancel", "next_id", "rows", "talk"}

\* The struct, by the kinds of its fields.
FlagsOK(s) ==
    /\ s.pc \in Pcs
    /\ s.open \in BOOLEAN /\ s.was_idle \in BOOLEAN /\ s.notices \in BOOLEAN
    /\ s.check_armed \in BOOLEAN /\ s.awaiting \in BOOLEAN /\ s.talk \in BOOLEAN
CountsOK(s) ==
    /\ s.idle_since \in 0..3
    /\ s.session \in Nat /\ s.queries \in Nat /\ s.records \in Nat /\ s.next_id \in Nat
    /\ s.synthetic_wakes \in 0..1
    /\ s.followups \in 0..MaxFollowups /\ s.check_ins \in 0..MaxCheckIns
    /\ s.local_nudges \in 0..MaxNudges /\ s.held_releases \in 0..MaxReleases
SetsOK(s) ==
    /\ s.held \in Seq(Calls) /\ s.pending \in Seq(Inbound \cup Wakes)
    /\ s.bg \in SUBSET Calls /\ s.noted \in SUBSET Calls /\ s.cancel \in SUBSET Calls
    /\ s.rows \in SUBSET (Nat \X Calls)
MachineOK(s) == DOMAIN s = Fields /\ FlagsOK(s) /\ CountsOK(s) /\ SetsOK(s)

\* A check-in that is armed is within its budget.
Armed(s) == s.check_armed => s.check_ins < MaxCheckIns

CallState ==
    [kind : Kinds, session : Nat, id : Nat,
     st : {"new", "queued", "running", "back", "waiting", "told", "gone"}]

Batch == [wakes : Seq(Wakes), results : Seq(Calls)]
Turns == [wakes : BOOLEAN, results : Seq(Calls), check : BOOLEAN, nudged : BOOLEAN,
          attempt : Nat]
Disk == [rows : SUBSET (Nat \X Calls), next_id : Nat, talk : BOOLEAN, epoch : Nat,
         of : Nat]
Env == [sent : Nat, crashes : Nat, closed : BOOLEAN, own : Nat, epoch : Nat,
        base : Nat, stale : BOOLEAN]

TypeInv ==
    /\ MachineOK(m) /\ Armed(m) /\ (m.pc = "check" => m.check_armed)
    /\ call \in [Calls -> CallState]
    /\ lane \in Seq(Calls) /\ back \in Seq(Calls) /\ inbox \in Seq(Inbound)
    /\ batch \in Batch /\ turn \in Turns /\ disk \in Disk /\ env \in Env

-----------------------------------------------------------------------------
(* The operators on the struct. *)

LEMMA Caps ==
    /\ MaxFollowups \in Nat /\ MaxCheckIns \in Nat /\ MaxNudges \in Nat
    /\ MaxReleases \in Nat /\ LlmRetries \in Nat /\ MaxCalls \in Nat
    /\ HostChecks \in BOOLEAN /\ Reminds \in BOOLEAN
BY BoundsAreNat

\* u is s at another place of the loop.
Aside(s, u) ==
    /\ u.open = s.open /\ u.session = s.session /\ u.queries = s.queries
    /\ u.bg = s.bg /\ u.records = s.records /\ u.followups = s.followups
    /\ u.held = s.held /\ u.notices = s.notices /\ u.noted = s.noted
    /\ u.check_armed = s.check_armed /\ u.check_ins = s.check_ins
    /\ u.local_nudges = s.local_nudges /\ u.held_releases = s.held_releases
    /\ u.synthetic_wakes = s.synthetic_wakes /\ u.awaiting = s.awaiting
    /\ u.pending = s.pending /\ u.cancel = s.cancel /\ u.next_id = s.next_id
    /\ u.rows = s.rows /\ u.talk = s.talk

LEMMA AtTopIs ==
    ASSUME NEW s, MachineOK(s)
    PROVE  /\ MachineOK(AtTop(s)) /\ Aside(s, AtTop(s))
           /\ AtTop(s).pc \in {"check", "select", "done"}
           /\ AtTop(s).pc = "check" => CheckDue(s)
<1>1. FlagsOK(AtTop(s))
  BY DEF MachineOK, FlagsOK, Fields, Pcs, AtTop
<1>2. CountsOK(AtTop(s))
  BY DEF MachineOK, CountsOK, Fields, AtTop
<1>3. SetsOK(AtTop(s))
  BY DEF MachineOK, SetsOK, Fields, AtTop
<1>4. DOMAIN AtTop(s) = Fields
  BY DEF MachineOK, AtTop, Fields
<1>5. Aside(s, AtTop(s))
  BY DEF MachineOK, Aside, Fields, AtTop
<1>6. AtTop(s).pc \in {"check", "select", "done"} /\ (AtTop(s).pc = "check" => CheckDue(s))
  BY DEF MachineOK, Fields, AtTop
<1> QED BY <1>1, <1>2, <1>3, <1>4, <1>5, <1>6 DEF MachineOK

LEMMA ArmedAtTop ==
    ASSUME NEW s, MachineOK(s), Armed(s)
    PROVE  Armed(AtTop(s))
BY AtTopIs DEF Armed, Aside

\* A sequence of wakes and resets, and what it does to the struct.
Resets(q) == Cardinality({i \in DOMAIN q : q[i] = "reset"})

LEMMA ResetsCount ==
    ASSUME NEW T, NEW q \in Seq(T)
    PROVE  /\ Resets(q) \in Nat
           /\ HasReset(q) <=> Resets(q) # 0
           /\ HasReset(q) <=> \E i \in 1..Len(q) : q[i] = "reset"
<1> DEFINE R == {i \in DOMAIN q : q[i] = "reset"}
<1>1. DOMAIN q = 1..Len(q) /\ Len(q) \in Nat
  OBVIOUS
<1>2. IsFiniteSet(R)
  <2>1. R \subseteq 1..Len(q) /\ IsFiniteSet(1..Len(q))
    BY <1>1, FS_Interval
  <2> QED BY <2>1, FS_Subset
<1>3. Cardinality(R) \in Nat /\ (Cardinality(R) = 0 <=> R = {})
  BY <1>2, FS_CardinalityType, FS_EmptySet
<1>4. HasReset(q) <=> R # {}
  BY DEF HasReset, Range
<1> QED BY <1>1, <1>3, <1>4 DEF Resets

LEMMA LastResetIs ==
    ASSUME NEW T, NEW q \in Seq(T), HasReset(q)
    PROVE  /\ LastReset(q) \in 1..Len(q) /\ q[LastReset(q)] = "reset"
           /\ \A j \in 1..Len(q) : j > LastReset(q) => q[j] # "reset"
<1> DEFINE L == {Len(q) - i : i \in {j \in 1..Len(q) : q[j] = "reset"}}
<1>1. DOMAIN q = 1..Len(q) /\ Len(q) \in Nat
  OBVIOUS
<1>2. L \in SUBSET Nat /\ L # {}
  BY <1>1, ResetsCount
<1>3. PICK x \in L : \A y \in L : x <= y
  BY <1>2, LeastNumber
<1>4. PICK i \in 1..Len(q) : q[i] = "reset" /\ x = Len(q) - i
  BY <1>3
<1>5. \A j \in DOMAIN q : j > i => q[j] # "reset"
  <2>1. SUFFICES ASSUME NEW j \in 1..Len(q), j > i, q[j] = "reset" PROVE FALSE
    BY <1>1
  <2>2. Len(q) - j \in L
    BY <2>1
  <2>3. x <= Len(q) - j
    BY <1>3, <2>2
  <2> QED BY <1>1, <1>4, <2>1, <2>3
<1>6. \E k \in DOMAIN q : q[k] = "reset" /\ \A j \in DOMAIN q : j > k => q[j] # "reset"
  BY <1>1, <1>4, <1>5
<1> HIDE DEF L
<1> QED BY <1>1, <1>6 DEF LastReset

LEMMA ResetIs ==
    ASSUME NEW s, MachineOK(s)
    PROVE  /\ MachineOK(ResetMachine(s)) /\ Armed(ResetMachine(s))
           /\ ResetMachine(s).pc = s.pc
<1>1. FlagsOK(ResetMachine(s))
  BY DEF MachineOK, FlagsOK, Fields, Pcs, ResetMachine
<1>2. CountsOK(ResetMachine(s))
  BY Caps DEF MachineOK, CountsOK, Fields, ResetMachine
<1>3. SetsOK(ResetMachine(s))
  BY DEF MachineOK, SetsOK, Fields, ResetMachine
<1>4. DOMAIN ResetMachine(s) = Fields
  BY DEF MachineOK, ResetMachine, Fields
<1>5. ResetMachine(s).pc = s.pc /\ Armed(ResetMachine(s))
  BY DEF MachineOK, ResetMachine, Fields, Armed
<1> QED BY <1>1, <1>2, <1>3, <1>4, <1>5 DEF MachineOK

\* What the calls are counted by, which no reset touches.
SameCalls(s, u) ==
    /\ u.pc = s.pc /\ u.open = s.open
    /\ u.queries = s.queries /\ u.bg = s.bg /\ u.records = s.records
    /\ u.noted = s.noted /\ u.cancel = s.cancel /\ u.pending = s.pending
    /\ u.next_id = s.next_id

LEMMA TakeIs ==
    ASSUME NEW s, MachineOK(s), NEW T, NEW q \in Seq(T)
    PROVE  LET u == TakeMachine(s, q) IN
           /\ MachineOK(u) /\ (Armed(s) => Armed(u))
           /\ SameCalls(s, u)
           /\ u.session = s.session + Resets(q)
           /\ ~HasReset(q) => u = s
           /\ HasReset(q) => /\ u.followups = 0 /\ u.held_releases = 0 /\ u.held = <<>>
                             /\ u.synthetic_wakes = 0 /\ u.rows = {} /\ ~u.check_armed
<1> DEFINE u == TakeMachine(s, q)
           r == ResetMachine(s)
<1>1. Resets(q) \in Nat /\ (HasReset(q) <=> Resets(q) # 0)
  BY ResetsCount
<1>2. s.session + Resets(q) \in Nat /\ s.session \in Nat
  BY <1>1 DEF MachineOK, CountsOK
<1>3. CASE ~HasReset(q)
  <2>1. u = s /\ Resets(q) = 0
    BY <1>1, <1>3 DEF TakeMachine
  <2> QED BY <1>2, <1>3, <2>1 DEF SameCalls
<1>4. CASE HasReset(q)
  <2>1. MachineOK(r) /\ Armed(r)
    BY ResetIs
  <2>2. SameCalls(s, r)
    BY DEF MachineOK, Fields, ResetMachine, SameCalls
  <2>3. /\ r.followups = 0 /\ r.held_releases = 0 /\ r.held = <<>>
        /\ r.synthetic_wakes = 0 /\ r.rows = {} /\ ~r.check_armed
    BY DEF MachineOK, Fields, ResetMachine
  <2>4. u = [r EXCEPT !.session = s.session + Resets(q)]
    BY <1>4 DEF TakeMachine, Resets
  <2> HIDE DEF u, r
  <2>5. FlagsOK(u) /\ SetsOK(u) /\ DOMAIN u = Fields
    BY <2>1, <2>4 DEF MachineOK, FlagsOK, SetsOK, Fields
  <2>6. CountsOK(u) /\ u.session = s.session + Resets(q)
    BY <1>2, <2>1, <2>4 DEF MachineOK, CountsOK, Fields
  <2>7. SameCalls(s, u)
    BY <2>1, <2>2, <2>4 DEF MachineOK, Fields, SameCalls
  <2>8. /\ u.followups = 0 /\ u.held_releases = 0 /\ u.held = <<>>
        /\ u.synthetic_wakes = 0 /\ u.rows = {} /\ ~u.check_armed
    BY <2>1, <2>3, <2>4 DEF MachineOK, Fields
  <2>9. MachineOK(u) /\ Armed(u)
    BY <2>5, <2>6, <2>8 DEF MachineOK, Armed
  <2> QED BY <1>4, <2>6, <2>7, <2>8, <2>9 DEF u
<1> QED BY <1>3, <1>4

\* What is left of a batch holds no reset.
LEMMA TakeBatchIs ==
    ASSUME NEW b \in Batch, NEW q \in Seq(Inbound \cup Wakes)
    PROVE  LET u == TakeBatch(b, q) IN
           /\ u \in Batch
           /\ ~HasReset(q) => u.wakes = b.wakes \o q /\ u.results = b.results
           /\ HasReset(q) => /\ u.results = <<>>
                             /\ \A i \in 1..Len(u.wakes) : \E j \in 2..Len(q) :
                                   u.wakes[i] = q[j]
<1>0. /\ b.wakes \in Seq(Wakes) /\ b.results \in Seq(Calls) /\ Len(q) \in Nat
      /\ \A i \in 1..Len(q) : q[i] \in Inbound \cup Wakes
  BY DEF Batch
<1>1. CASE ~HasReset(q)
  <2>1. \A i \in 1..Len(q) : q[i] \in Wakes
    BY <1>0, <1>1, ResetsCount DEF Inbound, Wakes
  <2>2. q \in Seq(Wakes)
    BY <1>0, <2>1
  <2>3. b.wakes \o q \in Seq(Wakes)
    BY <1>0, <2>2
  <2> QED BY <1>0, <1>1, <2>3 DEF TakeBatch, Batch
<1>2. CASE HasReset(q)
  <2> DEFINE k == LastReset(q)
             w == SubSeq(q, k + 1, Len(q))
  <2>1. k \in 1..Len(q) /\ \A j \in 1..Len(q) : j > k => q[j] # "reset"
    BY <1>2, LastResetIs
  <2> HIDE DEF k
  <2>2. /\ w \in Seq(Inbound \cup Wakes) /\ Len(w) \in Nat /\ Len(w) = Len(q) - k
        /\ \A i \in 1..Len(w) : w[i] = q[k + i]
    BY <1>0, <2>1
  <2>3. \A i \in 1..Len(w) : k + i \in 2..Len(q) /\ k + i > k
    BY <1>0, <2>1, <2>2
  <2>4. \A i \in 1..Len(w) : w[i] \in Wakes
    BY <1>0, <2>1, <2>2, <2>3 DEF Inbound, Wakes
  <2> HIDE DEF w
  <2>5. w \in Seq(Wakes)
    BY <2>2, <2>4
  <2>6. TakeBatch(b, q) = [wakes |-> w, results |-> <<>>]
    BY <1>2 DEF TakeBatch, w, k
  <2> QED BY <1>2, <2>2, <2>3, <2>5, <2>6 DEF Batch
<1> QED BY <1>1, <1>2

\* What does not change when results come back.
SameBudgets(s, u) ==
    /\ u.pc = s.pc /\ u.open = s.open /\ u.session = s.session
    /\ u.followups = s.followups /\ u.held = s.held /\ u.notices = s.notices
    /\ u.check_armed = s.check_armed /\ u.check_ins = s.check_ins
    /\ u.local_nudges = s.local_nudges /\ u.held_releases = s.held_releases
    /\ u.synthetic_wakes = s.synthetic_wakes /\ u.awaiting = s.awaiting
    /\ u.rows = s.rows /\ u.talk = s.talk

\* The calls of a queue that are of some kinds.
Of(q, K) == {c \in Range(q) : call[c].kind \in K}

LEMMA CallsAreFinite ==
    ASSUME NEW S \in SUBSET Calls
    PROVE  IsFiniteSet(S) /\ Cardinality(S) \in Nat
<1>1. IsFiniteSet(Calls)
  BY Caps, FS_Interval DEF Calls
<1>2. IsFiniteSet(S)
  BY <1>1, FS_Subset
<1> QED BY <1>2, FS_CardinalityType

LEMMA BackIs ==
    ASSUME NEW s, MachineOK(s), NEW q \in Seq(Calls)
    PROVE  LET u == BackMachine(s, q) IN
           /\ MachineOK(u) /\ SameBudgets(s, u)
           /\ u.pending = s.pending /\ u.next_id = s.next_id
           /\ u.queries = Less(s.queries, Cardinality(Of(q, Queries \ {"bg"})))
           /\ u.records = Less(s.records, Cardinality(Of(q, {"record"})))
           /\ u.bg = s.bg \ Of(q, {"bg"})
<1> DEFINE a == Less(s.queries, Cardinality(Of(q, Queries \ {"bg"})))
           b == Less(s.records, Cardinality(Of(q, {"record"})))
           g == s.bg \ Of(q, {"bg"})
           u == [s EXCEPT !.queries = a, !.bg = g, !.records = b,
                          !.noted = @ \ Range(q), !.cancel = @ \ Range(q)]
<1>1. BackMachine(s, q) = u
  BY DEF BackMachine, Of, MachineOK, Fields
<1>2. Range(q) \subseteq Calls
  BY DEF Range
<1>3. a \in Nat /\ b \in Nat
  <2>1. /\ Cardinality(Of(q, Queries \ {"bg"})) \in Nat
        /\ Cardinality(Of(q, {"record"})) \in Nat
    <3>1. Of(q, Queries \ {"bg"}) \in SUBSET Calls /\ Of(q, {"record"}) \in SUBSET Calls
      BY <1>2 DEF Of
    <3> QED BY <3>1, CallsAreFinite
  <2>2. s.queries \in Nat /\ s.records \in Nat
    BY DEF MachineOK, CountsOK
  <2> QED BY <2>1, <2>2 DEF Less
<1> HIDE DEF a, b
<1>4. FlagsOK(u) /\ DOMAIN u = Fields
  BY DEF MachineOK, FlagsOK, Fields
<1>5. CountsOK(u)
  BY <1>3 DEF MachineOK, CountsOK, Fields
<1>6. SetsOK(u)
  BY DEF MachineOK, SetsOK, Fields
<1>7. SameBudgets(s, u)
  BY DEF MachineOK, SameBudgets, Fields
<1>8. /\ u.queries = a /\ u.records = b /\ u.bg = g
      /\ u.pending = s.pending /\ u.next_id = s.next_id
  BY DEF MachineOK, Fields
<1> QED BY <1>1, <1>4, <1>5, <1>6, <1>7, <1>8 DEF MachineOK, a, b

LEMMA FedIs ==
    ASSUME NEW s, NEW q \in Seq(Calls)
    PROVE  /\ Fed(s, q) \in Seq(Calls)
           /\ Range(Fed(s, q)) = {c \in Range(q) : /\ call[c].kind \in Queries
                                                  /\ call[c].session = s.session}
           /\ IsInjective(q) => IsInjective(Fed(s, q))
<1> DEFINE S == {c \in Calls : call[c].kind \in Queries /\ call[c].session = s.session}
<1>1. /\ Only(q, S) \in Seq(Calls \cap S)
      /\ Range(Only(q, S)) = Range(q) \cap S
      /\ IsInjective(q) => IsInjective(Only(q, S))
  BY OnlyIsASequence, OnlyKeepsTheRange, OnlyIsInjective
<1>2. Range(q) \subseteq Calls
  BY DEF Range
<1>3. Only(q, S) \in Seq(Calls)
  <2> HIDE DEF S
  <2> QED BY <1>1
<1> QED BY <1>1, <1>2, <1>3 DEF Fed

LEMMA OverIs ==
    ASSUME NEW c \in Calls, call \in [Calls -> CallState], NEW st \in {"told", "gone"}
    PROVE  /\ Over(c, st) = [kind |-> call[c].kind, session |-> 0, st |-> st, id |-> 0]
           /\ Over(c, st) \in CallState
<1> DEFINE k == call[c].kind
<1>1. k \in Kinds
  BY DEF CallState
<1> HIDE DEF k
<1>2. [NoCall EXCEPT !.kind = k, !.st = st] = [kind |-> k, session |-> 0, st |-> st, id |-> 0]
  <2>1. [NoCall EXCEPT !.kind = k] = [kind |-> k, session |-> 0, st |-> "new", id |-> 0]
    BY DEF NoCall
  <2>2. [[kind |-> k, session |-> 0, st |-> "new", id |-> 0] EXCEPT !.st = st] =
            [kind |-> k, session |-> 0, st |-> st, id |-> 0]
    OBVIOUS
  <2>3. [NoCall EXCEPT !.kind = k, !.st = st] = [[NoCall EXCEPT !.kind = k] EXCEPT !.st = st]
    BY Zenon
  <2> QED BY <2>1, <2>2, <2>3
<1>3. Over(c, st) = [kind |-> k, session |-> 0, st |-> st, id |-> 0]
  BY <1>2 DEF Over, k
<1>4. [kind |-> k, session |-> 0, st |-> st, id |-> 0] \in CallState
  BY <1>1 DEF CallState
<1> QED BY <1>3, <1>4 DEF k

\* What comes of a call that came back: its result waits under an id of its
\* own, or nobody is told.
LEMMA BackCallsIs ==
    ASSUME NEW s, s.next_id \in Nat, call \in [Calls -> CallState], NEW q \in Seq(Calls)
    PROVE  LET cs == BackCalls(s, q)
               fed == Fed(s, q)
           IN  /\ cs \in [Calls -> CallState]
               /\ \A c \in Calls :
                     /\ cs[c].kind = call[c].kind
                     /\ cs[c].session \in {0, call[c].session}
                     /\ c \in Range(fed) =>
                           /\ cs[c].st = "waiting" /\ cs[c].session = call[c].session
                           /\ \E i \in 1..Len(fed) :
                                 fed[i] = c /\ cs[c].id = s.next_id + i - 1
                     /\ c \in Range(q) \ Range(fed) => cs[c].st = "gone"
                     /\ c \notin Range(q) => cs[c] = call[c]
<1> DEFINE fed == Fed(s, q)
           at(c) == CHOOSE i \in DOMAIN fed : fed[i] = c
           cs == BackCalls(s, q)
<1>1. fed \in Seq(Calls) /\ DOMAIN fed = 1..Len(fed) /\ Len(fed) \in Nat
  BY FedIs
<1>2. cs = [c \in Calls |->
              IF c \in Range(fed)
              THEN [call[c] EXCEPT !.st = "waiting", !.id = s.next_id + at(c) - 1]
              ELSE IF c \in Range(q) THEN Over(c, "gone") ELSE call[c]]
  BY DEF BackCalls
<1>3. Range(fed) \subseteq Range(q)
  BY FedIs
<1> HIDE DEF cs
<1>4. ASSUME NEW c \in Calls
      PROVE  /\ cs[c] \in CallState
             /\ cs[c].kind = call[c].kind
             /\ cs[c].session \in {0, call[c].session}
             /\ c \in Range(fed) =>
                   /\ cs[c].st = "waiting" /\ cs[c].session = call[c].session
                   /\ \E i \in 1..Len(fed) : fed[i] = c /\ cs[c].id = s.next_id + i - 1
             /\ c \in Range(q) \ Range(fed) => cs[c].st = "gone"
             /\ c \notin Range(q) => cs[c] = call[c]
  <2>0. call[c] \in CallState
    BY <1>4
  <2>1. CASE c \in Range(fed)
    <3>1. at(c) \in 1..Len(fed) /\ fed[at(c)] = c
      BY <1>1, <2>1 DEF Range
    <3> DEFINE k == at(c)
    <3>2. k \in 1..Len(fed) /\ fed[k] = c
      BY <3>1
    <3>3. s.next_id + k - 1 \in Nat
      BY <1>1, <3>2
    <3>4. cs[c] = [call[c] EXCEPT !.st = "waiting", !.id = s.next_id + k - 1]
      BY <1>2, <2>1, <1>4
    <3> HIDE DEF k, at
    <3>5. /\ cs[c] \in CallState /\ cs[c].kind = call[c].kind /\ cs[c].st = "waiting"
          /\ cs[c].session = call[c].session /\ cs[c].id = s.next_id + k - 1
      BY <2>0, <3>3, <3>4 DEF CallState
    <3>6. \E i \in 1..Len(fed) : fed[i] = c /\ cs[c].id = s.next_id + i - 1
      BY <3>2, <3>5
    <3>7. c \in Range(q)
      BY <1>3, <2>1
    <3> HIDE DEF fed
    <3> QED BY <2>1, <3>5, <3>6, <3>7
  <2>2. CASE c \in Range(q) \ Range(fed)
    <3>1. cs[c] = Over(c, "gone")
      BY <1>2, <2>2
    <3>2. /\ cs[c] \in CallState /\ cs[c].kind = call[c].kind /\ cs[c].st = "gone"
          /\ cs[c].session = 0
      BY <3>1, <1>4, OverIs
    <3> QED BY <2>2, <3>2
  <2>3. CASE c \notin Range(q)
    BY <1>2, <1>3, <2>0, <2>3
  <2> QED BY <2>1, <2>2, <2>3
<1>5. cs \in [Calls -> CallState]
  BY <1>2, <1>4
<1> QED BY <1>4, <1>5 DEF cs

LEMMA DroppedIs ==
    ASSUME NEW cs \in [Calls -> CallState], call \in [Calls -> CallState]
    PROVE  /\ Dropped(cs) \in [Calls -> CallState]
           /\ \A c \in Calls : IF cs[c].st = "waiting"
                               THEN Dropped(cs)[c] = Over(c, "gone")
                               ELSE Dropped(cs)[c] = cs[c]
<1>1. \A c \in Calls : Over(c, "gone") \in CallState
  BY OverIs
<1> QED BY <1>1 DEF Dropped

LEMMA SavedIs ==
    ASSUME NEW s, MachineOK(s), env \in Env
    PROVE  Saved(s) \in Disk
<1>1. env.epoch \in Nat /\ env.base + s.session \in Nat
  BY DEF Env, MachineOK, CountsOK
<1>2. s.rows \in SUBSET (Nat \X Calls) /\ s.next_id \in Nat /\ s.talk \in BOOLEAN
  BY DEF MachineOK, SetsOK, CountsOK, FlagsOK
<1> QED BY <1>1, <1>2 DEF Saved, Disk, HistoryEpoch

-----------------------------------------------------------------------------
(* The drain of both channels. *)

\* The struct once the wakes are taken in, and once the results are as well.
Taken(s, q, early) == [TakeMachine(s, q) EXCEPT !.next_id = @ + early]
Got(s, q, early) ==
    [BackMachine(Taken(s, q, early), back) EXCEPT
        !.pending = <<>>, !.next_id = @ + Len(Fed(Taken(s, q, early), back))]

LEMMA TakenIs ==
    ASSUME NEW s, MachineOK(s), NEW q \in Seq(Inbound \cup Wakes), NEW early \in Nat
    PROVE  LET t == TakeMachine(s, q)
               u == Taken(s, q, early)
           IN  /\ MachineOK(u) /\ SameBudgets(t, u)
               /\ u.queries = s.queries /\ u.records = s.records /\ u.bg = s.bg
               /\ u.next_id = s.next_id + early
<1> DEFINE t == TakeMachine(s, q)
           u == Taken(s, q, early)
<1>1. MachineOK(t) /\ SameCalls(s, t)
  BY TakeIs
<1>3. u = [t EXCEPT !.next_id = t.next_id + early]
  BY DEF Taken
<1> HIDE DEF t, u
<1>2. t.next_id \in Nat /\ t.next_id + early \in Nat
  <2>1. t.next_id \in Nat
    BY <1>1 DEF MachineOK, CountsOK
  <2> QED BY <2>1
<1>4. FlagsOK(u) /\ SetsOK(u) /\ DOMAIN u = Fields
  BY <1>1, <1>3 DEF MachineOK, FlagsOK, SetsOK, Fields
<1>5. CountsOK(u)
  BY <1>1, <1>2, <1>3 DEF MachineOK, CountsOK, Fields
<1>6. SameBudgets(t, u)
  BY <1>1, <1>3 DEF MachineOK, SameBudgets, Fields
<1>7. /\ u.queries = t.queries /\ u.records = t.records /\ u.bg = t.bg
      /\ u.next_id = t.next_id + early
  BY <1>1, <1>3 DEF MachineOK, Fields
<1>8. /\ t.queries = s.queries /\ t.records = s.records /\ t.bg = s.bg
      /\ t.next_id = s.next_id
  BY <1>1 DEF SameCalls
<1> QED BY <1>4, <1>5, <1>6, <1>7, <1>8 DEF MachineOK, t, u

LEMMA SameBudgetsAdd ==
    ASSUME NEW s, NEW t, NEW u, SameBudgets(s, t), SameBudgets(t, u)
    PROVE  SameBudgets(s, u)
BY DEF SameBudgets

LEMMA GotIs ==
    ASSUME NEW s, MachineOK(s), back \in Seq(Calls),
           NEW q \in Seq(Inbound \cup Wakes), NEW early \in Nat
    PROVE  LET t == TakeMachine(s, q)
               fed == Fed(Taken(s, q, early), back)
               u == Got(s, q, early)
           IN  /\ MachineOK(u) /\ SameBudgets(t, u)
               /\ u.pending = <<>> /\ u.next_id = s.next_id + early + Len(fed)
               /\ u.queries = Less(s.queries, Cardinality(Of(back, Queries \ {"bg"})))
               /\ u.records = Less(s.records, Cardinality(Of(back, {"record"})))
               /\ u.bg = s.bg \ Of(back, {"bg"})
<1> DEFINE t == TakeMachine(s, q)
           v == Taken(s, q, early)
           b == BackMachine(v, back)
           fed == Fed(v, back)
           u == Got(s, q, early)
<1>1. /\ MachineOK(v) /\ SameBudgets(t, v)
      /\ v.queries = s.queries /\ v.records = s.records /\ v.bg = s.bg
      /\ v.next_id = s.next_id + early
  BY TakenIs
<1>2. /\ MachineOK(b) /\ SameBudgets(v, b) /\ b.next_id = v.next_id
      /\ b.queries = Less(v.queries, Cardinality(Of(back, Queries \ {"bg"})))
      /\ b.records = Less(v.records, Cardinality(Of(back, {"record"})))
      /\ b.bg = v.bg \ Of(back, {"bg"})
  BY <1>1, BackIs
<1>3. fed \in Seq(Calls)
  BY FedIs
<1>5. u = [b EXCEPT !.pending = <<>>, !.next_id = b.next_id + Len(fed)]
  BY DEF Got
<1> HIDE DEF t, v, b, fed, u
<1>4. Len(fed) \in Nat /\ b.next_id \in Nat /\ b.next_id + Len(fed) \in Nat
  <2>1. b.next_id \in Nat
    BY <1>2 DEF MachineOK, CountsOK
  <2> QED BY <2>1, <1>3
<1>6. FlagsOK(u) /\ DOMAIN u = Fields
  BY <1>2, <1>5 DEF MachineOK, FlagsOK, Fields
<1>7. CountsOK(u)
  BY <1>2, <1>4, <1>5 DEF MachineOK, CountsOK, Fields
<1>8. SetsOK(u)
  BY <1>2, <1>5 DEF MachineOK, SetsOK, Fields
<1>9. SameBudgets(b, u)
  BY <1>2, <1>5 DEF MachineOK, SameBudgets, Fields
<1>10. /\ u.queries = b.queries /\ u.records = b.records /\ u.bg = b.bg
       /\ u.pending = <<>> /\ u.next_id = b.next_id + Len(fed)
  BY <1>2, <1>5 DEF MachineOK, Fields
<1>11. SameBudgets(t, u)
  BY <1>1, <1>2, <1>9, SameBudgetsAdd
<1>12. MachineOK(u)
  BY <1>6, <1>7, <1>8 DEF MachineOK
<1> QED BY <1>1, <1>2, <1>10, <1>11, <1>12 DEF t, v, b, fed, u

LEMMA UnsyntheticIs ==
    ASSUME NEW s, MachineOK(s)
    PROVE  LET u == [s EXCEPT !.synthetic_wakes = 0] IN
           /\ MachineOK(u) /\ (Armed(s) => Armed(u))
           /\ u.synthetic_wakes = 0
           /\ \A x \in Fields \ {"synthetic_wakes"} : u[x] = s[x]
<1> DEFINE u == [s EXCEPT !.synthetic_wakes = 0]
<1>1. FlagsOK(u) /\ SetsOK(u) /\ DOMAIN u = Fields
  BY DEF MachineOK, FlagsOK, SetsOK, Fields
<1>2. CountsOK(u)
  BY DEF MachineOK, CountsOK, Fields
<1>3. u.synthetic_wakes = 0 /\ \A x \in Fields \ {"synthetic_wakes"} : u[x] = s[x]
  BY DEF MachineOK, Fields
<1>4. Armed(s) => Armed(u)
  BY DEF MachineOK, Fields, Armed
<1> QED BY <1>1, <1>2, <1>3, <1>4 DEF MachineOK

\* What is gathered goes on to a batch, to a decision or back to the top of the
\* loop; there nothing was gathered, and a wake of its own is forgotten.
Gathered(s, q, early) ==
    LET fed == Fed(Taken(s, q, early), back)
        new == TakeBatch(NoBatch, q)
        got == Got(s, q, early)
    IN  \/ m'.pc = "batch" /\ Aside(got, m') /\ new.wakes = <<>>
        \/ m'.pc = "decide" /\ Aside(got, m')
        \/ /\ m'.pc \in {"check", "select", "done"}
           /\ m'.pc = "check" => m'.check_armed
           /\ new.wakes = <<>> /\ fed = <<>>
           /\ Aside([got EXCEPT !.synthetic_wakes = 0], m')

LEMMA GatherIs ==
    ASSUME NEW s, MachineOK(s), Armed(s), back \in Seq(Calls),
           NEW q \in Seq(Inbound \cup Wakes), NEW early \in Nat, Gather(s, q, early)
    PROVE  MachineOK(m') /\ Armed(m') /\ Gathered(s, q, early)
<1> DEFINE t == TakeMachine(s, q)
           fed == Fed(Taken(s, q, early), back)
           new == TakeBatch(NoBatch, q)
           got == Got(s, q, early)
           calm == [got EXCEPT !.synthetic_wakes = 0]
<1>1. m' = IF new.wakes = <<>> /\ fed # <<>> /\ got.queries > 0
           THEN [got EXCEPT !.pc = "batch"]
           ELSE IF new.wakes # <<>> \/ fed # <<>> \/ got.notices
           THEN [got EXCEPT !.pc = "decide"]
           ELSE AtTop(calm)
  BY DEF Gather, Taken, Got
<1>2. MachineOK(got) /\ SameBudgets(t, got)
  BY GotIs
<1>3. Armed(t)
  BY TakeIs
<1>4. Armed(got)
  BY <1>2, <1>3 DEF Armed, SameBudgets
<1> HIDE DEF t, fed, new, got
<1>5. MachineOK(calm) /\ Armed(calm)
  BY <1>2, <1>4, UnsyntheticIs
<1>6. ASSUME NEW pc \in Pcs
      PROVE  LET u == [got EXCEPT !.pc = pc]
             IN MachineOK(u) /\ Armed(u) /\ Aside(got, u) /\ u.pc = pc
  <2> DEFINE u == [got EXCEPT !.pc = pc]
  <2>1. FlagsOK(u) /\ SetsOK(u) /\ DOMAIN u = Fields /\ u.pc = pc
    BY <1>2 DEF MachineOK, FlagsOK, SetsOK, Fields
  <2>2. CountsOK(u)
    BY <1>2 DEF MachineOK, CountsOK, Fields
  <2>3. Aside(got, u)
    BY <1>2 DEF MachineOK, Aside, Fields
  <2>4. Armed(u)
    BY <1>4, <2>3 DEF Aside, Armed
  <2> QED BY <2>1, <2>2, <2>3, <2>4 DEF MachineOK
<1>7. CASE m' = [got EXCEPT !.pc = "batch"] /\ new.wakes = <<>>
  BY <1>6, <1>7 DEF Pcs, Gathered, got, new
<1>8. CASE m' = [got EXCEPT !.pc = "decide"]
  BY <1>6, <1>8 DEF Pcs, Gathered, got
<1>9. CASE new.wakes = <<>> /\ fed = <<>> /\ m' = AtTop(calm)
  <2> HIDE DEF calm
  <2>1. /\ MachineOK(m') /\ Armed(m') /\ Aside(calm, m')
        /\ m'.pc \in {"check", "select", "done"} /\ (m'.pc = "check" => CheckDue(calm))
    BY <1>5, <1>9, AtTopIs, ArmedAtTop
  <2>2. m'.pc = "check" => m'.check_armed
    BY <2>1 DEF CheckDue, Aside
  <2> QED BY <1>9, <2>1, <2>2 DEF Gathered, got, new, fed, calm
<1> QED BY <1>1, <1>7, <1>8, <1>9

LEMMA GatherTypes ==
    ASSUME TypeInv, NEW s, MachineOK(s), Armed(s), NEW q \in Seq(Inbound \cup Wakes),
           NEW early \in Nat, Gather(s, q, early)
    PROVE  TypeInv'
<1> DEFINE taken == Taken(s, q, early)
           fed == Fed(taken, back)
           new == TakeBatch(NoBatch, q)
           cs == BackCalls(taken, back)
<1>1. /\ call \in [Calls -> CallState] /\ lane \in Seq(Calls) /\ back \in Seq(Calls)
      /\ turn \in Turns /\ disk \in Disk /\ env \in Env
  BY DEF TypeInv
<1>2. MachineOK(m') /\ Armed(m') /\ (m'.pc = "check" => m'.check_armed)
  <2>1. Gathered(s, q, early)
    BY <1>1, GatherIs
  <2>2. m'.pc = "check" => m'.check_armed
    BY <2>1 DEF Gathered
  <2> QED BY <1>1, <2>2, GatherIs
<1>3. MachineOK(taken) /\ taken.next_id \in Nat
  BY TakenIs DEF MachineOK, CountsOK
<1>4. fed \in Seq(Calls)
  BY <1>1, FedIs
<1>5. new \in Batch
  <2>1. NoBatch \in Batch
    BY DEF NoBatch, Batch
  <2> QED BY <2>1, TakeBatchIs
<1>6. batch' = [new EXCEPT !.results = fed] /\ inbox' = <<>> /\ back' = <<>>
      /\ lane' = lane /\ turn' = turn
  BY DEF Gather, Taken
<1>7. batch' \in Batch
  <2> HIDE DEF new, fed
  <2> QED BY <1>4, <1>5, <1>6 DEF Batch
<1>8. cs \in [Calls -> CallState]
  BY <1>1, <1>3, BackCallsIs
<1>9. call' \in [Calls -> CallState]
  <2>1. call' = IF HasReset(q) THEN Dropped(cs) ELSE cs
    BY DEF Gather, Taken
  <2> HIDE DEF cs
  <2> QED BY <1>1, <1>8, <2>1, DroppedIs
<1>10. disk' \in Disk
  <2>1. disk' = SavedOnReset(q, taken)
    BY DEF Gather, Taken
  <2> QED BY <1>1, <1>3, <2>1, SavedIs DEF SavedOnReset
<1>11. env' \in Env
  <2>1. env' = IF HasReset(q) THEN [env EXCEPT !.own = 0] ELSE env
    BY DEF Gather
  <2> QED BY <1>1, <2>1 DEF Env
<1> QED BY <1>1, <1>2, <1>6, <1>7, <1>9, <1>10, <1>11 DEF TypeInv

\* The struct after the watchdog looked: at most one wake of its own is put
\* into the empty queue, and counted.
Watched(quiet) ==
    LET u == Watch(quiet) IN
    \/ /\ u.pending = <<"release">> /\ u.synthetic_wakes = m.synthetic_wakes + 1
       /\ u.held_releases = m.held_releases + 1
    \/ /\ u.pending = <<"nudge">> /\ u.synthetic_wakes = m.synthetic_wakes + 1
       /\ u.held_releases = m.held_releases
    \/ /\ u.pending = <<>> /\ u.synthetic_wakes = m.synthetic_wakes
       /\ u.held_releases = m.held_releases

LEMMA WatchIs ==
    ASSUME MachineOK(m), Armed(m), m.pending = <<>>, m.synthetic_wakes = 0,
           NEW quiet \in SUBSET Calls
    PROVE  LET u == Watch(quiet) IN
           /\ MachineOK(u) /\ Armed(u) /\ Watched(quiet)
           /\ u.followups = m.followups /\ u.session = m.session
<1> DEFINE r == [m EXCEPT !.held_releases = m.held_releases + 1, !.synthetic_wakes = 1,
                          !.pending = <<"release">>, !.idle_since = 1]
           n == [m EXCEPT !.local_nudges = m.local_nudges + 1, !.synthetic_wakes = 1,
                          !.pending = <<"nudge">>, !.idle_since = 1, !.awaiting = TRUE]
           s == IF ReleaseDue THEN r ELSE IF NagDue THEN n ELSE m
           u == [s EXCEPT !.notices = s.notices \/ quiet # {}, !.noted = s.noted \cup quiet]
           Like(t) == /\ t.followups = m.followups /\ t.session = m.session
                      /\ t.check_armed = m.check_armed /\ t.check_ins = m.check_ins
<1>1. Watch(quiet) = u
  <2>1. m.synthetic_wakes + 1 = 1 /\ Append(m.pending, "release") = <<"release">>
        /\ Append(m.pending, "nudge") = <<"nudge">>
    OBVIOUS
  <2> QED BY <2>1 DEF Watch
<1>2. /\ m.held_releases \in 0..MaxReleases /\ m.local_nudges \in 0..MaxNudges
      /\ m.notices \in BOOLEAN
  BY DEF MachineOK, CountsOK, FlagsOK
<1>3. ReleaseDue => MachineOK(r) /\ Like(r)
  <2>1. SUFFICES ASSUME ReleaseDue PROVE MachineOK(r) /\ Like(r)
    OBVIOUS
  <2>2. m.held_releases + 1 \in 0..MaxReleases
    BY <1>2, <2>1, Caps DEF ReleaseDue
  <2>3. FlagsOK(r) /\ DOMAIN r = Fields
    BY DEF MachineOK, FlagsOK, Fields
  <2>4. CountsOK(r)
    BY <2>2 DEF MachineOK, CountsOK, Fields
  <2>5. SetsOK(r)
    BY DEF MachineOK, SetsOK, Fields, Wakes
  <2>6. Like(r)
    BY DEF MachineOK, Fields
  <2> QED BY <2>3, <2>4, <2>5, <2>6 DEF MachineOK
<1>4. NagDue => MachineOK(n) /\ Like(n)
  <2>1. SUFFICES ASSUME NagDue PROVE MachineOK(n) /\ Like(n)
    OBVIOUS
  <2>2. m.local_nudges + 1 \in 0..MaxNudges
    BY <1>2, <2>1, Caps DEF NagDue
  <2>3. FlagsOK(n) /\ DOMAIN n = Fields
    BY DEF MachineOK, FlagsOK, Fields
  <2>4. CountsOK(n)
    BY <2>2 DEF MachineOK, CountsOK, Fields
  <2>5. SetsOK(n)
    BY DEF MachineOK, SetsOK, Fields, Wakes
  <2>6. Like(n)
    BY DEF MachineOK, Fields
  <2> QED BY <2>3, <2>4, <2>5, <2>6 DEF MachineOK
<1>5. /\ r.pending = <<"release">> /\ r.synthetic_wakes = 1
      /\ r.held_releases = m.held_releases + 1
      /\ n.pending = <<"nudge">> /\ n.synthetic_wakes = 1
      /\ n.held_releases = m.held_releases
  BY DEF MachineOK, Fields
<1>6. MachineOK(s) /\ Like(s)
  BY <1>3, <1>4
<1> DEFINE Is(t) == \/ /\ t.pending = <<"release">> /\ t.synthetic_wakes = 1
                       /\ t.held_releases = m.held_releases + 1
                    \/ /\ t.pending = <<"nudge">> /\ t.synthetic_wakes = 1
                       /\ t.held_releases = m.held_releases
                    \/ /\ t.pending = <<>> /\ t.synthetic_wakes = 0
                       /\ t.held_releases = m.held_releases
<1>7. Is(s)
  BY <1>5
<1> HIDE DEF s, r, n
<1>8. FlagsOK(u) /\ DOMAIN u = Fields
  <2>1. (s.notices \/ quiet # {}) \in BOOLEAN
    BY <1>6 DEF MachineOK, FlagsOK
  <2> QED BY <1>6, <2>1 DEF MachineOK, FlagsOK, Fields
<1>9. CountsOK(u)
  BY <1>6 DEF MachineOK, CountsOK, Fields
<1>10. SetsOK(u)
  BY <1>6 DEF MachineOK, SetsOK, Fields
<1>11. /\ u.pending = s.pending /\ u.synthetic_wakes = s.synthetic_wakes
       /\ u.held_releases = s.held_releases /\ u.followups = s.followups
       /\ u.session = s.session /\ u.check_armed = s.check_armed
       /\ u.check_ins = s.check_ins
  BY <1>6 DEF MachineOK, Fields
<1> HIDE DEF u
<1>12. Like(u) /\ Is(u)
  BY <1>6, <1>7, <1>11
<1>13. MachineOK(u)
  BY <1>8, <1>9, <1>10 DEF MachineOK
<1>14. Armed(u)
  BY <1>12 DEF Armed
<1>15. m.synthetic_wakes + 1 = 1
  OBVIOUS
<1> QED BY <1>1, <1>12, <1>13, <1>14, <1>15 DEF Watched

-----------------------------------------------------------------------------
(* Each step keeps the types. *)

\* No wake of its own is counted outside a decision.
Calm == m.pc # "decide" => m.synthetic_wakes = 0

LEMMA FreshIs == MachineOK(Fresh) /\ Armed(Fresh)
<1>1. FlagsOK(Fresh) /\ DOMAIN Fresh = Fields
  BY DEF Fresh, FlagsOK, Fields, Pcs
<1>2. CountsOK(Fresh)
  BY Caps DEF Fresh, CountsOK
<1>3. SetsOK(Fresh) /\ Armed(Fresh)
  BY DEF Fresh, SetsOK, Armed
<1> QED BY <1>1, <1>2, <1>3 DEF MachineOK

LEMMA InitTypes == Init => TypeInv
<1> SUFFICES ASSUME Init PROVE TypeInv
  OBVIOUS
<1>1. MachineOK(Fresh)
  BY FreshIs
<1>2. Armed(Fresh)
  BY FreshIs
<1>3. MachineOK(m) /\ Armed(m) /\ (m.pc = "check" => m.check_armed)
  <2>1. m = AtTop(Fresh)
    BY DEF Init
  <2>2. m.pc = "check" => m.check_armed
    BY <1>1, <2>1, AtTopIs DEF CheckDue, Aside
  <2> QED BY <1>1, <1>2, <2>1, <2>2, AtTopIs, ArmedAtTop
<1>4. NoCall \in CallState /\ NoBatch \in Batch /\ NoTurn \in Turns
  BY DEF NoCall, CallState, Kinds, Queries, NoBatch, Batch, NoTurn, Turns
<1>5. disk \in Disk /\ env \in Env
  BY DEF Init, Disk, Env
<1>6. call \in [Calls -> CallState]
  BY <1>4 DEF Init
<1> QED BY <1>3, <1>4, <1>5, <1>6 DEF Init, TypeInv

LEMMA EmptyTypes == NoBatch \in Batch /\ NoTurn \in Turns
BY DEF NoBatch, Batch, NoTurn, Turns

\* What is pending and in the inbox.
LEMMA QueueTypes ==
    ASSUME TypeInv
    PROVE  /\ m.pending \in Seq(Inbound \cup Wakes) /\ inbox \in Seq(Inbound \cup Wakes)
           /\ m.pending \o inbox \in Seq(Inbound \cup Wakes)
<1>1. m.pending \in Seq(Inbound \cup Wakes) /\ inbox \in Seq(Inbound)
  BY DEF TypeInv, MachineOK, SetsOK
<1>2. inbox \in Seq(Inbound \cup Wakes)
  BY <1>1
<1> QED BY <1>1, <1>2

\* The loop goes back to its top on a struct that is well formed.
LEMMA TopTypes ==
    ASSUME NEW s, MachineOK(s), Armed(s), m' = AtTop(s)
    PROVE  MachineOK(m') /\ Armed(m') /\ (m'.pc = "check" => m'.check_armed)
<1>1. m'.pc = "check" => m'.check_armed
  BY AtTopIs DEF CheckDue, Aside
<1> QED BY <1>1, AtTopIs, ArmedAtTop

LEMMA CheckInTypes == ASSUME TypeInv, Calm, CheckIn PROVE TypeInv'
<1> DEFINE u == [m EXCEPT !.check_armed = FALSE, !.followups = m.followups + 1,
                          !.was_idle = FALSE, !.idle_since = 0,
                          !.check_ins = m.check_ins + 1, !.notices = FALSE,
                          !.pc = "think"]
<1>1. m' = u
  BY DEF CheckIn
<1>2. MachineOK(m) /\ m.check_armed /\ m.check_ins < MaxCheckIns
  BY DEF TypeInv, CheckIn, Armed
<1>3. m.followups + 1 \in 0..MaxFollowups /\ m.check_ins + 1 \in 0..MaxCheckIns
  <2>1. m.followups \in 0..MaxFollowups /\ m.check_ins \in 0..MaxCheckIns
    BY <1>2 DEF MachineOK, CountsOK
  <2>2. m.followups < MaxFollowups
    BY DEF CheckIn
  <2> QED BY <1>2, <2>1, <2>2, Caps
<1>4. FlagsOK(u) /\ SetsOK(u) /\ DOMAIN u = Fields
  BY <1>2 DEF MachineOK, FlagsOK, SetsOK, Fields, Pcs
<1>5. CountsOK(u)
  BY <1>2, <1>3 DEF MachineOK, CountsOK, Fields
<1>6. ~u.check_armed /\ u.pc = "think"
  BY <1>2 DEF MachineOK, Fields
<1>7. turn' \in Turns
  <2>1. turn' = [NoTurn EXCEPT !.check = TRUE]
    BY DEF CheckIn
  <2> QED BY <2>1, EmptyTypes DEF Turns
<1>8. env' \in Env
  BY DEF CheckIn, TypeInv, Env
<1> HIDE DEF u
<1> QED BY <1>1, <1>4, <1>5, <1>6, <1>7, <1>8 DEF CheckIn, TypeInv, MachineOK, Armed

\* The queue is read into pending, and something else of the struct with it.
LEMMA ReadTypes ==
    ASSUME TypeInv, NEW s, MachineOK(s), Armed(s)
    PROVE  LET u == [s EXCEPT !.pending = m.pending \o inbox]
           IN MachineOK(u) /\ Armed(u)
<1> DEFINE u == [s EXCEPT !.pending = m.pending \o inbox]
<1>1. FlagsOK(u) /\ CountsOK(u) /\ DOMAIN u = Fields
  <2>1. FlagsOK(u) /\ DOMAIN u = Fields
    BY DEF MachineOK, FlagsOK, Fields
  <2>2. CountsOK(u)
    BY DEF MachineOK, CountsOK, Fields
  <2> QED BY <2>1, <2>2
<1>2. SetsOK(u)
  BY QueueTypes DEF MachineOK, SetsOK, Fields
<1>3. Armed(u)
  BY DEF MachineOK, Armed, Fields
<1> QED BY <1>1, <1>2, <1>3 DEF MachineOK

LEMMA CheckInSkippedTypes == ASSUME TypeInv, CheckInSkipped PROVE TypeInv'
<1> DEFINE v == [m EXCEPT !.check_armed = FALSE]
           u == [v EXCEPT !.pending = m.pending \o inbox]
<1>1. MachineOK(m)
  BY DEF TypeInv
<1>2. m' = AtTop(u)
  <2>1. u = [m EXCEPT !.check_armed = FALSE, !.pending = @ \o inbox]
    BY <1>1 DEF MachineOK, Fields
  <2> QED BY <2>1 DEF CheckInSkipped
<1>3. MachineOK(v) /\ Armed(v)
  <2>1. FlagsOK(v) /\ DOMAIN v = Fields
    BY <1>1 DEF MachineOK, FlagsOK, Fields
  <2>2. CountsOK(v)
    BY <1>1 DEF MachineOK, CountsOK, Fields
  <2>3. SetsOK(v) /\ ~v.check_armed
    BY <1>1 DEF MachineOK, SetsOK, Fields
  <2> QED BY <2>1, <2>2, <2>3 DEF MachineOK, Armed
<1> HIDE DEF v
<1>4. MachineOK(u) /\ Armed(u)
  BY <1>3, ReadTypes
<1> HIDE DEF u
<1>5. MachineOK(m') /\ Armed(m') /\ (m'.pc = "check" => m'.check_armed)
  BY <1>2, <1>4, TopTypes
<1> QED BY <1>5 DEF CheckInSkipped, TypeInv

LEMMA ReceiveTypes == ASSUME TypeInv, Receive PROVE TypeInv'
<1>0. MachineOK(m) /\ Armed(m) /\ back \in Seq(Calls)
  BY DEF TypeInv
<1>1. CASE Gather(m, m.pending \o inbox, 0)
  BY <1>0, <1>1, QueueTypes, GatherTypes
<1>2. CASE /\ back # <<>>
           /\ Gather(m, inbox, IF HasReset(inbox) THEN Len(Fed(m, <<Head(back)>>)) ELSE 0)
  <2>1. <<Head(back)>> \in Seq(Calls)
    BY <1>0, <1>2
  <2>2. Fed(m, <<Head(back)>>) \in Seq(Calls)
    BY <2>1, FedIs
  <2> DEFINE early == IF HasReset(inbox) THEN Len(Fed(m, <<Head(back)>>)) ELSE 0
  <2>3. early \in Nat
    BY <2>2
  <2>4. Gather(m, inbox, early)
    BY <1>2
  <2> HIDE DEF early
  <2> QED BY <1>0, <2>3, <2>4, QueueTypes, GatherTypes
<1>3. CASE Gather([m EXCEPT !.open = FALSE], <<>>, 0)
  <2> DEFINE u == [m EXCEPT !.open = FALSE]
  <2>1. FlagsOK(u) /\ DOMAIN u = Fields
    BY <1>0 DEF MachineOK, FlagsOK, Fields
  <2>2. CountsOK(u)
    BY <1>0 DEF MachineOK, CountsOK, Fields
  <2>3. SetsOK(u)
    BY <1>0 DEF MachineOK, SetsOK, Fields
  <2>4. Armed(u)
    BY <1>0 DEF MachineOK, Armed, Fields
  <2>5. MachineOK(u) /\ Gather(u, <<>>, 0)
    BY <1>3, <2>1, <2>2, <2>3 DEF MachineOK
  <2>6. <<>> \in Seq(Inbound \cup Wakes)
    OBVIOUS
  <2> HIDE DEF u
  <2> QED BY <2>4, <2>5, <2>6, GatherTypes
<1> QED BY <1>1, <1>2, <1>3 DEF Receive

LEMMA TickTypes == ASSUME TypeInv, Calm, Tick PROVE TypeInv'
<1>1. PICK quiet \in SUBSET MayBeQuiet :
         Gather(Watch(quiet), Watch(quiet).pending \o inbox, 0)
  BY DEF Tick
<1>2. quiet \in SUBSET Calls
  BY <1>1 DEF MayBeQuiet
<1>3. MachineOK(Watch(quiet)) /\ Armed(Watch(quiet))
  BY <1>2, WatchIs DEF TypeInv, Calm, Tick
<1> DEFINE u == Watch(quiet)
<1> HIDE DEF u
<1>4. u.pending \o inbox \in Seq(Inbound \cup Wakes)
  <2>1. u.pending \in Seq(Inbound \cup Wakes)
    BY <1>3 DEF MachineOK, SetsOK, u
  <2> QED BY <2>1, QueueTypes
<1> QED BY <1>1, <1>3, <1>4, GatherTypes DEF u

LEMMA BatchBackTypes == ASSUME TypeInv, BatchBack PROVE TypeInv'
<1> DEFINE q == <<Head(back)>>
           b == BackMachine(m, q)
           fed == Fed(m, q)
<1>1. /\ MachineOK(m) /\ Armed(m) /\ back \in Seq(Calls) /\ back # <<>>
      /\ call \in [Calls -> CallState] /\ batch \in Batch
  BY DEF TypeInv, BatchBack
<1>2. q \in Seq(Calls) /\ Tail(back) \in Seq(Calls)
  BY <1>1
<1>3. MachineOK(b) /\ SameBudgets(m, b)
  BY <1>1, <1>2, BackIs
<1>4. fed \in Seq(Calls)
  BY <1>2, FedIs
<1>5. m.next_id \in Nat /\ b.next_id + Len(fed) \in Nat
  <2>1. m.next_id \in Nat
    BY <1>1 DEF MachineOK, CountsOK
  <2>2. b.next_id \in Nat
    BY <1>3 DEF MachineOK, CountsOK
  <2>3. Len(fed) \in Nat
    BY <1>4
  <2> QED BY <2>1, <2>2, <2>3
<1>6. BackCalls(m, q) \in [Calls -> CallState]
  BY <1>1, <1>2, <1>5, BackCallsIs
<1>7. PICK pc \in {"batch", "decide"} :
         m' = [b EXCEPT !.next_id = b.next_id + Len(fed), !.pc = pc]
  BY DEF BatchBack
<1>8. batch' = [batch EXCEPT !.results = batch.results \o fed]
  BY DEF BatchBack
<1> HIDE DEF b, fed
<1>9. FlagsOK(m') /\ DOMAIN m' = Fields /\ m'.pc = pc
  BY <1>3, <1>7 DEF MachineOK, FlagsOK, Fields, Pcs
<1>10. CountsOK(m')
  BY <1>3, <1>5, <1>7 DEF MachineOK, CountsOK, Fields
<1>11. SetsOK(m')
  BY <1>3, <1>7 DEF MachineOK, SetsOK, Fields
<1>12. m'.check_armed = m.check_armed /\ m'.check_ins = m.check_ins
  BY <1>3, <1>7 DEF MachineOK, SameBudgets, Fields
<1>13. MachineOK(m') /\ Armed(m') /\ m'.pc # "check"
  BY <1>1, <1>7, <1>9, <1>10, <1>11, <1>12 DEF MachineOK, Armed
<1>14. batch' \in Batch
  <2>1. batch.results \o fed \in Seq(Calls)
    BY <1>1, <1>4 DEF Batch
  <2> QED BY <1>1, <1>8, <2>1 DEF Batch
<1> QED BY <1>1, <1>2, <1>6, <1>13, <1>14 DEF BatchBack, TypeInv

\* A struct at another place of the loop.
LEMMA GoTypes ==
    ASSUME NEW s, MachineOK(s), Armed(s), NEW pc \in Pcs
    PROVE  LET u == [s EXCEPT !.pc = pc]
           IN MachineOK(u) /\ Armed(u) /\ Aside(s, u) /\ u.pc = pc
<1> DEFINE u == [s EXCEPT !.pc = pc]
<1>1. FlagsOK(u) /\ SetsOK(u) /\ DOMAIN u = Fields /\ u.pc = pc
  BY DEF MachineOK, FlagsOK, SetsOK, Fields
<1>2. CountsOK(u)
  BY DEF MachineOK, CountsOK, Fields
<1>3. Aside(s, u)
  BY DEF MachineOK, Aside, Fields
<1>4. Armed(u)
  BY <1>3 DEF Aside, Armed
<1> QED BY <1>1, <1>2, <1>3, <1>4 DEF MachineOK

\* The first message of the inbox, and the others.
LEMMA HeadTypes ==
    ASSUME TypeInv, inbox # <<>>
    PROVE  /\ <<Head(inbox)>> \in Seq(Inbound \cup Wakes)
           /\ <<Head(inbox)>> \in Seq(Inbound)
           /\ Tail(inbox) \in Seq(Inbound)
           /\ inbox = <<Head(inbox)>> \o Tail(inbox)
<1>1. inbox \in Seq(Inbound)
  BY DEF TypeInv
<1> QED BY <1>1

LEMMA BatchTakeTypes == ASSUME TypeInv, BatchTake PROVE TypeInv'
<1> DEFINE q == <<Head(inbox)>>
           t == TakeMachine(m, q)
<1>1. /\ MachineOK(m) /\ Armed(m) /\ batch \in Batch /\ inbox # <<>>
      /\ call \in [Calls -> CallState] /\ disk \in Disk /\ env \in Env
  BY DEF TypeInv, BatchTake
<1>2. q \in Seq(Inbound \cup Wakes) /\ inbox' \in Seq(Inbound)
  BY <1>1, HeadTypes DEF BatchTake
<1> HIDE DEF q
<1>3. MachineOK(t) /\ Armed(t)
  BY <1>1, <1>2, TakeIs
<1>4. batch' \in Batch
  BY <1>1, <1>2, TakeBatchIs DEF BatchTake, q
<1>5. call' \in [Calls -> CallState]
  BY <1>1, DroppedIs DEF BatchTake
<1>6. disk' \in Disk
  BY <1>1, <1>3, SavedIs DEF BatchTake, SavedOnReset, q
<1>7. env' \in Env
  BY <1>1 DEF BatchTake, Env
<1>8. m' = [t EXCEPT !.pc = "decide"]
  BY DEF BatchTake, q
<1> HIDE DEF t
<1>9. MachineOK(m') /\ Armed(m') /\ m'.pc # "check"
  BY <1>3, <1>8, GoTypes DEF Pcs
<1> QED BY <1>2, <1>4, <1>5, <1>6, <1>7, <1>9 DEF BatchTake, TypeInv

LEMMA BatchOverTypes == ASSUME TypeInv, BatchOver PROVE TypeInv'
<1>1. MachineOK(m) /\ Armed(m)
  BY DEF TypeInv
<1>2. MachineOK(m') /\ Armed(m') /\ m'.pc # "check"
  <2>1. CASE m' = [m EXCEPT !.pc = "decide"]
    BY <1>1, <2>1, GoTypes DEF Pcs
  <2>2. CASE m' = [m EXCEPT !.open = FALSE]
    <3>1. FlagsOK(m') /\ SetsOK(m') /\ DOMAIN m' = Fields
      BY <1>1, <2>2 DEF MachineOK, FlagsOK, SetsOK, Fields
    <3>2. CountsOK(m')
      BY <1>1, <2>2 DEF MachineOK, CountsOK, Fields
    <3>3. Armed(m') /\ m'.pc = m.pc
      BY <1>1, <2>2 DEF MachineOK, Armed, Fields
    <3> QED BY <3>1, <3>2, <3>3 DEF MachineOK, BatchOver
  <2> QED BY <2>1, <2>2 DEF BatchOver
<1> QED BY <1>2 DEF BatchOver, TypeInv

LEMMA HoldBackTypes == ASSUME TypeInv, HoldBack PROVE TypeInv'
<1> DEFINE h == m.held \o batch.results
           u == [m EXCEPT !.held = h, !.notices = FALSE, !.synthetic_wakes = 0]
<1>1. MachineOK(m) /\ Armed(m) /\ batch \in Batch
  BY DEF TypeInv
<1>2. h \in Seq(Calls)
  <2>1. m.held \in Seq(Calls) /\ batch.results \in Seq(Calls)
    BY <1>1 DEF MachineOK, SetsOK, Batch
  <2> QED BY <2>1
<1> HIDE DEF h
<1>3. FlagsOK(u) /\ DOMAIN u = Fields
  BY <1>1 DEF MachineOK, FlagsOK, Fields
<1>4. CountsOK(u)
  BY <1>1 DEF MachineOK, CountsOK, Fields
<1>5. SetsOK(u)
  BY <1>1, <1>2 DEF MachineOK, SetsOK, Fields
<1>6. Armed(u)
  BY <1>1 DEF MachineOK, Armed, Fields
<1>7. m' = AtTop(u)
  BY DEF HoldBack, h
<1> HIDE DEF u
<1>8. MachineOK(m') /\ Armed(m') /\ (m'.pc = "check" => m'.check_armed)
  BY <1>3, <1>4, <1>5, <1>6, <1>7, TopTypes DEF MachineOK
<1> QED BY <1>8, EmptyTypes DEF HoldBack, TypeInv

LEMMA BeginTurnTypes == ASSUME TypeInv, BeginTurn PROVE TypeInv'
<1> DEFINE woken == batch.wakes # <<>>
           fs == IF woken THEN 0 ELSE m.followups + 1
           ci == IF woken THEN 0 ELSE m.check_ins
           hd == IF woken THEN <<>> ELSE m.held
           u == [m EXCEPT !.held_releases = ReleasesLeft, !.synthetic_wakes = 0,
                          !.followups = fs, !.held = hd,
                          !.was_idle = FALSE, !.idle_since = 0,
                          !.awaiting = m.awaiting /\ ~woken,
                          !.check_ins = ci, !.notices = FALSE, !.pc = "think"]
<1>1. MachineOK(m) /\ Armed(m) /\ batch \in Batch /\ env \in Env
  BY DEF TypeInv
<1>2. m' = u
  BY DEF BeginTurn
<1>3. /\ ReleasesLeft \in 0..MaxReleases /\ fs \in 0..MaxFollowups
      /\ ci \in 0..MaxCheckIns /\ (m.check_armed => ci < MaxCheckIns)
  <2>1. /\ m.followups \in 0..MaxFollowups /\ m.check_ins \in 0..MaxCheckIns
        /\ m.held_releases \in 0..MaxReleases
    BY <1>1 DEF MachineOK, CountsOK
  <2>2. woken \/ m.followups < MaxFollowups
    BY DEF BeginTurn
  <2>3. m.check_armed => m.check_ins < MaxCheckIns
    BY <1>1 DEF Armed
  <2>4. ReleasesLeft = 0 \/ ReleasesLeft = m.held_releases
    BY DEF ReleasesLeft
  <2> HIDE DEF woken
  <2> QED BY <2>1, <2>2, <2>3, <2>4, Caps
<1>4. hd \in Seq(Calls) /\ (m.awaiting /\ ~woken) \in BOOLEAN
  BY <1>1 DEF MachineOK, SetsOK
<1> HIDE DEF fs, ci, hd, woken
<1>5. FlagsOK(u) /\ DOMAIN u = Fields
  BY <1>1, <1>4 DEF MachineOK, FlagsOK, Fields, Pcs
<1>6. CountsOK(u)
  BY <1>1, <1>3 DEF MachineOK, CountsOK, Fields
<1>7. SetsOK(u)
  BY <1>1, <1>4 DEF MachineOK, SetsOK, Fields
<1>8. u.check_armed = m.check_armed /\ u.check_ins = ci /\ u.pc = "think"
  BY <1>1 DEF MachineOK, Fields
<1> HIDE DEF u
<1>9. MachineOK(m') /\ Armed(m') /\ m'.pc # "check"
  BY <1>2, <1>3, <1>5, <1>6, <1>7, <1>8 DEF MachineOK, Armed
<1>10. turn' \in Turns
  <2>1. m.held \in Seq(Calls) /\ batch.results \in Seq(Calls) /\ m.awaiting \in BOOLEAN
    BY <1>1 DEF MachineOK, SetsOK, FlagsOK, Batch
  <2>2. m.held \o batch.results \in Seq(Calls)
    BY <2>1
  <2>3. PICK r \in Seq(Calls), w \in BOOLEAN, n \in BOOLEAN :
           turn' = [wakes |-> w, check |-> FALSE, attempt |-> 0, results |-> r, nudged |-> n]
    BY <2>1, <2>2 DEF BeginTurn
  <2> QED BY <2>3 DEF Turns
<1>11. env' \in Env
  <2>1. env' = [env EXCEPT !.own = 0] \/ env' = [env EXCEPT !.own = env.own + 1]
    BY DEF BeginTurn
  <2> QED BY <1>1, <2>1 DEF Env
<1> QED BY <1>9, <1>10, <1>11, EmptyTypes DEF BeginTurn, TypeInv

LEMMA AllOverTypes ==
    ASSUME call \in [Calls -> CallState], NEW S, NEW st \in {"told", "gone"}
    PROVE  AllOver(S, st) \in [Calls -> CallState]
<1>1. \A c \in Calls : Over(c, st) \in CallState
  BY OverIs
<1> QED BY <1>1 DEF AllOver

LEMMA TurnRowsTypes ==
    ASSUME TypeInv
    PROVE  TurnRows \in SUBSET (Nat \X Calls)
<1>1. Range(turn.results) \subseteq Calls
  BY DEF TypeInv, Turns, Range
<1>2. \A c \in Calls : call[c].id \in Nat
  BY DEF TypeInv, CallState
<1> QED BY <1>1, <1>2 DEF TurnRows

LEMMA LlmRetryTypes == ASSUME TypeInv, LlmRetry PROVE TypeInv'
<1>1. MachineOK(m) /\ Armed(m) /\ turn \in Turns
  BY DEF TypeInv
<1>2. m' = [m EXCEPT !.pending = m.pending \o inbox]
  BY DEF LlmRetry
<1>3. MachineOK(m') /\ Armed(m')
  BY <1>1, <1>2, ReadTypes
<1>4. m'.pc # "check"
  BY <1>1, <1>2 DEF MachineOK, Fields, LlmRetry
<1>5. turn' \in Turns
  BY <1>1 DEF LlmRetry, Turns
<1> QED BY <1>3, <1>4, <1>5 DEF LlmRetry, TypeInv

LEMMA TurnFailsTypes == ASSUME TypeInv, TurnFails PROVE TypeInv'
<1> DEFINE looks == turn.attempt < LlmRetries
           p == IF looks THEN m.pending \o inbox ELSE m.pending
           n == IF turn.nudged THEN Less(m.local_nudges, 1) ELSE m.local_nudges
           u == [m EXCEPT !.pending = p, !.local_nudges = n]
<1>1. /\ MachineOK(m) /\ Armed(m) /\ call \in [Calls -> CallState] /\ env \in Env
      /\ inbox \in Seq(Inbound)
  BY DEF TypeInv
<1>2. m' = AtTop(u)
  BY DEF TurnFails
<1>3. p \in Seq(Inbound \cup Wakes)
  BY QueueTypes
<1>4. n \in 0..MaxNudges
  <2>1. m.local_nudges \in 0..MaxNudges
    BY <1>1 DEF MachineOK, CountsOK
  <2> QED BY <2>1, Caps DEF Less
<1> HIDE DEF p, n
<1>5. FlagsOK(u) /\ DOMAIN u = Fields
  BY <1>1 DEF MachineOK, FlagsOK, Fields
<1>6. CountsOK(u)
  BY <1>1, <1>4 DEF MachineOK, CountsOK, Fields
<1>7. SetsOK(u)
  BY <1>1, <1>3 DEF MachineOK, SetsOK, Fields
<1>8. Armed(u)
  BY <1>1 DEF MachineOK, Armed, Fields
<1> HIDE DEF u
<1>9. MachineOK(m') /\ Armed(m') /\ (m'.pc = "check" => m'.check_armed)
  BY <1>2, <1>5, <1>6, <1>7, <1>8, TopTypes DEF MachineOK
<1>10. call' \in [Calls -> CallState] /\ disk' \in Disk
  BY <1>1, AllOverTypes, SavedIs DEF TurnFails
<1>11. inbox' \in Seq(Inbound)
  BY <1>1 DEF TurnFails
<1> QED BY <1>9, <1>10, <1>11, EmptyTypes DEF TurnFails, TypeInv

LEMMA TurnDroppedTypes == ASSUME TypeInv, TurnDropped PROVE TypeInv'
<1> DEFINE rs == m.rows \cup TurnRows
           v == [m EXCEPT !.rows = rs, !.talk = TRUE]
           u == [v EXCEPT !.pending = m.pending \o inbox]
<1>1. /\ MachineOK(m) /\ Armed(m) /\ call \in [Calls -> CallState] /\ env \in Env
  BY DEF TypeInv
<1>2. m' = AtTop(u) /\ disk' = Saved(u)
  <2>1. u = [m EXCEPT !.pending = @ \o inbox, !.rows = @ \cup TurnRows, !.talk = TRUE]
    BY <1>1 DEF MachineOK, Fields
  <2> QED BY <2>1 DEF TurnDropped
<1>3. rs \in SUBSET (Nat \X Calls)
  BY <1>1, TurnRowsTypes DEF MachineOK, SetsOK
<1> HIDE DEF rs
<1>4. FlagsOK(v) /\ DOMAIN v = Fields
  BY <1>1 DEF MachineOK, FlagsOK, Fields
<1>5. CountsOK(v)
  BY <1>1 DEF MachineOK, CountsOK, Fields
<1>6. SetsOK(v)
  BY <1>1, <1>3 DEF MachineOK, SetsOK, Fields
<1>7. Armed(v)
  BY <1>1 DEF MachineOK, Armed, Fields
<1> HIDE DEF v
<1>8. MachineOK(u) /\ Armed(u)
  BY <1>4, <1>5, <1>6, <1>7, ReadTypes DEF MachineOK
<1> HIDE DEF u
<1>9. MachineOK(m') /\ Armed(m') /\ (m'.pc = "check" => m'.check_armed)
  BY <1>2, <1>8, TopTypes
<1>10. disk' \in Disk
  BY <1>1, <1>2, <1>8, SavedIs
<1>11. call' \in [Calls -> CallState]
  BY <1>1, AllOverTypes DEF TurnDropped
<1> QED BY <1>9, <1>10, <1>11, EmptyTypes DEF TurnDropped, TypeInv

LEMMA NothingMoreTypes == ASSUME TypeInv, NothingMore PROVE TypeInv'
<1> DEFINE u == [m EXCEPT !.pending = m.pending \o inbox]
<1>1. MachineOK(m) /\ Armed(m) /\ env \in Env
  BY DEF TypeInv
<1>2. m' = AtTop(u)
  BY DEF NothingMore
<1>3. MachineOK(u) /\ Armed(u)
  BY <1>1, ReadTypes
<1> HIDE DEF u
<1>4. MachineOK(m') /\ Armed(m') /\ (m'.pc = "check" => m'.check_armed)
  BY <1>2, <1>3, TopTypes
<1>5. disk' \in Disk
  BY <1>1, SavedIs DEF NothingMore
<1> QED BY <1>4, <1>5, EmptyTypes DEF NothingMore, TypeInv

LEMMA CompactTypes == ASSUME TypeInv, Compact PROVE TypeInv'
<1> DEFINE u == [m EXCEPT !.rows = {}]
<1>1. MachineOK(m) /\ Armed(m) /\ env \in Env
  BY DEF TypeInv
<1>2. m' = AtTop(u) /\ disk' = Saved(u)
  BY DEF Compact
<1>3. FlagsOK(u) /\ DOMAIN u = Fields
  BY <1>1 DEF MachineOK, FlagsOK, Fields
<1>4. CountsOK(u)
  BY <1>1 DEF MachineOK, CountsOK, Fields
<1>5. SetsOK(u) /\ Armed(u)
  BY <1>1 DEF MachineOK, SetsOK, Fields, Armed
<1> HIDE DEF u
<1>6. MachineOK(u)
  BY <1>3, <1>4, <1>5 DEF MachineOK
<1>7. MachineOK(m') /\ Armed(m') /\ (m'.pc = "check" => m'.check_armed)
  BY <1>2, <1>5, <1>6, TopTypes
<1>8. disk' \in Disk
  BY <1>1, <1>2, <1>6, SavedIs
<1> QED BY <1>7, <1>8 DEF Compact, TypeInv

LEMMA FinishTypes ==
    ASSUME TypeInv, NEW c \in Calls, Finish(c)
    PROVE  TypeInv'
<1>1. call \in [Calls -> CallState] /\ lane \in Seq(Calls) /\ back \in Seq(Calls)
  BY DEF TypeInv
<1>2. lane' \in Seq(Calls)
  <2> DEFINE S == Calls \ {c}
  <2>1. Only(lane, S) \in Seq(Calls \cap S)
    BY <1>1, OnlyIsASequence
  <2>2. lane' = Only(lane, S)
    BY DEF Finish
  <2> HIDE DEF S
  <2> QED BY <2>1, <2>2
<1>3. call' \in [Calls -> CallState]
  <2>1. \A d \in Calls : /\ [call[d] EXCEPT !.st = "back"] \in CallState
                         /\ [call[d] EXCEPT !.st = "running"] \in CallState
    BY <1>1 DEF CallState
  <2> QED BY <1>1, <2>1 DEF Finish
<1>4. back' \in Seq(Calls)
  BY <1>1 DEF Finish
<1> QED BY <1>2, <1>3, <1>4 DEF Finish, TypeInv

LEMMA OutputTypes ==
    ASSUME TypeInv, NEW c \in Calls, Output(c)
    PROVE  TypeInv'
<1>1. MachineOK(m) /\ Armed(m)
  BY DEF TypeInv
<1>2. m' = [m EXCEPT !.noted = m.noted \ {c}]
  BY DEF Output
<1>3. FlagsOK(m') /\ DOMAIN m' = Fields
  BY <1>1, <1>2 DEF MachineOK, FlagsOK, Fields
<1>4. CountsOK(m')
  BY <1>1, <1>2 DEF MachineOK, CountsOK, Fields
<1>5. SetsOK(m')
  BY <1>1, <1>2 DEF MachineOK, SetsOK, Fields
<1>6. /\ m'.check_armed = m.check_armed /\ m'.check_ins = m.check_ins
      /\ m'.pc = m.pc
  BY <1>1, <1>2 DEF MachineOK, Fields
<1> QED BY <1>1, <1>3, <1>4, <1>5, <1>6 DEF Output, TypeInv, MachineOK, Armed

LEMMA TimePassesTypes == ASSUME TypeInv, TimePasses PROVE TypeInv'
<1>1. MachineOK(m) /\ Armed(m)
  BY DEF TypeInv
<1>2. m' = [m EXCEPT !.idle_since = m.idle_since + 1] /\ m.idle_since + 1 \in 0..3
  BY DEF TimePasses
<1>3. FlagsOK(m') /\ DOMAIN m' = Fields
  BY <1>1, <1>2 DEF MachineOK, FlagsOK, Fields
<1>4. CountsOK(m')
  BY <1>1, <1>2 DEF MachineOK, CountsOK, Fields
<1>5. SetsOK(m')
  BY <1>1, <1>2 DEF MachineOK, SetsOK, Fields
<1>6. /\ m'.check_armed = m.check_armed /\ m'.check_ins = m.check_ins
      /\ m'.pc = m.pc
  BY <1>1, <1>2 DEF MachineOK, Fields
<1> QED BY <1>1, <1>3, <1>4, <1>5, <1>6 DEF TimePasses, TypeInv, MachineOK, Armed

LEMMA SendTypes ==
    ASSUME TypeInv, NEW i \in {"wake", "reset"}, Send(i)
    PROVE  TypeInv'
<1>1. inbox' \in Seq(Inbound)
  BY DEF TypeInv, Send, Inbound
<1>2. env' \in Env
  <2>1. env \in Env
    BY DEF TypeInv
  <2>2. env.epoch \in Nat /\ env.sent + 1 \in Nat
    BY <2>1 DEF Env
  <2> DEFINE n == env.sent + 1
             e == IF i = "reset" THEN env.epoch + 1 ELSE env.epoch
  <2>3. n \in Nat /\ e \in Nat
    BY <2>2
  <2>4. env' = [env EXCEPT !.sent = n, !.epoch = e]
    BY DEF Send
  <2> HIDE DEF n, e
  <2> QED BY <2>1, <2>3, <2>4 DEF Env
<1> QED BY <1>1, <1>2 DEF Send, TypeInv

LEMMA CloseTypes == ASSUME TypeInv, Close PROVE TypeInv'
<1> DEFINE n == env.sent + 1
<1>1. env \in Env /\ env' = [env EXCEPT !.sent = n, !.closed = TRUE]
  BY DEF TypeInv, Close
<1>2. env' \in Env
  <2>1. n \in Nat
    BY <1>1 DEF Env
  <2> HIDE DEF n
  <2> QED BY <1>1, <2>1 DEF Env
<1> QED BY <1>2 DEF Close, TypeInv

LEMMA RestartTypes == ASSUME TypeInv, Restart PROVE TypeInv'
<1>1. disk \in Disk /\ env \in Env /\ call \in [Calls -> CallState]
  BY DEF TypeInv
<1>2. disk.rows \in SUBSET (Nat \X Calls) /\ disk.talk \in BOOLEAN /\ disk.next_id \in Nat
  BY <1>1 DEF Disk
<1>3. MachineOK(Fresh) /\ Armed(Fresh)
  BY FreshIs
<1>4. MachineOK(Loaded) /\ Armed(Loaded)
  <2> DEFINE n == IF disk.talk THEN disk.next_id ELSE 0
             u == [Fresh EXCEPT !.rows = disk.rows, !.talk = disk.talk, !.next_id = n]
  <2>1. n \in Nat
    BY <1>2
  <2> HIDE DEF n
  <2>2. FlagsOK(u) /\ DOMAIN u = Fields
    BY <1>2, <1>3 DEF MachineOK, FlagsOK, Fields
  <2>3. CountsOK(u)
    BY <1>3, <2>1 DEF MachineOK, CountsOK, Fields
  <2>4. SetsOK(u) /\ Armed(u)
    BY <1>2, <1>3 DEF MachineOK, SetsOK, Fields, Armed
  <2>5. Loaded = u \/ Loaded = Fresh
    BY DEF Loaded, n
  <2> QED BY <1>3, <2>2, <2>3, <2>4, <2>5 DEF MachineOK
<1>5. MachineOK(m') /\ Armed(m') /\ (m'.pc = "check" => m'.check_armed)
  <2>1. m' = AtTop(Loaded)
    BY DEF Restart
  <2> QED BY <1>4, <2>1, TopTypes
<1>6. call' \in [Calls -> CallState]
  BY <1>1, AllOverTypes DEF Restart
<1>7. env' \in Env
  <2> DEFINE n == env.crashes + 1
             st == (disk.epoch = env.epoch /\ disk.of # disk.epoch)
  <2>1. n \in Nat /\ st \in BOOLEAN /\ env.epoch \in Nat
    BY <1>1 DEF Env
  <2>2. env' = [env EXCEPT !.crashes = n, !.own = 0, !.closed = FALSE,
                           !.base = env.epoch, !.stale = st]
    BY DEF Restart
  <2> HIDE DEF n, st
  <2> QED BY <1>1, <2>1, <2>2 DEF Env
<1> QED BY <1>5, <1>6, <1>7, EmptyTypes DEF Restart, TypeInv

\* The calls an answer starts are numbered on from the last, each of a kind.
LEMMA StartedIs ==
    ASSUME NEW as \in Answers, TypeInv
    PROVE  LET started == Started(as) IN
           /\ DOMAIN started = 1..Len(started) /\ Len(started) \in Nat
           /\ \A i \in 1..Len(started) :
                 /\ started[i].kind \in Kinds
                 /\ started[i] = [c |-> Cardinality({c \in Calls : call[c].st # "new"}) + i,
                                  kind |-> started[i].kind]
<1> DEFINE Told == {"lane", "bg", "host", "record", "cancel", "compact"}
           cs == Only(as, Kinds \cup {"cancel"})
           n0 == Cardinality({c \in Calls : call[c].st # "new"})
<1>1. as \in Seq(Told)
  BY AnswersAreCalls
<1>2. cs \in Seq(Told \cap (Kinds \cup {"cancel"}))
  BY <1>1, OnlyIsASequence
<1>3. Told \cap (Kinds \cup {"cancel"}) \subseteq {"lane", "bg", "host", "record", "cancel"}
  BY DEF Kinds, Queries
<1> HIDE DEF cs, Told
<1>4. cs \in Seq({"lane", "bg", "host", "record", "cancel"}) /\ Len(cs) \in Nat
  BY <1>2, <1>3
<1>5. \A i \in 1..Len(cs) : KindOf(cs[i]) \in Kinds
  BY <1>4 DEF KindOf, Kinds, Queries
<1>6. Started(as) = [i \in 1..Len(cs) |-> [c |-> n0 + i, kind |-> KindOf(cs[i])]]
  BY DEF Started, cs
<1> HIDE DEF n0
<1>7. Len(Started(as)) = Len(cs) /\ DOMAIN Started(as) = 1..Len(cs)
  BY <1>4, <1>6
<1>8. \A i \in 1..Len(cs) : /\ Started(as)[i].kind = KindOf(cs[i])
                            /\ Started(as)[i] = [c |-> n0 + i, kind |-> KindOf(cs[i])]
  BY <1>6
<1> QED BY <1>4, <1>5, <1>7, <1>8 DEF n0

\* The calls of one kind, in the order they were asked for.
LEMMA InOrderIs ==
    ASSUME TypeInv, NEW as \in Answers, OfKind(Started(as), Kinds) \subseteq Calls, NEW k
    PROVE  InOrder(Started(as), k) \in Seq(Calls)
<1> DEFINE st == Started(as)
           S == {x \in Range(st) : x.kind = k}
           own == Only(st, S)
<1>1. /\ DOMAIN st = 1..Len(st) /\ Len(st) \in Nat
      /\ \A i \in 1..Len(st) :
            /\ st[i].kind \in Kinds
            /\ st[i] = [c |-> Cardinality({c \in Calls : call[c].st # "new"}) + i,
                        kind |-> st[i].kind]
  BY StartedIs
<1> HIDE DEF st
<1>2. \A i \in 1..Len(st) : st[i].c \in Calls
  BY <1>1 DEF OfKind, st
<1>3. st \in Seq(Range(st))
  <2>1. st = [i \in 1..Len(st) |-> st[i]]
    BY <1>1 DEF st, Started
  <2> QED BY <1>1, <2>1 DEF Range
<1>4. own \in Seq(Range(st) \cap S)
  BY <1>3, OnlyIsASequence
<1> HIDE DEF own
<1>5. Len(own) \in Nat /\ \A i \in 1..Len(own) : own[i].c \in Calls
  <2>1. \A i \in 1..Len(own) : own[i] \in Range(st)
    BY <1>4
  <2> QED BY <1>1, <1>2, <1>4, <2>1 DEF Range
<1>6. InOrder(Started(as), k) = [i \in 1..Len(own) |-> own[i].c]
  BY DEF InOrder, own, st
<1> QED BY <1>5, <1>6

\* What dispatch makes of the calls: those the turn was fed with are told, the
\* started ones run, wait for the lane or are back at once.
LEMMA DispatchIs ==
    ASSUME TypeInv, NEW as \in Answers, OfKind(Started(as), Kinds) \subseteq Calls,
           Dispatch(Started(as))
    PROVE  /\ call' \in [Calls -> CallState]
           /\ lane' \in Seq(Calls) /\ back' \in Seq(Calls)
<1> DEFINE st == Started(as)
           at(c) == CHOOSE x \in Range(st) : x.c = c
           new(c) == \E x \in Range(st) : x.c = c
           queue == lane \o InOrder(st, "lane")
           s(c) == CASE at(c).kind = "instant" -> "back"
                     [] at(c).kind = "lane" /\ Head(queue) # c -> "queued"
                     [] OTHER -> "running"
<1>1. /\ call \in [Calls -> CallState] /\ lane \in Seq(Calls) /\ back \in Seq(Calls)
      /\ m.session \in Nat
  BY DEF TypeInv, MachineOK, CountsOK
<1>2. InOrder(st, "lane") \in Seq(Calls) /\ InOrder(st, "instant") \in Seq(Calls)
  BY InOrderIs
<1>3. ASSUME NEW c \in Calls, new(c)
      PROVE  at(c).kind \in Kinds
  <2>1. at(c) \in Range(st)
    BY <1>3
  <2>2. DOMAIN st = 1..Len(st) /\ \A i \in 1..Len(st) : st[i].kind \in Kinds
    BY StartedIs
  <2> HIDE DEF st, at
  <2> QED BY <2>1, <2>2 DEF Range
<1>4. call' = [c \in Calls |->
                 IF c \in Range(turn.results) THEN Over(c, "told")
                 ELSE IF new(c)
                 THEN [kind |-> at(c).kind, session |-> m.session, id |-> 0, st |-> s(c)]
                 ELSE call[c]]
  BY DEF Dispatch
<1>5. lane' = lane \o InOrder(st, "lane") /\ back' = back \o InOrder(st, "instant")
  BY DEF Dispatch
<1>6. \A c \in Calls : s(c) \in {"back", "queued", "running"}
  OBVIOUS
<1> HIDE DEF st, s, at, new
<1>7. ASSUME NEW c \in Calls
      PROVE  call'[c] \in CallState
  <2>1. CASE c \in Range(turn.results)
    BY <1>1, <1>4, <2>1, OverIs
  <2>2. CASE c \notin Range(turn.results) /\ new(c)
    <3> DEFINE k == at(c).kind
               t == s(c)
    <3>1. k \in Kinds /\ t \in {"back", "queued", "running"}
      BY <1>3, <1>6, <2>2
    <3>2. call'[c] = [kind |-> k, session |-> m.session, id |-> 0, st |-> t]
      BY <1>4, <2>2
    <3> HIDE DEF k, t
    <3> QED BY <1>1, <3>1, <3>2 DEF CallState
  <2>3. CASE c \notin Range(turn.results) /\ ~new(c)
    BY <1>1, <1>4, <2>3
  <2> QED BY <2>1, <2>2, <2>3
<1> QED BY <1>1, <1>2, <1>4, <1>5, <1>7

LEMMA AnsweredIs ==
    ASSUME TypeInv, NEW as \in Answers, NEW text, NEW target \in SUBSET Calls,
           OfKind(Started(as), Kinds) \subseteq Calls
    PROVE  MachineOK(Answered(as, text, target)) /\ Armed(Answered(as, text, target))
<1> DEFINE st == Started(as)
           cd == OfKind(st, {"lane", "host", "instant"})
           ci == IF cd = {} THEN m.check_ins ELSE 0
           ln == IF cd = {} THEN m.local_nudges ELSE 0
           rs == IF "compact" \in Range(as) THEN {} ELSE m.rows \cup TurnRows
           qs == m.queries + Cardinality(cd)
           bg == m.bg \cup OfKind(st, {"bg"})
           rc == m.records + Cardinality(OfKind(st, {"record"}))
           ca == Arms(text, as, cd = {}, ci)
           v == [m EXCEPT !.talk = TRUE, !.rows = rs,
                          !.queries = qs, !.bg = bg, !.records = rc,
                          !.cancel = m.cancel \cup target, !.local_nudges = ln,
                          !.check_ins = ci, !.check_armed = ca]
           u == [v EXCEPT !.pending = m.pending \o inbox]
<1>1. Answered(as, text, target) =
         [m EXCEPT !.pending = m.pending \o inbox, !.talk = TRUE, !.rows = rs,
                   !.queries = qs, !.bg = bg, !.records = rc,
                   !.cancel = m.cancel \cup target, !.local_nudges = ln,
                   !.check_ins = ci, !.check_armed = ca]
  BY DEF Answered
<1>2. MachineOK(m) /\ Armed(m)
  BY DEF TypeInv
<1>3. /\ cd \in SUBSET Calls /\ OfKind(st, {"bg"}) \in SUBSET Calls
      /\ OfKind(st, {"record"}) \in SUBSET Calls
  <2>1. /\ {"lane", "host", "instant"} \in SUBSET Kinds /\ {"bg"} \in SUBSET Kinds
        /\ {"record"} \in SUBSET Kinds
    BY DEF Kinds, Queries
  <2> HIDE DEF st
  <2>2. \A K \in SUBSET Kinds : OfKind(st, K) \in SUBSET Calls
    BY DEF OfKind, st
  <2> QED BY <2>1, <2>2
<1>4. qs \in Nat /\ rc \in Nat
  <2>1. m.queries \in Nat /\ m.records \in Nat
    BY <1>2 DEF MachineOK, CountsOK
  <2> DEFINE rd == OfKind(st, {"record"})
  <2>2. Cardinality(cd) \in Nat /\ Cardinality(rd) \in Nat
    BY <1>3, CallsAreFinite
  <2>3. qs = m.queries + Cardinality(cd) /\ rc = m.records + Cardinality(rd)
    OBVIOUS
  <2> HIDE DEF cd, rd, qs, rc
  <2> QED BY <2>1, <2>2, <2>3
<1> HIDE DEF cd
<1>5. ci \in 0..MaxCheckIns /\ ln \in 0..MaxNudges
  <2>1. m.check_ins \in 0..MaxCheckIns /\ m.local_nudges \in 0..MaxNudges
    BY <1>2 DEF MachineOK, CountsOK
  <2>2. 0 \in 0..MaxCheckIns /\ 0 \in 0..MaxNudges
    BY Caps
  <2>3. (ci = 0 \/ ci = m.check_ins) /\ (ln = 0 \/ ln = m.local_nudges)
    BY Zenon
  <2> HIDE DEF ci, ln
  <2> QED BY <2>1, <2>2, <2>3
<1>6. rs \in SUBSET (Nat \X Calls) /\ bg \in SUBSET Calls
  <2>1. m.rows \in SUBSET (Nat \X Calls) /\ m.bg \in SUBSET Calls
    BY <1>2 DEF MachineOK, SetsOK
  <2>2. rs = {} \/ rs = m.rows \cup TurnRows
    OBVIOUS
  <2>3. bg \in SUBSET Calls
    BY <1>3, <2>1
  <2> HIDE DEF rs
  <2> QED BY <2>1, <2>2, <2>3, TurnRowsTypes
<1>7. ca \in BOOLEAN /\ (ca => ci < MaxCheckIns)
  BY DEF Arms
<1> HIDE DEF st, ci, ln, rs, qs, bg, rc, ca
<1>8. FlagsOK(v) /\ DOMAIN v = Fields
  BY <1>2, <1>7 DEF MachineOK, FlagsOK, Fields
<1>9. CountsOK(v)
  BY <1>2, <1>4, <1>5 DEF MachineOK, CountsOK, Fields
<1>10. SetsOK(v)
  BY <1>2, <1>6 DEF MachineOK, SetsOK, Fields
<1>11. Armed(v)
  BY <1>2, <1>7 DEF MachineOK, Armed, Fields
<1>12. u = [m EXCEPT !.pending = m.pending \o inbox, !.talk = TRUE, !.rows = rs,
                     !.queries = qs, !.bg = bg, !.records = rc,
                     !.cancel = m.cancel \cup target, !.local_nudges = ln,
                     !.check_ins = ci, !.check_armed = ca]
  BY <1>2 DEF MachineOK, Fields
<1> HIDE DEF v
<1>13. MachineOK(u) /\ Armed(u)
  BY <1>8, <1>9, <1>10, <1>11, ReadTypes DEF MachineOK
<1> QED BY <1>1, <1>12, <1>13

LEMMA ActTypes == ASSUME TypeInv, Act PROVE TypeInv'
<1>1. PICK as \in Answers, text \in BOOLEAN, full \in BOOLEAN :
         /\ OfKind(Started(as), Kinds) \subseteq Calls
         /\ Dispatch(Started(as))
         /\ \E target \in Targets(as) :
            LET s == Answered(as, text, target)
            IN /\ m' = IF full THEN [s EXCEPT !.pc = "compact"] ELSE AtTop(s)
               /\ disk' = IF full THEN disk ELSE Saved(s)
  BY Zenon DEF Act
<1>2. PICK target \in Targets(as) :
         LET s == Answered(as, text, target)
         IN /\ m' = IF full THEN [s EXCEPT !.pc = "compact"] ELSE AtTop(s)
            /\ disk' = IF full THEN disk ELSE Saved(s)
  BY <1>1
<1>3. target \in SUBSET Calls
  BY DEF Targets
<1> DEFINE s == Answered(as, text, target)
<1>4. MachineOK(s) /\ Armed(s)
  BY <1>1, <1>3, AnsweredIs
<1>5. /\ m' = IF full THEN [s EXCEPT !.pc = "compact"] ELSE AtTop(s)
      /\ disk' = IF full THEN disk ELSE Saved(s)
  BY <1>2
<1> HIDE DEF s
<1>6. MachineOK(m') /\ Armed(m') /\ (m'.pc = "check" => m'.check_armed)
  BY <1>4, <1>5, TopTypes, GoTypes DEF Pcs
<1>7. disk' \in Disk
  BY <1>4, <1>5, SavedIs DEF TypeInv
<1>8. call' \in [Calls -> CallState] /\ lane' \in Seq(Calls) /\ back' \in Seq(Calls)
  BY <1>1, DispatchIs
<1> QED BY <1>6, <1>7, <1>8, EmptyTypes DEF Act, TypeInv

\* Every step keeps the types, as long as no wake of its own is counted while
\* the loop waits.
LEMMA StepTypes == ASSUME TypeInv, Calm, [Next]_vars PROVE TypeInv'
<1>1. CASE UNCHANGED vars
  BY <1>1 DEF vars, TypeInv
<1>2. CASE Machine
  BY <1>2, CheckInTypes, CheckInSkippedTypes, ReceiveTypes, HoldBackTypes, BeginTurnTypes,
     BatchBackTypes, BatchTakeTypes, BatchOverTypes, TickTypes, LlmRetryTypes,
     TurnFailsTypes, TurnDroppedTypes, NothingMoreTypes, ActTypes, CompactTypes
     DEF Machine, Loop, Think
<1>3. CASE TimePasses \/ Close \/ Restart
  BY <1>3, TimePassesTypes, CloseTypes, RestartTypes
<1>4. ASSUME NEW c \in Calls, Finish(c) \/ Output(c) PROVE TypeInv'
  BY <1>4, FinishTypes, OutputTypes
<1>5. ASSUME NEW i \in {"wake", "reset"}, Send(i) PROVE TypeInv'
  BY <1>5, SendTypes
<1> QED BY <1>1, <1>2, <1>3, <1>4, <1>5 DEF Next

-----------------------------------------------------------------------------
(* The turns nobody asked for, and the resets still to be taken. *)

\* What k releases may cost: each brings one turn and gives the follow-ups back.
Owed(k) == k * (1 + MaxFollowups)

LEMMA OwedIs ==
    ASSUME NEW k \in Nat
    PROVE  /\ Owed(k) \in Nat /\ Owed(0) = 0
           /\ Owed(k + 1) = Owed(k) + 1 + MaxFollowups
BY Caps DEF Owed

LEMMA OwedGrows ==
    ASSUME NEW k \in Nat, NEW l \in Nat, k <= l
    PROVE  Owed(k) <= Owed(l)
<1> DEFINE d == l - k
           f == 1 + MaxFollowups
<1>1. d \in Nat /\ f \in Nat /\ l = k + d
  BY Caps
<1>2. (k + d) * f = k * f + d * f /\ d * f \in Nat /\ k * f \in Nat
  <2> HIDE DEF d, f
  <2> QED BY <1>1
<1> HIDE DEF d
<1>3. Owed(l) = Owed(k) + d * f /\ Owed(k) = k * f
  BY <1>1, <1>2 DEF Owed
<1> HIDE DEF f
<1> QED BY <1>2, <1>3

\* What woke the loop for this decision: messages only, or first a wake of its
\* own, which is paid for.
WokenBy(s, w, own) ==
    \/ s.synthetic_wakes = 0 /\ \A i \in 1..Len(w) : w[i] = "wake"
    \/ /\ s.synthetic_wakes = 1 /\ w # <<>> /\ w[1] \in {"release", "nudge"}
       /\ \A i \in 2..Len(w) : w[i] = "wake"
       /\ w[1] = "release" => own + 1 <= Owed(s.held_releases)

OwnInv ==
    /\ m.pending \in Seq(Inbound)
    /\ env.own <= Owed(m.held_releases) + m.followups
    /\ m.pc # "decide" => m.synthetic_wakes = 0 /\ batch.wakes = <<>>
    /\ m.pc = "decide" => WokenBy(m, batch.wakes, env.own)

\* The epoch is what the process started on, moved on by the resets it has
\* taken and those that wait.
HistoryInv ==
    /\ env.base + m.session + Resets(m.pending \o inbox) = env.epoch
    /\ HistoryIsCurrent

LEMMA InitOwn == Init => OwnInv /\ HistoryInv
<1> SUFFICES ASSUME Init PROVE OwnInv /\ HistoryInv
  OBVIOUS
<1>1. MachineOK(Fresh)
  BY FreshIs
<1>2. Aside(Fresh, m) /\ m.pc # "decide"
  BY <1>1, AtTopIs DEF Init
<1>3. /\ m.pending = <<>> /\ m.held_releases = 0 /\ m.followups = 0
      /\ m.synthetic_wakes = 0 /\ m.session = 0
  BY <1>2 DEF Aside, Fresh
<1>4. env.own = 0 /\ env.base = 0 /\ env.epoch = 0 /\ batch.wakes = <<>>
      /\ disk.of = 0 /\ disk.epoch = 0 /\ inbox = <<>>
  BY DEF Init, NoBatch
<1>5. Owed(0) = 0
  BY OwedIs
<1>6. Resets(<<>>) = 0
  <2>1. {i \in DOMAIN <<>> : <<>>[i] = "reset"} = {}
    OBVIOUS
  <2> QED BY <2>1, FS_EmptySet DEF Resets
<1>7. m.pending \o inbox = <<>>
  BY <1>3, <1>4
<1> QED BY <1>2, <1>3, <1>4, <1>5, <1>6, <1>7 DEF OwnInv, HistoryInv, HistoryIsCurrent

-----------------------------------------------------------------------------
(* Resets in a queue. *)

LEMMA ResetsCat ==
    ASSUME NEW T, NEW q \in Seq(T), NEW r \in Seq(T)
    PROVE  Resets(q \o r) = Resets(q) + Resets(r)
<1> DEFINE a == Len(q)
           b == Len(r)
           A == {i \in 1..a : q[i] = "reset"}
           B == {i \in 1..b : r[i] = "reset"}
           C == {i + a : i \in B}
<1>1. a \in Nat /\ b \in Nat /\ q \o r \in Seq(T) /\ Len(q \o r) = a + b
      /\ \A i \in 1..(a + b) : (q \o r)[i] = IF i <= a THEN q[i] ELSE r[i - a]
  OBVIOUS
<1>2. {i \in DOMAIN (q \o r) : (q \o r)[i] = "reset"} = A \cup C
  <2> DEFINE D == {i \in 1..(a + b) : (q \o r)[i] = "reset"}
  <2>1. DOMAIN (q \o r) = 1..(a + b)
    BY <1>1
  <2>2. ASSUME NEW i \in D PROVE i \in A \cup C
    <3>1. CASE i <= a
      BY <1>1, <2>2, <3>1
    <3>2. CASE i > a
      <4>1. i - a \in 1..b /\ r[i - a] = "reset" /\ i = (i - a) + a
        BY <1>1, <2>2, <3>2
      <4> QED BY <4>1
    <3> QED BY <1>1, <3>1, <3>2
  <2>3. A \subseteq D
    BY <1>1
  <2>4. ASSUME NEW j \in B PROVE j + a \in D
    <3>1. j + a \in 1..(a + b) /\ ~(j + a <= a) /\ (j + a) - a = j
      BY <1>1
    <3> QED BY <1>1, <3>1, <2>4
  <2> QED BY <2>1, <2>2, <2>3, <2>4
<1>3. IsFiniteSet(A) /\ IsFiniteSet(B)
  <2>1. A \subseteq 1..a /\ B \subseteq 1..b
    OBVIOUS
  <2>2. IsFiniteSet(1..a) /\ IsFiniteSet(1..b)
    <3> HIDE DEF a, b
    <3>1. 0 \in Int /\ 1 \in Int /\ a \in Int /\ b \in Int
      BY <1>1
    <3> QED BY <3>1, FS_Interval
  <2> HIDE DEF A, B, a, b
  <2> QED BY <2>1, <2>2, FS_Subset
<1>4. IsFiniteSet(C) /\ Cardinality(C) = Cardinality(B)
  <2> DEFINE S == B
             f == [i \in S |-> i + a]
  <2>1. f \in [S -> C] /\ \A t \in C : \E i \in S : f[i] = t
    <3>1. \A i \in S : f[i] = i + a /\ i + a \in C
      OBVIOUS
    <3>2. \A t \in C : \E i \in S : t = i + a
      OBVIOUS
    <3>3. f = [i \in S |-> f[i]]
      OBVIOUS
    <3> HIDE DEF C, S, f
    <3> QED BY <3>1, <3>2, <3>3
  <2>2. IsInjective(f)
    <3>1. SUFFICES ASSUME NEW i \in S, NEW j \in S, f[i] = f[j] PROVE i = j
      BY DEF IsInjective
    <3>2. i \in Nat /\ j \in Nat /\ i + a = j + a
      BY <1>1, <3>1
    <3> QED BY <1>1, <3>2
  <2> HIDE DEF f, C, S
  <2>3. f \in Bijection(S, C)
    BY <2>1, <2>2 DEF Bijection, Injection, Surjection
  <2>4. ExistsBijection(S, C)
    BY <2>3 DEF ExistsBijection
  <2> QED BY <1>3, <2>4, FS_Bijection DEF S
<1>5. A \cap C = {}
  BY <1>1
<1>6. Cardinality(A \cup C) = Cardinality(A) + Cardinality(C)
  <2> HIDE DEF A, B, C
  <2>1. Cardinality(A) \in Nat /\ Cardinality(C) \in Nat
    BY <1>3, <1>4, FS_CardinalityType
  <2>2. Cardinality(A \cap C) = 0
    BY <1>5, FS_EmptySet
  <2>3. Cardinality(A \cup C) = Cardinality(A) + Cardinality(C) - Cardinality(A \cap C)
    BY <1>3, <1>4, FS_Union
  <2> QED BY <2>1, <2>2, <2>3
<1>7. Resets(q) = Cardinality(A) /\ Resets(r) = Cardinality(B)
  <2>1. DOMAIN q = 1..a /\ DOMAIN r = 1..b
    OBVIOUS
  <2> QED BY <2>1 DEF Resets
<1> HIDE DEF A, B, C, a, b
<1> QED BY <1>2, <1>4, <1>6, <1>7 DEF Resets

\* One message.
LEMMA ResetsOne ==
    ASSUME NEW i
    PROVE  Resets(<<i>>) = IF i = "reset" THEN 1 ELSE 0
<1>1. CASE i = "reset"
  <2>1. {j \in DOMAIN <<i>> : <<i>>[j] = "reset"} = {1}
    BY <1>1
  <2> QED BY <1>1, <2>1, FS_Singleton DEF Resets
<1>2. CASE i # "reset"
  <2>1. {j \in DOMAIN <<i>> : <<i>>[j] = "reset"} = {}
    BY <1>2
  <2> QED BY <1>2, <2>1, FS_EmptySet DEF Resets
<1> QED BY <1>1, <1>2

-----------------------------------------------------------------------------
(* Most steps change nothing of this but the conversation that is persisted. *)

Quiet ==
    /\ m'.held_releases = m.held_releases /\ m'.followups = m.followups
    /\ m'.session = m.session /\ m'.synthetic_wakes = m.synthetic_wakes
    /\ m.pc # "decide" /\ m'.pc # "decide"
    /\ m'.pending \o inbox' = m.pending \o inbox /\ m'.pending \in Seq(Inbound)
    /\ batch' = batch /\ env' = env
    /\ disk' = disk \/ \E s : s.session = m.session /\ disk' = Saved(s)

\* What is persisted is of the epoch the chain is in, unless a reset waits.
LEMMA SavedIsCurrent ==
    ASSUME TypeInv, HistoryInv, NEW s, s.session = m.session,
           ~HasReset(m.pending \o inbox)
    PROVE  Saved(s).of = env.epoch /\ Saved(s).epoch = env.epoch
<1>1. m.pending \o inbox \in Seq(Inbound \cup Wakes)
  BY QueueTypes
<1>2. Resets(m.pending \o inbox) = 0
  BY <1>1, ResetsCount
<1>3. env.base \in Nat /\ m.session \in Nat /\ env.epoch \in Nat
  BY DEF TypeInv, MachineOK, CountsOK, Env
<1>4. env.base + m.session = env.epoch
  BY <1>2, <1>3 DEF HistoryInv
<1> QED BY <1>4 DEF Saved, HistoryEpoch

LEMMA QuietKeeps ==
    ASSUME TypeInv, OwnInv, HistoryInv, Quiet
    PROVE  OwnInv' /\ HistoryInv'
<1>1. OwnInv'
  BY DEF OwnInv, Quiet
<1>2. HistoryIsCurrent'
  <2>1. HasReset(m'.pending \o inbox') <=> HasReset(m.pending \o inbox)
    BY DEF Quiet
  <2>2. CASE disk' = disk
    BY <2>1, <2>2 DEF HistoryInv, HistoryIsCurrent, HistoryEpoch, Quiet
  <2>3. CASE \E s : s.session = m.session /\ disk' = Saved(s)
    BY <2>1, <2>3, SavedIsCurrent DEF HistoryIsCurrent, HistoryEpoch
  <2> QED BY <2>2, <2>3 DEF Quiet
<1>3. (env.base + m.session + Resets(m.pending \o inbox) = env.epoch)'
  BY DEF HistoryInv, Quiet
<1> QED BY <1>1, <1>2, <1>3 DEF HistoryInv

LEMMA TopAside ==
    ASSUME NEW s, DOMAIN s = Fields
    PROVE  Aside(s, AtTop(s)) /\ AtTop(s).pc \in {"check", "select", "done"}
<1>1. Aside(s, AtTop(s))
  BY DEF Aside, Fields, AtTop
<1>2. AtTop(s).pc \in {"check", "select", "done"}
  BY DEF Fields, AtTop
<1> QED BY <1>1, <1>2

\* The queue after it was read, and after it was left alone.
LEMMA QueueRead ==
    ASSUME TypeInv, OwnInv
    PROVE  /\ m.pending \o inbox \in Seq(Inbound)
           /\ (m.pending \o inbox) \o <<>> = m.pending \o inbox
BY DEF TypeInv, OwnInv

\* Back at the top, with the queue read or left alone and the rest of the
\* struct changed where OwnInv and HistoryInv do not look.
LEMMA TopIsQuiet ==
    ASSUME TypeInv, OwnInv, m.pc # "decide", NEW s, DOMAIN s = Fields,
           s.held_releases = m.held_releases, s.followups = m.followups,
           s.session = m.session, s.synthetic_wakes = m.synthetic_wakes,
           \/ s.pending = m.pending \o inbox /\ inbox' = <<>>
           \/ s.pending = m.pending /\ inbox' = inbox,
           \/ m' = AtTop(s)
           \/ m' = [s EXCEPT !.pc = "compact"]
           \/ m' = s /\ s.pc # "decide",
           batch' = batch, env' = env,
           disk' = disk \/ \E u : u.session = m.session /\ disk' = Saved(u)
    PROVE  Quiet
<1>1. /\ m'.held_releases = m.held_releases /\ m'.followups = m.followups
      /\ m'.session = m.session /\ m'.synthetic_wakes = m.synthetic_wakes
      /\ m'.pending = s.pending /\ m'.pc # "decide"
  <2>1. CASE m' = AtTop(s)
    BY <2>1, TopAside DEF Aside
  <2>2. CASE m' = [s EXCEPT !.pc = "compact"]
    BY <2>2 DEF Fields
  <2>3. CASE m' = s /\ s.pc # "decide"
    BY <2>3
  <2> QED BY <2>1, <2>2, <2>3
<1>2. m'.pending \o inbox' = m.pending \o inbox /\ m'.pending \in Seq(Inbound)
  <2>1. CASE s.pending = m.pending \o inbox /\ inbox' = <<>>
    BY <1>1, <2>1, QueueRead
  <2>2. CASE s.pending = m.pending /\ inbox' = inbox
    BY <1>1, <2>2 DEF OwnInv
  <2> QED BY <2>1, <2>2
<1> QED BY <1>1, <1>2 DEF Quiet

LEMMA QuietSteps ==
    ASSUME TypeInv, OwnInv,
           \/ CheckInSkipped \/ LlmRetry \/ TurnFails \/ TurnDropped \/ NothingMore
           \/ Act \/ Compact \/ TimePasses
           \/ AtAwait /\ \E c \in Calls : Finish(c) \/ Output(c)
    PROVE  Quiet
<1>0. DOMAIN m = Fields
  BY DEF TypeInv, MachineOK
<1>1. CASE CheckInSkipped
  <2> DEFINE u == [m EXCEPT !.check_armed = FALSE, !.pending = m.pending \o inbox]
  <2>1. /\ m' = AtTop(u) /\ inbox' = <<>> /\ batch' = batch /\ env' = env
        /\ disk' = disk /\ m.pc # "decide"
    BY <1>1 DEF CheckInSkipped
  <2>2. /\ DOMAIN u = Fields /\ u.pending = m.pending \o inbox
        /\ u.held_releases = m.held_releases /\ u.followups = m.followups
        /\ u.session = m.session /\ u.synthetic_wakes = m.synthetic_wakes
    BY <1>0 DEF Fields
  <2> HIDE DEF u
  <2> QED BY <2>1, <2>2, TopIsQuiet
<1>2. CASE LlmRetry
  <2> DEFINE u == [m EXCEPT !.pending = m.pending \o inbox]
  <2>1. /\ m' = u /\ inbox' = <<>> /\ batch' = batch /\ env' = env
        /\ disk' = disk /\ m.pc = "think"
    BY <1>2 DEF LlmRetry
  <2>2. /\ DOMAIN u = Fields /\ u.pending = m.pending \o inbox /\ u.pc = m.pc
        /\ u.held_releases = m.held_releases /\ u.followups = m.followups
        /\ u.session = m.session /\ u.synthetic_wakes = m.synthetic_wakes
    BY <1>0 DEF Fields
  <2> HIDE DEF u
  <2>3. m' = u /\ u.pc # "decide"
    BY <2>1, <2>2
  <2> QED BY <2>1, <2>2, <2>3, TopIsQuiet
<1>3. CASE TurnFails
  <2> DEFINE looks == turn.attempt < LlmRetries
             p == IF looks THEN m.pending \o inbox ELSE m.pending
             n == IF turn.nudged THEN Less(m.local_nudges, 1) ELSE m.local_nudges
             u == [m EXCEPT !.pending = p, !.local_nudges = n]
  <2>1. /\ m' = AtTop(u) /\ inbox' = (IF looks THEN <<>> ELSE inbox)
        /\ batch' = batch /\ env' = env /\ disk' = Saved(m) /\ m.pc # "decide"
    BY <1>3 DEF TurnFails
  <2>2. \/ p = m.pending \o inbox /\ inbox' = <<>>
        \/ p = m.pending /\ inbox' = inbox
    BY <2>1
  <2> HIDE DEF p, n
  <2>3. /\ DOMAIN u = Fields /\ u.pending = p
        /\ u.held_releases = m.held_releases /\ u.followups = m.followups
        /\ u.session = m.session /\ u.synthetic_wakes = m.synthetic_wakes
    BY <1>0 DEF Fields
  <2> HIDE DEF u
  <2>4. \E s : s.session = m.session /\ disk' = Saved(s)
    BY <2>1
  <2> QED BY <2>1, <2>2, <2>3, <2>4, TopIsQuiet
<1>4. CASE TurnDropped
  <2> DEFINE u == [m EXCEPT !.pending = m.pending \o inbox,
                            !.rows = m.rows \cup TurnRows, !.talk = TRUE]
  <2>1. /\ m' = AtTop(u) /\ inbox' = <<>> /\ batch' = batch /\ env' = env
        /\ disk' = Saved(u) /\ m.pc # "decide"
    BY <1>4 DEF TurnDropped
  <2>2. /\ DOMAIN u = Fields /\ u.pending = m.pending \o inbox
        /\ u.held_releases = m.held_releases /\ u.followups = m.followups
        /\ u.session = m.session /\ u.synthetic_wakes = m.synthetic_wakes
    BY <1>0 DEF Fields
  <2> HIDE DEF u
  <2>3. \E s : s.session = m.session /\ disk' = Saved(s)
    BY <2>1, <2>2
  <2> QED BY <2>1, <2>2, <2>3, TopIsQuiet
<1>5. CASE NothingMore
  <2> DEFINE u == [m EXCEPT !.pending = m.pending \o inbox]
  <2>1. /\ m' = AtTop(u) /\ inbox' = <<>> /\ batch' = batch /\ env' = env
        /\ disk' = Saved(m) /\ m.pc # "decide"
    BY <1>5 DEF NothingMore
  <2>2. /\ DOMAIN u = Fields /\ u.pending = m.pending \o inbox
        /\ u.held_releases = m.held_releases /\ u.followups = m.followups
        /\ u.session = m.session /\ u.synthetic_wakes = m.synthetic_wakes
    BY <1>0 DEF Fields
  <2> HIDE DEF u
  <2>3. \E s : s.session = m.session /\ disk' = Saved(s)
    BY <2>1
  <2> QED BY <2>1, <2>2, <2>3, TopIsQuiet
<1>6. CASE Act
  <2>1. PICK as \in Answers, text \in BOOLEAN, full \in BOOLEAN, target \in SUBSET Calls :
           LET s == Answered(as, text, target)
           IN /\ m' = IF full THEN [s EXCEPT !.pc = "compact"] ELSE AtTop(s)
              /\ disk' = IF full THEN disk ELSE Saved(s)
    <3>1. PICK as \in Answers, text \in BOOLEAN, full \in BOOLEAN :
             \E target \in Targets(as) :
                LET s == Answered(as, text, target)
                IN /\ m' = IF full THEN [s EXCEPT !.pc = "compact"] ELSE AtTop(s)
                   /\ disk' = IF full THEN disk ELSE Saved(s)
      BY <1>6, Zenon DEF Act
    <3>2. Targets(as) \subseteq SUBSET Calls
      BY DEF Targets
    <3> QED BY <3>1, <3>2
  <2> DEFINE u == Answered(as, text, target)
  <2>2. /\ m' = AtTop(u) \/ m' = [u EXCEPT !.pc = "compact"]
        /\ disk' = disk \/ disk' = Saved(u)
    BY <2>1
  <2>3. inbox' = <<>> /\ batch' = batch /\ env' = env /\ m.pc # "decide"
    BY <1>6 DEF Act
  <2>4. /\ DOMAIN u = Fields /\ u.pending = m.pending \o inbox
        /\ u.held_releases = m.held_releases /\ u.followups = m.followups
        /\ u.session = m.session /\ u.synthetic_wakes = m.synthetic_wakes
    BY <1>0 DEF Fields, Answered
  <2> HIDE DEF u
  <2>5. disk' = disk \/ \E s : s.session = m.session /\ disk' = Saved(s)
    BY <2>2, <2>4
  <2> QED BY <2>2, <2>3, <2>4, <2>5, TopIsQuiet
<1>7. CASE Compact
  <2> DEFINE u == [m EXCEPT !.rows = {}]
  <2>1. /\ m' = AtTop(u) /\ inbox' = inbox /\ batch' = batch /\ env' = env
        /\ disk' = Saved(u) /\ m.pc # "decide"
    BY <1>7 DEF Compact
  <2>2. /\ DOMAIN u = Fields /\ u.pending = m.pending
        /\ u.held_releases = m.held_releases /\ u.followups = m.followups
        /\ u.session = m.session /\ u.synthetic_wakes = m.synthetic_wakes
    BY <1>0 DEF Fields
  <2> HIDE DEF u
  <2>3. \E s : s.session = m.session /\ disk' = Saved(s)
    BY <2>1, <2>2
  <2> QED BY <2>1, <2>2, <2>3, TopIsQuiet
<1>8. CASE TimePasses
  <2> DEFINE u == [m EXCEPT !.idle_since = m.idle_since + 1]
  <2>1. /\ m' = u /\ inbox' = inbox /\ batch' = batch /\ env' = env
        /\ disk' = disk /\ m.pc = "select"
    BY <1>8 DEF TimePasses
  <2>2. /\ DOMAIN u = Fields /\ u.pending = m.pending /\ u.pc = m.pc
        /\ u.held_releases = m.held_releases /\ u.followups = m.followups
        /\ u.session = m.session /\ u.synthetic_wakes = m.synthetic_wakes
    BY <1>0 DEF Fields
  <2> HIDE DEF u
  <2>3. m' = u /\ u.pc # "decide"
    BY <2>1, <2>2
  <2> QED BY <2>1, <2>2, <2>3, TopIsQuiet
<1>9. ASSUME NEW c \in Calls, AtAwait, Finish(c) PROVE Quiet
  BY <1>9 DEF AtAwait, Finish, Quiet, OwnInv
<1>10. ASSUME NEW c \in Calls, AtAwait, Output(c) PROVE Quiet
  <2> DEFINE u == [m EXCEPT !.noted = m.noted \ {c}]
  <2>1. /\ m' = u /\ inbox' = inbox /\ batch' = batch /\ env' = env
        /\ disk' = disk /\ m.pc # "decide"
    BY <1>10 DEF Output, AtAwait
  <2>2. /\ DOMAIN u = Fields /\ u.pending = m.pending /\ u.pc = m.pc
        /\ u.held_releases = m.held_releases /\ u.followups = m.followups
        /\ u.session = m.session /\ u.synthetic_wakes = m.synthetic_wakes
    BY <1>0 DEF Fields
  <2> HIDE DEF u
  <2>3. m' = u /\ u.pc # "decide"
    BY <2>1, <2>2
  <2> QED BY <2>1, <2>2, <2>3, TopIsQuiet
<1> QED BY <1>1, <1>2, <1>3, <1>4, <1>5, <1>6, <1>7, <1>8, <1>9, <1>10

-----------------------------------------------------------------------------
(* The drain takes the wakes in. *)

LEMMA GatherMoves ==
    ASSUME TypeInv, NEW s, MachineOK(s), Armed(s), NEW q \in Seq(Inbound \cup Wakes),
           NEW early \in Nat, Gather(s, q, early)
    PROVE  LET t == TakeMachine(s, q) IN
           /\ m'.pending = <<>> /\ inbox' = <<>> /\ batch'.wakes = TakeBatch(NoBatch, q).wakes
           /\ m'.session = t.session /\ m'.followups = t.followups
           /\ m'.held_releases = t.held_releases
           /\ \/ m'.pc = "decide" /\ m'.synthetic_wakes = t.synthetic_wakes
              \/ /\ m'.pc # "decide" /\ batch'.wakes = <<>>
                 /\ m'.synthetic_wakes = 0 \/ m'.synthetic_wakes = t.synthetic_wakes
<1> DEFINE t == TakeMachine(s, q)
           fed == Fed(Taken(s, q, early), back)
           new == TakeBatch(NoBatch, q)
           got == Got(s, q, early)
           calm == [got EXCEPT !.synthetic_wakes = 0]
<1>0. back \in Seq(Calls)
  BY DEF TypeInv
<1>1. /\ MachineOK(got) /\ SameBudgets(t, got) /\ got.pending = <<>>
  BY <1>0, GotIs
<1>2. new \in Batch
  BY EmptyTypes, TakeBatchIs
<1>3. batch' = [new EXCEPT !.results = fed] /\ inbox' = <<>>
  BY DEF Gather, Taken
<1>4. Gathered(s, q, early)
  BY <1>0, GatherIs
<1> HIDE DEF t, fed, new, got
<1>5. batch'.wakes = new.wakes
  BY <1>2, <1>3 DEF Batch
<1>6. /\ got.session = t.session /\ got.followups = t.followups
      /\ got.held_releases = t.held_releases /\ got.synthetic_wakes = t.synthetic_wakes
  BY <1>1 DEF SameBudgets
<1>7. /\ calm.session = got.session /\ calm.followups = got.followups
      /\ calm.held_releases = got.held_releases /\ calm.synthetic_wakes = 0
      /\ calm.pending = got.pending
  BY <1>1 DEF MachineOK, Fields
<1> HIDE DEF calm
<1>8. CASE m'.pc = "batch" /\ Aside(got, m') /\ new.wakes = <<>>
  BY <1>1, <1>3, <1>5, <1>6, <1>8 DEF Aside, t, new
<1>9. CASE m'.pc = "decide" /\ Aside(got, m')
  BY <1>1, <1>3, <1>5, <1>6, <1>9 DEF Aside, t, new
<1>10. CASE m'.pc \in {"check", "select", "done"} /\ new.wakes = <<>> /\ Aside(calm, m')
  BY <1>1, <1>3, <1>5, <1>6, <1>7, <1>10 DEF Aside, t, new
<1> QED BY <1>4, <1>8, <1>9, <1>10 DEF Gathered, got, new, calm

LEMMA GatherHistory ==
    ASSUME TypeInv, HistoryInv, NEW s, MachineOK(s), Armed(s), s.session = m.session,
           NEW q \in Seq(Inbound \cup Wakes), Resets(q) = Resets(m.pending \o inbox),
           NEW early \in Nat, Gather(s, q, early)
    PROVE  HistoryInv'
<1> DEFINE u == Taken(s, q, early)
<1>1. /\ m.pending \o inbox \in Seq(Inbound \cup Wakes)
      /\ env.base \in Nat /\ m.session \in Nat /\ env.epoch \in Nat
  BY QueueTypes DEF TypeInv, MachineOK, CountsOK, Env
<1>2. Resets(q) \in Nat /\ (HasReset(q) <=> Resets(q) # 0)
      /\ (HasReset(m.pending \o inbox) <=> Resets(m.pending \o inbox) # 0)
  BY <1>1, ResetsCount
<1>3. m'.pending = <<>> /\ inbox' = <<>> /\ m'.session = m.session + Resets(q)
  BY GatherMoves, TakeIs
<1>4. u.session = m.session + Resets(q)
  BY TakenIs, TakeIs DEF SameBudgets
<1>5. Resets(m'.pending \o inbox') = 0
  <2>1. m'.pending \o inbox' = <<>>
    BY <1>3
  <2>2. {i \in DOMAIN <<>> : <<>>[i] = "reset"} = {}
    OBVIOUS
  <2> QED BY <2>1, <2>2, FS_EmptySet DEF Resets
<1>6. /\ env'.base = env.base /\ env'.epoch = env.epoch /\ env'.stale = env.stale
      /\ disk' = IF HasReset(q) THEN Saved(u) ELSE disk
  <2>1. disk' = SavedOnReset(q, u)
    BY DEF Gather, Taken
  <2>2. env' = IF HasReset(q) THEN [env EXCEPT !.own = 0] ELSE env
    BY DEF Gather
  <2>3. env \in Env
    BY DEF TypeInv
  <2> QED BY <2>1, <2>2, <2>3 DEF SavedOnReset, Env
<1> HIDE DEF u
<1>7. HistoryIsCurrent'
  <2>1. CASE HasReset(q)
    <3>1. disk'.of = env.base + (m.session + Resets(q)) /\ disk'.epoch = env.epoch
      BY <1>4, <1>6, <2>1 DEF Saved, HistoryEpoch
    <3>2. env.base + (m.session + Resets(q)) = env.epoch
      BY <1>1, <1>2 DEF HistoryInv
    <3> QED BY <3>1, <3>2 DEF HistoryIsCurrent
  <2>2. CASE ~HasReset(q)
    <3>1. ~HasReset(m.pending \o inbox)
      BY <1>2, <2>2
    <3> QED BY <1>6, <2>2, <3>1 DEF HistoryInv, HistoryIsCurrent, HistoryEpoch
  <2> QED BY <2>1, <2>2
<1> QED BY <1>1, <1>2, <1>3, <1>5, <1>6, <1>7 DEF HistoryInv

\* A queue that holds a wake of the loop's own only at its head, and counted.
Asked(s, q) ==
    \/ s.synthetic_wakes = 0 /\ q \in Seq(Inbound)
    \/ /\ s.synthetic_wakes = 1 /\ q # <<>> /\ q[1] \in {"release", "nudge"}
       /\ \A i \in 2..Len(q) : q[i] \in Inbound
       /\ q[1] = "release" => env.own + 1 <= Owed(s.held_releases)

LEMMA GatherOwn ==
    ASSUME TypeInv, NEW s, MachineOK(s), Armed(s),
           NEW q \in Seq(Inbound \cup Wakes), NEW early \in Nat, Gather(s, q, early),
           Asked(s, q), env.own <= Owed(s.held_releases) + s.followups
    PROVE  OwnInv'
<1> DEFINE t == TakeMachine(s, q)
           new == TakeBatch(NoBatch, q)
<1>1. /\ m'.pending = <<>> /\ batch'.wakes = new.wakes
      /\ m'.followups = t.followups /\ m'.held_releases = t.held_releases
      /\ \/ m'.pc = "decide" /\ m'.synthetic_wakes = t.synthetic_wakes
         \/ /\ m'.pc # "decide" /\ batch'.wakes = <<>>
            /\ m'.synthetic_wakes = 0 \/ m'.synthetic_wakes = t.synthetic_wakes
  BY GatherMoves
<1>2. env'.own = IF HasReset(q) THEN 0 ELSE env.own
  BY DEF Gather, TypeInv, Env
<1>3. /\ ~HasReset(q) => t = s
      /\ HasReset(q) => /\ t.followups = 0 /\ t.held_releases = 0
                        /\ t.synthetic_wakes = 0
  BY TakeIs
<1>4. /\ new.wakes \in Seq(Wakes)
      /\ ~HasReset(q) => new.wakes = q
      /\ HasReset(q) => \A i \in 1..Len(new.wakes) : \E j \in 2..Len(q) : new.wakes[i] = q[j]
  <2>1. NoBatch.wakes \o q = q
    BY DEF NoBatch
  <2> QED BY <2>1, EmptyTypes, TakeBatchIs DEF Batch
<1>5. m'.pending \in Seq(Inbound)
  BY <1>1
<1>6. \A i \in 2..Len(q) : q[i] \in Inbound
  BY DEF Asked
<1> HIDE DEF t, new
<1>7. CASE HasReset(q)
  <2>1. \A i \in 1..Len(new.wakes) : new.wakes[i] = "wake"
    BY <1>4, <1>6, <1>7 DEF Inbound, Wakes
  <2>2. env'.own = 0 /\ m'.held_releases = 0 /\ m'.followups = 0
    BY <1>1, <1>2, <1>3, <1>7
  <2>3. Owed(0) = 0
    BY OwedIs
  <2> QED BY <1>1, <1>3, <1>5, <1>7, <2>1, <2>2, <2>3 DEF OwnInv, WokenBy
<1>8. CASE ~HasReset(q)
  <2>1. \A i \in 1..Len(q) : q[i] # "reset"
    BY <1>8, ResetsCount
  <2>2. env'.own = env.own /\ t = s /\ batch'.wakes = q
    BY <1>1, <1>2, <1>3, <1>4, <1>8
  <2>3. WokenBy(s, q, env.own)
    <3>1. CASE s.synthetic_wakes = 0 /\ q \in Seq(Inbound)
      BY <2>1, <3>1 DEF WokenBy, Inbound
    <3>2. CASE s.synthetic_wakes = 1 /\ q # <<>> /\ q[1] \in {"release", "nudge"}
               /\ (q[1] = "release" => env.own + 1 <= Owed(s.held_releases))
      <4>1. \A i \in 2..Len(q) : q[i] = "wake"
        BY <1>6, <2>1 DEF Inbound
      <4> QED BY <3>2, <4>1 DEF WokenBy
    <3> QED BY <3>1, <3>2 DEF Asked
  <2>4. q = <<>> => s.synthetic_wakes = 0
    BY DEF Asked
  <2>5. env'.own <= Owed(m'.held_releases) + m'.followups
    BY <1>1, <2>2
  <2>6. m'.pc = "decide" => WokenBy(m', batch'.wakes, env'.own)
    BY <1>1, <2>2, <2>3 DEF WokenBy
  <2>7. m'.pc # "decide" => m'.synthetic_wakes = 0 /\ batch'.wakes = <<>>
    BY <1>1, <2>2, <2>4
  <2> QED BY <1>5, <2>5, <2>6, <2>7 DEF OwnInv
<1> QED BY <1>7, <1>8

LEMMA ReceiveKeeps ==
    ASSUME TypeInv, OwnInv, HistoryInv, Receive
    PROVE  OwnInv' /\ HistoryInv'
<1>0. /\ MachineOK(m) /\ Armed(m) /\ back \in Seq(Calls) /\ inbox \in Seq(Inbound)
      /\ m.pc = "select" /\ m.pending \in Seq(Inbound)
  BY DEF TypeInv, OwnInv, Receive
<1>1. CASE Gather(m, m.pending \o inbox, 0)
  <2>1. Asked(m, m.pending \o inbox)
    BY <1>0, QueueRead DEF OwnInv, Asked
  <2> QED BY <1>0, <1>1, <2>1, QueueTypes, GatherOwn, GatherHistory DEF OwnInv
<1>2. CASE /\ m.pending = <<>> /\ back # <<>>
           /\ Gather(m, inbox, IF HasReset(inbox) THEN Len(Fed(m, <<Head(back)>>)) ELSE 0)
  <2>1. <<Head(back)>> \in Seq(Calls)
    BY <1>0, <1>2
  <2>2. Fed(m, <<Head(back)>>) \in Seq(Calls)
    BY <2>1, FedIs
  <2> DEFINE early == IF HasReset(inbox) THEN Len(Fed(m, <<Head(back)>>)) ELSE 0
  <2>3. early \in Nat
    BY <2>2
  <2>4. Gather(m, inbox, early)
    BY <1>2
  <2> HIDE DEF early
  <2>5. Asked(m, inbox)
    BY <1>0 DEF OwnInv, Asked
  <2>6. m.pending \o inbox = inbox
    BY <1>0, <1>2
  <2> QED BY <1>0, <2>3, <2>4, <2>5, <2>6, QueueTypes, GatherOwn, GatherHistory DEF OwnInv
<1>3. CASE m.pending \o inbox = <<>> /\ Gather([m EXCEPT !.open = FALSE], <<>>, 0)
  <2> DEFINE u == [m EXCEPT !.open = FALSE]
  <2>1. FlagsOK(u) /\ DOMAIN u = Fields
    BY <1>0 DEF MachineOK, FlagsOK, Fields
  <2>2. CountsOK(u)
    BY <1>0 DEF MachineOK, CountsOK, Fields
  <2>3. SetsOK(u)
    BY <1>0 DEF MachineOK, SetsOK, Fields
  <2>4. Armed(u)
    BY <1>0 DEF MachineOK, Armed, Fields
  <2>5. MachineOK(u) /\ Gather(u, <<>>, 0)
    BY <1>3, <2>1, <2>2, <2>3 DEF MachineOK
  <2>6. <<>> \in Seq(Inbound \cup Wakes) /\ <<>> \in Seq(Inbound)
    OBVIOUS
  <2>7. /\ u.session = m.session /\ u.synthetic_wakes = m.synthetic_wakes
        /\ u.held_releases = m.held_releases /\ u.followups = m.followups
    BY <1>0 DEF MachineOK, Fields
  <2> HIDE DEF u
  <2>8. Asked(u, <<>>)
    BY <1>0, <2>6, <2>7 DEF OwnInv, Asked
  <2>9. env.own <= Owed(u.held_releases) + u.followups
    BY <2>7 DEF OwnInv
  <2>10. Resets(<<>>) = Resets(m.pending \o inbox)
    BY <1>3
  <2>11. OwnInv'
    BY <2>4, <2>5, <2>6, <2>8, <2>9, GatherOwn
  <2>12. HistoryInv'
    BY <2>4, <2>5, <2>6, <2>7, <2>10, GatherHistory
  <2> QED BY <2>11, <2>12
<1> QED BY <1>1, <1>2, <1>3 DEF Receive

LEMMA TickKeeps ==
    ASSUME TypeInv, OwnInv, HistoryInv, Tick
    PROVE  OwnInv' /\ HistoryInv'
<1>1. PICK quiet \in SUBSET MayBeQuiet :
         Gather(Watch(quiet), Watch(quiet).pending \o inbox, 0)
  BY DEF Tick
<1> DEFINE u == Watch(quiet)
<1>2. quiet \in SUBSET Calls
  BY <1>1 DEF MayBeQuiet
<1>3. /\ MachineOK(m) /\ Armed(m) /\ m.synthetic_wakes = 0 /\ m.pending = <<>>
      /\ inbox \in Seq(Inbound)
  BY DEF TypeInv, OwnInv, Tick
<1>4. /\ MachineOK(u) /\ Armed(u) /\ Watched(quiet)
      /\ u.followups = m.followups /\ u.session = m.session
  BY <1>2, <1>3, WatchIs
<1>5. /\ m.held_releases \in Nat /\ m.followups \in 0..MaxFollowups /\ env.own \in Nat
  BY <1>3 DEF MachineOK, CountsOK, TypeInv, Env
<1>6. \/ /\ u.pending = <<"release">> /\ u.synthetic_wakes = 1
         /\ u.held_releases = m.held_releases + 1
      \/ /\ u.pending = <<"nudge">> /\ u.synthetic_wakes = 1
         /\ u.held_releases = m.held_releases
      \/ /\ u.pending = <<>> /\ u.synthetic_wakes = 0
         /\ u.held_releases = m.held_releases
  BY <1>3, <1>4 DEF Watched
<1> HIDE DEF u
<1>7. u.pending \o inbox \in Seq(Inbound \cup Wakes)
  <2>1. u.pending \in Seq(Inbound \cup Wakes)
    BY <1>4 DEF MachineOK, SetsOK
  <2> QED BY <2>1, QueueTypes
<1>8. Resets(u.pending \o inbox) = Resets(m.pending \o inbox)
  <2>1. m.pending \o inbox = inbox
    BY <1>3
  <2>2. CASE u.pending = <<>>
    <3>1. u.pending \o inbox = inbox
      BY <1>3, <2>2
    <3> QED BY <2>1, <3>1
  <2>3. CASE u.pending \in {<<"release">>, <<"nudge">>}
    <3>1. Resets(u.pending) = 0
      BY <2>3, ResetsOne
    <3>2. u.pending \in Seq(Inbound \cup Wakes) /\ inbox \in Seq(Inbound \cup Wakes)
      BY <1>4, QueueTypes DEF MachineOK, SetsOK
    <3>3. Resets(u.pending \o inbox) = Resets(u.pending) + Resets(inbox)
      BY <3>2, ResetsCat
    <3>4. Resets(inbox) \in Nat
      BY <3>2, ResetsCount
    <3> QED BY <2>1, <3>1, <3>3, <3>4
  <2> QED BY <1>6, <2>2, <2>3
<1>9. env.own <= Owed(m.held_releases) + m.followups
  BY DEF OwnInv
<1>10. /\ Owed(m.held_releases) \in Nat
       /\ Owed(m.held_releases + 1) = Owed(m.held_releases) + 1 + MaxFollowups
  BY <1>5, OwedIs
<1>11. /\ env.own <= Owed(u.held_releases) + u.followups
       /\ u.pending = <<"release">> => env.own + 1 <= Owed(u.held_releases)
  <2>1. CASE u.held_releases = m.held_releases + 1
    <3> DEFINE o == Owed(m.held_releases)
               v == Owed(u.held_releases)
    <3>1. v = o + 1 + MaxFollowups /\ o \in Nat
      BY <1>10, <2>1
    <3> HIDE DEF o, v
    <3>2. env.own <= o + m.followups
      BY <1>9 DEF o
    <3>3. env.own <= v + u.followups /\ env.own + 1 <= v
      BY <1>4, <1>5, <3>1, <3>2, Caps
    <3> QED BY <3>3 DEF v
  <2>2. CASE u.held_releases = m.held_releases /\ u.pending # <<"release">>
    BY <1>4, <1>9, <2>2
  <2>3. <<"nudge">> # <<"release">> /\ <<>> # <<"release">>
    OBVIOUS
  <2> QED BY <1>6, <2>1, <2>2, <2>3
<1>12. Asked(u, u.pending \o inbox)
  <2>1. CASE u.pending = <<>> /\ u.synthetic_wakes = 0
    BY <1>3, <2>1 DEF Asked
  <2>2. ASSUME NEW w \in {"release", "nudge"}, u.pending = <<w>>, u.synthetic_wakes = 1
        PROVE  Asked(u, u.pending \o inbox)
    <3> DEFINE q == <<w>> \o inbox
    <3>1. /\ q # <<>> /\ q[1] = w
          /\ \A i \in 2..Len(q) : q[i] \in Inbound
      BY <1>3
    <3>2. w = "release" => env.own + 1 <= Owed(u.held_releases)
      BY <1>11, <2>2
    <3> HIDE DEF q
    <3>3. Asked(u, q)
      BY <2>2, <3>1, <3>2 DEF Asked
    <3> QED BY <2>2, <3>3 DEF q
  <2> QED BY <1>6, <2>1, <2>2
<1>13. Gather(u, u.pending \o inbox, 0)
  BY <1>1 DEF u
<1>14. OwnInv'
  BY <1>4, <1>7, <1>11, <1>12, <1>13, GatherOwn
<1>15. HistoryInv'
  BY <1>4, <1>7, <1>8, <1>13, GatherHistory
<1> QED BY <1>14, <1>15

-----------------------------------------------------------------------------
(* The other steps. *)

\* Nothing HistoryInv looks at changes.
LEMMA HistorySame ==
    ASSUME HistoryInv, m'.session = m.session, m'.pending = m.pending, inbox' = inbox,
           disk' = disk, env'.base = env.base, env'.epoch = env.epoch,
           env'.stale = env.stale
    PROVE  HistoryInv'
BY DEF HistoryInv, HistoryIsCurrent, HistoryEpoch

LEMMA CheckInKeeps ==
    ASSUME TypeInv, OwnInv, HistoryInv, CheckIn
    PROVE  OwnInv' /\ HistoryInv'
<1>1. DOMAIN m = Fields /\ m.followups \in Nat /\ m.held_releases \in Nat /\ env \in Env
  BY Caps DEF TypeInv, MachineOK, CountsOK
<1>2. m' = [m EXCEPT !.check_armed = FALSE, !.followups = m.followups + 1,
                     !.was_idle = FALSE, !.idle_since = 0,
                     !.check_ins = m.check_ins + 1, !.notices = FALSE,
                     !.pc = "think"]
  BY DEF CheckIn
<1>3. /\ m'.followups = m.followups + 1 /\ m'.held_releases = m.held_releases
      /\ m'.synthetic_wakes = m.synthetic_wakes /\ m'.pc = "think"
      /\ m'.pending = m.pending /\ m'.session = m.session
  BY <1>1, <1>2 DEF Fields
<1>4. /\ env'.own = env.own + 1 /\ env'.base = env.base /\ env'.epoch = env.epoch
      /\ env'.stale = env.stale
  BY <1>1 DEF CheckIn, Env
<1>5. inbox' = inbox /\ batch' = batch /\ disk' = disk /\ m.pc = "check"
  BY DEF CheckIn
<1>6. env'.own <= Owed(m'.held_releases) + m'.followups
  <2> DEFINE o == Owed(m.held_releases)
  <2>1. o \in Nat /\ env.own \in Nat /\ env.own <= o + m.followups
    BY <1>1, OwedIs DEF OwnInv, Env
  <2>2. Owed(m'.held_releases) = o
    BY <1>3
  <2> HIDE DEF o
  <2> QED BY <1>1, <1>3, <1>4, <2>1, <2>2
<1>7. OwnInv'
  BY <1>3, <1>5, <1>6 DEF OwnInv
<1> QED BY <1>3, <1>4, <1>5, <1>7, HistorySame

LEMMA BatchBackKeeps ==
    ASSUME TypeInv, OwnInv, HistoryInv, BatchBack
    PROVE  OwnInv' /\ HistoryInv'
<1> DEFINE q == <<Head(back)>>
           b == BackMachine(m, q)
           n == b.next_id + Len(Fed(m, q))
<1>1. /\ MachineOK(m) /\ back \in Seq(Calls) /\ back # <<>> /\ batch \in Batch
  BY DEF TypeInv, BatchBack
<1>2. q \in Seq(Calls)
  BY <1>1
<1>3. MachineOK(b) /\ SameBudgets(m, b) /\ b.pending = m.pending
  BY <1>1, <1>2, BackIs
<1>4. PICK pc \in {"batch", "decide"} : m' = [b EXCEPT !.next_id = n, !.pc = pc]
  BY DEF BatchBack
<1>5. batch'.wakes = batch.wakes
  BY <1>1 DEF BatchBack, Batch
<1>6. inbox' = inbox /\ disk' = disk /\ env' = env /\ m.pc = "batch"
  BY DEF BatchBack
<1> HIDE DEF b, n
<1>7. /\ m'.pending = b.pending /\ m'.session = b.session /\ m'.followups = b.followups
      /\ m'.held_releases = b.held_releases /\ m'.synthetic_wakes = b.synthetic_wakes
  BY <1>3, <1>4 DEF MachineOK, Fields
<1>8. /\ m'.pending = m.pending /\ m'.session = m.session /\ m'.followups = m.followups
      /\ m'.held_releases = m.held_releases /\ m'.synthetic_wakes = m.synthetic_wakes
  BY <1>3, <1>7 DEF SameBudgets
<1>9. OwnInv'
  <2>1. m.synthetic_wakes = 0 /\ batch.wakes = <<>>
    BY <1>6 DEF OwnInv
  <2>2. WokenBy(m', batch'.wakes, env'.own)
    BY <1>5, <1>8, <2>1 DEF WokenBy
  <2> QED BY <1>5, <1>6, <1>8, <2>1, <2>2 DEF OwnInv
<1> QED BY <1>6, <1>8, <1>9, HistorySame

LEMMA BatchTakeKeeps ==
    ASSUME TypeInv, OwnInv, HistoryInv, BatchTake
    PROVE  OwnInv' /\ HistoryInv'
<1> DEFINE q == <<Head(inbox)>>
           t == TakeMachine(m, q)
           new == TakeBatch(batch, q)
<1>1. /\ MachineOK(m) /\ batch \in Batch /\ inbox # <<>> /\ env \in Env
      /\ m.pending \in Seq(Inbound) /\ inbox \in Seq(Inbound)
      /\ m.synthetic_wakes = 0 /\ batch.wakes = <<>>
      /\ env.base \in Nat /\ m.session \in Nat /\ env.epoch \in Nat
  BY DEF TypeInv, BatchTake, OwnInv, MachineOK, CountsOK, Env
<1>2. /\ q \in Seq(Inbound \cup Wakes) /\ q \in Seq(Inbound)
      /\ Tail(inbox) \in Seq(Inbound) /\ inbox = q \o Tail(inbox)
  BY <1>1, HeadTypes
<1>3. /\ MachineOK(t) /\ SameCalls(m, t) /\ t.session = m.session + Resets(q)
      /\ ~HasReset(q) => t = m
      /\ HasReset(q) => t.followups = 0 /\ t.held_releases = 0 /\ t.synthetic_wakes = 0
  BY <1>1, <1>2, TakeIs
<1>4. /\ new \in Batch
      /\ ~HasReset(q) => new.wakes = batch.wakes \o q
      /\ HasReset(q) => \A i \in 1..Len(new.wakes) : \E j \in 2..Len(q) : new.wakes[i] = q[j]
  BY <1>1, <1>2, TakeBatchIs
<1>5. Resets(q) \in Nat /\ (HasReset(q) <=> Resets(q) # 0)
  BY <1>2, ResetsCount
<1>6. /\ m' = [t EXCEPT !.pc = "decide"] /\ batch' = new /\ inbox' = Tail(inbox)
      /\ disk' = SavedOnReset(q, t)
      /\ env' = IF HasReset(q) THEN [env EXCEPT !.own = 0] ELSE env
  BY DEF BatchTake
<1> HIDE DEF t, new
<1>7. /\ m'.pending = m.pending /\ m'.session = t.session /\ m'.followups = t.followups
      /\ m'.held_releases = t.held_releases /\ m'.synthetic_wakes = t.synthetic_wakes
      /\ m'.pc = "decide"
  BY <1>3, <1>6 DEF MachineOK, Fields, SameCalls
<1>8. /\ env'.base = env.base /\ env'.epoch = env.epoch /\ env'.stale = env.stale
      /\ env'.own = IF HasReset(q) THEN 0 ELSE env.own
  BY <1>1, <1>6 DEF Env
<1>9. m'.synthetic_wakes = 0
  BY <1>1, <1>3, <1>7
<1>10. \A i \in 1..Len(new.wakes) : new.wakes[i] = "wake"
  <2>1. CASE HasReset(q)
    <3>1. Len(q) = 1
      OBVIOUS
    <3> HIDE DEF q
    <3>2. Len(new.wakes) = 0
      BY <1>4, <2>1, <3>1 DEF Batch
    <3> QED BY <3>2
  <2>2. CASE ~HasReset(q)
    <3>1. Head(inbox) # "reset"
      <4>1. Len(q) = 1 /\ q[1] = Head(inbox)
        OBVIOUS
      <4>2. \A i \in 1..Len(q) : q[i] # "reset"
        BY <1>2, <2>2, ResetsCount
      <4> HIDE DEF q
      <4> QED BY <4>1, <4>2
    <3>2. Head(inbox) \in Inbound
      BY <1>1
    <3>3. new.wakes = q
      BY <1>1, <1>2, <1>4, <2>2
    <3> QED BY <3>1, <3>2, <3>3 DEF Inbound
  <2> QED BY <2>1, <2>2
<1>11. OwnInv'
  <2>1. WokenBy(m', batch'.wakes, env'.own)
    BY <1>6, <1>9, <1>10 DEF WokenBy
  <2>2. env'.own <= Owed(m'.held_releases) + m'.followups
    <3>1. CASE HasReset(q)
      <4>1. m'.held_releases = 0 /\ m'.followups = 0 /\ env'.own = 0
        BY <1>3, <1>7, <1>8, <3>1
      <4>2. Owed(0) = 0
        BY OwedIs
      <4> QED BY <4>1, <4>2
    <3>2. CASE ~HasReset(q)
      BY <1>3, <1>7, <1>8, <3>2 DEF OwnInv
    <3> QED BY <3>1, <3>2
  <2> QED BY <1>1, <1>7, <2>1, <2>2 DEF OwnInv
<1> DEFINE p == m.pending \o inbox
           r == m.pending \o Tail(inbox)
<1> HIDE DEF q
<1>12. /\ Resets(p) = Resets(m.pending) + (Resets(q) + Resets(Tail(inbox)))
       /\ Resets(r) = Resets(m.pending) + Resets(Tail(inbox))
       /\ p \in Seq(Inbound) /\ r \in Seq(Inbound)
  <2>1. Resets(inbox) = Resets(q) + Resets(Tail(inbox))
    BY <1>2, ResetsCat
  <2>2. Resets(p) = Resets(m.pending) + Resets(inbox)
    BY <1>1, ResetsCat
  <2>3. Resets(r) = Resets(m.pending) + Resets(Tail(inbox))
    BY <1>1, <1>2, ResetsCat
  <2>4. p \in Seq(Inbound) /\ r \in Seq(Inbound)
    BY <1>1, <1>2
  <2> QED BY <2>1, <2>2, <2>3, <2>4
<1>13. /\ Resets(m.pending) \in Nat /\ Resets(Tail(inbox)) \in Nat
       /\ (HasReset(p) <=> Resets(p) # 0) /\ (HasReset(r) <=> Resets(r) # 0)
  BY <1>1, <1>2, <1>12, ResetsCount
<1>14. m'.pending \o inbox' = r
  BY <1>6, <1>7
<1>15. env.base + m.session + Resets(p) = env.epoch
  BY DEF HistoryInv
<1> HIDE DEF p, r
<1>16. env'.base + m'.session + Resets(m'.pending \o inbox') = env'.epoch
  BY <1>1, <1>3, <1>5, <1>7, <1>8, <1>12, <1>13, <1>14, <1>15
<1>17. HistoryIsCurrent'
  <2>1. CASE HasReset(q)
    <3>1. disk'.of = env.base + (m.session + Resets(q)) /\ disk'.epoch = env.epoch
      BY <1>3, <1>6, <2>1 DEF Saved, SavedOnReset, HistoryEpoch
    <3>2. Resets(r) = 0 => env.base + (m.session + Resets(q)) = env.epoch
      <4>1. SUFFICES ASSUME Resets(r) = 0
                     PROVE  env.base + (m.session + Resets(q)) = env.epoch
        OBVIOUS
      <4>2. Resets(m.pending) = 0 /\ Resets(Tail(inbox)) = 0
        BY <1>12, <1>13, <4>1
      <4>3. Resets(p) = Resets(q)
        BY <1>5, <1>12, <4>2
      <4> QED BY <1>1, <1>5, <1>15, <4>3
    <3>3. disk'.of = disk'.epoch \/ HasReset(r)
      BY <1>13, <3>1, <3>2
    <3> QED BY <1>14, <3>3 DEF HistoryIsCurrent
  <2>2. CASE ~HasReset(q)
    <3>1. HasReset(p) <=> HasReset(r)
      BY <1>5, <1>12, <1>13, <2>2
    <3>2. disk' = disk
      BY <1>6, <2>2 DEF SavedOnReset
    <3> QED BY <1>8, <1>14, <3>1, <3>2 DEF HistoryInv, HistoryIsCurrent, HistoryEpoch, p
  <2> QED BY <2>1, <2>2
<1> QED BY <1>11, <1>16, <1>17 DEF HistoryInv

LEMMA BatchOverKeeps ==
    ASSUME TypeInv, OwnInv, HistoryInv, BatchOver
    PROVE  OwnInv' /\ HistoryInv'
<1>1. DOMAIN m = Fields /\ m.pc = "batch"
  BY DEF TypeInv, MachineOK, BatchOver
<1>2. /\ m'.pending = m.pending /\ m'.session = m.session /\ m'.followups = m.followups
      /\ m'.held_releases = m.held_releases /\ m'.synthetic_wakes = m.synthetic_wakes
  BY <1>1 DEF BatchOver, Fields
<1>3. inbox' = inbox /\ disk' = disk /\ env' = env /\ batch' = batch
  BY DEF BatchOver
<1>4. m.synthetic_wakes = 0 /\ batch.wakes = <<>>
  BY <1>1 DEF OwnInv
<1>5. WokenBy(m', batch'.wakes, env'.own)
  BY <1>2, <1>3, <1>4 DEF WokenBy
<1>6. OwnInv'
  BY <1>2, <1>3, <1>4, <1>5 DEF OwnInv
<1> QED BY <1>2, <1>3, <1>6, HistorySame

LEMMA HoldBackKeeps ==
    ASSUME TypeInv, OwnInv, HistoryInv, HoldBack
    PROVE  OwnInv' /\ HistoryInv'
<1> DEFINE h == m.held \o batch.results
           u == [m EXCEPT !.held = h, !.notices = FALSE, !.synthetic_wakes = 0]
<1>1. DOMAIN m = Fields
  BY DEF TypeInv, MachineOK
<1>2. m' = AtTop(u) /\ inbox' = inbox /\ disk' = disk /\ env' = env /\ batch' = NoBatch
  BY DEF HoldBack
<1> HIDE DEF h
<1>3. /\ DOMAIN u = Fields /\ u.pending = m.pending /\ u.session = m.session
      /\ u.followups = m.followups /\ u.held_releases = m.held_releases
      /\ u.synthetic_wakes = 0
  BY <1>1 DEF Fields
<1> HIDE DEF u
<1>4. /\ m'.pending = m.pending /\ m'.session = m.session /\ m'.followups = m.followups
      /\ m'.held_releases = m.held_releases /\ m'.synthetic_wakes = 0 /\ m'.pc # "decide"
  BY <1>2, <1>3, TopAside DEF Aside
<1>5. batch'.wakes = <<>>
  BY <1>2 DEF NoBatch
<1>6. OwnInv'
  BY <1>2, <1>4, <1>5 DEF OwnInv
<1> QED BY <1>2, <1>4, <1>6, HistorySame

\* A turn that a message or a nudge brought was asked for; one that a release
\* brought is paid for; any other one is a follow-up.
LEMMA BeginTurnKeeps ==
    ASSUME TypeInv, OwnInv, HistoryInv, BeginTurn
    PROVE  OwnInv' /\ HistoryInv'
<1> DEFINE w == batch.wakes
           woken == w # <<>>
           fs == IF woken THEN 0 ELSE m.followups + 1
           ci == IF woken THEN 0 ELSE m.check_ins
           hd == IF woken THEN <<>> ELSE m.held
           u == [m EXCEPT !.held_releases = ReleasesLeft, !.synthetic_wakes = 0,
                          !.followups = fs, !.held = hd,
                          !.was_idle = FALSE, !.idle_since = 0,
                          !.awaiting = m.awaiting /\ ~woken,
                          !.check_ins = ci, !.notices = FALSE, !.pc = "think"]
           asked == {"wake", "nudge"} \cap Range(w) # {}
<1>1. /\ DOMAIN m = Fields /\ env \in Env /\ m.followups \in Nat /\ m.held_releases \in Nat
      /\ w \in Seq(Wakes) /\ env.own \in Nat
  BY Caps DEF TypeInv, MachineOK, CountsOK, Batch, Env
<1>2. /\ m' = u /\ inbox' = inbox /\ disk' = disk /\ batch' = NoBatch
      /\ env' = [env EXCEPT !.own = IF asked THEN 0 ELSE env.own + 1]
      /\ m.pc = "decide"
  BY DEF BeginTurn
<1>3. WokenBy(m, w, env.own) /\ env.own <= Owed(m.held_releases) + m.followups
  BY <1>2 DEF OwnInv
<1> HIDE DEF ci, hd, fs
<1>4. /\ m'.pending = m.pending /\ m'.session = m.session /\ m'.followups = fs
      /\ m'.held_releases = ReleasesLeft /\ m'.synthetic_wakes = 0 /\ m'.pc = "think"
  BY <1>1, <1>2 DEF Fields
<1>5. /\ env'.own = (IF asked THEN 0 ELSE env.own + 1)
      /\ env'.base = env.base /\ env'.epoch = env.epoch /\ env'.stale = env.stale
  <2> HIDE DEF asked
  <2> QED BY <1>1, <1>2 DEF Env
<1>6. batch'.wakes = <<>>
  BY <1>2 DEF NoBatch
<1>7. ReleasesLeft \in Nat
  BY <1>1 DEF ReleasesLeft
<1>8. env'.own <= Owed(m'.held_releases) + m'.followups
  <2>1. CASE asked
    <3>1. Owed(ReleasesLeft) \in Nat
      BY <1>7, OwedIs
    <3>3. fs \in Nat
      <4> HIDE DEF woken
      <4> QED BY <1>1 DEF fs
    <3>2. env'.own = 0
      BY <1>5, <2>1
    <3> HIDE DEF asked
    <3> DEFINE o == Owed(ReleasesLeft)
    <3>4. m'.followups = fs /\ Owed(m'.held_releases) = o /\ o \in Nat
      BY <1>4, <3>1
    <3> HIDE DEF o
    <3> QED BY <3>2, <3>3, <3>4
  <2>2. CASE ~asked
    <3>1. \A i \in 1..Len(w) : w[i] \notin {"wake", "nudge"}
      <4>1. SUFFICES ASSUME NEW i \in 1..Len(w), w[i] \in {"wake", "nudge"} PROVE FALSE
        OBVIOUS
      <4>2. i \in DOMAIN w
        BY <1>1
      <4> HIDE DEF w
      <4>3. w[i] \in Range(w)
        BY <4>2 DEF Range
      <4> QED BY <2>2, <4>1, <4>3
    <3>2. env'.own = env.own + 1
      BY <1>5, <2>2
    <3> HIDE DEF asked
    <3>3. CASE w = <<>>
      <4>1. fs = m.followups + 1
        BY <3>3 DEF fs
      <4>2. ReleasesLeft = m.held_releases
        <5>1. m.synthetic_wakes = 0
          BY <1>3, <3>3 DEF WokenBy
        <5> QED BY <3>3, <5>1 DEF ReleasesLeft
      <4> DEFINE o == Owed(m.held_releases)
      <4>3. o \in Nat /\ env.own <= o + m.followups
        BY <1>1, <1>3, OwedIs
      <4>4. Owed(m'.held_releases) = o
        BY <1>4, <4>2
      <4> HIDE DEF o
      <4> QED BY <1>1, <1>4, <3>2, <4>1, <4>3, <4>4
    <3>4. CASE w # <<>>
      <4>1. fs = 0 /\ 1 \in 1..Len(w)
        BY <1>1, <3>4 DEF fs
      <4>2. w[1] # "wake"
        BY <3>1, <4>1
      <4>3. /\ m.synthetic_wakes = 1 /\ w[1] = "release"
            /\ env.own + 1 <= Owed(m.held_releases)
            /\ \A i \in 2..Len(w) : w[i] = "wake"
        BY <1>3, <3>1, <4>1, <4>2 DEF WokenBy
      <4>4. Len(w) = 1
        <5>1. Len(w) \in Nat /\ Len(w) >= 1
          BY <1>1, <4>1
        <5>2. 2 \notin 1..Len(w)
          <6>1. SUFFICES ASSUME 2 \in 1..Len(w) PROVE FALSE
            OBVIOUS
          <6>2. 2 \in 2..Len(w)
            BY <5>1, <6>1
          <6> QED BY <3>1, <4>3, <6>1, <6>2
        <5> DEFINE l == Len(w)
        <5>3. l \in Nat /\ l >= 1 /\ 2 \notin 1..l
          BY <5>1, <5>2
        <5> HIDE DEF l
        <5>4. l = 1
          BY <5>3
        <5> QED BY <5>4 DEF l
      <4>5. ReleasesLeft = m.held_releases
        BY <4>3, <4>4 DEF ReleasesLeft
      <4> DEFINE o == Owed(m.held_releases)
      <4>6. o \in Nat /\ env.own + 1 <= o /\ Owed(m'.held_releases) = o
        BY <1>1, <1>4, <4>3, <4>5, OwedIs
      <4> HIDE DEF o
      <4> QED BY <1>1, <1>4, <3>2, <4>1, <4>6
    <3> QED BY <3>3, <3>4
  <2> QED BY <2>1, <2>2
<1>9. OwnInv'
  BY <1>4, <1>6, <1>8 DEF OwnInv
<1> QED BY <1>2, <1>4, <1>5, <1>9, HistorySame

\* A message put behind the inbox is behind all that is pending.
LEMMA AppendedLater ==
    ASSUME NEW q \in Seq(Inbound), NEW r \in Seq(Inbound), NEW t \in Seq(Inbound)
    PROVE  (q \o r) \o t = q \o (r \o t)
BY ConcatAssociative

LEMMA SendKeeps ==
    ASSUME TypeInv, OwnInv, HistoryInv, NEW i \in {"wake", "reset"}, Send(i), AtAwait
    PROVE  OwnInv' /\ HistoryInv'
<1>1. /\ env \in Env /\ m.pending \in Seq(Inbound) /\ inbox \in Seq(Inbound)
      /\ env.base \in Nat /\ m.session \in Nat /\ env.epoch \in Nat
  BY DEF TypeInv, OwnInv, MachineOK, CountsOK, Env
<1> DEFINE n == env.sent + 1
           e == IF i = "reset" THEN env.epoch + 1 ELSE env.epoch
           p == m.pending \o inbox
           one == <<i>>
<1>2. /\ inbox' = Append(inbox, i) /\ m' = m /\ batch' = batch /\ disk' = disk
      /\ env' = [env EXCEPT !.sent = n, !.epoch = e]
  BY DEF Send
<1> HIDE DEF n, e
<1>3. /\ env'.own = env.own /\ env'.base = env.base /\ env'.stale = env.stale
      /\ env'.epoch = e
  BY <1>1, <1>2 DEF Env
<1>4. one \in Seq(Inbound) /\ p \in Seq(Inbound) /\ m'.pending \o inbox' = p \o one
  <2>1. i \in Inbound
    BY DEF Inbound
  <2>2. Append(inbox, i) = inbox \o <<i>>
    BY <1>1, <2>1
  <2>3. one \in Seq(Inbound)
    BY <2>1
  <2>4. p \in Seq(Inbound)
    BY <1>1
  <2>5. inbox' = inbox \o one /\ m'.pending = m.pending
    BY <1>2, <2>2
  <2> HIDE DEF one
  <2>6. (m.pending \o inbox) \o one = m.pending \o (inbox \o one)
    <3>1. m.pending \in Seq(Inbound) /\ inbox \in Seq(Inbound)
      BY <1>1
    <3> QED BY <2>3, <3>1, AppendedLater
  <2> QED BY <2>3, <2>4, <2>5, <2>6
<1>5. /\ Resets(p \o one) = Resets(p) + Resets(one)
      /\ Resets(one) = IF i = "reset" THEN 1 ELSE 0
  BY <1>4, ResetsCat, ResetsOne
<1>6. Resets(p) \in Nat /\ (HasReset(p) <=> Resets(p) # 0)
  BY <1>4, ResetsCount
<1>7. HasReset(p \o one) <=> Resets(p \o one) # 0
  <2>1. p \o one \in Seq(Inbound)
    BY <1>4
  <2> QED BY <2>1, ResetsCount
<1>8. OwnInv'
  <2>1. m.pc # "decide"
    BY DEF AtAwait
  <2> QED BY <1>2, <1>3, <2>1 DEF OwnInv
<1>9. env.base + m.session + Resets(p) = env.epoch
  BY DEF HistoryInv
<1>10. HistoryIsCurrent
  BY DEF HistoryInv
<1> HIDE DEF one
<1>11. CASE i = "reset"
  <2>1. e = env.epoch + 1 /\ Resets(p \o one) = Resets(p) + 1
    BY <1>5, <1>11 DEF e
  <2>2. (env.base + m.session + Resets(m.pending \o inbox) = env.epoch)'
    <3>1. env.base + m.session + (Resets(p) + 1) = env.epoch + 1
      <4> DEFINE r == Resets(p)
      <4>1. r \in Nat /\ env.base + m.session + r = env.epoch
        BY <1>6, <1>9
      <4> HIDE DEF r
      <4>2. env.base + m.session + (r + 1) = env.epoch + 1
        BY <1>1, <4>1
      <4> QED BY <4>2 DEF r
    <3> QED BY <1>2, <1>3, <1>4, <2>1, <3>1
  <2>3. HasReset(p \o one)
    <3> HIDE DEF p
    <3> QED BY <1>6, <1>7, <2>1
  <2>4. HistoryIsCurrent'
    BY <1>4, <2>3 DEF HistoryIsCurrent
  <2> QED BY <1>8, <2>2, <2>4 DEF HistoryInv
<1>12. CASE i # "reset"
  <2>1. e = env.epoch /\ Resets(p \o one) = Resets(p)
    BY <1>5, <1>6, <1>12 DEF e
  <2>2. HasReset(p \o one) <=> HasReset(p)
    BY <1>6, <1>7, <2>1
  <2>3. (env.base + m.session + Resets(m.pending \o inbox) = env.epoch)'
    BY <1>2, <1>3, <1>4, <1>9, <2>1
  <2>4. HistoryIsCurrent'
    BY <1>2, <1>3, <1>4, <1>10, <2>1, <2>2 DEF HistoryIsCurrent, HistoryEpoch
  <2> QED BY <1>8, <2>3, <2>4 DEF HistoryInv
<1> QED BY <1>11, <1>12

LEMMA CloseKeeps ==
    ASSUME TypeInv, OwnInv, HistoryInv, Close, AtAwait
    PROVE  OwnInv' /\ HistoryInv'
<1> DEFINE n == env.sent + 1
<1>1. /\ env \in Env /\ env' = [env EXCEPT !.sent = n, !.closed = TRUE]
      /\ m' = m /\ inbox' = inbox /\ batch' = batch /\ disk' = disk
  BY DEF TypeInv, Close
<1> HIDE DEF n
<1>2. /\ env'.own = env.own /\ env'.base = env.base /\ env'.stale = env.stale
      /\ env'.epoch = env.epoch
  BY <1>1 DEF Env
<1>3. OwnInv'
  <2>1. m.pc # "decide"
    BY DEF AtAwait
  <2> QED BY <1>1, <1>2, <2>1 DEF OwnInv
<1> QED BY <1>1, <1>2, <1>3, HistorySame

\* A restart takes the epoch the chain is in as its own; a file written for it
\* in the wait of a reset is the exception HistoryIsCurrent names.
LEMMA RestartKeeps ==
    ASSUME TypeInv, OwnInv, HistoryInv, Restart
    PROVE  OwnInv' /\ HistoryInv'
<1> DEFINE n == env.crashes + 1
           st == (disk.epoch = env.epoch /\ disk.of # disk.epoch)
<1>1. /\ env \in Env /\ disk' = disk /\ inbox' = <<>> /\ batch' = NoBatch
      /\ m' = AtTop(Loaded)
      /\ env' = [env EXCEPT !.crashes = n, !.own = 0, !.closed = FALSE,
                            !.base = env.epoch, !.stale = st]
  BY DEF TypeInv, Restart
<1> HIDE DEF n, st
<1>2. /\ env'.own = 0 /\ env'.base = env.epoch /\ env'.stale = st
      /\ env'.epoch = env.epoch /\ env.epoch \in Nat
  BY <1>1 DEF Env
<1>3. /\ DOMAIN Loaded = Fields /\ Loaded.pending = <<>> /\ Loaded.session = 0
      /\ Loaded.followups = 0 /\ Loaded.held_releases = 0 /\ Loaded.synthetic_wakes = 0
  BY DEF Loaded, Fresh, Fields
<1>4. /\ m'.pending = <<>> /\ m'.session = 0 /\ m'.followups = 0
      /\ m'.held_releases = 0 /\ m'.synthetic_wakes = 0 /\ m'.pc # "decide"
  BY <1>1, <1>3, TopAside DEF Aside
<1>5. Owed(0) = 0
  BY OwedIs
<1>6. batch'.wakes = <<>>
  BY <1>1 DEF NoBatch
<1>7. OwnInv'
  BY <1>2, <1>4, <1>5, <1>6 DEF OwnInv
<1>8. Resets(m'.pending \o inbox') = 0
  <2>1. m'.pending \o inbox' = <<>>
    BY <1>1, <1>4
  <2>2. {i \in DOMAIN <<>> : <<>>[i] = "reset"} = {}
    OBVIOUS
  <2> QED BY <2>1, <2>2, FS_EmptySet DEF Resets
<1>9. HistoryIsCurrent'
  BY <1>1, <1>2 DEF HistoryIsCurrent, HistoryEpoch, st
<1>10. (env.base + m.session + Resets(m.pending \o inbox) = env.epoch)'
  BY <1>2, <1>4, <1>8
<1> QED BY <1>7, <1>9, <1>10 DEF HistoryInv

LEMMA StepOwn ==
    ASSUME TypeInv, OwnInv, HistoryInv, [Next]_vars
    PROVE  OwnInv' /\ HistoryInv'
<1>1. CASE UNCHANGED vars
  BY <1>1 DEF vars, OwnInv, HistoryInv, HistoryIsCurrent, HistoryEpoch
<1>2. CASE \/ CheckInSkipped \/ Think \/ TimePasses
           \/ AtAwait /\ \E c \in Calls : Finish(c) \/ Output(c)
  BY <1>2, QuietSteps, QuietKeeps DEF Think
<1>3. CASE \/ CheckIn \/ Receive \/ HoldBack \/ BeginTurn \/ BatchBack \/ BatchTake
           \/ BatchOver \/ Tick
  BY <1>3, CheckInKeeps, ReceiveKeeps, HoldBackKeeps, BeginTurnKeeps, BatchBackKeeps,
     BatchTakeKeeps, BatchOverKeeps, TickKeeps
<1>4. CASE AtAwait /\ (Close \/ Restart)
  BY <1>4, CloseKeeps, RestartKeeps
<1>5. ASSUME NEW i \in {"wake", "reset"}, AtAwait, Send(i) PROVE OwnInv' /\ HistoryInv'
  BY <1>5, SendKeeps
<1> QED BY <1>1, <1>2, <1>3, <1>4, <1>5 DEF Next, Machine, Loop

-----------------------------------------------------------------------------
(* Results. *)

AgentInv == TypeInv /\ OwnInv /\ HistoryInv

LEMMA AgentInvHolds == Spec => []AgentInv
<1>1. Init => AgentInv
  BY InitTypes, InitOwn DEF AgentInv
<1>2. ASSUME AgentInv, [Next]_vars PROVE AgentInv'
  <2>1. Calm
    BY <1>2 DEF AgentInv, OwnInv, Calm
  <2> QED BY <1>2, <2>1, StepTypes, StepOwn DEF AgentInv
<1> QED BY <1>1, <1>2, PTL DEF Spec

\* The follow-up cap with its releases holds whatever the model answers and
\* however long the process runs: between two things somebody asked for, the
\* loop takes at most that many turns.
THEOREM OwnTurnsAreBounded == Spec => []OwnTurnsBounded
<1>1. AgentInv => OwnTurnsBounded
  <2>1. SUFFICES ASSUME AgentInv PROVE OwnTurnsBounded
    OBVIOUS
  <2>2. /\ m.held_releases \in 0..MaxReleases /\ m.followups \in 0..MaxFollowups
        /\ env.own \in Nat /\ env.own <= Owed(m.held_releases) + m.followups
    BY <2>1 DEF AgentInv, TypeInv, MachineOK, CountsOK, OwnInv, Env
  <2> DEFINE o == Owed(m.held_releases)
             mx == Owed(MaxReleases)
  <2>3. o <= mx /\ o \in Nat /\ mx \in Nat
    <3>1. /\ m.held_releases \in Nat
          /\ MaxReleases \in Nat
          /\ m.held_releases <= MaxReleases
      BY <2>2, Caps
    <3>2. o \in Nat /\ mx \in Nat
      BY <3>1, OwedIs
    <3>3. o <= mx
      BY <3>1, OwedGrows
    <3> QED BY <3>2, <3>3
  <2>4. mx = MaxReleases * (1 + MaxFollowups)
    BY DEF Owed
  <2>5. env.own <= o + m.followups
    BY <2>2
  <2> HIDE DEF o, mx
  <2>6. env.own <= MaxFollowups + mx
    BY <2>2, <2>3, <2>5, Caps
  <2> QED BY <2>4, <2>6 DEF OwnTurnsBounded
<1> QED BY <1>1, AgentInvHolds, PTL

\* A restart brings back no conversation the chain has moved past, but for the
\* one exception the property names.
THEOREM HistoryStaysCurrent == Spec => []HistoryIsCurrent
<1>1. AgentInv => HistoryIsCurrent
  BY DEF AgentInv, HistoryInv
<1> QED BY <1>1, AgentInvHolds, PTL

-----------------------------------------------------------------------------
(* Where each call is. *)

\* The lane holds calls that are out, the channel those that are back.
Queued ==
    /\ IsInjective(lane) /\ IsInjective(back)
    /\ \A c \in Range(lane) : call[c].st \in {"queued", "running"}
    /\ \A c \in Range(back) : call[c].st = "back"

\* What is held, gathered or told waits, in one place; nothing is told outside
\* a turn, nor gathered outside a batch.
Kept ==
    /\ IsInjective(m.held) /\ IsInjective(batch.results) /\ IsInjective(turn.results)
    /\ \A c \in Range(m.held) \cup Range(batch.results) \cup Range(turn.results) :
          call[c].st = "waiting"
    /\ Range(m.held) \cap (Range(batch.results) \cup Range(turn.results)) = {}
    /\ m.pc # "think" => turn.results = <<>>
    /\ m.pc \notin {"batch", "decide"} => batch.results = <<>>

\* No call is of a session to come; what waits is a query of this one.
SessionsOK(cs, session) ==
    \A c \in Calls :
        /\ cs[c].session <= session
        /\ cs[c].st = "waiting" => cs[c].session = session /\ cs[c].kind \in Queries
        /\ cs[c].st \in {"new", "told"} => cs[c].session = 0
Sessions == SessionsOK(call, m.session)

\* The calls are taken in their order.
Numbered == \E n \in 0..MaxCalls : \A c \in Calls : call[c].st = "new" <=> c > n

\* The three counters.
Counted ==
    /\ m.queries = Cardinality(Out({"lane", "host", "instant"}))
    /\ m.records = Cardinality(Out({"record"}))
    /\ m.bg = Out({"bg"})

\* A conversation and the next id: ids are below it, each on one row.
RowsOK(rows, next, talk) ==
    /\ \A r \in rows : r[1] < next
    /\ \A r, t \in rows : r[1] = t[1] => r[2] = t[2]
    /\ ~talk => rows = {}

\* The ids of what waits: below the next one, on no row, each on one call.
WaitOK(cs, next, rows) ==
    \A c \in Calls : cs[c].st = "waiting" =>
        /\ cs[c].id < next
        /\ \A r \in rows : r[1] # cs[c].id
        /\ \A d \in Calls : cs[d].st = "waiting" /\ cs[d].id = cs[c].id => c = d

Ids == /\ RowsOK(m.rows, m.next_id, m.talk) /\ RowsOK(disk.rows, disk.next_id, disk.talk)
       /\ WaitOK(call, m.next_id, m.rows)

CallInv == Queued /\ Kept /\ Sessions /\ Numbered /\ Counted /\ Ids

\* What ToolCalls sees, and that a step is one of its own or a stutter.
Ph == [c \in Calls |-> PhaseOf(c)]
PhaseStep == Promise!Next \/ Ph' = Ph

-----------------------------------------------------------------------------
(* What is common to the steps. *)

\* The file after a step: as it was, or with the conversation of the struct, or
\* with none.
Written ==
    \/ disk' = disk
    \/ disk'.rows = m'.rows /\ disk'.next_id = m'.next_id /\ disk'.talk = m'.talk
    \/ disk'.rows = {}

LEMMA WrittenIs ==
    ASSUME Ids, RowsOK(m.rows, m.next_id, m.talk)', Written
    PROVE  RowsOK(disk.rows, disk.next_id, disk.talk)'
<1>1. CASE disk' = disk
  BY <1>1 DEF Ids
<1>2. CASE disk'.rows = m'.rows /\ disk'.next_id = m'.next_id /\ disk'.talk = m'.talk
  BY <1>2 DEF RowsOK
<1>3. CASE disk'.rows = {}
  BY <1>3 DEF RowsOK
<1> QED BY <1>1, <1>2, <1>3 DEF Written

\* A step after which no more waits than before, and the conversation is as it
\* was, or empty, or shows what the turn was fed with.
LEMMA FewerWait ==
    ASSUME TypeInv, Ids, Kept, Written,
           m'.next_id = m.next_id,
           ~m'.talk => m'.rows = {} \/ (~m.talk /\ m'.rows = m.rows),
           \A c \in Calls : call'[c].st = "waiting" =>
               call[c].st = "waiting" /\ call'[c].id = call[c].id,
           \/ m'.rows = m.rows
           \/ m'.rows = {}
           \/ /\ m'.rows = m.rows \cup TurnRows
              /\ \A c \in Range(turn.results) : call'[c].st # "waiting"
    PROVE  Ids'
<1>1. /\ RowsOK(m.rows, m.next_id, m.talk) /\ WaitOK(call, m.next_id, m.rows)
      /\ Range(turn.results) \subseteq Calls
      /\ \A c \in Range(turn.results) : call[c].st = "waiting"
  BY DEF Ids, Kept, TypeInv, Turns, Range
<1>2. RowsOK(m'.rows, m'.next_id, m'.talk) /\ WaitOK(call', m'.next_id, m'.rows)
  <2>1. CASE m'.rows = m.rows
    BY <1>1, <2>1 DEF RowsOK, WaitOK
  <2>2. CASE m'.rows = {}
    BY <1>1, <2>2 DEF RowsOK, WaitOK
  <2>3. CASE /\ m'.rows = m.rows \cup TurnRows
             /\ \A c \in Range(turn.results) : call'[c].st # "waiting"
    <3>1. ASSUME NEW r \in TurnRows
          PROVE  \E c \in Range(turn.results) :
                    /\ r[1] = call[c].id /\ r[2] = c /\ call[c].st = "waiting"
                    /\ call[c].id < m.next_id /\ \A t \in m.rows : t[1] # call[c].id
      <4>1. PICK c \in Range(turn.results) : r = <<call[c].id, c>>
        BY <3>1 DEF TurnRows
      <4> QED BY <1>1, <4>1 DEF WaitOK
    <3>2. \A r \in m'.rows : r[1] < m'.next_id
      BY <1>1, <2>3, <3>1 DEF RowsOK
    <3>3. ASSUME NEW r \in m'.rows, NEW t \in m'.rows, r[1] = t[1] PROVE r[2] = t[2]
      <4>1. CASE r \in m.rows /\ t \in m.rows
        BY <1>1, <3>3, <4>1 DEF RowsOK
      <4>2. CASE r \in m.rows /\ t \in TurnRows
        BY <3>1, <3>3, <4>2
      <4>3. CASE r \in TurnRows /\ t \in m.rows
        BY <3>1, <3>3, <4>3
      <4>4. CASE r \in TurnRows /\ t \in TurnRows
        BY <1>1, <3>1, <3>3, <4>4 DEF WaitOK
      <4> QED BY <2>3, <4>1, <4>2, <4>3, <4>4
    <3>4. ~m'.talk => m'.rows = {}
      BY <1>1 DEF RowsOK
    <3>5. ASSUME NEW c \in Calls, call'[c].st = "waiting", NEW r \in m'.rows
          PROVE  r[1] # call'[c].id
      <4>1. call[c].st = "waiting" /\ call'[c].id = call[c].id
        BY <3>5
      <4>2. CASE r \in m.rows
        BY <1>1, <4>1, <4>2 DEF WaitOK
      <4>3. CASE r \in TurnRows
        BY <1>1, <2>3, <3>1, <3>5, <4>1, <4>3 DEF WaitOK
      <4> QED BY <2>3, <4>2, <4>3
    <3>6. WaitOK(call', m'.next_id, m'.rows)
      BY <1>1, <3>5 DEF WaitOK
    <3> QED BY <3>2, <3>3, <3>4, <3>6 DEF RowsOK
  <2> QED BY <2>1, <2>2, <2>3
<1> QED BY <1>2, WrittenIs DEF Ids

\* A step in which no call comes in or goes out.
LEMMA SameOut ==
    ASSUME Counted,
           \A c \in Calls : /\ call'[c].kind = call[c].kind
                            /\ \/ call'[c].st = call[c].st
                               \/ {call'[c].st, call[c].st} \subseteq {"queued", "running", "back"}
                               \/ {call'[c].st, call[c].st} \cap {"queued", "running", "back"} = {},
           m'.queries = m.queries, m'.records = m.records, m'.bg = m.bg
    PROVE  Counted'
<1>1. ASSUME NEW K PROVE Out(K)' = Out(K)
  BY DEF Out
<1> QED BY <1>1 DEF Counted

\* A step that moves no call: only the place of the loop, and what is held,
\* gathered or written down.
SameBooks ==
    /\ m'.session = m.session /\ m'.queries = m.queries /\ m'.records = m.records
    /\ m'.bg = m.bg /\ m'.next_id = m.next_id /\ m'.talk = m.talk
    /\ m'.rows = m.rows \/ m'.rows = {}

LEMMA SamePhases ==
    ASSUME call' = call, m'.session = m.session
    PROVE  Ph' = Ph
BY DEF Ph, PhaseOf

LEMMA StillKeeps ==
    ASSUME TypeInv, CallInv, call' = call, lane' = lane, back' = back,
           SameBooks, Kept', Written
    PROVE  CallInv' /\ PhaseStep
<1>1. Queued'
  BY DEF CallInv, Queued
<1>2. Sessions' /\ Numbered'
  BY DEF CallInv, Sessions, SessionsOK, Numbered, SameBooks
<1>3. Counted'
  BY SameOut DEF CallInv, SameBooks
<1>4. Ids'
  <2>1. ~m'.talk => m'.rows = {} \/ (~m.talk /\ m'.rows = m.rows)
    BY DEF SameBooks
  <2> QED BY <2>1, FewerWait DEF CallInv, SameBooks
<1> QED BY <1>1, <1>2, <1>3, <1>4, SamePhases DEF CallInv, PhaseStep, SameBooks

LEMMA AsideBooks ==
    ASSUME NEW s, Aside(s, m'), s.session = m.session, s.queries = m.queries,
           s.records = m.records, s.bg = m.bg, s.next_id = m.next_id,
           s.talk = m.talk, s.rows = m.rows \/ s.rows = {}
    PROVE  SameBooks
BY DEF Aside, SameBooks

-----------------------------------------------------------------------------
(* The steps that move no call. *)

LEMMA InitCalls == Init => CallInv /\ Ph = [c \in Calls |-> "new"]
<1> SUFFICES ASSUME Init PROVE CallInv /\ Ph = [c \in Calls |-> "new"]
  OBVIOUS
<1>1. MachineOK(Fresh) /\ m = AtTop(Fresh)
  BY FreshIs DEF Init
<1>2. Aside(Fresh, m) /\ m.pc \in {"check", "select", "done"}
  BY <1>1, AtTopIs
<1>3. /\ m.session = 0 /\ m.queries = 0 /\ m.records = 0 /\ m.bg = {} /\ m.held = <<>>
      /\ m.rows = {} /\ m.next_id = 0
  BY <1>2 DEF Aside, Fresh
<1>4. \A c \in Calls : call[c] = NoCall
  BY DEF Init
<1>5. Queued
  BY DEF Init, Queued, IsInjective, Range
<1>6. Kept
  BY <1>2, <1>3 DEF Init, Kept, IsInjective, Range, NoBatch, NoTurn
<1>7. Sessions
  BY <1>3, <1>4 DEF Sessions, SessionsOK, NoCall
<1>8. Numbered
  <2>1. 0 \in 0..MaxCalls /\ \A c \in Calls : call[c].st = "new" <=> c > 0
    BY <1>4, Caps DEF NoCall, Calls
  <2> QED BY <2>1 DEF Numbered
<1>9. Counted
  <2>1. \A K : Out(K) = {}
    BY <1>4 DEF Out, NoCall
  <2> QED BY <1>3, <2>1, FS_EmptySet DEF Counted
<1>10. Ids
  BY <1>3, <1>4 DEF Ids, RowsOK, WaitOK, NoCall, Init
<1>11. Ph = [c \in Calls |-> "new"]
  BY <1>4 DEF Ph, PhaseOf, NoCall
<1> QED BY <1>5, <1>6, <1>7, <1>8, <1>9, <1>10, <1>11 DEF CallInv

LEMMA CheckInCalls == ASSUME TypeInv, CallInv, CheckIn PROVE CallInv' /\ PhaseStep
<1>1. /\ m' = [m EXCEPT !.check_armed = FALSE, !.followups = @ + 1,
                        !.was_idle = FALSE, !.idle_since = 0,
                        !.check_ins = @ + 1, !.notices = FALSE, !.pc = "think"]
      /\ m.pc = "check" /\ turn' = [NoTurn EXCEPT !.check = TRUE]
      /\ UNCHANGED <<call, lane, back, batch, disk>>
  BY DEF CheckIn
<1>2. SameBooks /\ m'.held = m.held /\ m'.pc = "think"
  BY <1>1 DEF TypeInv, MachineOK, Fields, SameBooks
<1>3. turn'.results = <<>>
  BY <1>1 DEF NoTurn
<1>4. Kept'
  BY <1>1, <1>2, <1>3 DEF CallInv, Kept, IsInjective, Range
<1> QED BY <1>1, <1>2, <1>4, StillKeeps DEF Written

\* Back at the top of the loop, or to a compaction, with no call moved.
LEMMA TopKeeps ==
    ASSUME TypeInv, CallInv, m.pc \notin {"batch", "decide"},
           NEW s, DOMAIN s = Fields, m' = AtTop(s),
           s.session = m.session, s.queries = m.queries, s.records = m.records,
           s.bg = m.bg, s.next_id = m.next_id, s.talk = m.talk, s.held = m.held,
           s.rows = m.rows \/ s.rows = {},
           UNCHANGED <<call, lane, back, batch>>, turn' = turn \/ turn' = NoTurn,
           m.pc # "think" \/ turn' = NoTurn, Written
    PROVE  CallInv' /\ PhaseStep
<1>1. Aside(s, m') /\ m'.pc \in {"check", "select", "done"}
  BY TopAside
<1>2. SameBooks
  BY <1>1, AsideBooks
<1>3. turn'.results = <<>>
  BY DEF CallInv, Kept, NoTurn
<1>4. Kept'
  BY <1>1, <1>3 DEF CallInv, Kept, IsInjective, Range, Aside
<1> QED BY <1>2, <1>4, StillKeeps

LEMMA CheckInSkippedCalls ==
    ASSUME TypeInv, CallInv, CheckInSkipped PROVE CallInv' /\ PhaseStep
<1> DEFINE s == [m EXCEPT !.check_armed = FALSE, !.pending = @ \o inbox]
<1>1. m' = AtTop(s) /\ m.pc = "check" /\ UNCHANGED <<call, lane, back, batch, turn, disk>>
  BY DEF CheckInSkipped
<1>2. /\ DOMAIN s = Fields /\ s.session = m.session /\ s.queries = m.queries
      /\ s.records = m.records /\ s.bg = m.bg /\ s.next_id = m.next_id
      /\ s.talk = m.talk /\ s.held = m.held /\ s.rows = m.rows
  BY DEF TypeInv, MachineOK, Fields
<1> HIDE DEF s
<1> QED BY <1>1, <1>2, TopKeeps DEF Written

LEMMA NothingMoreCalls ==
    ASSUME TypeInv, CallInv, NothingMore PROVE CallInv' /\ PhaseStep
<1> DEFINE s == [m EXCEPT !.pending = @ \o inbox]
<1>1. /\ m' = AtTop(s) /\ m.pc = "think" /\ UNCHANGED <<call, lane, back, batch>>
      /\ turn' = NoTurn /\ disk' = Saved(m)
  BY DEF NothingMore
<1>2. /\ DOMAIN s = Fields /\ s.session = m.session /\ s.queries = m.queries
      /\ s.records = m.records /\ s.bg = m.bg /\ s.next_id = m.next_id
      /\ s.talk = m.talk /\ s.held = m.held /\ s.rows = m.rows
  BY DEF TypeInv, MachineOK, Fields
<1> HIDE DEF s
<1>3. Aside(s, m')
  BY <1>1, <1>2, TopAside
<1>4. Written
  BY <1>1, <1>2, <1>3 DEF Written, Saved, Aside
<1> QED BY <1>1, <1>2, <1>4, TopKeeps

LEMMA CompactCalls ==
    ASSUME TypeInv, CallInv, Compact PROVE CallInv' /\ PhaseStep
<1> DEFINE s == [m EXCEPT !.rows = {}]
<1>1. /\ m' = AtTop(s) /\ m.pc = "compact" /\ UNCHANGED <<call, lane, back, batch, turn>>
      /\ disk' = Saved(s)
  BY DEF Compact
<1>2. /\ DOMAIN s = Fields /\ s.session = m.session /\ s.queries = m.queries
      /\ s.records = m.records /\ s.bg = m.bg /\ s.next_id = m.next_id
      /\ s.talk = m.talk /\ s.held = m.held /\ s.rows = {}
  BY DEF TypeInv, MachineOK, Fields
<1> HIDE DEF s
<1>3. Written
  BY <1>1, <1>2 DEF Written, Saved
<1> QED BY <1>1, <1>2, <1>3, TopKeeps

LEMMA LlmRetryCalls ==
    ASSUME TypeInv, CallInv, LlmRetry PROVE CallInv' /\ PhaseStep
<1>1. /\ m' = [m EXCEPT !.pending = @ \o inbox] /\ UNCHANGED <<call, lane, back, batch, disk>>
      /\ turn' = [turn EXCEPT !.attempt = @ + 1]
  BY DEF LlmRetry
<1>2. SameBooks /\ m'.held = m.held /\ m'.pc = m.pc
  BY <1>1 DEF TypeInv, MachineOK, Fields, SameBooks
<1>3. turn'.results = turn.results
  BY <1>1 DEF TypeInv, Turns
<1>4. Kept'
  BY <1>1, <1>2, <1>3 DEF CallInv, Kept, IsInjective, Range
<1> QED BY <1>1, <1>2, <1>4, StillKeeps DEF Written

\* What changes the struct only in its silences, its time or its place, or
\* nothing but the messages.
LEMMA AsideCalls ==
    ASSUME TypeInv, CallInv,
           \/ BatchOver \/ TimePasses \/ Close
           \/ \E c \in Calls : Output(c)
           \/ \E i \in Inbound : Send(i)
    PROVE  CallInv' /\ PhaseStep
<1>1. UNCHANGED <<call, lane, back, batch, turn, disk>>
  BY DEF BatchOver, TimePasses, Close, Output, Send
<1>2. SameBooks /\ m'.held = m.held
  BY DEF TypeInv, MachineOK, Fields, SameBooks, BatchOver, TimePasses, Close, Output, Send
<1>3. m'.pc = m.pc \/ (m.pc = "batch" /\ m'.pc = "decide")
  BY DEF TypeInv, MachineOK, Fields, BatchOver, TimePasses, Close, Output, Send
<1>4. Kept'
  BY <1>1, <1>2, <1>3 DEF CallInv, Kept, IsInjective, Range
<1> QED BY <1>1, <1>2, <1>4, StillKeeps DEF Written

-----------------------------------------------------------------------------
(* What is held back, and the turn that tells it. *)

LEMMA JoinIs ==
    ASSUME NEW T, NEW s \in Seq(T), NEW t \in Seq(T)
    PROVE  /\ s \o t \in Seq(T) /\ Range(s \o t) = Range(s) \cup Range(t)
           /\ IsInjective(s) /\ IsInjective(t) /\ Range(s) \cap Range(t) = {}
              => IsInjective(s \o t)
<1> DEFINE u == s \o t
<1>1. /\ Len(s) \in Nat /\ Len(t) \in Nat /\ DOMAIN s = 1..Len(s) /\ DOMAIN t = 1..Len(t)
  OBVIOUS
<1>2. /\ u \in Seq(T) /\ DOMAIN u = 1..Len(s) + Len(t)
      /\ \A i \in 1..Len(s) + Len(t) : u[i] = IF i <= Len(s) THEN s[i] ELSE t[i - Len(s)]
  <2>1. u \in Seq(T) /\ Len(u) = Len(s) + Len(t)
    BY ConcatProperties
  <2>2. DOMAIN u = 1..Len(u)
    BY <2>1
  <2> QED BY <2>1, <2>2, ConcatProperties
<1> HIDE DEF u
<1>3. ASSUME NEW i \in DOMAIN u
      PROVE  \/ i \in DOMAIN s /\ u[i] = s[i] /\ i <= Len(s)
             \/ /\ i - Len(s) \in DOMAIN t /\ u[i] = t[i - Len(s)] /\ i > Len(s)
  BY <1>1, <1>2
<1>4. Range(u) \subseteq Range(s) \cup Range(t)
  BY <1>3 DEF Range
<1>5. Range(s) \subseteq Range(u)
  <2>1. \A i \in DOMAIN s : i \in DOMAIN u /\ u[i] = s[i]
    BY <1>1, <1>2
  <2> QED BY <2>1 DEF Range
<1>6. Range(t) \subseteq Range(u)
  <2>1. \A i \in DOMAIN t : i + Len(s) \in DOMAIN u /\ u[i + Len(s)] = t[i]
    BY <1>1, <1>2
  <2> QED BY <2>1 DEF Range
<1>7. ASSUME IsInjective(s), IsInjective(t), Range(s) \cap Range(t) = {}
      PROVE  IsInjective(u)
  <2>1. SUFFICES ASSUME NEW i \in DOMAIN u, NEW j \in DOMAIN u, u[i] = u[j] PROVE i = j
    BY DEF IsInjective
  <2>2. i \in Int /\ j \in Int
    BY <1>1, <1>2, <2>1
  <2>3. CASE i \in DOMAIN s /\ u[i] = s[i] /\ i <= Len(s)
    <3>1. CASE j \in DOMAIN s /\ u[j] = s[j]
      BY <1>7, <2>1, <2>3, <3>1 DEF IsInjective
    <3>2. CASE j - Len(s) \in DOMAIN t /\ u[j] = t[j - Len(s)]
      BY <1>7, <2>1, <2>3, <3>2 DEF Range
    <3> QED BY <1>3, <3>1, <3>2
  <2>4. CASE i - Len(s) \in DOMAIN t /\ u[i] = t[i - Len(s)]
    <3>1. CASE j \in DOMAIN s /\ u[j] = s[j]
      BY <1>7, <2>1, <2>4, <3>1 DEF Range
    <3>2. CASE j - Len(s) \in DOMAIN t /\ u[j] = t[j - Len(s)]
      <4>1. i - Len(s) = j - Len(s)
        BY <1>7, <2>1, <2>4, <3>2 DEF IsInjective
      <4> QED BY <1>1, <2>2, <4>1
    <3> QED BY <1>3, <3>1, <3>2
  <2> QED BY <1>3, <2>3, <2>4
<1> QED BY <1>2, <1>4, <1>5, <1>6, <1>7 DEF u

LEMMA HoldBackCalls == ASSUME TypeInv, CallInv, HoldBack PROVE CallInv' /\ PhaseStep
<1> DEFINE h == m.held \o batch.results
           u == [m EXCEPT !.held = h, !.notices = FALSE, !.synthetic_wakes = 0]
<1>1. /\ m' = AtTop(u) /\ UNCHANGED <<call, lane, back, turn, disk>> /\ batch' = NoBatch
      /\ m.pc = "decide"
  BY DEF HoldBack
<1>2. m.held \in Seq(Calls) /\ batch.results \in Seq(Calls)
  BY DEF TypeInv, MachineOK, SetsOK, Batch
<1>3. Range(h) = Range(m.held) \cup Range(batch.results) /\ IsInjective(h)
  BY <1>2, JoinIs DEF CallInv, Kept
<1> HIDE DEF h
<1>4. /\ DOMAIN u = Fields /\ u.session = m.session /\ u.queries = m.queries
      /\ u.records = m.records /\ u.bg = m.bg /\ u.next_id = m.next_id
      /\ u.talk = m.talk /\ u.held = h /\ u.rows = m.rows
  BY DEF TypeInv, MachineOK, Fields
<1> HIDE DEF u
<1>5. Aside(u, m') /\ m'.pc \in {"check", "select", "done"}
  BY <1>1, <1>4, TopAside
<1>6. SameBooks
  BY <1>4, <1>5, AsideBooks
<1>7. turn'.results = <<>> /\ batch'.results = <<>> /\ m'.held = h
  BY <1>1, <1>4, <1>5 DEF CallInv, Kept, NoBatch, Aside
<1>8. Kept'
  <2>1. IsInjective(<<>>) /\ Range(<<>>) = {}
    BY DEF IsInjective, Range
  <2>2. \A c \in Range(h) : call'[c].st = "waiting"
    BY <1>1, <1>3 DEF CallInv, Kept
  <2> QED BY <1>3, <1>5, <1>7, <2>1, <2>2 DEF Kept
<1> QED BY <1>1, <1>6, <1>8, StillKeeps DEF Written

LEMMA BeginTurnCalls == ASSUME TypeInv, CallInv, BeginTurn PROVE CallInv' /\ PhaseStep
<1> DEFINE woken == batch.wakes # <<>>
           all == m.held \o batch.results
           res == IF woken THEN all ELSE batch.results
           hd == IF woken THEN <<>> ELSE m.held
<1>1. /\ m.pc = "decide" /\ UNCHANGED <<call, lane, back, disk>> /\ batch' = NoBatch
      /\ turn'.results = res
  BY DEF BeginTurn
<1>2. SameBooks /\ m'.held = hd /\ m'.pc = "think"
  BY DEF BeginTurn, TypeInv, MachineOK, Fields, SameBooks
<1>3. m.held \in Seq(Calls) /\ batch.results \in Seq(Calls)
  BY DEF TypeInv, MachineOK, SetsOK, Batch
<1>4. Range(all) = Range(m.held) \cup Range(batch.results) /\ IsInjective(all)
  BY <1>3, JoinIs DEF CallInv, Kept
<1> HIDE DEF all
<1>5. IsInjective(<<>>) /\ Range(<<>>) = {}
  BY DEF IsInjective, Range
<1>6. batch'.results = <<>>
  BY <1>1 DEF NoBatch
<1>7. /\ IsInjective(res) /\ IsInjective(hd) /\ Range(hd) \cap Range(res) = {}
      /\ Range(hd) \cup Range(res) \subseteq Range(m.held) \cup Range(batch.results)
  BY <1>4, <1>5 DEF CallInv, Kept
<1> HIDE DEF res, hd
<1>8. \A c \in Range(hd) \cup Range(res) : call'[c].st = "waiting"
  BY <1>1, <1>7 DEF CallInv, Kept
<1>9. Kept'
  BY <1>1, <1>2, <1>5, <1>6, <1>7, <1>8 DEF Kept
<1> QED BY <1>1, <1>2, <1>9, StillKeeps DEF Written

-----------------------------------------------------------------------------
(* A call ends. *)

LEMMA FinishIs ==
    ASSUME TypeInv, CallInv, NEW c \in Calls, Finish(c)
    PROVE  /\ Range(lane') = Range(lane) \ {c} /\ IsInjective(lane')
           /\ \A d \in Calls :
                 /\ call'[d].kind = call[d].kind /\ call'[d].session = call[d].session
                 /\ call'[d].id = call[d].id
                 /\ call'[d].st =
                       IF d = c THEN "back"
                       ELSE IF lane' # <<>> /\ d = Head(lane') THEN "running"
                       ELSE call[d].st
           /\ call[c].st \in {"queued", "running"}
           /\ lane' # <<>> => Head(lane') \in Range(lane')
<1> DEFINE S == Calls \ {c}
<1>1. lane \in Seq(Calls) /\ call \in [Calls -> CallState]
  BY DEF TypeInv
<1>2. lane' = Only(lane, S)
  BY DEF Finish
<1>3. lane' \in Seq(Calls \cap S) /\ Range(lane') = Range(lane) \cap S /\ IsInjective(lane')
  BY <1>1, <1>2, OnlyIsASequence, OnlyKeepsTheRange, OnlyIsInjective DEF CallInv, Queued
<1>4. Range(lane) \subseteq Calls
  BY <1>1 DEF Range
<1>5. lane' # <<>> => Head(lane') \in Range(lane')
  <2> HIDE DEF S
  <2>1. SUFFICES ASSUME lane' # <<>> PROVE 1 \in DOMAIN lane' /\ Head(lane') = lane'[1]
    BY DEF Range
  <2> QED BY <1>3, <2>1
<1>6. ASSUME NEW d \in Calls
      PROVE  /\ call'[d].kind = call[d].kind /\ call'[d].session = call[d].session
             /\ call'[d].id = call[d].id
             /\ call'[d].st =
                   IF d = c THEN "back"
                   ELSE IF lane' # <<>> /\ d = Head(lane') THEN "running"
                   ELSE call[d].st
  <2>1. call'[d] = IF d = c THEN [call[c] EXCEPT !.st = "back"]
                   ELSE IF lane' # <<>> /\ d = Head(lane')
                   THEN [call[d] EXCEPT !.st = "running"]
                   ELSE call[d]
    BY DEF Finish
  <2>2. call[d] \in CallState /\ call[c] \in CallState
    BY <1>1
  <2> QED BY <2>1, <2>2 DEF CallState
<1>7. call[c].st \in {"queued", "running"}
  BY DEF Finish
<1> QED BY <1>3, <1>4, <1>5, <1>6, <1>7

LEMMA FinishCalls ==
    ASSUME TypeInv, CallInv, NEW c \in Calls, Finish(c)
    PROVE  CallInv' /\ PhaseStep
<1>1. /\ m' = m /\ batch' = batch /\ turn' = turn /\ disk' = disk
      /\ back' = Append(back, c)
  BY DEF Finish
<1>2. /\ back \in Seq(Calls) /\ lane \in Seq(Calls) /\ Range(lane) \subseteq Calls
      /\ Range(back) \subseteq Calls
  BY DEF TypeInv, Range
<1>3. ASSUME NEW d \in Calls
      PROVE  /\ call'[d].st # call[d].st =>
                   {call'[d].st, call[d].st} \subseteq {"queued", "running", "back"}
             /\ d # c /\ call[d].st = "back" => call'[d].st = "back"
             /\ d # c /\ call[d].st \in {"queued", "running"} =>
                   call'[d].st \in {"queued", "running"}
  <2>1. lane' # <<>> /\ d = Head(lane') => call[d].st \in {"queued", "running"}
    BY FinishIs DEF CallInv, Queued
  <2> QED BY <2>1, FinishIs
<1>4. Queued'
  <2>1. Range(<<c>>) = {c} /\ IsInjective(<<c>>) /\ <<c>> \in Seq(Calls)
    BY DEF Range, IsInjective
  <2>2. c \notin Range(back)
    BY FinishIs DEF CallInv, Queued
  <2>3. back' = back \o <<c>>
    BY <1>1, <1>2
  <2>4. Range(back') = Range(back) \cup {c} /\ IsInjective(back')
    <3> DEFINE one == <<c>>
    <3>1. one \in Seq(Calls) /\ Range(one) = {c} /\ IsInjective(one) /\ back' = back \o one
      BY <2>1, <2>3
    <3> HIDE DEF one
    <3>2. IsInjective(back) /\ Range(back) \cap Range(one) = {}
      BY <2>2, <3>1 DEF CallInv, Queued
    <3> QED BY <1>2, <3>1, <3>2, JoinIs
  <2>5. call'[c].st = "back"
    BY FinishIs
  <2>6. \A d \in Range(back') : call'[d].st = "back"
    BY <1>2, <1>3, <2>4, <2>5 DEF CallInv, Queued
  <2>7. \A d \in Range(lane') : call'[d].st \in {"queued", "running"}
    BY <1>2, <1>3, FinishIs DEF CallInv, Queued
  <2> QED BY <2>4, <2>6, <2>7, FinishIs DEF Queued
<1>5. Kept'
  <2>1. \A d \in Calls : call[d].st = "waiting" => call'[d].st = "waiting"
    BY <1>3
  <2>2. /\ Range(m.held) \subseteq Calls /\ Range(batch.results) \subseteq Calls
        /\ Range(turn.results) \subseteq Calls
    BY DEF TypeInv, MachineOK, SetsOK, Batch, Turns, Range
  <2> QED BY <1>1, <2>1, <2>2 DEF CallInv, Kept
<1>6. Sessions'
  <2>1. ASSUME NEW d \in Calls
        PROVE  /\ call'[d].session <= m.session
               /\ call'[d].st = "waiting" =>
                     call'[d].session = m.session /\ call'[d].kind \in Queries
               /\ call'[d].st \in {"new", "told"} => call'[d].session = 0
    <3>1. call'[d].kind = call[d].kind /\ call'[d].session = call[d].session
      BY FinishIs
    <3>2. call'[d].st \in {"waiting", "new", "told"} => call'[d].st = call[d].st
      BY <1>3
    <3> QED BY <3>1, <3>2 DEF CallInv, Sessions, SessionsOK
  <2> QED BY <1>1, <2>1 DEF Sessions, SessionsOK
<1>7. Numbered'
  <2>1. \A d \in Calls : call'[d].st = "new" <=> call[d].st = "new"
    BY <1>3
  <2> QED BY <2>1 DEF CallInv, Numbered
<1>8. Counted'
  <2>1. \A d \in Calls : call'[d].kind = call[d].kind
    BY FinishIs
  <2> QED BY <1>1, <1>3, <2>1, SameOut DEF CallInv
<1>9. Ids'
  <2>1. \A d \in Calls : call'[d].st = "waiting" =>
                            call[d].st = "waiting" /\ call'[d].id = call[d].id
    BY <1>3, FinishIs
  <2> QED BY <1>1, <2>1, FewerWait DEF CallInv, Written
<1>10. Ph' = Ph
  <2>1. ASSUME NEW d \in Calls PROVE PhaseOf(d)' = PhaseOf(d)
    <3>1. call'[d].kind = call[d].kind /\ call'[d].session = call[d].session
      BY FinishIs
    <3> QED BY <1>1, <1>3, <3>1 DEF PhaseOf
  <2> QED BY <2>1 DEF Ph
<1> QED BY <1>4, <1>5, <1>6, <1>7, <1>8, <1>9, <1>10 DEF CallInv, PhaseStep

-----------------------------------------------------------------------------
(* The turn ends: what it was fed with is told, or gone with it. *)

\* The calls in S are over, and each was waiting; the loop is back at its top.
LEMMA TurnOver ==
    ASSUME TypeInv, CallInv, m.pc = "think", NEW st \in {"told", "gone"},
           call' = AllOver(Range(turn.results), st),
           UNCHANGED <<lane, back, batch>>, turn' = NoTurn,
           NEW s, DOMAIN s = Fields, m' = AtTop(s),
           s.session = m.session, s.queries = m.queries, s.records = m.records,
           s.bg = m.bg, s.next_id = m.next_id, s.held = m.held,
           \/ s.rows = m.rows /\ s.talk = m.talk
           \/ s.rows = m.rows \cup TurnRows /\ s.talk = TRUE,
           Written
    PROVE  /\ CallInv'
           /\ Ph' = [c \in Calls |-> IF c \in Range(turn.results) THEN st ELSE PhaseOf(c)]
           /\ Range(turn.results) \subseteq Promise!In("waiting")
<1> DEFINE T == Range(turn.results)
<1>1. T \subseteq Calls /\ \A c \in T : call[c].st = "waiting"
  BY DEF TypeInv, Turns, Range, CallInv, Kept
<1>2. \A c \in Calls : /\ call'[c].kind = call[c].kind
                       /\ c \in T => call'[c].st = st /\ call'[c].session = 0
                       /\ c \notin T => call'[c] = call[c]
  <2>1. ASSUME NEW c \in Calls
        PROVE  /\ call'[c].kind = call[c].kind
               /\ c \in T => call'[c].st = st /\ call'[c].session = 0
               /\ c \notin T => call'[c] = call[c]
    <3>1. call'[c] = IF c \in T THEN Over(c, st) ELSE call[c]
      BY DEF AllOver
    <3> QED BY <3>1, OverIs DEF TypeInv
  <2> QED BY <2>1
<1>3. Aside(s, m') /\ m'.pc \in {"check", "select", "done"}
  BY TopAside
<1>4. /\ m'.session = m.session /\ m'.queries = m.queries /\ m'.records = m.records
      /\ m'.bg = m.bg /\ m'.next_id = m.next_id /\ m'.held = m.held
      /\ \/ m'.rows = m.rows /\ m'.talk = m.talk
         \/ m'.rows = m.rows \cup TurnRows /\ m'.talk = TRUE
  BY <1>3 DEF Aside
<1> HIDE DEF T
<1>5. Queued'
  <2>1. Range(lane) \subseteq Calls /\ Range(back) \subseteq Calls
    BY DEF TypeInv, Range
  <2> QED BY <1>1, <1>2, <2>1 DEF CallInv, Queued
<1>6. Kept'
  <2>1. IsInjective(<<>>) /\ Range(<<>>) = {}
    BY DEF IsInjective, Range
  <2>2. turn'.results = <<>> /\ batch'.results = <<>>
    BY DEF CallInv, Kept, NoTurn
  <2>3. Range(m.held) \subseteq Calls /\ Range(m.held) \cap T = {}
    <3>1. m.held \in Seq(Calls)
      BY DEF TypeInv, MachineOK, SetsOK
    <3>2. Range(m.held) \subseteq Calls
      BY <3>1 DEF Range
    <3> QED BY <3>2 DEF CallInv, Kept, T
  <2>4. \A c \in Range(m.held) : call'[c].st = "waiting"
    BY <1>2, <2>3 DEF CallInv, Kept
  <2> QED BY <1>3, <1>4, <2>1, <2>2, <2>4 DEF CallInv, Kept
<1>7. Sessions'
  <2>1. \A c \in Calls : call[c].kind \in Kinds
    BY DEF TypeInv, CallState
  <2>2. m.session \in Nat
    BY DEF TypeInv, MachineOK, CountsOK
  <2> QED BY <1>2, <1>4, <2>2 DEF CallInv, Sessions, SessionsOK
<1>8. Numbered'
  <2>1. \A c \in Calls : call'[c].st = "new" <=> call[c].st = "new"
    BY <1>1, <1>2
  <2> QED BY <2>1 DEF CallInv, Numbered
<1>9. Counted'
  <2>1. \A c \in Calls : /\ call'[c].kind = call[c].kind
                         /\ \/ call'[c].st = call[c].st
                            \/ {call'[c].st, call[c].st} \cap {"queued", "running", "back"} = {}
    BY <1>1, <1>2
  <2> QED BY <1>4, <2>1, SameOut DEF CallInv
<1>10. Ids'
  <2>1. \A c \in Calls : call'[c].st = "waiting" =>
                            call[c].st = "waiting" /\ call'[c].id = call[c].id
    BY <1>2
  <2>2. \A c \in T : call'[c].st # "waiting"
    BY <1>1, <1>2
  <2>3. ~m'.talk => m'.rows = {} \/ (~m.talk /\ m'.rows = m.rows)
    BY <1>4
  <2> QED BY <1>4, <2>1, <2>2, <2>3, FewerWait DEF CallInv, T
<1>11. T \subseteq Promise!In("waiting")
  <2>1. \A c \in T : PhaseOf(c) = "waiting"
    BY <1>1 DEF PhaseOf, CallInv, Sessions, SessionsOK, Queries
  <2> QED BY <1>1, <2>1 DEF Promise!In
<1>12. ASSUME NEW c \in Calls
       PROVE  PhaseOf(c)' = IF c \in T THEN st ELSE PhaseOf(c)
  <2>1. c \in T => call[c].kind # "record"
    BY <1>1 DEF CallInv, Sessions, SessionsOK, Queries
  <2> QED BY <1>2, <1>4, <2>1 DEF PhaseOf
<1>13. Ph' = [c \in Calls |-> IF c \in T THEN st ELSE PhaseOf(c)]
  BY <1>12 DEF Ph
<1> QED BY <1>5, <1>6, <1>7, <1>8, <1>9, <1>10, <1>11, <1>13 DEF CallInv, T

LEMMA TurnFailsCalls == ASSUME TypeInv, CallInv, TurnFails PROVE CallInv' /\ PhaseStep
<1> DEFINE looks == turn.attempt < LlmRetries
           p == IF looks THEN m.pending \o inbox ELSE m.pending
           n == IF turn.nudged THEN Less(m.local_nudges, 1) ELSE m.local_nudges
           s == [m EXCEPT !.pending = p, !.local_nudges = n]
           T == Range(turn.results)
<1>1. /\ m.pc = "think" /\ call' = AllOver(T, "gone") /\ UNCHANGED <<lane, back, batch>>
      /\ turn' = NoTurn /\ disk' = Saved(m) /\ m' = AtTop(s)
  BY DEF TurnFails
<1> HIDE DEF p, n
<1>2. /\ DOMAIN s = Fields /\ s.session = m.session /\ s.queries = m.queries
      /\ s.records = m.records /\ s.bg = m.bg /\ s.next_id = m.next_id
      /\ s.talk = m.talk /\ s.held = m.held /\ s.rows = m.rows
  BY DEF TypeInv, MachineOK, Fields
<1> HIDE DEF s
<1>3. Aside(s, m')
  BY <1>1, <1>2, TopAside
<1>4. Written
  BY <1>1, <1>2, <1>3 DEF Written, Saved, Aside
<1>5. /\ CallInv' /\ T \subseteq Promise!In("waiting")
      /\ Ph' = [c \in Calls |-> IF c \in T THEN "gone" ELSE PhaseOf(c)]
  BY <1>1, <1>2, <1>4, TurnOver
<1>6. Promise!Lose
  <2> HIDE DEF T
  <2>1. Ph' = [c \in Calls |-> IF c \in T THEN "gone" ELSE Ph[c]]
    BY <1>5 DEF Ph
  <2> QED BY <1>5, <2>1 DEF Promise!Lose, Promise!Move, Ph
<1> QED BY <1>5, <1>6 DEF PhaseStep, Promise!Next

\* A turn of ToolCalls, by what it tells and what it starts.
LEMMA TurnIs ==
    ASSUME NEW told \in SUBSET Promise!In("waiting"), NEW started \in SUBSET Promise!In("new"),
           Ph' = [c \in Calls |-> IF c \in told THEN "told"
                                  ELSE IF c \in started THEN "out" ELSE Ph[c]]
    PROVE  Promise!Turn
BY DEF Promise!Turn, Ph

LEMMA TurnDroppedCalls == ASSUME TypeInv, CallInv, TurnDropped PROVE CallInv' /\ PhaseStep
<1> DEFINE s == [m EXCEPT !.pending = @ \o inbox, !.rows = @ \cup TurnRows, !.talk = TRUE]
           T == Range(turn.results)
<1>1. /\ m.pc = "think" /\ call' = AllOver(T, "told") /\ UNCHANGED <<lane, back, batch>>
      /\ turn' = NoTurn /\ disk' = Saved(s) /\ m' = AtTop(s)
  BY DEF TurnDropped
<1>2. /\ DOMAIN s = Fields /\ s.session = m.session /\ s.queries = m.queries
      /\ s.records = m.records /\ s.bg = m.bg /\ s.next_id = m.next_id
      /\ s.talk = TRUE /\ s.held = m.held /\ s.rows = m.rows \cup TurnRows
  BY DEF TypeInv, MachineOK, Fields
<1> HIDE DEF s
<1>3. Aside(s, m')
  BY <1>1, <1>2, TopAside
<1>4. Written
  BY <1>1, <1>3 DEF Written, Saved, Aside
<1>5. /\ CallInv' /\ T \subseteq Promise!In("waiting")
      /\ Ph' = [c \in Calls |-> IF c \in T THEN "told" ELSE PhaseOf(c)]
  BY <1>1, <1>2, <1>4, TurnOver
<1>6. Promise!Turn
  <2> HIDE DEF T
  <2>1. Ph' = [c \in Calls |-> IF c \in T THEN "told" ELSE IF c \in {} THEN "out" ELSE Ph[c]]
    BY <1>5 DEF Ph
  <2>2. {} \in SUBSET Promise!In("new")
    OBVIOUS
  <2> QED BY <1>5, <2>1, <2>2, TurnIs
<1> QED BY <1>5, <1>6 DEF PhaseStep, Promise!Next

-----------------------------------------------------------------------------
(* The process goes down and comes back. *)

LEMMA RestartCalls == ASSUME TypeInv, CallInv, Restart PROVE CallInv' /\ PhaseStep
<1> DEFINE L == Loaded
           G == {c \in Calls : call[c].st \notin {"new", "told"}}
<1>1. /\ m' = AtTop(L) /\ call' = AllOver(G, "gone") /\ lane' = <<>> /\ back' = <<>>
      /\ batch' = NoBatch /\ turn' = NoTurn /\ disk' = disk
  BY DEF Restart
<1>2. /\ DOMAIN L = Fields /\ L.session = 0 /\ L.queries = 0 /\ L.records = 0 /\ L.bg = {}
      /\ L.held = <<>>
      /\ \/ L.rows = {}
         \/ L.rows = disk.rows /\ L.talk = disk.talk
            /\ L.next_id = IF disk.talk THEN disk.next_id ELSE 0
  BY DEF Loaded, Fresh, Fields
<1> HIDE DEF L
<1>3. Aside(L, m') /\ m'.pc \in {"check", "select", "done"}
  BY <1>1, <1>2, TopAside
<1>4. \A c \in Calls : /\ call'[c].kind = call[c].kind
                       /\ c \in G => call'[c].st = "gone"
                       /\ c \notin G => call'[c] = call[c] /\ call[c].session = 0
                       /\ call'[c].session = 0
  <2>1. ASSUME NEW c \in Calls
        PROVE  /\ call'[c].kind = call[c].kind
               /\ c \in G => call'[c].st = "gone" /\ call'[c].session = 0
               /\ c \notin G => call'[c] = call[c] /\ call[c].session = 0
    <3>1. call'[c] = IF c \in G THEN Over(c, "gone") ELSE call[c]
      BY <1>1 DEF AllOver
    <3>2. c \notin G => call[c].session = 0
      BY DEF CallInv, Sessions, SessionsOK
    <3> HIDE DEF G
    <3> QED BY <3>1, <3>2, OverIs DEF TypeInv
  <2> QED BY <2>1
<1>5. \A c \in Calls : call'[c].st \in {"new", "told", "gone"}
  BY <1>4
<1>6. IsInjective(<<>>) /\ Range(<<>>) = {}
  BY DEF IsInjective, Range
<1>7. Queued'
  BY <1>1, <1>6 DEF Queued
<1>8. Kept'
  <2>1. m'.held = <<>> /\ batch'.results = <<>> /\ turn'.results = <<>>
    BY <1>1, <1>2, <1>3 DEF Aside, NoBatch, NoTurn
  <2> QED BY <1>6, <2>1 DEF Kept
<1>9. Sessions'
  BY <1>2, <1>3, <1>4, <1>5 DEF Sessions, SessionsOK, Aside
<1>10. Numbered'
  <2>1. \A c \in Calls : call'[c].st = "new" <=> call[c].st = "new"
    BY <1>4
  <2> QED BY <2>1 DEF CallInv, Numbered
<1>11. Counted'
  <2>1. \A K : Out(K)' = {}
    BY <1>5 DEF Out
  <2> QED BY <1>2, <1>3, <2>1, FS_EmptySet DEF Counted, Aside
<1>12. Ids'
  <2>1. RowsOK(disk.rows, disk.next_id, disk.talk)
    BY DEF CallInv, Ids
  <2>2. m'.rows = L.rows /\ m'.talk = L.talk /\ m'.next_id = L.next_id
    BY <1>3 DEF Aside
  <2>3. RowsOK(L.rows, L.next_id, L.talk)
    <3>1. CASE L.rows = {}
      BY <3>1 DEF RowsOK
    <3>2. CASE /\ L.rows = disk.rows /\ L.talk = disk.talk
               /\ L.next_id = IF disk.talk THEN disk.next_id ELSE 0
      BY <2>1, <3>2 DEF RowsOK
    <3> QED BY <1>2, <3>1, <3>2
  <2>4. WaitOK(call', m'.next_id, m'.rows)
    BY <1>5 DEF WaitOK
  <2> QED BY <1>1, <2>1, <2>2, <2>3, <2>4 DEF Ids
<1>13. Promise!Forget
  <2> DEFINE W == Promise!In("out") \cup Promise!In("waiting")
  <2>1. ASSUME NEW c \in Calls
        PROVE  PhaseOf(c)' = IF c \in W THEN "gone" ELSE PhaseOf(c)
    <3>1. c \in W <=> PhaseOf(c) \in {"out", "waiting"}
      BY DEF Promise!In
    <3>2. call[c].st \in {"new", "queued", "running", "back", "waiting", "told", "gone"}
      BY DEF TypeInv, CallState
    <3> HIDE DEF W
    <3> QED BY <1>4, <3>1, <3>2 DEF PhaseOf
  <2>2. Ph' = [c \in Calls |-> IF c \in W THEN "gone" ELSE PhaseOf(c)]
    BY <2>1 DEF Ph
  <2>3. Ph' = [c \in Calls |-> IF c \in W THEN "gone" ELSE Ph[c]]
    BY <2>2 DEF Ph
  <2> HIDE DEF W
  <2> QED BY <2>3 DEF Promise!Forget, Promise!Move, Ph, W
<1> QED BY <1>7, <1>8, <1>9, <1>10, <1>11, <1>12, <1>13 DEF CallInv, PhaseStep, Promise!Next

-----------------------------------------------------------------------------
(* Results come back. *)

\* The calls that came back leave the counters they were counted by.
LEMMA BackCounts ==
    ASSUME TypeInv, Counted, NEW q \in Seq(Calls),
           \A c \in Range(q) : call[c].st = "back",
           \A c \in Calls :
              /\ call'[c].kind = call[c].kind
              /\ c \in Range(q) => call'[c].st \in {"waiting", "gone"}
              /\ c \notin Range(q) =>
                    (call'[c].st \in {"queued", "running", "back"}
                       <=> call[c].st \in {"queued", "running", "back"}),
           m'.queries = Less(m.queries, Cardinality(Of(q, Queries \ {"bg"}))),
           m'.records = Less(m.records, Cardinality(Of(q, {"record"}))),
           m'.bg = m.bg \ Of(q, {"bg"})
    PROVE  Counted'
<1>1. Range(q) \subseteq Calls
  BY DEF Range
<1>2. ASSUME NEW K
      PROVE  /\ Out(K)' = Out(K) \ Of(q, K) /\ Of(q, K) \subseteq Out(K)
             /\ Cardinality(Out(K)') = Less(Cardinality(Out(K)), Cardinality(Of(q, K)))
  <2>1. Out(K)' = Out(K) \ Of(q, K) /\ Of(q, K) \subseteq Out(K)
    BY <1>1 DEF Out, Of
  <2> DEFINE o == Out(K)
             f == Of(q, K)
  <2>2. IsFiniteSet(o) /\ Cardinality(o) \in Nat /\ IsFiniteSet(o \ f) /\ Cardinality(o \ f) \in Nat
    <3>1. o \in SUBSET Calls /\ o \ f \in SUBSET Calls
      BY DEF Out
    <3> QED BY <3>1, CallsAreFinite
  <2> HIDE DEF o, f
  <2>3. o \cap f = f /\ f \in SUBSET o
    BY <2>1 DEF o, f
  <2>4. Cardinality(f) \in Nat
    BY <2>2, <2>3, FS_Subset, FS_CardinalityType
  <2>5. Cardinality(o \ f) = Cardinality(o) - Cardinality(f)
    <3>1. Cardinality(o \ f) = Cardinality(o) - Cardinality(o \cap f)
      BY <2>2, FS_Difference
    <3> QED BY <2>3, <3>1
  <2>6. Cardinality(o \ f) = Less(Cardinality(o), Cardinality(f))
    BY <2>2, <2>4, <2>5 DEF Less
  <2> QED BY <2>1, <2>6 DEF o, f
<1>3. Queries \ {"bg"} = {"lane", "host", "instant"}
  BY DEF Queries
<1>4. m'.queries = Cardinality(Out({"lane", "host", "instant"})')
  <2> DEFINE K == {"lane", "host", "instant"}
  <2>1. m.queries = Cardinality(Out(K)) /\ m'.queries = Less(m.queries, Cardinality(Of(q, K)))
    BY <1>3 DEF Counted
  <2> HIDE DEF K
  <2>2. m'.queries = Cardinality(Out(K)')
    BY <1>2, <2>1
  <2> QED BY <2>2 DEF K
<1>5. m'.records = Cardinality(Out({"record"})') /\ m'.bg = Out({"bg"})'
  BY <1>2 DEF Counted
<1> QED BY <1>4, <1>5 DEF Counted

\* Results of this session wait, under the next ids; what else came back is
\* gone, as ToolCalls saw it before.
LEMMA FeedMoves ==
    ASSUME TypeInv, CallInv, NEW s, MachineOK(s), s.session = m.session,
           m.next_id <= s.next_id, NEW q \in Seq(Calls), IsInjective(q),
           \A c \in Range(q) : call[c].st = "back", call' = BackCalls(s, q)
    PROVE  LET fed == Fed(s, q) IN
           /\ fed \in Seq(Calls) /\ IsInjective(fed)
           /\ Range(fed) \subseteq Range(q)
           /\ \A c \in Calls : /\ call'[c].kind = call[c].kind
                               /\ c \in Range(q) => call'[c].st \in {"waiting", "gone"}
                               /\ c \in Range(fed) => call'[c].st = "waiting"
                               /\ c \notin Range(q) => call'[c] = call[c]
           /\ SessionsOK(call', m.session) /\ Numbered'
           /\ WaitOK(call', s.next_id + Len(fed), m.rows)
<1> DEFINE fed == Fed(s, q)
           n == s.next_id + Len(fed)
<1>1. /\ call \in [Calls -> CallState] /\ Range(q) \subseteq Calls
      /\ m.next_id \in Nat /\ s.next_id \in Nat /\ m.session \in Nat
      /\ m.rows \subseteq Nat \X Calls
  <2>1. Range(q) \subseteq Calls
    BY DEF Range
  <2>2. /\ call \in [Calls -> CallState] /\ m.next_id \in Nat /\ s.next_id \in Nat
        /\ m.session \in Nat /\ m.rows \subseteq Nat \X Calls
    BY DEF TypeInv, MachineOK, CountsOK, SetsOK
  <2> QED BY <2>1, <2>2
<1>2. /\ fed \in Seq(Calls) /\ IsInjective(fed) /\ DOMAIN fed = 1..Len(fed) /\ Len(fed) \in Nat
      /\ Range(fed) = {c \in Range(q) : /\ call[c].kind \in Queries
                                        /\ call[c].session = m.session}
  BY FedIs
<1>3. \A c \in Calls :
         /\ call'[c].kind = call[c].kind
         /\ call'[c].session \in {0, call[c].session}
         /\ c \in Range(fed) =>
               /\ call'[c].st = "waiting" /\ call'[c].session = call[c].session
               /\ \E i \in 1..Len(fed) : fed[i] = c /\ call'[c].id = s.next_id + i - 1
         /\ c \in Range(q) \ Range(fed) => call'[c].st = "gone"
         /\ c \notin Range(q) => call'[c] = call[c]
  <2> DEFINE cs == BackCalls(s, q)
  <2>1. \A c \in Calls :
           /\ cs[c].kind = call[c].kind
           /\ cs[c].session \in {0, call[c].session}
           /\ c \in Range(fed) =>
                 /\ cs[c].st = "waiting" /\ cs[c].session = call[c].session
                 /\ \E i \in 1..Len(fed) : fed[i] = c /\ cs[c].id = s.next_id + i - 1
           /\ c \in Range(q) \ Range(fed) => cs[c].st = "gone"
           /\ c \notin Range(q) => cs[c] = call[c]
    <3>1. call \in [Calls -> CallState] /\ s.next_id \in Nat
      BY <1>1
    <3>2. \A c \in Calls :
             /\ cs[c].kind = call[c].kind
             /\ cs[c].session \in {0, call[c].session}
             /\ c \in Range(fed) => cs[c].st = "waiting" /\ cs[c].session = call[c].session
             /\ c \in Range(q) \ Range(fed) => cs[c].st = "gone"
             /\ c \notin Range(q) => cs[c] = call[c]
      BY <3>1, BackCallsIs
    <3>3. ASSUME NEW c \in Calls, c \in Range(fed)
          PROVE  \E i \in 1..Len(fed) : fed[i] = c /\ cs[c].id = s.next_id + i - 1
      BY <3>1, <3>3, BackCallsIs
    <3> HIDE DEF cs, fed
    <3> QED BY <3>2, <3>3
  <2>2. call' = cs
    OBVIOUS
  <2> HIDE DEF cs, fed
  <2> QED BY <2>1, <2>2
<1> HIDE DEF fed
<1>4. /\ SessionsOK(call, m.session) /\ WaitOK(call, m.next_id, m.rows)
      /\ RowsOK(m.rows, m.next_id, m.talk)
  BY DEF CallInv, Sessions, Ids
<1>5. SessionsOK(call', m.session)
  <2>1. ASSUME NEW c \in Calls
        PROVE  /\ call'[c].session <= m.session
               /\ call'[c].st = "waiting" =>
                     call'[c].session = m.session /\ call'[c].kind \in Queries
               /\ call'[c].st \in {"new", "told"} => call'[c].session = 0
    <3>1. CASE c \in Range(fed)
      BY <1>1, <1>2, <1>3, <1>4, <3>1 DEF SessionsOK
    <3>2. CASE c \in Range(q) \ Range(fed)
      BY <1>1, <1>3, <1>4, <3>2 DEF SessionsOK
    <3>3. CASE c \notin Range(q)
      BY <1>3, <1>4, <3>3 DEF SessionsOK
    <3> QED BY <3>1, <3>2, <3>3
  <2> QED BY <2>1 DEF SessionsOK
<1>6. Numbered'
  <2>1. \A c \in Calls : call'[c].st = "new" <=> call[c].st = "new"
    BY <1>2, <1>3
  <2> QED BY <2>1 DEF CallInv, Numbered
<1>7. WaitOK(call', n, m.rows)
  <2>1. ASSUME NEW c \in Calls, call'[c].st = "waiting"
        PROVE  \/ /\ c \notin Range(fed) /\ call[c].st = "waiting" /\ call'[c].id = call[c].id
                  /\ call'[c].id \in Nat /\ call'[c].id < m.next_id
               \/ /\ c \in Range(fed)
                  /\ \E i \in 1..Len(fed) : fed[i] = c /\ call'[c].id = s.next_id + i - 1
    <3>1. CASE c \in Range(fed)
      BY <1>3, <3>1
    <3>2. CASE c \notin Range(fed)
      <4>1. c \notin Range(q) /\ call'[c] = call[c]
        BY <1>3, <2>1, <3>2
      <4> QED BY <1>1, <1>4, <2>1, <3>2, <4>1 DEF WaitOK, CallState
    <3> QED BY <3>1, <3>2
  <2>2. ASSUME NEW c \in Calls, call'[c].st = "waiting"
        PROVE  /\ call'[c].id < n
               /\ \A r \in m.rows : r[1] # call'[c].id
               /\ c \in Range(fed) => m.next_id <= call'[c].id
    <3>1. CASE c \notin Range(fed)
      <4>1. call[c].st = "waiting" /\ call'[c].id = call[c].id /\ call'[c].id \in Nat
            /\ call'[c].id < m.next_id
        BY <2>1, <2>2, <3>1
      <4>2. call'[c].id < n
        BY <1>1, <1>2, <4>1
      <4> QED BY <1>4, <3>1, <4>1, <4>2 DEF WaitOK
    <3>2. CASE c \in Range(fed)
      <4>1. PICK i \in 1..Len(fed) : fed[i] = c /\ call'[c].id = s.next_id + i - 1
        BY <2>1, <2>2, <3>2
      <4>2. call'[c].id < n /\ m.next_id <= call'[c].id /\ call'[c].id \in Nat
        BY <1>1, <1>2, <4>1
      <4>3. \A r \in m.rows : r[1] \in Nat /\ r[1] < m.next_id
        BY <1>1, <1>4 DEF RowsOK
      <4>4. \A r \in m.rows : r[1] # call'[c].id
        BY <1>1, <4>2, <4>3
      <4> QED BY <4>2, <4>4
    <3> QED BY <3>1, <3>2
  <2>3. ASSUME NEW c \in Calls, call'[c].st = "waiting",
               NEW d \in Calls, call'[d].st = "waiting", call'[d].id = call'[c].id
        PROVE  c = d
    <3>1. CASE c \notin Range(fed) /\ d \notin Range(fed)
      BY <1>4, <2>1, <2>3, <3>1 DEF WaitOK
    <3>2. CASE c \in Range(fed) /\ d \in Range(fed)
      <4>1. PICK i \in 1..Len(fed) : fed[i] = c /\ call'[c].id = s.next_id + i - 1
        BY <2>1, <2>3, <3>2
      <4>2. PICK j \in 1..Len(fed) : fed[j] = d /\ call'[d].id = s.next_id + j - 1
        BY <2>1, <2>3, <3>2
      <4>3. i = j
        BY <1>1, <1>2, <2>3, <4>1, <4>2
      <4> QED BY <4>1, <4>2, <4>3
    <3>3. CASE c \in Range(fed) /\ d \notin Range(fed)
      BY <1>1, <2>1, <2>2, <2>3, <3>3
    <3>4. CASE c \notin Range(fed) /\ d \in Range(fed)
      BY <1>1, <2>1, <2>2, <2>3, <3>4
    <3> QED BY <3>1, <3>2, <3>3, <3>4
  <2> QED BY <2>2, <2>3 DEF WaitOK
<1>8. \A c \in Calls : /\ call'[c].kind = call[c].kind
                       /\ c \in Range(q) => call'[c].st \in {"waiting", "gone"}
                       /\ c \in Range(fed) => call'[c].st = "waiting"
                       /\ c \notin Range(q) => call'[c] = call[c]
  BY <1>3
<1> QED BY <1>2, <1>5, <1>6, <1>7, <1>8 DEF fed

LEMMA FeedLands ==
    ASSUME TypeInv, CallInv, NEW s, MachineOK(s), s.session = m.session,
           m.next_id <= s.next_id, NEW q \in Seq(Calls), IsInjective(q),
           \A c \in Range(q) : call[c].st = "back", call' = BackCalls(s, q),
           m'.session = m.session
    PROVE  Promise!Land
<1> DEFINE S == Range(Fed(s, q))
<1>1. /\ S = {c \in Range(q) : call[c].kind \in Queries /\ call[c].session = m.session}
      /\ S \subseteq Range(q) /\ Range(q) \subseteq Calls
  <2>1. S = {c \in Range(q) : call[c].kind \in Queries /\ call[c].session = s.session}
    BY FedIs
  <2>2. Range(q) \subseteq Calls
    BY DEF Range
  <2> HIDE DEF S
  <2> QED BY <2>1, <2>2
<1>2. \A c \in Calls : /\ call'[c].kind = call[c].kind
                       /\ c \in Range(q) => call'[c].st \in {"waiting", "gone"}
                       /\ c \in S => call'[c].st = "waiting"
                       /\ c \notin Range(q) => call'[c] = call[c]
  BY FeedMoves
<1>3. \A c \in Range(q) \ S : call'[c].st = "gone"
  <2> DEFINE cs == BackCalls(s, q)
  <2>1. call \in [Calls -> CallState] /\ s.next_id \in Nat
    BY DEF TypeInv, MachineOK, CountsOK
  <2>2. \A c \in Calls : c \in Range(q) \ S => cs[c].st = "gone"
    BY <2>1, BackCallsIs
  <2>3. call' = cs
    OBVIOUS
  <2> HIDE DEF cs, S
  <2> QED BY <1>1, <2>2, <2>3
<1>4. SessionsOK(call', m.session)
  BY FeedMoves
<1> HIDE DEF S
<1>5. \A c \in S : PhaseOf(c) = "out"
  BY <1>1 DEF PhaseOf, Queries
<1>6. ASSUME NEW c \in Calls
      PROVE  PhaseOf(c)' = IF c \in S THEN "waiting" ELSE PhaseOf(c)
  <2>1. CASE c \in S
    <3>1. call'[c].st = "waiting" /\ call'[c].kind = call[c].kind /\ call[c].kind # "record"
      BY <1>1, <1>2, <2>1 DEF Queries
    <3>2. call'[c].session = m.session
      BY <1>4, <3>1 DEF SessionsOK
    <3> QED BY <2>1, <3>1, <3>2 DEF PhaseOf
  <2>2. CASE c \in Range(q) \ S
    <3>1. call'[c].st = "gone" /\ call'[c].kind = call[c].kind
      BY <1>2, <1>3, <2>2
    <3>2. call[c].st = "back" /\ (call[c].kind = "record" \/ call[c].session # m.session)
      <4>1. call[c].kind \in Kinds
        BY DEF TypeInv, CallState
      <4> QED BY <1>1, <2>2, <4>1 DEF Kinds
    <3> QED BY <2>2, <3>1, <3>2 DEF PhaseOf
  <2>3. CASE c \notin Range(q)
    <3>1. c \notin S /\ call'[c] = call[c]
      BY <1>1, <1>2, <2>3
    <3> QED BY <3>1 DEF PhaseOf
  <2> QED BY <2>1, <2>2, <2>3
<1>7. S \in SUBSET Promise!In("out")
  BY <1>1, <1>5 DEF Promise!In
<1>8. Ph' = [c \in Calls |-> IF c \in S THEN "waiting" ELSE Ph[c]]
  BY <1>6 DEF Ph
<1> QED BY <1>7, <1>8 DEF Promise!Land, Promise!Move, Ph

\* The struct, the channel and the calls after results were taken in.
LEMMA FeedKeeps ==
    ASSUME TypeInv, CallInv, NEW s, MachineOK(s), s.session = m.session,
           m.next_id <= s.next_id, NEW q \in Seq(Calls), IsInjective(q),
           Range(q) \subseteq Range(back), call' = BackCalls(s, q),
           lane' = lane, IsInjective(back'), Range(back') \subseteq Range(back) \ Range(q),
           m'.session = m.session,
           m'.queries = Less(m.queries, Cardinality(Of(q, Queries \ {"bg"}))),
           m'.records = Less(m.records, Cardinality(Of(q, {"record"}))),
           m'.bg = m.bg \ Of(q, {"bg"}),
           m'.next_id = s.next_id + Len(Fed(s, q)),
           m'.rows = m.rows, m'.talk = m.talk, disk' = disk, Kept'
    PROVE  CallInv' /\ PhaseStep
<1> DEFINE fed == Fed(s, q)
<1>1. \A c \in Range(q) : call[c].st = "back"
  BY DEF CallInv, Queued
<1>2. /\ \A c \in Calls : /\ call'[c].kind = call[c].kind
                          /\ c \in Range(q) => call'[c].st \in {"waiting", "gone"}
                          /\ c \notin Range(q) => call'[c] = call[c]
      /\ SessionsOK(call', m.session) /\ Numbered'
      /\ WaitOK(call', s.next_id + Len(fed), m.rows)
  BY <1>1, FeedMoves
<1>3. Queued'
  <2>1. Range(lane) \subseteq Calls /\ Range(back) \subseteq Calls
    BY DEF TypeInv, Range
  <2>2. \A c \in Range(lane) : c \notin Range(q)
    BY <1>1 DEF CallInv, Queued
  <2>3. \A c \in Range(lane) : call'[c].st \in {"queued", "running"}
    BY <1>2, <2>1, <2>2 DEF CallInv, Queued
  <2>4. \A c \in Range(back') : call'[c].st = "back"
    BY <1>2, <2>1 DEF CallInv, Queued
  <2> QED BY <2>3, <2>4 DEF CallInv, Queued
<1>4. Counted'
  <2>1. \A c \in Calls :
           /\ call'[c].kind = call[c].kind
           /\ c \in Range(q) => call'[c].st \in {"waiting", "gone"}
           /\ c \notin Range(q) => (call'[c].st \in {"queued", "running", "back"}
                                      <=> call[c].st \in {"queued", "running", "back"})
    BY <1>2
  <2> QED BY <1>1, <2>1, BackCounts DEF CallInv
<1>5. Ids'
  <2>1. RowsOK(m.rows, m.next_id, m.talk) /\ RowsOK(disk.rows, disk.next_id, disk.talk)
    BY DEF CallInv, Ids
  <2>2. /\ m.next_id \in Nat /\ m'.next_id \in Nat /\ m.next_id <= m'.next_id
        /\ \A r \in m.rows : r[1] \in Nat
    <3>1. m.next_id \in Nat /\ s.next_id \in Nat /\ m.rows \subseteq Nat \X Calls
      BY DEF TypeInv, MachineOK, CountsOK, SetsOK
    <3>2. fed \in Seq(Calls)
      BY FedIs
    <3> HIDE DEF fed
    <3>3. Len(fed) \in Nat
      BY <3>2
    <3>4. m'.next_id = s.next_id + Len(fed)
      BY DEF fed
    <3> QED BY <3>1, <3>3, <3>4
  <2>3. RowsOK(m'.rows, m'.next_id, m'.talk)
    BY <2>1, <2>2 DEF RowsOK
  <2> QED BY <1>2, <2>1, <2>3 DEF Ids
<1>6. Promise!Land
  BY <1>1, FeedLands
<1>7. Sessions'
  BY <1>2 DEF Sessions
<1> QED BY <1>2, <1>3, <1>4, <1>5, <1>6, <1>7 DEF CallInv, PhaseStep, Promise!Next

\* What was fed joins the batch; nothing of it was anywhere before.
LEMMA FeedIsKept ==
    ASSUME TypeInv, CallInv, NEW s, MachineOK(s), s.session = m.session,
           m.next_id <= s.next_id, NEW q \in Seq(Calls), IsInjective(q),
           Range(q) \subseteq Range(back), call' = BackCalls(s, q),
           m.pc # "think", turn' = turn, m'.held = m.held,
           NEW r \in {<<>>, batch.results}, batch'.results = r \o Fed(s, q),
           m'.pc \in {"batch", "decide"} \/ batch'.results = <<>>
    PROVE  Kept'
<1> DEFINE fed == Fed(s, q)
<1>1. \A c \in Range(q) : call[c].st = "back"
  BY DEF CallInv, Queued
<1>2. /\ fed \in Seq(Calls) /\ IsInjective(fed) /\ Range(fed) \subseteq Range(q)
      /\ \A c \in Calls : /\ c \in Range(fed) => call'[c].st = "waiting"
                          /\ c \notin Range(q) => call'[c] = call[c]
  BY <1>1, FeedMoves
<1> HIDE DEF fed
<1>3. IsInjective(<<>>) /\ Range(<<>>) = {} /\ <<>> \in Seq(Calls)
  BY DEF IsInjective, Range
<1>4. batch.results \in Seq(Calls) /\ m.held \in Seq(Calls)
  BY DEF TypeInv, Batch, MachineOK, SetsOK
<1>5. r \in Seq(Calls) /\ IsInjective(r) /\ Range(r) \subseteq Range(batch.results)
  BY <1>3, <1>4 DEF CallInv, Kept
<1>6. \A c \in Range(m.held) \cup Range(r) : c \notin Range(q) /\ c \in Calls
                                             /\ call[c].st = "waiting"
  <2>1. Range(m.held) \subseteq Calls /\ Range(batch.results) \subseteq Calls
    BY <1>4 DEF Range
  <2> QED BY <1>1, <1>5, <2>1 DEF CallInv, Kept
<1>7. /\ Range(r \o fed) = Range(r) \cup Range(fed) /\ IsInjective(r \o fed)
  BY <1>2, <1>5, <1>6, JoinIs
<1>8. turn'.results = <<>>
  BY DEF CallInv, Kept
<1>9. Range(fed) \subseteq Calls
  BY <1>2 DEF Range
<1>10. \A c \in Range(m.held) \cup Range(r \o fed) : call'[c].st = "waiting"
  BY <1>2, <1>6, <1>7, <1>9
<1>11. Range(m.held) \cap Range(r \o fed) = {}
  <2>1. Range(m.held) \cap Range(r) = {}
    BY <1>3, <1>5 DEF CallInv, Kept
  <2>2. Range(m.held) \cap Range(fed) = {}
    BY <1>2, <1>6
  <2> QED BY <1>7, <2>1, <2>2
<1>12. batch'.results = r \o fed
  BY DEF fed
<1>13. IsInjective(m.held)
  BY DEF CallInv, Kept
<1> QED BY <1>3, <1>7, <1>8, <1>10, <1>11, <1>12, <1>13 DEF Kept

LEMMA BatchBackCalls == ASSUME TypeInv, CallInv, BatchBack PROVE CallInv' /\ PhaseStep
<1> DEFINE q == <<Head(back)>>
           b == BackMachine(m, q)
           fed == Fed(m, q)
           pc == IF b.queries > 0 THEN "batch" ELSE "decide"
<1>1. /\ m.pc = "batch" /\ back # <<>> /\ call' = BackCalls(m, q)
      /\ m' = [b EXCEPT !.next_id = @ + Len(fed), !.pc = pc]
      /\ batch' = [batch EXCEPT !.results = @ \o fed] /\ back' = Tail(back)
      /\ UNCHANGED <<lane, turn, disk>>
  BY DEF BatchBack
<1>2. back \in Seq(Calls) /\ MachineOK(m) /\ batch \in Batch
  BY DEF TypeInv
<1>3. /\ q \in Seq(Calls) /\ IsInjective(q) /\ Range(q) = {Head(back)}
      /\ Head(back) \in Range(back)
  <2>1. Head(back) \in Calls /\ 1 \in DOMAIN back /\ Head(back) = back[1]
    BY <1>1, <1>2
  <2> QED BY <2>1 DEF IsInjective, Range
<1>4. IsInjective(back') /\ Range(back') \subseteq Range(back) \ Range(q)
  <2>1. /\ Len(back) \in Nat /\ DOMAIN back = 1..Len(back) /\ 1 \in 1..Len(back)
        /\ Head(back) = back[1]
        /\ DOMAIN back' = 1..(Len(back) - 1)
        /\ \A i \in 1..(Len(back) - 1) : back'[i] = back[i + 1] /\ i + 1 \in 1..Len(back)
    BY <1>1, <1>2
  <2>2. \A i, j \in DOMAIN back : back[i] = back[j] => i = j
    BY DEF CallInv, Queued, IsInjective
  <2>3. IsInjective(back')
    BY <2>1, <2>2 DEF IsInjective
  <2>4. \A i \in DOMAIN back' : back'[i] \in Range(back) /\ back'[i] # Head(back)
    <3>1. SUFFICES ASSUME NEW i \in 1..(Len(back) - 1)
                   PROVE  back[i + 1] \in Range(back) /\ back[i + 1] # back[1]
      BY <2>1
    <3>2. i + 1 \in DOMAIN back /\ i + 1 # 1
      BY <2>1
    <3> QED BY <2>1, <2>2, <3>2 DEF Range
  <2>5. \A c \in Range(back') : \E i \in DOMAIN back' : c = back'[i]
    BY DEF Range
  <2> QED BY <1>3, <2>3, <2>4, <2>5
<1>5. /\ MachineOK(b) /\ SameBudgets(m, b) /\ b.next_id = m.next_id
      /\ b.queries = Less(m.queries, Cardinality(Of(q, Queries \ {"bg"})))
      /\ b.records = Less(m.records, Cardinality(Of(q, {"record"})))
      /\ b.bg = m.bg \ Of(q, {"bg"})
  BY <1>2, <1>3, BackIs
<1> HIDE DEF b, fed, q
<1>6. /\ m'.session = b.session /\ m'.queries = b.queries /\ m'.records = b.records
      /\ m'.bg = b.bg /\ m'.next_id = b.next_id + Len(fed) /\ m'.rows = b.rows
      /\ m'.talk = b.talk /\ m'.held = b.held /\ m'.pc = pc
  BY <1>1, <1>5 DEF MachineOK, Fields
<1>7. batch'.results = batch.results \o fed
  BY <1>1, <1>2 DEF Batch
<1>8. Range(q) \subseteq Range(back)
  BY <1>3
<1>9. m.next_id <= m.next_id
  BY <1>2 DEF MachineOK, CountsOK
<1>10. /\ m'.session = m.session /\ m'.rows = m.rows /\ m'.talk = m.talk /\ m'.held = m.held
       /\ m'.queries = Less(m.queries, Cardinality(Of(q, Queries \ {"bg"})))
       /\ m'.records = Less(m.records, Cardinality(Of(q, {"record"})))
       /\ m'.bg = m.bg \ Of(q, {"bg"}) /\ m'.next_id = m.next_id + Len(fed)
  BY <1>5, <1>6 DEF SameBudgets
<1>11. Kept'
  <2>1. m'.pc \in {"batch", "decide"}
    BY <1>6
  <2> QED BY <1>1, <1>2, <1>3, <1>7, <1>8, <1>9, <1>10, <2>1, FeedIsKept DEF fed
<1> QED BY <1>1, <1>2, <1>3, <1>4, <1>8, <1>9, <1>10, <1>11, FeedKeeps DEF fed

-----------------------------------------------------------------------------
(* A reset. *)

\* A reset was taken in: what came back or waited is gone, and what is still
\* out is of an ended session.
LEMMA ResetKeeps ==
    ASSUME TypeInv, CallInv, m.pc # "think", m.session < m'.session, m'.session \in Nat,
           NEW q \in Seq(Calls), Range(q) \subseteq Range(back),
           \A c \in Calls :
              /\ call'[c].kind = call[c].kind
              /\ call'[c].session \in {0, call[c].session}
              /\ c \in Range(q) \/ call[c].st = "waiting" => call'[c].st = "gone"
              /\ c \notin Range(q) /\ call[c].st # "waiting" => call'[c] = call[c],
           lane' = lane, IsInjective(back'), Range(back') \subseteq Range(back) \ Range(q),
           m'.queries = Less(m.queries, Cardinality(Of(q, Queries \ {"bg"}))),
           m'.records = Less(m.records, Cardinality(Of(q, {"record"}))),
           m'.bg = m.bg \ Of(q, {"bg"}),
           m'.rows = {}, m'.held = <<>>, batch'.results = <<>>, turn' = turn,
           disk'.rows = {}
    PROVE  CallInv' /\ PhaseStep
<1>1. /\ Range(q) \subseteq Calls /\ \A c \in Range(q) : call[c].st = "back"
      /\ Range(lane) \subseteq Calls /\ Range(back) \subseteq Calls
      /\ \A c \in Range(back) : call[c].st = "back"
      /\ \A c \in Range(lane) : call[c].st \in {"queued", "running"}
  <2>1. Range(lane) \subseteq Calls /\ Range(back) \subseteq Calls
    BY DEF TypeInv, Range
  <2>2. /\ \A c \in Range(back) : call[c].st = "back"
        /\ \A c \in Range(lane) : call[c].st \in {"queued", "running"}
    BY DEF CallInv, Queued
  <2>3. Range(q) \subseteq Calls
    BY DEF Range
  <2> QED BY <2>1, <2>2, <2>3
<1>2. \A c \in Calls : call[c].session \in Nat /\ call[c].session <= m.session
  BY DEF TypeInv, CallState, CallInv, Sessions, SessionsOK
<1>3. Queued'
  <2>1. \A c \in Range(lane) : call'[c] = call[c]
    BY <1>1
  <2>2. \A c \in Range(back') : call'[c] = call[c]
    BY <1>1
  <2> QED BY <1>1, <2>1, <2>2 DEF CallInv, Queued
<1>4. Kept'
  <2>1. IsInjective(<<>>) /\ Range(<<>>) = {}
    BY DEF IsInjective, Range
  <2>2. turn'.results = <<>>
    BY DEF CallInv, Kept
  <2> QED BY <2>1, <2>2 DEF Kept
<1>5. \A c \in Calls : call'[c].st # "waiting"
  BY <1>1
<1>6. Sessions'
  <2>1. m.session \in Nat
    BY DEF TypeInv, MachineOK, CountsOK
  <2>2. \A c \in Calls : call'[c].session <= m'.session
    BY <1>2, <2>1
  <2>3. \A c \in Calls : call'[c].st \in {"new", "told"} => call'[c].session = 0
    BY DEF CallInv, Sessions, SessionsOK
  <2> QED BY <1>5, <2>2, <2>3 DEF Sessions, SessionsOK
<1>7. Numbered'
  <2>1. \A c \in Calls : call'[c].st = "new" <=> call[c].st = "new"
    BY <1>1
  <2> QED BY <2>1 DEF CallInv, Numbered
<1>8. Counted'
  <2>1. \A c \in Calls :
           /\ call'[c].kind = call[c].kind
           /\ c \in Range(q) => call'[c].st \in {"waiting", "gone"}
           /\ c \notin Range(q) => (call'[c].st \in {"queued", "running", "back"}
                                      <=> call[c].st \in {"queued", "running", "back"})
    OBVIOUS
  <2> QED BY <1>1, <2>1, BackCounts DEF CallInv
<1>9. Ids'
  BY <1>5 DEF Ids, RowsOK, WaitOK
<1>10. Promise!Forget
  <2> DEFINE W == Promise!In("out") \cup Promise!In("waiting")
  <2>1. ASSUME NEW c \in Calls
        PROVE  PhaseOf(c)' = IF c \in W THEN "gone" ELSE PhaseOf(c)
    <3>1. c \in W <=> PhaseOf(c) \in {"out", "waiting"}
      BY DEF Promise!In
    <3>2. call[c].st \in {"new", "queued", "running", "back", "waiting", "told", "gone"}
      BY DEF TypeInv, CallState
    <3>3. /\ call'[c].kind = call[c].kind
          /\ c \in Range(q) => call[c].st = "back"
          /\ c \in Range(q) \/ call[c].st = "waiting" => call'[c].st = "gone"
          /\ c \notin Range(q) /\ call[c].st # "waiting" => call'[c] = call[c]
      BY <1>1
    <3>4. call'[c].session # m'.session
      <4>1. m.session \in Nat
        BY DEF TypeInv, MachineOK, CountsOK
      <4> QED BY <1>2, <4>1
    <3> HIDE DEF W
    <3> QED BY <3>1, <3>2, <3>3, <3>4 DEF PhaseOf
  <2>2. Ph' = [c \in Calls |-> IF c \in W THEN "gone" ELSE Ph[c]]
    BY <2>1 DEF Ph
  <2> HIDE DEF W
  <2> QED BY <2>2 DEF Promise!Forget, Promise!Move, Ph, W
<1> QED BY <1>3, <1>4, <1>6, <1>7, <1>8, <1>9, <1>10 DEF CallInv, PhaseStep, Promise!Next

\* What comes of the calls when results are drained along with a reset: none
\* of them is of the session the reset began.
LEMMA DrainedIs ==
    ASSUME TypeInv, CallInv, NEW s, MachineOK(s), m.session < s.session,
           NEW q \in Seq(Calls), \A c \in Range(q) : call[c].st = "back"
    PROVE  LET cs == Dropped(BackCalls(s, q)) IN
           /\ Fed(s, q) = <<>>
           /\ \A c \in Calls :
                 /\ cs[c].kind = call[c].kind
                 /\ cs[c].session \in {0, call[c].session}
                 /\ c \in Range(q) \/ call[c].st = "waiting" => cs[c].st = "gone"
                 /\ c \notin Range(q) /\ call[c].st # "waiting" => cs[c] = call[c]
<1> DEFINE fed == Fed(s, q)
           bs == BackCalls(s, q)
           cs == Dropped(bs)
<1>1. call \in [Calls -> CallState] /\ s.next_id \in Nat
  BY DEF TypeInv, MachineOK, CountsOK
<1>2. fed = <<>>
  <2>1. /\ fed \in Seq(Calls)
        /\ Range(fed) = {c \in Range(q) : /\ call[c].kind \in Queries
                                          /\ call[c].session = s.session}
    BY FedIs
  <2>2. Range(q) \subseteq Calls
    BY DEF Range
  <2>3. \A c \in Calls : call[c].session # s.session
    <3>1. \A c \in Calls : call[c].session \in Nat /\ call[c].session <= m.session
      BY DEF TypeInv, CallState, CallInv, Sessions, SessionsOK
    <3>2. m.session \in Nat /\ s.session \in Nat
      BY DEF TypeInv, MachineOK, CountsOK
    <3> QED BY <3>1, <3>2
  <2>4. Range(fed) = {}
    BY <2>1, <2>2, <2>3
  <2> HIDE DEF fed
  <2>5. \A i \in 1..Len(fed) : fed[i] \in Range(fed)
    BY <2>1 DEF Range
  <2> QED BY <2>1, <2>4, <2>5
<1>3. Range(fed) = {}
  BY <1>2 DEF Range
<1>4. /\ bs \in [Calls -> CallState]
      /\ \A c \in Calls :
            /\ bs[c].kind = call[c].kind
            /\ bs[c].session \in {0, call[c].session}
            /\ c \in Range(q) \ Range(fed) => bs[c].st = "gone"
            /\ c \notin Range(q) => bs[c] = call[c]
  BY <1>1, BackCallsIs
<1> HIDE DEF bs, fed
<1>5. \A c \in Calls : IF bs[c].st = "waiting" THEN cs[c] = Over(c, "gone")
                       ELSE cs[c] = bs[c]
  BY <1>1, <1>4, DroppedIs
<1>6. \A c \in Calls : Over(c, "gone") = [kind |-> call[c].kind, session |-> 0,
                                          st |-> "gone", id |-> 0]
  BY <1>1, OverIs
<1> HIDE DEF cs
<1>7. ASSUME NEW c \in Calls
      PROVE  /\ cs[c].kind = call[c].kind
             /\ cs[c].session \in {0, call[c].session}
             /\ c \in Range(q) \/ call[c].st = "waiting" => cs[c].st = "gone"
             /\ c \notin Range(q) /\ call[c].st # "waiting" => cs[c] = call[c]
  <2>1. CASE c \in Range(q)
    <3>1. bs[c].st = "gone"
      BY <1>3, <1>4, <2>1
    <3>2. cs[c] = bs[c]
      BY <1>5, <3>1
    <3> QED BY <1>4, <2>1, <3>1, <3>2
  <2>2. CASE c \notin Range(q) /\ call[c].st = "waiting"
    <3>1. bs[c].st = "waiting"
      BY <1>4, <2>2
    <3>2. cs[c] = [kind |-> call[c].kind, session |-> 0, st |-> "gone", id |-> 0]
      BY <1>5, <1>6, <3>1
    <3> QED BY <2>2, <3>2
  <2>3. CASE c \notin Range(q) /\ call[c].st # "waiting"
    <3>1. bs[c] = call[c] /\ cs[c] = call[c]
      BY <1>4, <1>5, <2>3
    <3> QED BY <2>3, <3>1
  <2> QED BY <2>1, <2>2, <2>3
<1> QED BY <1>2, <1>7 DEF cs, bs, fed

LEMMA BatchTakeCalls == ASSUME TypeInv, CallInv, BatchTake PROVE CallInv' /\ PhaseStep
<1> DEFINE q == <<Head(inbox)>>
           t == TakeMachine(m, q)
           new == TakeBatch(batch, q)
<1>1. /\ m.pc = "batch" /\ inbox # <<>> /\ m' = [t EXCEPT !.pc = "decide"]
      /\ batch' = new /\ call' = (IF HasReset(q) THEN Dropped(call) ELSE call)
      /\ disk' = SavedOnReset(q, t) /\ UNCHANGED <<lane, back, turn>>
  BY DEF BatchTake
<1>2. q \in Seq(Inbound \cup Wakes) /\ MachineOK(m) /\ batch \in Batch
  <2>1. inbox \in Seq(Inbound) /\ Head(inbox) \in Inbound
    BY <1>1 DEF TypeInv
  <2> QED BY <2>1 DEF TypeInv
<1>3. /\ MachineOK(t) /\ SameCalls(m, t) /\ t.session = m.session + Resets(q)
      /\ ~HasReset(q) => t = m
      /\ HasReset(q) => t.held = <<>> /\ t.rows = {}
  BY <1>2, TakeIs
<1>4. /\ ~HasReset(q) => new.results = batch.results
      /\ HasReset(q) => new.results = <<>>
  BY <1>2, TakeBatchIs
<1>5. Resets(q) \in Nat /\ (HasReset(q) <=> Resets(q) # 0)
  BY <1>2, ResetsCount
<1> HIDE DEF t, new
<1>6. /\ m'.session = t.session /\ m'.queries = t.queries /\ m'.records = t.records
      /\ m'.bg = t.bg /\ m'.next_id = t.next_id /\ m'.rows = t.rows
      /\ m'.talk = t.talk /\ m'.held = t.held /\ m'.pc = "decide"
  BY <1>1, <1>3 DEF MachineOK, Fields
<1>7. CASE ~HasReset(q)
  <2>1. SameBooks /\ m'.held = m.held /\ batch'.results = batch.results /\ call' = call
        /\ disk' = disk
    BY <1>1, <1>3, <1>4, <1>6, <1>7 DEF SameBooks, SavedOnReset
  <2>2. Kept'
    <3>1. turn' = turn /\ m.pc = "batch" /\ m'.pc = "decide"
      BY <1>1, <1>6
    <3> QED BY <2>1, <3>1 DEF CallInv, Kept
  <2> QED BY <1>1, <2>1, <2>2, StillKeeps DEF Written
<1>8. CASE HasReset(q)
  <2> DEFINE none == <<>>
  <2>1. /\ m.session \in Nat /\ m'.session \in Nat /\ m.session < m'.session
    <3>1. m.session \in Nat
      BY <1>2 DEF MachineOK, CountsOK
    <3> QED BY <1>3, <1>5, <1>6, <1>8, <3>1
  <2>2. none \in Seq(Calls) /\ Range(none) = {} /\ \A K : Of(none, K) = {}
    BY DEF Range, Of
  <2> HIDE DEF none
  <2>3. \A c \in Calls :
           /\ call'[c].kind = call[c].kind
           /\ call'[c].session \in {0, call[c].session}
           /\ c \in Range(none) \/ call[c].st = "waiting" => call'[c].st = "gone"
           /\ c \notin Range(none) /\ call[c].st # "waiting" => call'[c] = call[c]
    <3>1. call \in [Calls -> CallState] /\ call' = Dropped(call)
      BY <1>1, <1>8 DEF TypeInv
    <3>2. ASSUME NEW c \in Calls
          PROVE  /\ call[c].st = "waiting" => call'[c] = Over(c, "gone")
                 /\ call[c].st # "waiting" => call'[c] = call[c]
      BY <3>1, DroppedIs
    <3>3. \A c \in Calls : Over(c, "gone") = [kind |-> call[c].kind, session |-> 0,
                                              st |-> "gone", id |-> 0]
      BY <3>1, OverIs
    <3> QED BY <2>2, <3>2, <3>3
  <2>4. m.queries \in Nat /\ m.records \in Nat /\ m.bg \ {} = m.bg
    BY <1>2 DEF MachineOK, CountsOK
  <2>5. /\ m'.queries = Less(m.queries, Cardinality(Of(none, Queries \ {"bg"})))
        /\ m'.records = Less(m.records, Cardinality(Of(none, {"record"})))
        /\ m'.bg = m.bg \ Of(none, {"bg"})
    <3>1. Less(m.queries, 0) = m.queries /\ Less(m.records, 0) = m.records
      BY <2>4 DEF Less
    <3>2. m'.queries = m.queries /\ m'.records = m.records /\ m'.bg = m.bg
      BY <1>3, <1>6 DEF SameCalls
    <3> QED BY <2>2, <2>4, <3>1, <3>2, FS_EmptySet
  <2>6. m'.rows = {} /\ m'.held = <<>> /\ batch'.results = <<>> /\ disk'.rows = {}
    BY <1>1, <1>3, <1>4, <1>6, <1>8 DEF SavedOnReset, Saved
  <2>7. /\ Range(none) \subseteq Range(back) /\ IsInjective(back')
        /\ Range(back') \subseteq Range(back) \ Range(none)
    BY <1>1, <2>2 DEF CallInv, Queued
  <2>8. m.pc # "think"
    BY <1>1
  <2>9. lane' = lane /\ turn' = turn
    BY <1>1
  <2> QED BY <2>1, <2>2, <2>3, <2>5, <2>6, <2>7, <2>8, <2>9, ResetKeeps
<1> QED BY <1>7, <1>8

-----------------------------------------------------------------------------
(* The drain of both channels. *)

LEMMA GatherCalls ==
    ASSUME TypeInv, CallInv, m.pc = "select", NEW s, MachineOK(s), Armed(s),
           s.session = m.session, s.queries = m.queries, s.records = m.records,
           s.bg = m.bg, s.next_id = m.next_id, s.rows = m.rows, s.talk = m.talk,
           s.held = m.held,
           NEW q \in Seq(Inbound \cup Wakes), NEW early \in Nat, Gather(s, q, early)
    PROVE  CallInv' /\ PhaseStep
<1> DEFINE t == TakeMachine(s, q)
           taken == Taken(s, q, early)
           fed == Fed(taken, back)
           new == TakeBatch(NoBatch, q)
           got == Got(s, q, early)
           calm == [got EXCEPT !.synthetic_wakes = 0]
<1>1. /\ call' = (IF HasReset(q) THEN Dropped(BackCalls(taken, back))
                                 ELSE BackCalls(taken, back))
      /\ batch' = [new EXCEPT !.results = fed] /\ back' = <<>>
      /\ disk' = SavedOnReset(q, taken) /\ UNCHANGED <<lane, turn>>
  BY DEF Gather, Taken
<1>2. back \in Seq(Calls) /\ IsInjective(back) /\ \A c \in Range(back) : call[c].st = "back"
  BY DEF TypeInv, CallInv, Queued
<1>3. /\ MachineOK(t) /\ t.session = m.session + Resets(q)
      /\ ~HasReset(q) => t = s
      /\ HasReset(q) => t.held = <<>> /\ t.rows = {}
  BY TakeIs
<1>4. /\ MachineOK(taken) /\ SameBudgets(t, taken) /\ taken.next_id = m.next_id + early
  BY TakenIs
<1>5. /\ MachineOK(got) /\ SameBudgets(t, got) /\ got.next_id = m.next_id + early + Len(fed)
      /\ got.queries = Less(m.queries, Cardinality(Of(back, Queries \ {"bg"})))
      /\ got.records = Less(m.records, Cardinality(Of(back, {"record"})))
      /\ got.bg = m.bg \ Of(back, {"bg"})
  <2>1. /\ MachineOK(got) /\ SameBudgets(t, got) /\ got.next_id = s.next_id + early + Len(fed)
        /\ got.queries = Less(s.queries, Cardinality(Of(back, Queries \ {"bg"})))
        /\ got.records = Less(s.records, Cardinality(Of(back, {"record"})))
        /\ got.bg = s.bg \ Of(back, {"bg"})
    BY <1>2, GotIs
  <2> HIDE DEF t, fed, got
  <2> QED BY <2>1
<1>6. Gathered(s, q, early)
  BY <1>2, GatherIs
<1>7. new \in Batch
  BY EmptyTypes, TakeBatchIs
<1>8. Resets(q) \in Nat /\ (HasReset(q) <=> Resets(q) # 0)
  BY ResetsCount
<1> HIDE DEF t, taken, fed, new, got
<1>9. batch'.results = fed
  BY <1>1, <1>7 DEF Batch
<1>10. /\ calm.session = got.session /\ calm.queries = got.queries
       /\ calm.records = got.records /\ calm.bg = got.bg /\ calm.next_id = got.next_id
       /\ calm.rows = got.rows /\ calm.talk = got.talk /\ calm.held = got.held
  BY <1>5 DEF MachineOK, Fields
<1> HIDE DEF calm
<1>11. /\ m'.session = got.session /\ m'.queries = got.queries /\ m'.records = got.records
       /\ m'.bg = got.bg /\ m'.next_id = got.next_id /\ m'.rows = got.rows
       /\ m'.talk = got.talk /\ m'.held = got.held
       /\ m'.pc \in {"batch", "decide"} \/ fed = <<>>
  <2>1. CASE m'.pc \in {"batch", "decide"} /\ Aside(got, m')
    BY <2>1 DEF Aside
  <2>2. CASE fed = <<>> /\ Aside(calm, m')
    BY <1>10, <2>2 DEF Aside
  <2> QED BY <1>6, <2>1, <2>2 DEF Gathered, got, fed, calm, taken
<1>12. /\ got.session = t.session /\ got.rows = t.rows /\ got.talk = t.talk
       /\ got.held = t.held
       /\ taken.session = t.session /\ taken.rows = t.rows
  BY <1>4, <1>5 DEF SameBudgets
<1>13. /\ IsInjective(back') /\ Range(back) \subseteq Range(back)
       /\ Range(back') \subseteq Range(back) \ Range(back)
  BY <1>1 DEF IsInjective, Range
<1>14. m.next_id \in Nat /\ taken.next_id \in Nat /\ m.next_id <= taken.next_id
  <2>1. m.next_id \in Nat
    BY DEF TypeInv, MachineOK, CountsOK
  <2> QED BY <1>4, <2>1
<1>15. /\ m'.queries = Less(m.queries, Cardinality(Of(back, Queries \ {"bg"})))
       /\ m'.records = Less(m.records, Cardinality(Of(back, {"record"})))
       /\ m'.bg = m.bg \ Of(back, {"bg"})
  BY <1>5, <1>11
<1>16. CASE ~HasReset(q)
  <2>1. /\ call' = BackCalls(taken, back) /\ disk' = disk
        /\ taken.session = m.session /\ m'.session = m.session
        /\ m'.rows = m.rows /\ m'.talk = m.talk /\ m'.held = m.held
    <3>1. call' = BackCalls(taken, back) /\ disk' = disk /\ t = s
      BY <1>1, <1>3, <1>16 DEF SavedOnReset
    <3> QED BY <1>11, <1>12, <3>1
  <2>2. m'.next_id = taken.next_id + Len(fed)
    BY <1>4, <1>5, <1>11
  <2>3. batch'.results = <<>> \o fed
    <3>1. fed \in Seq(Calls)
      BY <1>2, FedIs DEF fed
    <3> QED BY <1>9, <3>1
  <2>4. <<>> \in {<<>>, batch.results} /\ m.pc # "think"
        /\ (m'.pc \in {"batch", "decide"} \/ batch'.results = <<>>)
        /\ lane' = lane /\ turn' = turn
    BY <1>1, <1>9, <1>11
  <2>5. Kept'
    BY <1>2, <1>4, <1>13, <1>14, <2>1, <2>3, <2>4, FeedIsKept DEF fed
  <2> QED BY <1>2, <1>4, <1>13, <1>14, <1>15, <2>1, <2>2, <2>4, <2>5, FeedKeeps DEF fed
<1>17. CASE HasReset(q)
  <2>1. m.session \in Nat /\ taken.session \in Nat /\ m.session < taken.session
        /\ m'.session = taken.session
    <3>1. m.session \in Nat
      BY DEF TypeInv, MachineOK, CountsOK
    <3> QED BY <1>3, <1>8, <1>11, <1>12, <1>17, <3>1
  <2>2. call' = Dropped(BackCalls(taken, back)) /\ disk' = Saved(taken)
    BY <1>1, <1>17 DEF SavedOnReset
  <2>3. /\ fed = <<>>
        /\ \A c \in Calls :
              /\ call'[c].kind = call[c].kind
              /\ call'[c].session \in {0, call[c].session}
              /\ c \in Range(back) \/ call[c].st = "waiting" => call'[c].st = "gone"
              /\ c \notin Range(back) /\ call[c].st # "waiting" => call'[c] = call[c]
    BY <1>2, <1>4, <2>1, <2>2, DrainedIs DEF fed
  <2>4. m'.rows = {} /\ m'.held = <<>> /\ batch'.results = <<>> /\ disk'.rows = {}
    BY <1>3, <1>9, <1>11, <1>12, <1>17, <2>2, <2>3 DEF Saved
  <2>5. m.pc # "think" /\ lane' = lane /\ turn' = turn
    BY <1>1
  <2> QED BY <1>2, <1>13, <1>15, <2>1, <2>3, <2>4, <2>5, ResetKeeps
<1> QED BY <1>16, <1>17

LEMMA ReceiveCalls == ASSUME TypeInv, CallInv, Receive PROVE CallInv' /\ PhaseStep
<1>0. MachineOK(m) /\ Armed(m) /\ back \in Seq(Calls) /\ m.pc = "select"
  BY DEF TypeInv, Receive
<1>1. CASE Gather(m, m.pending \o inbox, 0)
  BY <1>0, <1>1, QueueTypes, GatherCalls
<1>2. CASE /\ back # <<>>
           /\ Gather(m, inbox, IF HasReset(inbox) THEN Len(Fed(m, <<Head(back)>>)) ELSE 0)
  <2>1. <<Head(back)>> \in Seq(Calls)
    BY <1>0, <1>2
  <2>2. Fed(m, <<Head(back)>>) \in Seq(Calls)
    BY <2>1, FedIs
  <2> DEFINE early == IF HasReset(inbox) THEN Len(Fed(m, <<Head(back)>>)) ELSE 0
  <2>3. early \in Nat
    BY <2>2
  <2>4. Gather(m, inbox, early)
    BY <1>2
  <2> HIDE DEF early
  <2> QED BY <1>0, <2>3, <2>4, QueueTypes, GatherCalls
<1>3. CASE Gather([m EXCEPT !.open = FALSE], <<>>, 0)
  <2> DEFINE u == [m EXCEPT !.open = FALSE]
  <2>1. FlagsOK(u) /\ DOMAIN u = Fields
    BY <1>0 DEF MachineOK, FlagsOK, Fields
  <2>2. CountsOK(u)
    BY <1>0 DEF MachineOK, CountsOK, Fields
  <2>3. SetsOK(u)
    BY <1>0 DEF MachineOK, SetsOK, Fields
  <2>4. Armed(u)
    BY <1>0 DEF MachineOK, Armed, Fields
  <2>5. MachineOK(u) /\ Gather(u, <<>>, 0)
    BY <1>3, <2>1, <2>2, <2>3 DEF MachineOK
  <2>6. /\ u.session = m.session /\ u.queries = m.queries /\ u.records = m.records
        /\ u.bg = m.bg /\ u.next_id = m.next_id /\ u.rows = m.rows /\ u.talk = m.talk
        /\ u.held = m.held
    BY <1>0 DEF MachineOK, Fields
  <2>7. <<>> \in Seq(Inbound \cup Wakes)
    OBVIOUS
  <2> HIDE DEF u
  <2> QED BY <1>0, <2>4, <2>5, <2>6, <2>7, GatherCalls
<1> QED BY <1>1, <1>2, <1>3 DEF Receive

LEMMA WatchBooks ==
    ASSUME MachineOK(m), NEW quiet
    PROVE  LET u == Watch(quiet) IN
           /\ u.session = m.session /\ u.queries = m.queries /\ u.records = m.records
           /\ u.bg = m.bg /\ u.next_id = m.next_id /\ u.rows = m.rows /\ u.talk = m.talk
           /\ u.held = m.held
BY DEF Watch, MachineOK, Fields

LEMMA TickCalls == ASSUME TypeInv, Calm, CallInv, Tick PROVE CallInv' /\ PhaseStep
<1>1. PICK quiet \in SUBSET MayBeQuiet :
         Gather(Watch(quiet), Watch(quiet).pending \o inbox, 0)
  BY DEF Tick
<1>2. quiet \in SUBSET Calls
  BY <1>1 DEF MayBeQuiet
<1> DEFINE u == Watch(quiet)
<1>3. MachineOK(u) /\ Armed(u)
  BY <1>2, WatchIs DEF TypeInv, Calm, Tick
<1>4. /\ u.session = m.session /\ u.queries = m.queries /\ u.records = m.records
      /\ u.bg = m.bg /\ u.next_id = m.next_id /\ u.rows = m.rows /\ u.talk = m.talk
      /\ u.held = m.held
  BY WatchBooks DEF TypeInv
<1>5. Gather(u, u.pending \o inbox, 0)
  BY <1>1
<1> HIDE DEF u
<1>6. u.pending \o inbox \in Seq(Inbound \cup Wakes)
  <2>1. u.pending \in Seq(Inbound \cup Wakes)
    BY <1>3 DEF MachineOK, SetsOK
  <2> QED BY <2>1, QueueTypes
<1> QED BY <1>3, <1>4, <1>5, <1>6, GatherCalls DEF Tick

-----------------------------------------------------------------------------
(* An answer is acted on. *)

\* Started calls take the numbers that follow, and none of them was begun.
LEMMA StartedCalls ==
    ASSUME TypeInv, CallInv, NEW as \in Answers, OfKind(Started(as), Kinds) \subseteq Calls
    PROVE  LET st == Started(as)
               n == Cardinality({c \in Calls : call[c].st # "new"})
           IN  /\ n \in Nat /\ Len(st) \in Nat /\ DOMAIN st = 1..Len(st)
               /\ n <= MaxCalls /\ n + Len(st) <= MaxCalls
               /\ \A c \in Calls : call[c].st = "new" <=> c > n
               /\ \A i \in 1..Len(st) : /\ st[i].c = n + i /\ st[i].c \in Calls
                                        /\ st[i].kind \in Kinds
                                        /\ st[i] = [c |-> n + i, kind |-> st[i].kind]
<1> DEFINE st == Started(as)
           n == Cardinality({c \in Calls : call[c].st # "new"})
<1>1. PICK k \in 0..MaxCalls : \A c \in Calls : call[c].st = "new" <=> c > k
  BY DEF CallInv, Numbered
<1>2. n = k
  <2>1. {c \in Calls : call[c].st # "new"} = 1..k
    BY <1>1, Caps DEF Calls
  <2>2. k \in Nat /\ Cardinality(1..k) = k
    BY <1>1, Caps, FS_Interval
  <2> QED BY <2>1, <2>2
<1>3. /\ DOMAIN st = 1..Len(st) /\ Len(st) \in Nat
      /\ \A i \in 1..Len(st) : /\ st[i].kind \in Kinds
                               /\ st[i] = [c |-> n + i, kind |-> st[i].kind]
  BY StartedIs
<1> HIDE DEF st, n
<1>4. ASSUME NEW i \in 1..Len(st) PROVE st[i].c = n + i /\ st[i].c \in Calls
  <2>1. st[i].c = n + i
    BY <1>3
  <2>2. i \in {j \in DOMAIN st : st[j].kind \in Kinds}
    BY <1>3
  <2>3. st[i].c \in OfKind(st, Kinds)
    BY <2>2 DEF OfKind
  <2> QED BY <2>1, <2>3 DEF st
<1>5. n \in Nat /\ n <= MaxCalls /\ MaxCalls \in Nat
  BY <1>1, <1>2, Caps
<1>6. n + Len(st) <= MaxCalls
  <2>1. CASE Len(st) = 0
    BY <1>5, <2>1
  <2>2. CASE Len(st) # 0
    <3>1. Len(st) \in 1..Len(st)
      BY <1>3, <2>2
    <3>2. n + Len(st) \in Calls
      BY <1>4, <3>1
    <3> QED BY <1>5, <3>2 DEF Calls
  <2> QED BY <2>1, <2>2
<1> QED BY <1>1, <1>2, <1>3, <1>4, <1>5, <1>6 DEF st, n

\* The calls of a kind in their order: all of that kind, each once.
LEMMA InOrderCalls ==
    ASSUME TypeInv, CallInv, NEW as \in Answers, OfKind(Started(as), Kinds) \subseteq Calls,
           NEW k
    PROVE  /\ InOrder(Started(as), k) \in Seq(Calls)
           /\ Range(InOrder(Started(as), k)) = OfKind(Started(as), {k})
           /\ IsInjective(InOrder(Started(as), k))
<1> DEFINE st == Started(as)
           n == Cardinality({c \in Calls : call[c].st # "new"})
           S == {x \in Range(st) : x.kind = k}
           own == Only(st, S)
           o == InOrder(st, k)
<1>1. /\ DOMAIN st = 1..Len(st) /\ Len(st) \in Nat /\ n \in Nat
      /\ \A i \in 1..Len(st) : st[i].c = n + i
  BY StartedCalls
<1> HIDE DEF n
<1>2. st \in Seq(Range(st))
  <2>1. st = [i \in 1..Len(st) |-> st[i]]
    BY <1>1 DEF Started
  <2> HIDE DEF st
  <2> QED BY <1>1, <2>1 DEF Range
<1>3. IsInjective(st)
  <2> HIDE DEF st
  <2> QED BY <1>1 DEF IsInjective
<1>4. o = [i \in 1..Len(own) |-> own[i].c]
  BY DEF InOrder
<1> HIDE DEF st, o
<1>5. own \in Seq(Range(st) \cap S) /\ Range(own) = Range(st) \cap S /\ IsInjective(own)
  BY <1>2, <1>3, OnlyIsASequence, OnlyKeepsTheRange, OnlyIsInjective
<1> HIDE DEF own
<1>6. Len(own) \in Nat /\ DOMAIN own = 1..Len(own)
  BY <1>5
<1>7. DOMAIN o = 1..Len(own) /\ \A i \in 1..Len(own) : o[i] = own[i].c
  BY <1>4
<1>8. Range(o) = {x.c : x \in Range(own)}
  BY <1>6, <1>7 DEF Range
<1>9. Range(own) = S
  BY <1>5
<1>10. {x.c : x \in S} = OfKind(st, {k})
  BY <1>1 DEF OfKind, Range
<1>11. IsInjective(o)
  <2>1. SUFFICES ASSUME NEW i \in 1..Len(own), NEW j \in 1..Len(own), own[i].c = own[j].c
                 PROVE  i = j
    BY <1>7 DEF IsInjective
  <2>2. own[i] \in Range(st) /\ own[j] \in Range(st)
    BY <1>5, <1>6 DEF Range
  <2>3. PICK a \in 1..Len(st) : own[i] = st[a]
    BY <1>1, <2>2 DEF Range
  <2>4. PICK b \in 1..Len(st) : own[j] = st[b]
    BY <1>1, <2>2 DEF Range
  <2>5. a = b
    BY <1>1, <2>1, <2>3, <2>4
  <2> QED BY <1>5, <1>6, <2>3, <2>4, <2>5 DEF IsInjective
<1>12. o \in Seq(Calls)
  BY InOrderIs DEF o, st
<1> QED BY <1>8, <1>9, <1>10, <1>11, <1>12 DEF o, st

\* What dispatch makes of each call: told, started or left alone.
LEMMA DispatchMoves ==
    ASSUME TypeInv, CallInv, NEW as \in Answers, OfKind(Started(as), Kinds) \subseteq Calls,
           Dispatch(Started(as))
    PROVE  LET st == Started(as)
               n == Cardinality({c \in Calls : call[c].st # "new"})
               T == Range(turn.results)
           IN  /\ lane' = lane \o InOrder(st, "lane") /\ back' = back \o InOrder(st, "instant")
               /\ \A c \in T : /\ call'[c].kind = call[c].kind /\ call'[c].st = "told"
                               /\ call'[c].session = 0
               /\ \A i \in 1..Len(st) :
                     LET d == call'[st[i].c] IN
                     /\ d.kind = st[i].kind /\ d.session = m.session
                     /\ IF d.kind = "instant" THEN d.st = "back"
                        ELSE d.st \in {"queued", "running"}
               /\ \A c \in Calls : c \notin T /\ ~(c > n /\ c <= n + Len(st))
                                      => call'[c] = call[c]
<1> DEFINE st == Started(as)
           n == Cardinality({c \in Calls : call[c].st # "new"})
           T == Range(turn.results)
           at(c) == CHOOSE x \in Range(st) : x.c = c
           new(c) == \E x \in Range(st) : x.c = c
           queue == lane \o InOrder(st, "lane")
           s(c) == CASE at(c).kind = "instant" -> "back"
                     [] at(c).kind = "lane" /\ Head(queue) # c -> "queued"
                     [] OTHER -> "running"
<1>1. call' = [c \in Calls |->
                 IF c \in T THEN Over(c, "told")
                 ELSE IF new(c)
                 THEN [kind |-> at(c).kind, session |-> m.session, id |-> 0, st |-> s(c)]
                 ELSE call[c]]
  BY DEF Dispatch
<1>2. lane' = lane \o InOrder(st, "lane") /\ back' = back \o InOrder(st, "instant")
  BY DEF Dispatch
<1>3. \A c \in Calls : s(c) \in (IF at(c).kind = "instant" THEN {"back"}
                                 ELSE {"queued", "running"})
  OBVIOUS
<1>4. /\ n \in Nat /\ Len(st) \in Nat /\ DOMAIN st = 1..Len(st)
      /\ \A c \in Calls : call[c].st = "new" <=> c > n
      /\ \A i \in 1..Len(st) : st[i].c = n + i /\ st[i].c \in Calls
  BY StartedCalls
<1> HIDE DEF st, n, s
<1>5. \A c \in Calls : new(c) <=> c > n /\ c <= n + Len(st)
  <2>1. ASSUME NEW c \in Calls, new(c) PROVE c > n /\ c <= n + Len(st)
    <3>1. PICK i \in 1..Len(st) : c = n + i
      BY <1>4, <2>1 DEF Range
    <3> QED BY <1>4, <3>1
  <2>2. ASSUME NEW c \in Calls, c > n, c <= n + Len(st) PROVE new(c)
    <3>1. c - n \in 1..Len(st) /\ c = n + (c - n)
      BY <1>4, <2>2 DEF Calls
    <3>2. st[c - n] \in Range(st) /\ st[c - n].c = c
      BY <1>4, <3>1 DEF Range
    <3> QED BY <3>2
  <2> QED BY <2>1, <2>2
<1>6. ASSUME NEW i \in 1..Len(st) PROVE new(st[i].c) /\ at(st[i].c) = st[i]
  <2>1. st[i] \in Range(st)
    BY <1>4 DEF Range
  <2>2. \A x \in Range(st) : x.c = st[i].c => x = st[i]
    <3>1. SUFFICES ASSUME NEW j \in 1..Len(st), st[j].c = st[i].c PROVE st[j] = st[i]
      BY <1>4 DEF Range
    <3>2. j = i
      BY <1>4, <3>1
    <3> QED BY <3>2
  <2> QED BY <2>1, <2>2
<1>7. T \subseteq Calls /\ \A c \in T : call[c].st = "waiting"
  BY DEF TypeInv, Turns, Range, CallInv, Kept
<1>8. \A c \in T : /\ call'[c].kind = call[c].kind /\ call'[c].st = "told"
                   /\ call'[c].session = 0
  BY <1>1, <1>7, OverIs DEF TypeInv
<1>9. ASSUME NEW i \in 1..Len(st)
      PROVE  LET d == call'[st[i].c] IN
             /\ d.kind = st[i].kind /\ d.session = m.session
             /\ IF d.kind = "instant" THEN d.st = "back" ELSE d.st \in {"queued", "running"}
  <2> DEFINE c == st[i].c
  <2>1. c \in Calls /\ c \notin T /\ new(c) /\ at(c) = st[i]
    BY <1>4, <1>6, <1>7
  <2> HIDE DEF c, at, new
  <2>2. call'[c] = [kind |-> st[i].kind, session |-> m.session, id |-> 0, st |-> s(c)]
    BY <1>1, <2>1
  <2>3. s(c) \in (IF st[i].kind = "instant" THEN {"back"} ELSE {"queued", "running"})
    BY <1>3, <2>1
  <2> QED BY <2>2, <2>3 DEF c
<1>10. \A c \in Calls : c \notin T /\ ~(c > n /\ c <= n + Len(st)) => call'[c] = call[c]
  <2> HIDE DEF at, new
  <2> QED BY <1>1, <1>5
<1> QED BY <1>2, <1>8, <1>9, <1>10 DEF st, n

\* The struct once the answer is acted on, as far as the calls are counted.
LEMMA AnsweredBooks ==
    ASSUME TypeInv, NEW as, NEW text, NEW target
    PROVE  LET s  == Answered(as, text, target)
               st == Started(as)
           IN  /\ DOMAIN s = Fields /\ s.session = m.session /\ s.next_id = m.next_id
               /\ s.held = m.held /\ s.talk = TRUE
               /\ s.rows = {} \/ s.rows = m.rows \cup TurnRows
               /\ s.queries = m.queries + Cardinality(OfKind(st, {"lane", "host", "instant"}))
               /\ s.bg = m.bg \cup OfKind(st, {"bg"})
               /\ s.records = m.records + Cardinality(OfKind(st, {"record"}))
<1> DEFINE st == Started(as)
           cd == OfKind(st, {"lane", "host", "instant"})
           ci == IF cd = {} THEN m.check_ins ELSE 0
           ln == IF cd = {} THEN m.local_nudges ELSE 0
           rs == IF "compact" \in Range(as) THEN {} ELSE m.rows \cup TurnRows
           qs == m.queries + Cardinality(cd)
           bg == m.bg \cup OfKind(st, {"bg"})
           rc == m.records + Cardinality(OfKind(st, {"record"}))
           ca == Arms(text, as, cd = {}, ci)
           u == [m EXCEPT !.pending = m.pending \o inbox, !.talk = TRUE, !.rows = rs,
                          !.queries = qs, !.bg = bg, !.records = rc,
                          !.cancel = m.cancel \cup target, !.local_nudges = ln,
                          !.check_ins = ci, !.check_armed = ca]
<1>1. Answered(as, text, target) = u
  BY DEF Answered
<1>2. DOMAIN m = Fields
  BY DEF TypeInv, MachineOK
<1> HIDE DEF rs, qs, bg, rc, ci, ln, ca
<1>3. /\ DOMAIN u = Fields /\ u.session = m.session /\ u.next_id = m.next_id
      /\ u.held = m.held /\ u.talk = TRUE /\ u.rows = rs /\ u.queries = qs
      /\ u.bg = bg /\ u.records = rc
  BY <1>2 DEF Fields
<1>4. rs = {} \/ rs = m.rows \cup TurnRows
  BY DEF rs
<1> HIDE DEF u
<1> QED BY <1>1, <1>3, <1>4 DEF qs, bg, rc

\* The calls an answer starts join those that are out.
LEMMA StartedCounts ==
    ASSUME TypeInv, CallInv, NEW as \in Answers, OfKind(Started(as), Kinds) \subseteq Calls,
           Dispatch(Started(as)), NEW K
    PROVE  /\ Out(K)' = Out(K) \cup OfKind(Started(as), K)
           /\ Cardinality(Out(K)') = Cardinality(Out(K)) + Cardinality(OfKind(Started(as), K))
<1> DEFINE st == Started(as)
           n == Cardinality({c \in Calls : call[c].st # "new"})
           T == Range(turn.results)
           new == OfKind(st, K)
           o == Out(K)
<1>1. /\ n \in Nat /\ Len(st) \in Nat /\ DOMAIN st = 1..Len(st)
      /\ \A c \in Calls : call[c].st = "new" <=> c > n
      /\ \A i \in 1..Len(st) : st[i].c = n + i /\ st[i].c \in Calls
  BY StartedCalls
<1>2. /\ \A c \in T : call'[c].st = "told"
      /\ \A i \in 1..Len(st) :
            /\ call'[st[i].c].kind = st[i].kind
            /\ call'[st[i].c].st \in {"queued", "running", "back"}
      /\ \A c \in Calls : c \notin T /\ ~(c > n /\ c <= n + Len(st)) => call'[c] = call[c]
  <2>1. ASSUME NEW i \in 1..Len(st)
        PROVE  /\ call'[st[i].c].kind = st[i].kind
               /\ call'[st[i].c].st \in {"queued", "running", "back"}
    BY DispatchMoves
  <2>2. \A c \in T : call'[c].st = "told"
    BY DispatchMoves
  <2>3. \A c \in Calls : c \notin T /\ ~(c > n /\ c <= n + Len(st)) => call'[c] = call[c]
    BY DispatchMoves
  <2> QED BY <2>1, <2>2, <2>3
<1>3. T \subseteq Calls /\ \A c \in T : call[c].st = "waiting"
  BY DEF TypeInv, Turns, Range, CallInv, Kept
<1> HIDE DEF st, n, T
<1>4. new = {st[i].c : i \in {j \in 1..Len(st) : st[j].kind \in K}}
  BY <1>1 DEF OfKind
<1>5. \A c \in new : c \in Calls /\ c \notin o /\ c \in Out(K)'
  <2>1. SUFFICES ASSUME NEW i \in 1..Len(st), st[i].kind \in K
                 PROVE  st[i].c \in Calls /\ st[i].c \notin o /\ st[i].c \in Out(K)'
    BY <1>4
  <2>2. st[i].c \in Calls /\ call[st[i].c].st = "new"
    BY <1>1, <2>1
  <2> QED BY <1>2, <2>1, <2>2 DEF Out
<1>6. ASSUME NEW c \in Calls PROVE c \in Out(K)' <=> c \in o \cup new
  <2>1. CASE c \in T
    BY <1>2, <1>3, <1>5, <2>1 DEF Out
  <2>2. CASE c > n /\ c <= n + Len(st)
    <3>1. c - n \in 1..Len(st) /\ st[c - n].c = c
      BY <1>1, <2>2 DEF Calls
    <3>2. c \in Out(K)' => st[c - n].kind \in K
      BY <1>2, <3>1 DEF Out
    <3>3. c \in Out(K)' => c \in new
      BY <1>4, <3>1, <3>2
    <3>4. c \notin o
      BY <1>1, <2>2 DEF Out
    <3> QED BY <1>5, <3>3, <3>4
  <2>3. CASE c \notin T /\ ~(c > n /\ c <= n + Len(st))
    <3>1. call'[c] = call[c]
      BY <1>2, <2>3
    <3>2. c \notin new
      <4>1. \A i \in 1..Len(st) : st[i].c > n /\ st[i].c <= n + Len(st)
        BY <1>1
      <4> QED BY <1>4, <2>3, <4>1
    <3> QED BY <3>1, <3>2 DEF Out
  <2> QED BY <2>1, <2>2, <2>3
<1>7. Out(K)' = o \cup new
  <2>1. Out(K)' \subseteq Calls /\ o \subseteq Calls
    BY DEF Out
  <2> HIDE DEF new, o
  <2> QED BY <1>5, <1>6, <2>1
<1>8. Cardinality(o \cup new) = Cardinality(o) + Cardinality(new)
  <2>1. o \in SUBSET Calls /\ new \in SUBSET Calls /\ o \cap new = {}
    BY <1>5 DEF Out
  <2> HIDE DEF o, new
  <2>2. IsFiniteSet(o) /\ IsFiniteSet(new) /\ Cardinality(o) \in Nat /\ Cardinality(new) \in Nat
    BY <2>1, CallsAreFinite
  <2>3. Cardinality(o \cup new) = Cardinality(o) + Cardinality(new) - Cardinality(o \cap new)
    BY <2>2, FS_Union
  <2>4. Cardinality(o \cap new) = 0
    BY <2>1, FS_EmptySet
  <2> QED BY <2>2, <2>3, <2>4
<1> QED BY <1>7, <1>8 DEF st

\* The same call by call, and what joins the two queues.
LEMMA DispatchSplits ==
    ASSUME TypeInv, CallInv, NEW as \in Answers, OfKind(Started(as), Kinds) \subseteq Calls,
           Dispatch(Started(as))
    PROVE  \E k, l \in 0..MaxCalls :
              /\ k <= l
              /\ \A c \in Calls : call[c].st = "new" <=> c > k
              /\ \A c \in Range(turn.results) :
                    /\ c \in Calls /\ call[c].st = "waiting"
                    /\ call'[c].kind = call[c].kind /\ call'[c].st = "told"
                    /\ call'[c].session = 0
              /\ \A c \in Calls : c > k /\ c <= l =>
                    /\ call'[c].kind \in Kinds /\ call'[c].session = m.session
                    /\ call'[c].st \in {"queued", "running", "back"}
              /\ \A c \in Calls : c \notin Range(turn.results) /\ ~(c > k /\ c <= l) =>
                    call'[c] = call[c]
              /\ \A c \in OfKind(Started(as), {"lane"}) :
                    c \in Calls /\ call[c].st = "new" /\ call'[c].st \in {"queued", "running"}
              /\ \A c \in OfKind(Started(as), {"instant"}) :
                    c \in Calls /\ call[c].st = "new" /\ call'[c].st = "back"
<1> DEFINE st == Started(as)
           n == Cardinality({c \in Calls : call[c].st # "new"})
           T == Range(turn.results)
<1>1. /\ n \in Nat /\ Len(st) \in Nat /\ DOMAIN st = 1..Len(st)
      /\ n <= MaxCalls /\ n + Len(st) <= MaxCalls
      /\ \A c \in Calls : call[c].st = "new" <=> c > n
      /\ \A i \in 1..Len(st) : st[i].c = n + i /\ st[i].c \in Calls /\ st[i].kind \in Kinds
  BY StartedCalls
<1>2. ASSUME NEW i \in 1..Len(st)
      PROVE  LET d == call'[st[i].c] IN
             /\ d.kind = st[i].kind /\ d.session = m.session
             /\ IF d.kind = "instant" THEN d.st = "back" ELSE d.st \in {"queued", "running"}
  BY DispatchMoves
<1>3. \A c \in T : call'[c].kind = call[c].kind /\ call'[c].st = "told" /\ call'[c].session = 0
  BY DispatchMoves
<1>4. \A c \in Calls : c \notin T /\ ~(c > n /\ c <= n + Len(st)) => call'[c] = call[c]
  BY DispatchMoves
<1>5. \A c \in T : c \in Calls /\ call[c].st = "waiting"
  BY DEF TypeInv, Turns, Range, CallInv, Kept
<1> HIDE DEF st, n, T
<1>6. ASSUME NEW c \in Calls, c > n, c <= n + Len(st)
      PROVE  /\ call'[c].kind \in Kinds /\ call'[c].session = m.session
             /\ call'[c].st \in {"queued", "running", "back"}
  <2>1. c - n \in 1..Len(st) /\ st[c - n].c = c
    BY <1>1, <1>6 DEF Calls
  <2> QED BY <1>1, <1>2, <2>1
<1>7. ASSUME NEW kd, NEW c \in OfKind(st, {kd})
      PROVE  /\ c \in Calls /\ call[c].st = "new" /\ call'[c].kind = kd
             /\ IF kd = "instant" THEN call'[c].st = "back"
                ELSE call'[c].st \in {"queued", "running"}
  <2>1. PICK i \in 1..Len(st) : st[i].kind = kd /\ c = st[i].c
    BY <1>1, <1>7 DEF OfKind
  <2>2. c \in Calls /\ c > n
    BY <1>1, <2>1
  <2> QED BY <1>1, <1>2, <2>1, <2>2
<1>8. n \in 0..MaxCalls /\ n + Len(st) \in 0..MaxCalls /\ n <= n + Len(st)
  BY <1>1, Caps
<1>9. /\ \A c \in OfKind(st, {"lane"}) :
             c \in Calls /\ call[c].st = "new" /\ call'[c].st \in {"queued", "running"}
      /\ \A c \in OfKind(st, {"instant"}) :
             c \in Calls /\ call[c].st = "new" /\ call'[c].st = "back"
  BY <1>7
<1>10. /\ \A c \in Calls : call[c].st = "new" <=> c > n
       /\ \A c \in T : /\ c \in Calls /\ call[c].st = "waiting"
                       /\ call'[c].kind = call[c].kind /\ call'[c].st = "told"
                       /\ call'[c].session = 0
       /\ \A c \in Calls : c > n /\ c <= n + Len(st) =>
             /\ call'[c].kind \in Kinds /\ call'[c].session = m.session
             /\ call'[c].st \in {"queued", "running", "back"}
       /\ \A c \in Calls : c \notin T /\ ~(c > n /\ c <= n + Len(st)) => call'[c] = call[c]
  BY <1>1, <1>3, <1>4, <1>5, <1>6
<1> QED BY <1>8, <1>9, <1>10 DEF st, T

LEMMA ActCalls == ASSUME TypeInv, CallInv, Act PROVE CallInv' /\ PhaseStep
<1>1. PICK as \in Answers, text \in BOOLEAN, full \in BOOLEAN :
         /\ OfKind(Started(as), Kinds) \subseteq Calls
         /\ Dispatch(Started(as))
         /\ \E target \in Targets(as) :
            LET s == Answered(as, text, target)
            IN /\ m' = IF full THEN [s EXCEPT !.pc = "compact"] ELSE AtTop(s)
               /\ disk' = IF full THEN disk ELSE Saved(s)
  BY Zenon DEF Act
<1>2. PICK target \in Targets(as) :
         LET s == Answered(as, text, target)
         IN /\ m' = IF full THEN [s EXCEPT !.pc = "compact"] ELSE AtTop(s)
            /\ disk' = IF full THEN disk ELSE Saved(s)
  BY <1>1
<1> DEFINE s == Answered(as, text, target)
           st == Started(as)
           T == Range(turn.results)
           ln == InOrder(st, "lane")
           bk == InOrder(st, "instant")
<1>3. m.pc = "think" /\ turn' = NoTurn /\ batch' = batch
  BY DEF Act
<1>4. /\ lane' = lane \o ln /\ back' = back \o bk
      /\ ln \in Seq(Calls) /\ Range(ln) = OfKind(st, {"lane"}) /\ IsInjective(ln)
      /\ bk \in Seq(Calls) /\ Range(bk) = OfKind(st, {"instant"}) /\ IsInjective(bk)
  BY <1>1, InOrderCalls DEF Dispatch
<1>5. PICK k \in 0..MaxCalls, l \in 0..MaxCalls :
         /\ k <= l
         /\ \A c \in Calls : call[c].st = "new" <=> c > k
         /\ \A c \in T : /\ c \in Calls /\ call[c].st = "waiting"
                         /\ call'[c].kind = call[c].kind /\ call'[c].st = "told"
                         /\ call'[c].session = 0
         /\ \A c \in Calls : c > k /\ c <= l =>
               /\ call'[c].kind \in Kinds /\ call'[c].session = m.session
               /\ call'[c].st \in {"queued", "running", "back"}
         /\ \A c \in Calls : c \notin T /\ ~(c > k /\ c <= l) => call'[c] = call[c]
         /\ \A c \in OfKind(st, {"lane"}) :
               c \in Calls /\ call[c].st = "new" /\ call'[c].st \in {"queued", "running"}
         /\ \A c \in OfKind(st, {"instant"}) :
               c \in Calls /\ call[c].st = "new" /\ call'[c].st = "back"
  BY <1>1, DispatchSplits
<1>6. ASSUME NEW K
      PROVE  /\ Out(K)' = Out(K) \cup OfKind(st, K)
             /\ Cardinality(Out(K)') = Cardinality(Out(K)) + Cardinality(OfKind(st, K))
  BY <1>1, StartedCounts
<1>7. /\ DOMAIN s = Fields /\ s.session = m.session /\ s.next_id = m.next_id
      /\ s.held = m.held /\ s.talk = TRUE
      /\ s.rows = {} \/ s.rows = m.rows \cup TurnRows
      /\ s.queries = m.queries + Cardinality(OfKind(st, {"lane", "host", "instant"}))
      /\ s.bg = m.bg \cup OfKind(st, {"bg"})
      /\ s.records = m.records + Cardinality(OfKind(st, {"record"}))
  BY AnsweredBooks
<1>8. /\ m' = IF full THEN [s EXCEPT !.pc = "compact"] ELSE AtTop(s)
      /\ disk' = IF full THEN disk ELSE Saved(s)
  BY <1>2
<1> HIDE DEF s, st, ln, bk
<1>9. /\ m'.session = s.session /\ m'.next_id = s.next_id /\ m'.held = s.held
      /\ m'.talk = s.talk /\ m'.rows = s.rows /\ m'.queries = s.queries
      /\ m'.bg = s.bg /\ m'.records = s.records
      /\ m'.pc \notin {"think", "batch", "decide"}
  <2>1. CASE full
    BY <1>7, <1>8, <2>1 DEF Fields
  <2>2. CASE ~full
    <3>1. Aside(s, m') /\ m'.pc \in {"check", "select", "done"}
      BY <1>7, <1>8, <2>2, TopAside
    <3> QED BY <3>1 DEF Aside
  <2> QED BY <2>1, <2>2
<1>10. Written
  BY <1>8, <1>9 DEF Written, Saved
<1> HIDE DEF T
<1>11. Queued'
  <2>1. Range(lane) \subseteq Calls /\ Range(back) \subseteq Calls
    BY DEF TypeInv, Range
  <2>2. \A c \in Range(lane) : /\ c \in Calls /\ c \notin T
                               /\ call[c].st \in {"queued", "running"} /\ call'[c] = call[c]
    BY <1>5, <2>1 DEF CallInv, Queued
  <2>3. \A c \in Range(back) : /\ c \in Calls /\ c \notin T
                               /\ call[c].st = "back" /\ call'[c] = call[c]
    BY <1>5, <2>1 DEF CallInv, Queued
  <2>4. Range(lane) \cap Range(ln) = {} /\ Range(back) \cap Range(bk) = {}
    BY <1>4, <1>5, <2>2, <2>3
  <2>5. IsInjective(lane') /\ Range(lane') = Range(lane) \cup Range(ln)
    BY <1>4, <2>4, JoinIs DEF TypeInv, CallInv, Queued
  <2>6. IsInjective(back') /\ Range(back') = Range(back) \cup Range(bk)
    BY <1>4, <2>4, JoinIs DEF TypeInv, CallInv, Queued
  <2>7. \A c \in Range(lane') : call'[c].st \in {"queued", "running"}
    BY <1>4, <1>5, <2>2, <2>5
  <2>8. \A c \in Range(back') : call'[c].st = "back"
    BY <1>4, <1>5, <2>3, <2>6
  <2> QED BY <2>5, <2>6, <2>7, <2>8 DEF Queued
<1>12. Kept'
  <2>1. IsInjective(<<>>) /\ Range(<<>>) = {}
    BY DEF IsInjective, Range
  <2>2. turn'.results = <<>> /\ batch'.results = <<>>
    BY <1>3 DEF CallInv, Kept, NoTurn
  <2>3. m.held \in Seq(Calls)
    BY DEF TypeInv, MachineOK, SetsOK
  <2>4. Range(m.held) \subseteq Calls /\ Range(m.held) \cap T = {}
    BY <2>3 DEF CallInv, Kept, T, Range
  <2>5. \A c \in Range(m.held) : call'[c].st = "waiting"
    <3>1. \A c \in Range(m.held) : call[c].st = "waiting"
      BY DEF CallInv, Kept
    <3> QED BY <1>5, <2>4, <3>1
  <2>6. m'.held = m.held
    BY <1>7, <1>9
  <2>7. IsInjective(m.held)
    BY DEF CallInv, Kept
  <2> QED BY <1>9, <2>1, <2>2, <2>5, <2>6, <2>7 DEF Kept
<1>13. Sessions'
  <2>1. m.session \in Nat
    BY DEF TypeInv, MachineOK, CountsOK
  <2>2. \A c \in Calls : /\ call[c].session <= m.session
                         /\ call[c].st = "waiting" =>
                               call[c].session = m.session /\ call[c].kind \in Queries
                         /\ call[c].st \in {"new", "told"} => call[c].session = 0
    BY DEF CallInv, Sessions, SessionsOK
  <2>3. ASSUME NEW c \in Calls
        PROVE  /\ call'[c].session <= m.session
               /\ call'[c].st = "waiting" =>
                     call'[c].session = m.session /\ call'[c].kind \in Queries
               /\ call'[c].st \in {"new", "told"} => call'[c].session = 0
    <3>1. CASE c \in T
      BY <1>5, <2>1, <3>1
    <3>2. CASE c > k /\ c <= l
      BY <1>5, <2>1, <3>2
    <3>3. CASE c \notin T /\ ~(c > k /\ c <= l)
      <4>1. call'[c] = call[c]
        BY <1>5, <3>3
      <4> QED BY <2>2, <4>1
    <3> QED BY <3>1, <3>2, <3>3
  <2>4. m'.session = m.session
    BY <1>7, <1>9
  <2> QED BY <2>3, <2>4 DEF Sessions, SessionsOK
<1>14. Numbered'
  <2>1. ASSUME NEW c \in Calls PROVE call'[c].st = "new" <=> c > l
    <3>1. CASE c \in T
      BY <1>5, <3>1, Caps DEF Calls
    <3>2. CASE c > k /\ c <= l
      BY <1>5, <3>2, Caps DEF Calls
    <3>3. CASE c \notin T /\ ~(c > k /\ c <= l)
      BY <1>5, <3>3, Caps DEF Calls
    <3> QED BY <3>1, <3>2, <3>3
  <2> QED BY <2>1 DEF Numbered
<1>15. Counted'
  <2>1. /\ m.queries = Cardinality(Out({"lane", "host", "instant"}))
        /\ m.records = Cardinality(Out({"record"})) /\ m.bg = Out({"bg"})
    BY DEF CallInv, Counted
  <2>2. m'.queries = Cardinality(Out({"lane", "host", "instant"})')
    BY <1>6, <1>7, <1>9, <2>1
  <2>3. m'.records = Cardinality(Out({"record"})')
    BY <1>6, <1>7, <1>9, <2>1
  <2>4. m'.bg = Out({"bg"})'
    BY <1>6, <1>7, <1>9, <2>1
  <2> QED BY <2>2, <2>3, <2>4 DEF Counted
<1>16. Ids'
  <2>1. ASSUME NEW c \in Calls, call'[c].st = "waiting"
        PROVE  call[c].st = "waiting" /\ call'[c].id = call[c].id
    BY <1>5, <2>1
  <2>2. \A c \in T : call'[c].st # "waiting"
    BY <1>5
  <2>3. m'.next_id = m.next_id /\ m'.talk = TRUE
    BY <1>7, <1>9
  <2>4. m'.rows = {} \/ m'.rows = m.rows \cup TurnRows
    BY <1>7, <1>9
  <2> QED BY <1>10, <2>1, <2>2, <2>3, <2>4, FewerWait DEF CallInv, T
<1>17. PhaseStep
  <2> DEFINE new == {c \in Calls : c > k /\ c <= l /\ call'[c].kind # "record"}
  <2>1. \A c \in T : PhaseOf(c) = "waiting"
    BY <1>5 DEF PhaseOf, CallInv, Sessions, SessionsOK, Queries
  <2>2. T \in SUBSET Promise!In("waiting")
    BY <1>5, <2>1 DEF Promise!In
  <2>3. new \in SUBSET Promise!In("new")
    BY <1>5 DEF Promise!In, PhaseOf
  <2>4. m'.session = m.session
    BY <1>7, <1>9
  <2>5. ASSUME NEW c \in Calls
        PROVE  PhaseOf(c)' = IF c \in T THEN "told" ELSE IF c \in new THEN "out" ELSE PhaseOf(c)
    <3>1. CASE c \in T
      <4>1. call[c].kind # "record"
        BY <1>5, <3>1 DEF CallInv, Sessions, SessionsOK, Queries
      <4> QED BY <1>5, <3>1, <4>1 DEF PhaseOf
    <3>2. CASE c > k /\ c <= l
      <4>1. c \notin T /\ call[c].st = "new" /\ PhaseOf(c) = "new"
        BY <1>5, <3>2 DEF PhaseOf
      <4> QED BY <1>5, <2>4, <3>2, <4>1 DEF PhaseOf
    <3>3. CASE c \notin T /\ ~(c > k /\ c <= l)
      <4>1. call'[c] = call[c] /\ c \notin new
        BY <1>5, <3>3
      <4> QED BY <2>4, <3>3, <4>1 DEF PhaseOf
    <3> QED BY <3>1, <3>2, <3>3
  <2> HIDE DEF new
  <2>6. Ph' = [c \in Calls |-> IF c \in T THEN "told" ELSE IF c \in new THEN "out" ELSE Ph[c]]
    BY <2>5 DEF Ph
  <2>7. Promise!Turn
    BY <2>2, <2>3, <2>6, TurnIs
  <2> QED BY <2>7 DEF PhaseStep, Promise!Next
<1> QED BY <1>11, <1>12, <1>13, <1>14, <1>15, <1>16, <1>17 DEF CallInv

-----------------------------------------------------------------------------
(* Every step. *)

LEMMA StepCalls ==
    ASSUME TypeInv, Calm, CallInv, [Next]_vars PROVE CallInv' /\ PhaseStep
<1>1. CASE UNCHANGED vars
  <2>1. SameBooks /\ Kept' /\ Written
    BY <1>1 DEF vars, SameBooks, Written, CallInv, Kept
  <2> QED BY <1>1, <2>1, StillKeeps DEF vars
<1>2. CASE Machine
  BY <1>2, CheckInCalls, CheckInSkippedCalls, ReceiveCalls, HoldBackCalls, BeginTurnCalls,
     BatchBackCalls, BatchTakeCalls, AsideCalls, TickCalls, LlmRetryCalls,
     TurnFailsCalls, TurnDroppedCalls, NothingMoreCalls, ActCalls, CompactCalls
     DEF Machine, Loop, Think
<1>3. CASE TimePasses \/ Close \/ Restart
  BY <1>3, AsideCalls, RestartCalls
<1>4. ASSUME NEW c \in Calls, Finish(c) \/ Output(c) PROVE CallInv' /\ PhaseStep
  BY <1>4, FinishCalls, AsideCalls
<1>5. ASSUME NEW i \in {"wake", "reset"}, Send(i) PROVE CallInv' /\ PhaseStep
  <2>1. i \in Inbound
    BY <1>5 DEF Inbound
  <2> QED BY <1>5, <2>1, AsideCalls
<1> QED BY <1>1, <1>2, <1>3, <1>4, <1>5 DEF Next

LEMMA CallInvHolds == Spec => [](AgentInv /\ CallInv)
<1>1. Init => CallInv
  BY InitCalls
<1>2. ASSUME AgentInv, CallInv, [Next]_vars PROVE CallInv'
  <2>1. TypeInv /\ Calm
    BY <1>2 DEF AgentInv, OwnInv, Calm
  <2> QED BY <1>2, <2>1, StepCalls
<1> QED BY <1>1, <1>2, AgentInvHolds, PTL DEF Spec

-----------------------------------------------------------------------------
(* Results. *)

\* back subtracts with saturating_sub, and the loop waits and exits on what is
\* left: it is never off, not by a call of an ended session either, nor is a
\* call twice in a queue.
THEOREM CountersAreExact == Spec => []CountsExact
<1>1. AgentInv /\ CallInv => CountsExact
  <2>1. SUFFICES ASSUME AgentInv, CallInv PROVE CountsExact
    OBVIOUS
  <2>2. TypeInv
    BY <2>1 DEF AgentInv
  <2>3. /\ m.held \in Seq(Calls) /\ batch.results \in Seq(Calls)
        /\ turn.results \in Seq(Calls) /\ lane \in Seq(Calls) /\ back \in Seq(Calls)
    BY <2>2 DEF TypeInv, MachineOK, SetsOK, Batch, Turns
  <2>4. \A q \in {lane, back, batch.results, m.held, turn.results} :
            Range(q) \subseteq Calls /\ IsInjective(q)
    BY <2>1, <2>3 DEF CallInv, Queued, Kept, Range
  <2>5. /\ m.pc \in {"check", "select", "batch", "decide", "think", "compact", "done"}
        /\ {m.open, m.was_idle, m.notices, m.check_armed, m.awaiting, m.talk} \subseteq BOOLEAN
    BY <2>2 DEF TypeInv, MachineOK, FlagsOK, Pcs
  <2>6. /\ m.idle_since \in 0..3
        /\ {m.session, m.queries, m.records, m.synthetic_wakes, m.next_id} \subseteq Nat
        /\ m.followups \in 0..MaxFollowups /\ m.check_ins \in 0..MaxCheckIns
        /\ m.local_nudges \in 0..MaxNudges /\ m.held_releases \in 0..MaxReleases
    BY <2>2 DEF TypeInv, MachineOK, FlagsOK, CountsOK
  <2>7. \A c \in Calls : /\ call[c].kind \in Kinds /\ call[c].id \in Nat
                         /\ call[c].st \in {"new", "queued", "running", "back",
                                            "waiting", "told", "gone"}
    BY <2>2 DEF TypeInv, CallState
  <2>8. TypeOK
    BY <2>4, <2>5, <2>6, <2>7 DEF TypeOK
  <2> QED BY <2>1, <2>8 DEF CountsExact, CallInv, Counted
<1> QED BY <1>1, CallInvHolds, PTL

\* A result that goes into the conversation gets an id no other one of it has,
\* also in a conversation the process was started again on.
THEOREM IdsNameResults == Spec => []IdsNameOneResult
<1>1. CallInv => IdsNameOneResult
  BY DEF CallInv, Ids, RowsOK, IdsNameOneResult
<1> QED BY <1>1, CallInvHolds, PTL

\* The loop keeps the promise of ToolCalls step by step: a result is told once
\* at most and only in a turn, and is lost only with a reset, a crash or the
\* turn that failed on it, whatever comes over the two channels and whenever.
THEOREM ImplementsToolCalls == Spec => KeepsPromise
<1>1. Init => Promise!Init
  BY InitCalls DEF Promise!Init, Ph
<1>2. ASSUME AgentInv, CallInv, [Next]_vars
      PROVE  [Promise!Next]_[c \in Calls |-> PhaseOf(c)]
  <2>1. TypeInv /\ Calm
    BY <1>2 DEF AgentInv, OwnInv, Calm
  <2>2. PhaseStep
    BY <1>2, <2>1, StepCalls
  <2> QED BY <2>2 DEF PhaseStep, Ph
<1> QED BY <1>1, <1>2, CallInvHolds, PTL DEF Spec, KeepsPromise, Promise!Spec

=============================================================================
