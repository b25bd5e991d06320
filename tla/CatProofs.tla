------------------------------ MODULE CatProofs ------------------------------
(***************************************************************************)
(* Theorems about Cat, for any limits: the to-do list of a cat, through    *)
(* every call, every checkpoint and every restart; a terminal's count of   *)
(* the lines that are sealing; that no event is acted on twice, however    *)
(* often the node rebuilds its log; and that what concerns a reader is     *)
(* heard.                                                                  *)
(***************************************************************************)
EXTENDS Cat, SubsequencesProofs, SequenceTheorems

-----------------------------------------------------------------------------
(* The list. *)

Statuses == {"todo", "doing", "done", "failed", "dropped"}
Row == [id : Nat, status : Statuses]

\* Rows in the order of their ids, all given before the next one.
Rows(l) ==
    /\ DOMAIN l = {"epoch", "next", "tasks"}
    /\ l.next \in Nat /\ l.tasks \in Seq(Row)
    /\ \A i \in DOMAIN l.tasks : l.tasks[i].id < l.next
    /\ \A i, j \in DOMAIN l.tasks : i < j => l.tasks[i].id < l.tasks[j].id

ListOK(l) ==
    /\ Rows(l)
    /\ Cardinality(ClosedRows(l)) <= MaxClosed
    /\ Len(l.tasks) <= MaxOpen + MaxClosed

LEMMA EmptyIsOK == ASSUME NEW e PROVE ListOK(EmptyList(e)) /\ EmptyList(e).epoch = e
<1> DEFINE l == EmptyList(e)
<1>1. l.epoch = e /\ l.next = 1 /\ l.tasks = <<>> /\ DOMAIN l = {"epoch", "next", "tasks"}
  BY DEF EmptyList
<1>2. DOMAIN <<>> = {} /\ <<>> \in Seq(Row) /\ Len(<<>>) = 0
  OBVIOUS
<1> HIDE DEF l
<1>3. Rows(l)
  BY <1>1, <1>2 DEF Rows
<1>4. Cardinality(ClosedRows(l)) = 0
  <2>1. ClosedRows(l) = {}
    BY <1>1, <1>2 DEF ClosedRows
  <2> QED BY <2>1, FS_EmptySet
<1> QED BY <1>1, <1>2, <1>3, <1>4, ListAssumption DEF ListOK, ListAssumption, l

\* trim_closed: the rows stay in order, and few enough are closed.
LEMMA TrimmedIs ==
    ASSUME NEW l, Rows(l)
    PROVE  LET t == Trimmed(l) IN
           /\ Rows(t) /\ t.epoch = l.epoch
           /\ Cardinality(ClosedRows(t)) <= MaxClosed
           /\ Len(t.tasks) <= Len(l.tasks)
<1> DEFINE s == l.tasks
           n == Len(s)
           C == ClosedRows(l)
           K == {i \in DOMAIN s : i \in C => Rank(C, i) > Cardinality(C) - MaxClosed}
           m == Cardinality(K)
           u == [k \in 1..m |-> s[Nth(K, k)]]
           t == Trimmed(l)
<1>1. s \in Seq(Row) /\ n \in Nat /\ DOMAIN s = 1..n /\ \A i \in 1..n : s[i] \in Row
  BY DEF Rows
<1>2. C \in SUBSET (1..n) /\ K \in SUBSET (1..n)
  BY <1>1 DEF ClosedRows
<1>3. DOMAIN t = DOMAIN l /\ t.epoch = l.epoch /\ t.next = l.next /\ t.tasks = u
  BY DEF Trimmed, Rows
<1>4. \A i \in K \cap C : Rank(C, i) > Cardinality(C) - MaxClosed
  OBVIOUS
<1> HIDE DEF s, n, C, K, m, u, t
<1>5. m \in Nat /\ m <= n
  <2>1. IsFiniteSet(1..n) /\ Cardinality(1..n) = n
    BY <1>1, FS_Interval
  <2>2. Cardinality(K) <= n
    BY <1>2, <2>1, FS_Subset
  <2> QED BY <1>1, <1>2, <2>2, RanksAreNumbers DEF m
<1>6. \A k \in 1..m : Nth(K, k) \in K /\ Nth(K, k) \in 1..n
  BY <1>1, <1>2, NthIsThere DEF m
<1>7. /\ u \in Seq(Row) /\ Len(u) = m /\ DOMAIN u = 1..m
      /\ \A k \in 1..m : u[k] = s[Nth(K, k)]
  <2>1. u \in [1..m -> Row]
    BY <1>1, <1>6 DEF u
  <2>2. u \in Seq(Row) /\ Len(u) = m
    BY <1>5, <2>1
  <2> QED BY <2>2 DEF u
<1>8. ASSUME NEW j \in 1..m, NEW k \in 1..m, j < k PROVE u[j].id < u[k].id
  <2>1. Nth(K, j) < Nth(K, k)
    BY <1>1, <1>2, <1>8, NthGrows DEF m
  <2> QED BY <1>1, <1>6, <1>7, <2>1 DEF Rows, s
<1>9. Rows(t)
  <2>1. \A k \in 1..m : u[k].id < l.next
    BY <1>1, <1>6, <1>7 DEF Rows, s
  <2> QED BY <1>3, <1>7, <1>8, <2>1 DEF Rows
<1>10. Cardinality(ClosedRows(t)) <= MaxClosed
  <2>1. ClosedRows(t) = {k \in 1..m : Nth(K, k) \in C}
    <3>1. \A k \in 1..m : ~IsOpen(u[k]) <=> Nth(K, k) \in C
      BY <1>1, <1>6, <1>7 DEF C, ClosedRows, s
    <3> QED BY <1>3, <1>7, <3>1 DEF ClosedRows
  <2>2. MaxClosed \in Nat
    BY ListAssumption DEF ListAssumption
  <2>3. Cardinality({k \in 1..Cardinality(K) : Nth(K, k) \in C}) <= MaxClosed
    BY <1>1, <1>2, <1>4, <2>2, LastOfThem
  <2> QED BY <2>1, <2>3 DEF m
<1> QED BY <1>3, <1>5, <1>7, <1>9, <1>10 DEF t, n, s

LEMMA OpenAndClosed ==
    ASSUME NEW l, Rows(l)
    PROVE  Len(l.tasks) = Cardinality(OpenRows(l)) + Cardinality(ClosedRows(l))
<1> DEFINE n == Len(l.tasks)
           O == OpenRows(l)
           C == ClosedRows(l)
<1>1. n \in Nat /\ DOMAIN l.tasks = 1..n
  BY DEF Rows
<1>2. O \cup C = 1..n /\ O \cap C = {} /\ O \in SUBSET (1..n) /\ C \in SUBSET (1..n)
  BY <1>1 DEF OpenRows, ClosedRows
<1> HIDE DEF n, O, C
<1>3. IsFiniteSet(O) /\ IsFiniteSet(C) /\ Cardinality(O) \in Nat /\ Cardinality(C) \in Nat
  BY <1>1, <1>2, RanksAreNumbers, 0 \in Nat
<1>4. Cardinality(O \cup C) = Cardinality(O) + Cardinality(C) - Cardinality(O \cap C)
  BY <1>3, FS_Union
<1>5. Cardinality(O \cap C) = 0
  <2>1. O \cap C = {}
    BY <1>2
  <2> QED BY <2>1, FS_EmptySet
<1>6. Cardinality(1..n) = n
  <2>1. 1 \in Int /\ n \in Int
    BY <1>1
  <2>2. Cardinality(1..n) = IF 1 > n THEN 0 ELSE n - 1 + 1
    BY <2>1, FS_Interval
  <2> QED BY <1>1, <2>2
<1>7. n = Cardinality(O) + Cardinality(C)
  <2>1. Cardinality(O \cup C) = n
    BY <1>2, <1>6
  <2> QED BY <1>3, <1>4, <1>5, <2>1
<1> QED BY <1>7 DEF n, O, C

LEMMA AddedIs ==
    ASSUME NEW l, ListOK(l), CanAdd(l)
    PROVE  ListOK(Added(l)) /\ Added(l).epoch = l.epoch
<1> DEFINE row == [id |-> l.next, status |-> "todo"]
           s == l.tasks
           n == Len(s)
           u == Append(s, row)
           a == [l EXCEPT !.next = @ + 1, !.tasks = u]
<1>1. Rows(l) /\ DOMAIN l = {"epoch", "next", "tasks"}
  BY DEF ListOK, Rows
<1>2. DOMAIN a = DOMAIN l /\ a.epoch = l.epoch /\ a.next = l.next + 1 /\ a.tasks = u
  BY <1>1
<1>3. row \in Row /\ row.id = l.next
  BY <1>1 DEF Rows, Row, Statuses
<1>4. /\ s \in Seq(Row) /\ n \in Nat /\ DOMAIN s = 1..n
      /\ \A i \in 1..n : s[i] \in Row /\ s[i].id < l.next
      /\ \A i, j \in 1..n : i < j => s[i].id < s[j].id
  BY <1>1 DEF Rows
<1> HIDE DEF row, s, a
<1>5. /\ u \in Seq(Row) /\ Len(u) = n + 1 /\ DOMAIN u = 1..n + 1
      /\ u[n + 1] = row /\ \A i \in 1..n : u[i] = s[i]
  BY <1>3, <1>4
<1> HIDE DEF n, u
<1>6. Rows(a)
  <2>1. l.next \in Nat /\ \A i \in 1..n : s[i].id \in Nat
    BY <1>1, <1>4 DEF Rows, Row
  <2>2. ASSUME NEW i \in 1..n + 1 PROVE u[i].id < l.next + 1
    BY <1>3, <1>4, <1>5, <2>1
  <2>3. ASSUME NEW i \in 1..n + 1, NEW j \in 1..n + 1, i < j PROVE u[i].id < u[j].id
    <3>1. CASE j = n + 1
      <4>1. i \in 1..n
        BY <1>4, <2>3, <3>1
      <4> QED BY <1>3, <1>4, <1>5, <3>1, <4>1
    <3>2. CASE j # n + 1
      <4>1. i \in 1..n /\ j \in 1..n
        BY <1>4, <2>3, <3>2
      <4> QED BY <1>4, <1>5, <2>3, <4>1
    <3> QED BY <3>1, <3>2
  <2> QED BY <1>1, <1>2, <1>5, <2>1, <2>2, <2>3 DEF Rows
<1>7. n + 1 <= MaxOpen + MaxClosed
  <2>1. n = Cardinality(OpenRows(l)) + Cardinality(ClosedRows(l))
    BY <1>1, OpenAndClosed DEF n, s
  <2>2. Cardinality(OpenRows(l)) < MaxOpen /\ Cardinality(ClosedRows(l)) <= MaxClosed
    BY DEF CanAdd, ListOK
  <2>3. Cardinality(OpenRows(l)) \in Nat /\ Cardinality(ClosedRows(l)) \in Nat
    <3>1. OpenRows(l) \in SUBSET (1..n) /\ ClosedRows(l) \in SUBSET (1..n)
      BY <1>4 DEF OpenRows, ClosedRows, s
    <3> QED BY <1>4, <3>1, RanksAreNumbers, 0 \in Nat
  <2> QED BY <2>1, <2>2, <2>3, ListAssumption DEF ListAssumption
<1>8. /\ Rows(Trimmed(a)) /\ Trimmed(a).epoch = a.epoch
      /\ Cardinality(ClosedRows(Trimmed(a))) <= MaxClosed
      /\ Len(Trimmed(a).tasks) <= Len(a.tasks)
  BY <1>6, TrimmedIs
<1>9. Len(Trimmed(a).tasks) \in Nat
  BY <1>8 DEF Rows
<1>10. Added(l) = Trimmed(a)
  BY DEF Added, a, u, s, row
<1> QED BY <1>2, <1>4, <1>5, <1>7, <1>8, <1>9, <1>10, ListAssumption DEF ListOK, ListAssumption

LEMMA MarkedIs ==
    ASSUME NEW l, ListOK(l), NEW id, NEW action \in DOMAIN Marks
    PROVE  ListOK(Marked(l, id, action)) /\ Marked(l, id, action).epoch = l.epoch
<1> DEFINE s == l.tasks
           n == Len(s)
           u == [i \in DOMAIN s |->
                    IF s[i].id = id THEN [s[i] EXCEPT !.status = Marks[action]] ELSE s[i]]
           a == [l EXCEPT !.tasks = u]
<1>1. Rows(l) /\ DOMAIN l = {"epoch", "next", "tasks"}
  BY DEF ListOK, Rows
<1>2. DOMAIN a = DOMAIN l /\ a.epoch = l.epoch /\ a.next = l.next /\ a.tasks = u
  BY <1>1
<1>3. /\ s \in Seq(Row) /\ n \in Nat /\ DOMAIN s = 1..n
      /\ \A i \in 1..n : s[i] \in Row /\ s[i].id < l.next
      /\ \A i, j \in 1..n : i < j => s[i].id < s[j].id
  BY <1>1 DEF Rows
<1>4. Marks[action] \in Statuses
  BY DEF Marks, Statuses
<1>5. \A i \in 1..n : u[i] \in Row /\ u[i].id = s[i].id
  BY <1>3, <1>4 DEF Row
<1>6. u \in Seq(Row) /\ Len(u) = n /\ DOMAIN u = 1..n
  <2>1. u \in [1..n -> Row]
    BY <1>3, <1>5
  <2> HIDE DEF u, n
  <2> QED BY <1>3, <2>1
<1> HIDE DEF s, n, u, a
<1>7. Rows(a)
  BY <1>1, <1>2, <1>3, <1>5, <1>6 DEF Rows
<1>8. /\ Rows(Trimmed(a)) /\ Trimmed(a).epoch = a.epoch
      /\ Cardinality(ClosedRows(Trimmed(a))) <= MaxClosed
      /\ Len(Trimmed(a).tasks) <= Len(a.tasks)
  BY <1>7, TrimmedIs
<1>9. Len(Trimmed(a).tasks) \in Nat /\ n <= MaxOpen + MaxClosed
  BY <1>8 DEF Rows, ListOK, n, s
<1>10. Marked(l, id, action) = Trimmed(a)
  BY DEF Marked, a, u, s
<1> QED BY <1>2, <1>3, <1>6, <1>8, <1>9, <1>10, ListAssumption DEF ListOK, ListAssumption

\* Whatever one call makes of a list that is in order is.
LEMMA AppliedIs ==
    ASSUME NEW l, ListOK(l), NEW a \in Applied(l) PROVE ListOK(a) /\ a.epoch = l.epoch
<1>1. \/ CanAdd(l) /\ a = Added(l)
      \/ \E t \in Range(l.tasks), action \in DOMAIN Marks : a = Marked(l, t.id, action)
  BY DEF Applied
<1> QED BY <1>1, AddedIs, MarkedIs

-----------------------------------------------------------------------------
(* The invariant. *)

\* What is loaded is a list in order, of the epoch asked for; one with rows is
\* the file's.
LEMMA LoadIs ==
    ASSUME NEW file, NEW e,
           file = {} \/ \E f \in file : file = {f} /\ ListOK(f)
    PROVE  /\ ListOK(Load(file, e)) /\ Load(file, e).epoch = e
           /\ Load(file, e).tasks # <<>> => file = {Load(file, e)}
<1>1. CASE \E l \in file : l.epoch = e
  <2>1. PICK f : file = {f} /\ ListOK(f)
    BY <1>1
  <2>2. (CHOOSE l \in file : TRUE) = f
    BY <2>1
  <2>3. Load(file, e) = f
    BY <1>1, <2>2 DEF Load
  <2> QED BY <1>1, <2>1, <2>3
<1>2. CASE ~\E l \in file : l.epoch = e
  <2>1. Load(file, e) = EmptyList(e)
    BY <1>2 DEF Load
  <2>2. EmptyList(e).tasks = <<>>
    BY DEF EmptyList
  <2> QED BY <2>1, <2>2, EmptyIsOK
<1> QED BY <1>1, <1>2

\* The list and its file are in order, the list is of the session's epoch, and
\* one with rows is what the file holds.
ListInv ==
    /\ "session" \in DOMAIN watch /\ "epoch" \in DOMAIN watch.session
    /\ "epoch" \in DOMAIN disk
    /\ ListOK(local.list) /\ local.list.epoch = watch.session.epoch
    /\ local.file = {} \/ \E f \in local.file : local.file = {f} /\ ListOK(f)
    /\ local.list.tasks # <<>> => local.file = {local.list}

LEMMA SessionIs ==
    ASSUME NEW file, "epoch" \in DOMAIN file, NEW e
    PROVE  Session(file, e).epoch = e /\ "epoch" \in DOMAIN Session(file, e)
BY DEF Session

LEMMA WatchingIs ==
    ASSUME NEW s, "epoch" \in DOMAIN s, NEW h
    PROVE  /\ "session" \in DOMAIN Watching(s, h) /\ "epoch" \in DOMAIN Watching(s, h).session
           /\ Watching(s, h).session.epoch = s.epoch
BY DEF Watching

LEMMA ListInit == Init => ListInv
<1> SUFFICES ASSUME Init PROVE ListInv
  OBVIOUS
<1>1. "epoch" \in DOMAIN disk /\ disk.epoch = 0
  BY DEF Init
<1>2. Session(disk, 0).epoch = 0 /\ "epoch" \in DOMAIN Session(disk, 0)
  BY <1>1, SessionIs
<1> DEFINE s == Session(disk, 0)
           w == Watching(s, 0)
<1>3. "session" \in DOMAIN w /\ "epoch" \in DOMAIN w.session /\ w.session.epoch = 0
  BY <1>2, WatchingIs
<1>4. watch = [w EXCEPT !.pc = IF Is("cat") THEN "head" ELSE "events"]
  BY DEF Init
<1> HIDE DEF w
<1>5. "session" \in DOMAIN watch /\ "epoch" \in DOMAIN watch.session /\ watch.session.epoch = 0
  BY <1>3, <1>4
<1>6. local.list = EmptyList(0) /\ local.file = {}
  BY DEF Init
<1>7. EmptyList(0).tasks = <<>>
  BY DEF EmptyList
<1> QED BY <1>1, <1>2, <1>5, <1>6, <1>7, EmptyIsOK DEF ListInv

\* Most of the actions leave the list, its file and the session's epoch alone.
LEMMA ListUntouched ==
    ASSUME ListInv, local' = local, disk' = disk,
           "session" \in DOMAIN watch', watch'.session = watch.session
    PROVE  ListInv'
BY DEF ListInv

LEMMA ListPoll == ListInv /\ Poll => ListInv'
<1> SUFFICES ASSUME ListInv, Poll PROVE ListInv'
  OBVIOUS
<1> DEFINE e == TheHead.last_checkpoint
           list == ResetTo(local.list, e)
           moved == e # watch.session.epoch
<1>1. /\ "session" \in DOMAIN watch' /\ "epoch" \in DOMAIN watch'.session
      /\ watch'.session.epoch = e
  BY DEF Poll, ListInv
<1>2. local' = IF moved THEN [list |-> list, file |-> {list}] ELSE local
  BY DEF Poll
<1>3. disk' = disk
  BY DEF Poll
<1>4. ListOK(list) /\ list.epoch = e
  BY EmptyIsOK DEF ResetTo, ListInv
<1> HIDE DEF e, list
<1>5. CASE moved
  <2>1. local'.list = list /\ local'.file = {list}
    BY <1>2, <1>5
  <2> QED BY <1>1, <1>3, <1>4, <2>1 DEF ListInv
<1>6. CASE ~moved
  BY <1>1, <1>2, <1>3, <1>6 DEF ListInv
<1> QED BY <1>5, <1>6

LEMMA ListCall == ListInv /\ CallLocalTask => ListInv'
<1> SUFFICES ASSUME ListInv, CallLocalTask PROVE ListInv'
  OBVIOUS
<1>1. PICK list \in Applied(local.list) : local' = [list |-> list, file |-> {list}]
  BY DEF CallLocalTask
<1>2. ListOK(list) /\ list.epoch = local.list.epoch
  BY <1>1, AppliedIs DEF ListInv
<1>3. local'.list = list /\ local'.file = {list}
  BY <1>1
<1>4. watch' = watch /\ disk' = disk
  BY DEF CallLocalTask
<1> QED BY <1>2, <1>3, <1>4 DEF ListInv

LEMMA ListRestart == ASSUME ListInv, NEW torn \in BOOLEAN, Restart(torn) PROVE ListInv'
<1> DEFINE file == IF torn THEN {} ELSE local.file
           list == Load(file, node.cp)
           s == Session(disk, node.cp)
<1>1. local' = [list |-> list, file |-> file] /\ watch' = Watching(s, HeadKept) /\ disk' = disk
  BY DEF Restart
<1>2. file = {} \/ \E f \in file : file = {f} /\ ListOK(f)
  BY DEF ListInv
<1>3. "epoch" \in DOMAIN disk
  BY DEF ListInv
<1>4. s.epoch = node.cp /\ "epoch" \in DOMAIN s
  BY <1>3, SessionIs
<1> HIDE DEF file, s
<1>5. ListOK(list) /\ list.epoch = node.cp /\ (list.tasks # <<>> => file = {list})
  BY <1>2, LoadIs
<1>6. "session" \in DOMAIN watch' /\ "epoch" \in DOMAIN watch'.session /\ watch'.session.epoch = node.cp
  BY <1>1, <1>4, WatchingIs
<1> HIDE DEF list
<1>7. local'.list = list /\ local'.file = file
  BY <1>1
<1> QED BY <1>1, <1>2, <1>3, <1>4, <1>5, <1>6, <1>7 DEF ListInv

\* The session is saved with its own epoch.
LEMMA ListSave == ListInv /\ Save => ListInv'
<1> SUFFICES ASSUME ListInv, Save PROVE ListInv'
  OBVIOUS
<1> DEFINE s == [watch.session EXCEPT !.cursor = watch.cursor.seq, !.question = watch.question]
<1>1. "epoch" \in DOMAIN s /\ s.epoch = watch.session.epoch
  BY DEF ListInv
<1>2. /\ watch' = [watch EXCEPT !.pc = "head", !.session = s]
      /\ disk' = (IF s = watch.session THEN disk ELSE s) /\ local' = local
  BY DEF Save
<1> HIDE DEF s
<1>3. "session" \in DOMAIN watch' /\ watch'.session = s
  BY <1>2 DEF ListInv
<1>4. "epoch" \in DOMAIN disk'
  BY <1>1, <1>2 DEF ListInv
<1> QED BY <1>1, <1>2, <1>3, <1>4 DEF ListInv

LEMMA ListStep == ListInv /\ [Next]_vars => ListInv'
<1> SUFFICES ASSUME ListInv, [Next]_vars PROVE ListInv'
  OBVIOUS
<1> USE ListUntouched
<1>1. ASSUME TheNode PROVE ListInv'
  <2>1. local' = local /\ disk' = disk /\ watch' = watch
    BY <1>1 DEF TheNode, Emit, Seal, Demote, Rebuilds, Adopt, Pull, Rewind
  <2> QED BY <2>1 DEF ListInv
<1>2. ASSUME TheCat PROVE ListInv'
  <2>1. CASE Poll
    BY <2>1, ListPoll
  <2>2. CASE PollFails
    BY <2>2 DEF PollFails, ListInv
  <2>3. CASE Fetch
    BY <2>3 DEF Fetch, ListInv
  <2>4. CASE FetchFails
    BY <2>4 DEF FetchFails, ListInv
  <2>5. CASE Send
    BY <2>5 DEF Send, ListInv
  <2>6. CASE Save
    BY <2>6, ListSave
  <2>7. CASE CallLocalTask
    BY <2>7, ListCall
  <2>8. CASE \E torn \in BOOLEAN : Restart(torn)
    BY <2>8, ListRestart
  <2> QED BY <1>2, <2>1, <2>2, <2>3, <2>4, <2>5, <2>6, <2>7, <2>8 DEF TheCat
<1>3. ASSUME TheSleeper PROVE ListInv'
  <2>1. CASE AsleepReads
    BY <2>1 DEF AsleepReads, ListInv
  <2>2. CASE AsleepChecks
    BY <2>2 DEF AsleepChecks, ListInv
  <2>3. CASE AsleepMisses
    BY <2>3 DEF AsleepMisses, ListInv
  <2>4. CASE AsleepRestart
    BY <2>4 DEF AsleepRestart, ListInv
  <2> QED BY <1>3, <2>1, <2>2, <2>3, <2>4 DEF TheSleeper
<1>4. ASSUME TheTerminal PROVE ListInv'
  <2>1. CASE ShowHead \/ Show \/ ShowMisses
    BY <2>1 DEF ShowHead, Show, ShowMisses, ListInv
  <2>2. CASE TypeLine \/ LineRuns \/ LineRefused \/ LineGivenUp
    BY <2>2 DEF TypeLine, LineRuns, LineRefused, LineGivenUp, ListInv
  <2> QED BY <1>4, <2>1, <2>2 DEF TheTerminal
<1>5. CASE UNCHANGED vars
  BY <1>5 DEF vars, ListInv
<1> QED BY <1>1, <1>2, <1>3, <1>4, <1>5 DEF Next

LEMMA ListInvGivesKeeps == ListInv => ListKeeps
<1> SUFFICES ASSUME ListInv PROVE ListKeeps
  OBVIOUS
<1> DEFINE tasks == local.list.tasks
<1>1. ListOK(local.list) /\ Rows(local.list) /\ DOMAIN tasks = 1..Len(tasks) /\ Len(tasks) \in Nat
  BY DEF ListInv, ListOK, Rows
<1>2. ASSUME NEW i \in DOMAIN tasks, i > 1 PROVE tasks[i - 1].id < tasks[i].id
  <2>1. i - 1 \in DOMAIN tasks /\ i - 1 < i
    BY <1>1, <1>2
  <2> QED BY <1>1, <2>1 DEF Rows
<1> QED BY <1>1, <1>2 DEF ListInv, ListKeeps, ListOK, Rows

\* A cat's to-do list is of the epoch its loop is in, is what its file holds,
\* gives an id once and stays bounded, through every call of LocalTask, every
\* moved checkpoint and every restart, a torn file included (local_tasks.rs:
\* load, reset, apply; agent.rs: watch_chain): for every limit on open and on
\* closed rows, every log, and any number of calls and restarts.
THEOREM ListIsKept == Spec => []ListKeeps
<1>1. Spec => []ListInv
  BY ListInit, ListStep, PTL DEF Spec
<1>2. ListInv => ListKeeps
  BY ListInvGivesKeeps
<1> QED BY <1>1, <1>2, PTL

-----------------------------------------------------------------------------
(* Reading the log, and rebuilding it. *)

\* f holds what is read after each entry of a batch.
IsBatch(f, c, xs) ==
    f = [i \in 0..Len(xs) |-> IF i = 0 THEN [cursor |-> c, news |-> <<>>] ELSE Taken(f[i - 1], xs[i])]

LEMMA BatchExists ==
    ASSUME NEW c, NEW xs, Len(xs) \in Nat
    PROVE  \E f : IsBatch(f, c, xs)
<1> DEFINE P(f, n) == f = [i \in 0..n |-> IF i = 0 THEN [cursor |-> c, news |-> <<>>] ELSE Taken(f[i - 1], xs[i])]
           T == {n \in Nat : \E f : P(f, n)}
<1>1. 0 \in T
  <2> DEFINE f == [i \in 0..0 |-> [cursor |-> c, news |-> <<>>]]
  <2>1. P(f, 0)
    OBVIOUS
  <2> QED BY <2>1
<1>2. ASSUME NEW n \in Nat, n \in T PROVE n + 1 \in T
  <2>1. PICK f : P(f, n)
    BY <1>2
  <2> DEFINE g == [i \in 0..n + 1 |-> IF i <= n THEN f[i] ELSE Taken(f[n], xs[n + 1])]
  <2>2. ASSUME NEW i \in 0..n + 1
        PROVE  g[i] = IF i = 0 THEN [cursor |-> c, news |-> <<>>] ELSE Taken(g[i - 1], xs[i])
    <3>1. CASE i = 0
      BY <2>1, <3>1
    <3>2. CASE i # 0 /\ i <= n
      <4>1. i \in 0..n /\ i - 1 \in 0..n + 1 /\ i - 1 <= n
        BY <3>2
      <4>2. g[i] = f[i] /\ g[i - 1] = f[i - 1]
        BY <4>1
      <4>3. f[i] = Taken(f[i - 1], xs[i])
        BY <2>1, <3>2, <4>1
      <4> QED BY <3>2, <4>2, <4>3
    <3>3. CASE i = n + 1
      <4>1. g[i] = Taken(f[n], xs[n + 1])
        BY <3>3
      <4>2. g[i - 1] = f[n] /\ i # 0
        BY <3>3
      <4> QED BY <3>3, <4>1, <4>2
    <3> QED BY <3>1, <3>2, <3>3
  <2>3. g = [i \in 0..n + 1 |-> g[i]]
    OBVIOUS
  <2>4. P(g, n + 1)
    <3> HIDE DEF g
    <3> QED BY <2>2, <2>3
  <2>5. (\E h : P(h, n + 1)) /\ n + 1 \in Nat
    <3> HIDE DEF g, P
    <3> QED BY <2>4
  <2> HIDE DEF P
  <2> QED BY <2>5
<1>3. Len(xs) \in T
  <2> HIDE DEF T
  <2> QED BY <1>1, <1>2, InductionBySet
<1> QED BY <1>3 DEF IsBatch

LEMMA BatchIs ==
    ASSUME NEW c, NEW xs, Len(xs) \in Nat
    PROVE  \E f : IsBatch(f, c, xs) /\ Batch(c, xs) = f[Len(xs)]
<1> DEFINE g == CHOOSE f : IsBatch(f, c, xs)
<1>1. IsBatch(g, c, xs)
  BY BatchExists
<1>2. Batch(c, xs) = g[Len(xs)]
  BY DEF Batch, IsBatch
<1> QED BY <1>1, <1>2

\* What is news was in the batch.
LEMMA NewsIsRead ==
    ASSUME NEW X, NEW xs \in Seq(X), NEW c
    PROVE  Batch(c, xs).news \in Seq(X)
<1>1. Len(xs) \in Nat /\ \A i \in 1..Len(xs) : xs[i] \in X
  OBVIOUS
<1>2. PICK f : IsBatch(f, c, xs) /\ Batch(c, xs) = f[Len(xs)]
  BY <1>1, BatchIs
<1> DEFINE T == {i \in Nat : i <= Len(xs) => f[i].news \in Seq(X)}
<1>3. f[0] = [cursor |-> c, news |-> <<>>] /\ \A i \in 1..Len(xs) : f[i] = Taken(f[i - 1], xs[i])
  <2>1. \A i \in 0..Len(xs) :
            f[i] = IF i = 0 THEN [cursor |-> c, news |-> <<>>] ELSE Taken(f[i - 1], xs[i])
    BY <1>2 DEF IsBatch
  <2> HIDE DEF T
  <2> QED BY <1>1, <2>1
<1>4. 0 \in T
  <2>1. f[0].news = <<>>
    BY <1>3
  <2>2. <<>> \in Seq(X)
    OBVIOUS
  <2> QED BY <2>1, <2>2
<1>5. ASSUME NEW i \in Nat, i \in T PROVE i + 1 \in T
  <2>1. SUFFICES ASSUME i + 1 <= Len(xs) PROVE f[i + 1].news \in Seq(X)
    OBVIOUS
  <2>2. f[i].news \in Seq(X) /\ i + 1 \in 1..Len(xs)
    BY <1>1, <1>5, <2>1
  <2>3. f[i + 1] = Taken(f[i], xs[i + 1])
    BY <1>3, <2>2
  <2>4. Taken(f[i], xs[i + 1]).news \in {f[i].news, Append(f[i].news, xs[i + 1])}
    BY DEF Taken
  <2>5. Append(f[i].news, xs[i + 1]) \in Seq(X)
    BY <1>1, <2>2
  <2> HIDE DEF T
  <2> QED BY <2>2, <2>3, <2>4, <2>5
<1>6. Len(xs) \in T
  <2> HIDE DEF T
  <2> QED BY <1>1, <1>4, <1>5, InductionBySet
<1> QED BY <1>1, <1>2, <1>6

\* f holds the node after each block it replays.
IsReload(f, blocks, cp) ==
    f = [i \in 0..Len(blocks) - cp |-> IF i = 0 THEN Emptied(blocks, cp) ELSE Absorbed(f[i - 1], cp + i, blocks[cp + i])]

LEMMA ReloadExists ==
    ASSUME NEW blocks, NEW cp, Len(blocks) - cp \in Nat
    PROVE  \E f : IsReload(f, blocks, cp)
<1> DEFINE P(f, n) == f = [i \in 0..n |-> IF i = 0 THEN Emptied(blocks, cp) ELSE Absorbed(f[i - 1], cp + i, blocks[cp + i])]
           T == {n \in Nat : \E f : P(f, n)}
<1>1. 0 \in T
  <2> DEFINE f == [i \in 0..0 |-> Emptied(blocks, cp)]
  <2>1. P(f, 0)
    OBVIOUS
  <2> QED BY <2>1
<1>2. ASSUME NEW n \in Nat, n \in T PROVE n + 1 \in T
  <2>1. PICK f : P(f, n)
    BY <1>2
  <2> DEFINE g == [i \in 0..n + 1 |-> IF i <= n THEN f[i] ELSE Absorbed(f[n], cp + (n + 1), blocks[cp + (n + 1)])]
  <2>2. ASSUME NEW i \in 0..n + 1
        PROVE  g[i] = IF i = 0 THEN Emptied(blocks, cp) ELSE Absorbed(g[i - 1], cp + i, blocks[cp + i])
    <3>1. CASE i = 0
      BY <2>1, <3>1
    <3>2. CASE i # 0 /\ i <= n
      <4>1. i \in 0..n /\ i - 1 \in 0..n + 1 /\ i - 1 <= n
        BY <3>2
      <4>2. g[i] = f[i] /\ g[i - 1] = f[i - 1]
        BY <4>1
      <4>3. f[i] = Absorbed(f[i - 1], cp + i, blocks[cp + i])
        BY <2>1, <3>2, <4>1
      <4> QED BY <3>2, <4>2, <4>3
    <3>3. CASE i = n + 1
      <4>1. g[i] = Absorbed(f[n], cp + (n + 1), blocks[cp + (n + 1)])
        BY <3>3
      <4>2. g[i - 1] = f[n] /\ i # 0
        BY <3>3
      <4> QED BY <3>3, <4>1, <4>2
    <3> QED BY <3>1, <3>2, <3>3
  <2>3. g = [i \in 0..n + 1 |-> g[i]]
    OBVIOUS
  <2>4. P(g, n + 1)
    <3> HIDE DEF g
    <3> QED BY <2>2, <2>3
  <2>5. (\E h : P(h, n + 1)) /\ n + 1 \in Nat
    <3> HIDE DEF g, P
    <3> QED BY <2>4
  <2> HIDE DEF P
  <2> QED BY <2>5
<1>3. Len(blocks) - cp \in T
  <2> HIDE DEF T
  <2> QED BY <1>1, <1>2, InductionBySet
<1> QED BY <1>3 DEF IsReload

LEMMA ReloadedIs ==
    ASSUME NEW blocks, NEW cp, Len(blocks) - cp \in Nat
    PROVE  \E f : IsReload(f, blocks, cp) /\ Reloaded(blocks, cp) = f[Len(blocks) - cp]
<1> DEFINE g == CHOOSE f : IsReload(f, blocks, cp)
<1>1. IsReload(g, blocks, cp)
  BY ReloadExists
<1>2. Reloaded(blocks, cp) = g[Len(blocks) - cp]
  BY DEF Reloaded, IsReload
<1> QED BY <1>1, <1>2

-----------------------------------------------------------------------------
(* The node, with the events it has. *)

Entry(E) == [seq : Nat, block : Nat, ev : E]

Nodes(E) ==
    [blocks : Seq(Seq(E)), open : Seq(E), log : Seq(Entry(E)), seq : Nat, cp : Nat,
     ahead : Seq(Seq(E))]

LEMMA NodesGrow == ASSUME NEW E, NEW F, E \subseteq F PROVE Nodes(E) \subseteq Nodes(F)
<1>1. Entry(E) \subseteq Entry(F)
  BY DEF Entry
<1>2. Seq(E) \subseteq Seq(F)
  BY SeqGrows
<1>3. Seq(Seq(E)) \subseteq Seq(Seq(F))
  BY <1>2, SeqGrows
<1>4. Seq(Entry(E)) \subseteq Seq(Entry(F))
  BY <1>1, SeqGrows
<1> QED BY <1>2, <1>3, <1>4 DEF Nodes

LEMMA NewerIs == ASSUME NEW X, NEW log \in Seq(X) PROVE Newer(log) \in Seq(X)
<1>1. Len(log) \in Nat /\ LogCap \in Nat \ {0} /\ \A i \in 1..Len(log) : log[i] \in X
  BY CatAssumption DEF CatAssumption
<1> DEFINE from == Len(log) - LogCap + 1
<1>2. CASE Len(log) > LogCap
  <2>1. from \in Int /\ Len(log) \in Int /\ from >= 1
    BY <1>1, <1>2
  <2>2. \A i \in from..Len(log) : log[i] \in X
    BY <1>1, <2>1
  <2> HIDE DEF from
  <2>3. SubSeq(log, from, Len(log)) \in Seq(X)
    BY <2>1, <2>2, SubSeqProperties
  <2> QED BY <1>2, <2>3 DEF Newer, from
<1>3. CASE ~(Len(log) > LogCap)
  BY <1>3 DEF Newer
<1> QED BY <1>2, <1>3

\* What absorb adds to the log is of the block it is given.
LEMMA AbsorbedIs ==
    ASSUME NEW E, NEW n \in Nodes(E), NEW block \in Nat, NEW es \in Seq(E)
    PROVE  /\ Absorbed(n, block, es) \in Nodes(E)
           /\ Absorbed(n, block, es).blocks = n.blocks /\ Absorbed(n, block, es).cp = n.cp
<1> DEFINE added == Entries(n, block, es)
           log == Newer(n.log \o added)
<1>1. Len(es) \in Nat /\ \A i \in 1..Len(es) : es[i] \in E
  OBVIOUS
<1>2. n.seq \in Nat /\ n.log \in Seq(Entry(E))
  BY DEF Nodes
<1>3. added \in Seq(Entry(E))
  <2>1. added \in [1..Len(es) -> Entry(E)]
    BY <1>1, <1>2 DEF Entries, Entry
  <2> HIDE DEF added
  <2> QED BY <1>1, <2>1
<1>4. log \in Seq(Entry(E))
  <2>1. n.log \o added \in Seq(Entry(E))
    BY <1>2, <1>3
  <2> QED BY <2>1, NewerIs
<1>5. Absorbed(n, block, es) = [n EXCEPT !.seq = n.seq + Len(es), !.log = log]
  BY DEF Absorbed, Nodes
<1> HIDE DEF added, log
<1>6. n.seq + Len(es) \in Nat
  BY <1>1, <1>2
<1> QED BY <1>4, <1>5, <1>6 DEF Nodes

\* A rebuilt node has the events of its blocks.
LEMMA ReloadedHas ==
    ASSUME NEW E, NEW blocks \in Seq(Seq(E)), NEW cp \in Nat, cp <= Len(blocks)
    PROVE  /\ Reloaded(blocks, cp) \in Nodes(E)
           /\ Reloaded(blocks, cp).blocks = blocks /\ Reloaded(blocks, cp).cp = cp
<1> DEFINE n == Len(blocks) - cp
<1>1. n \in Nat /\ Len(blocks) \in Nat /\ \A b \in 1..Len(blocks) : blocks[b] \in Seq(E)
  OBVIOUS
<1>2. PICK f : IsReload(f, blocks, cp) /\ Reloaded(blocks, cp) = f[n]
  BY <1>1, ReloadedIs
<1>3. \A i \in 0..n : f[i] = IF i = 0 THEN Emptied(blocks, cp)
                             ELSE Absorbed(f[i - 1], cp + i, blocks[cp + i])
  BY <1>2 DEF IsReload
<1> DEFINE OK(m) == m \in Nodes(E) /\ m.blocks = blocks /\ m.cp = cp
           T == {i \in Nat : i <= n => OK(f[i])}
<1>4. OK(Emptied(blocks, cp))
  <2>1. <<>> \in Seq(E) /\ <<>> \in Seq(Entry(E)) /\ <<>> \in Seq(Seq(E))
    OBVIOUS
  <2> QED BY <2>1 DEF Emptied, Nodes
<1>5. 0 \in T
  <2>1. f[0] = Emptied(blocks, cp)
    BY <1>1, <1>3
  <2> HIDE DEF OK
  <2> QED BY <1>4, <2>1
<1>6. ASSUME NEW i \in Nat, i \in T PROVE i + 1 \in T
  <2>1. SUFFICES ASSUME i + 1 <= n PROVE OK(f[i + 1])
    OBVIOUS
  <2> DEFINE b == cp + (i + 1)
  <2>2. i + 1 \in 0..n /\ i + 1 # 0 /\ (i + 1) - 1 = i /\ b \in 1..Len(blocks) /\ b \in Nat
    BY <1>1, <2>1
  <2>3. f[i + 1] = Absorbed(f[i], b, blocks[b])
    BY <1>3, <2>2
  <2>4. OK(f[i])
    BY <1>1, <1>6, <2>1
  <2>5. blocks[b] \in Seq(E)
    BY <1>1, <2>2
  <2> DEFINE m == f[i]
             es == blocks[b]
  <2>6. m \in Nodes(E) /\ m.blocks = blocks /\ m.cp = cp /\ es \in Seq(E) /\ b \in Nat
    BY <2>2, <2>4, <2>5
  <2> HIDE DEF T, n, b, m, es
  <2>7. /\ Absorbed(m, b, es) \in Nodes(E)
        /\ Absorbed(m, b, es).blocks = m.blocks /\ Absorbed(m, b, es).cp = m.cp
    BY <2>6, AbsorbedIs
  <2>8. OK(Absorbed(m, b, es))
    BY <2>6, <2>7
  <2> HIDE DEF OK
  <2> QED BY <2>3, <2>8 DEF m, es
<1>7. OK(f[n])
  <2>1. n \in T
    <3> HIDE DEF T
    <3> QED BY <1>1, <1>5, <1>6, InductionBySet
  <2> HIDE DEF OK, n
  <2> QED BY <1>1, <2>1
<1> QED BY <1>2, <1>7

-----------------------------------------------------------------------------
(* The lines that are sealing. *)

\* What is remembered of the lines and the events.
EnvOK ==
    /\ {"events", "rebuilds", "restarts", "sending", "sealing", "ran", "givenUp"} \subseteq DOMAIN env
    /\ env.events \in Nat /\ env.rebuilds \in Nat /\ env.restarts \in Nat
    /\ env.sending \in Nat /\ env.sealing \in Nat
    /\ env.ran \in SUBSET (1..env.events) /\ env.givenUp \in BOOLEAN

\* The events there have been; the operator's lines among them are their own.
Known ==
    {e \in [id : 1..env.events, kind : Kinds, era : Nat] : e.id \in env.ran => e.kind = "mine"}

\* A line counted as sealing is being sent, or has run and is not shown yet.
Counted == env.sealing <= env.sending + Cardinality(env.ran \ Range(inbox))

SealInv ==
    /\ EnvOK
    /\ node \in Nodes(Known) /\ node.cp <= Len(node.blocks)
    /\ "pc" \in DOMAIN watch
    /\ Is("terminal") => /\ watch.pc \in {"head", "events"} /\ inbox \in Seq(1..env.events)
                         /\ ~env.givenUp => Counted
    /\ ~Is("terminal") => env.sending = 0 /\ env.sealing = 0

\* A step that takes no line further.
LineKept ==
    /\ DOMAIN env' = DOMAIN env
    /\ env'.events = env.events /\ env'.ran = env.ran /\ env'.givenUp = env.givenUp
    /\ env'.sending = env.sending /\ env'.sealing = env.sealing
    /\ env'.rebuilds \in Nat /\ env'.restarts \in Nat

LEMMA SealKept ==
    ASSUME SealInv, LineKept, setup' = setup,
           node' \in Nodes(Known), node'.cp <= Len(node'.blocks),
           "pc" \in DOMAIN watch',
           Is("terminal") => watch'.pc \in {"head", "events"} /\ inbox' = inbox
    PROVE  SealInv'
<1>1. EnvOK'
  BY DEF SealInv, EnvOK, LineKept
<1>2. Known' = Known
  BY DEF Known, LineKept
<1>3. Is("terminal")' <=> Is("terminal")
  BY DEF Is
<1>4. CASE Is("terminal")
  <2>1. Counted' <=> Counted
    BY <1>4 DEF Counted, LineKept
  <2> QED BY <1>1, <1>2, <1>3, <1>4, <2>1 DEF SealInv, LineKept
<1>5. CASE ~Is("terminal")
  BY <1>1, <1>2, <1>3, <1>5 DEF SealInv, LineKept
<1> QED BY <1>4, <1>5

\* A new event is in the log and, on the record, in the open block.
LEMMA EmitsIs ==
    ASSUME NEW E, NEW e \in E, node \in Nodes(E), Emits(e)
    PROVE  node' \in Nodes(E) /\ node'.cp = node.cp /\ node'.blocks = node.blocks
<1> DEFINE n == Absorbed(node, OpenBlock(node), <<e>>)
           o == IF OffRecord(e) THEN node.open ELSE Append(node.open, e)
<1>1. OpenBlock(node) \in Nat /\ <<e>> \in Seq(E) /\ node.open \in Seq(E)
  BY DEF OpenBlock, Nodes
<1>2. n \in Nodes(E) /\ n.blocks = node.blocks /\ n.cp = node.cp
  BY <1>1, AbsorbedIs
<1>3. n.open = node.open
  BY DEF Absorbed, Nodes
<1>4. node' = [n EXCEPT !.open = o]
  <2>1. node' = [n EXCEPT !.open = IF OffRecord(e) THEN @ ELSE Append(@, e)]
    BY DEF Emits
  <2> HIDE DEF n
  <2> QED BY <1>2, <1>3, <2>1 DEF Nodes
<1>5. o \in Seq(E)
  BY <1>1
<1> HIDE DEF n, o
<1> QED BY <1>2, <1>4, <1>5 DEF Nodes

LEMMA KnownGrows ==
    ASSUME EnvOK, env'.events >= env.events, env'.events \in Nat,
           env'.ran \cap (1..env.events) = env.ran
    PROVE  Known \subseteq Known'
<1> SUFFICES ASSUME NEW e \in Known PROVE e \in Known'
  OBVIOUS
<1>1. e \in [id : 1..env.events, kind : Kinds, era : Nat] /\ (e.id \in env.ran => e.kind = "mine")
  BY DEF Known
<1>2. env.events \in Nat
  BY DEF EnvOK
<1>3. e \in [id : 1..env'.events, kind : Kinds, era : Nat]
  BY <1>1, <1>2
<1>4. e.id \in env'.ran => e.kind = "mine"
  BY <1>1
<1> QED BY <1>3, <1>4 DEF Known

LEMMA SealEmit == ASSUME SealInv, NEW k \in Kinds, Emit(k) PROVE SealInv'
<1>1. EnvOK /\ node \in Nodes(Known) /\ node.cp <= Len(node.blocks)
  BY DEF SealInv
<1>2. /\ env' = [env EXCEPT !.events = @ + 1] /\ Emits(NextEvent(k))
      /\ UNCHANGED <<setup, watch, inbox, disk, local>>
  BY DEF Emit
<1>3. /\ DOMAIN env' = DOMAIN env /\ env'.events = env.events + 1 /\ env'.ran = env.ran
      /\ env'.givenUp = env.givenUp /\ env'.sending = env.sending /\ env'.sealing = env.sealing
      /\ env'.rebuilds = env.rebuilds /\ env'.restarts = env.restarts
  BY <1>1, <1>2 DEF EnvOK
<1>4. EnvOK'
  BY <1>1, <1>3 DEF EnvOK
<1>5. Known \subseteq Known'
  BY <1>1, <1>3, KnownGrows DEF EnvOK
<1>6. NextEvent(k) \in Known'
  BY <1>1, <1>3 DEF Known, EnvOK, NextEvent
<1>7. node \in Nodes(Known')
  BY <1>1, <1>5, NodesGrow
<1>8. node' \in Nodes(Known') /\ node'.cp = node.cp /\ node'.blocks = node.blocks
  BY <1>2, <1>6, <1>7, EmitsIs
<1>9. Is("terminal") => inbox' \in Seq(1..env'.events)
  <2>1. 1..env.events \subseteq 1..env'.events
    BY <1>1, <1>3 DEF EnvOK
  <2>2. Seq(1..env.events) \subseteq Seq(1..env'.events)
    BY <2>1, SeqGrows
  <2> QED BY <1>2, <2>2 DEF SealInv
<1>10. (Is("terminal")' <=> Is("terminal")) /\ (Counted' <=> Counted)
  BY <1>2, <1>3 DEF Is, Counted
<1> QED BY <1>1, <1>2, <1>3, <1>4, <1>8, <1>9, <1>10 DEF SealInv

LEMMA AheadIs ==
    ASSUME NEW E, NEW n \in Nodes(E), NEW ahead \in Seq(Seq(E))
    PROVE  LET a == [n EXCEPT !.ahead = ahead] IN
           a \in Nodes(E) /\ a.cp = n.cp /\ a.blocks = n.blocks
BY DEF Nodes

LEMMA CompactIs ==
    ASSUME NEW E, NEW n \in Nodes(E), NEW height \in Nat
    PROVE  LET c == [n EXCEPT !.cp = height] IN
           c \in Nodes(E) /\ c.cp = height /\ c.blocks = n.blocks
BY DEF Nodes

\* Sealed, rebuilt or pulled again, a node has the events it had.
LEMMA SealsIs ==
    ASSUME NEW E, node \in Nodes(E), node.cp <= Len(node.blocks), NEW compact \in BOOLEAN, Seal(compact)
    PROVE  node' \in Nodes(E) /\ node'.cp <= Len(node'.blocks)
<1> DEFINE sealed == [node EXCEPT !.blocks = Append(@, node.open), !.open = <<>>]
<1>1. /\ node.blocks \in Seq(Seq(E)) /\ node.open \in Seq(E) /\ node.cp \in Nat
      /\ Len(node.blocks) \in Nat /\ <<>> \in Seq(E)
  BY DEF Nodes
<1>2. Append(node.blocks, node.open) \in Seq(Seq(E)) /\ Len(Append(node.blocks, node.open)) = Len(node.blocks) + 1
  BY <1>1
<1>3. sealed = [node EXCEPT !.blocks = Append(node.blocks, node.open), !.open = <<>>]
  OBVIOUS
<1>4. sealed \in Nodes(E) /\ sealed.cp = node.cp /\ Len(sealed.blocks) = Len(node.blocks) + 1
  BY <1>1, <1>2, <1>3 DEF Nodes
<1>5. node' = IF compact THEN [sealed EXCEPT !.cp = OpenBlock(node)] ELSE sealed
  BY DEF Seal, CompactAt
<1> HIDE DEF sealed
<1>6. CASE compact
  <2>1. OpenBlock(node) = Len(node.blocks) + 1
    BY DEF OpenBlock
  <2>2. node' = [sealed EXCEPT !.cp = Len(node.blocks) + 1]
    BY <1>5, <1>6, <2>1
  <2> DEFINE height == Len(node.blocks) + 1
  <2>3. height \in Nat /\ sealed \in Nodes(E) /\ node' = [sealed EXCEPT !.cp = height]
    BY <1>1, <1>4, <2>2
  <2>4. sealed.cp = node.cp /\ Len(sealed.blocks) = height
    BY <1>4
  <2> HIDE DEF height
  <2>5. node' \in Nodes(E) /\ node'.blocks = sealed.blocks /\ node'.cp = height
    BY <2>3, CompactIs
  <2> QED BY <2>3, <2>4, <2>5
<1>7. CASE ~compact
  BY <1>1, <1>4, <1>5, <1>7
<1> QED BY <1>6, <1>7

LEMMA DemoteIs ==
    ASSUME NEW E, node \in Nodes(E), node.cp <= Len(node.blocks), Demote
    PROVE  node' \in Nodes(E) /\ node'.cp <= Len(node'.blocks)
<1> DEFINE n == Reloaded(node.blocks, node.cp)
<1>1. node.blocks \in Seq(Seq(E)) /\ node.cp \in Nat /\ node.ahead \in Seq(Seq(E))
  BY DEF Nodes
<1>2. n \in Nodes(E) /\ n.blocks = node.blocks /\ n.cp = node.cp
  BY <1>1, ReloadedHas
<1>3. node' = [n EXCEPT !.ahead = node.ahead]
  BY DEF Demote
<1> HIDE DEF n
<1> QED BY <1>1, <1>2, <1>3, AheadIs

LEMMA RewindIs ==
    ASSUME NEW E, node \in Nodes(E), node.cp <= Len(node.blocks), NEW shared, Rewind(shared)
    PROVE  node' \in Nodes(E) /\ node'.cp <= Len(node'.blocks)
<1> DEFINE blocks == SubSeq(node.blocks, 1, node.cp)
           ahead == SubSeq(node.blocks, node.cp + 1, shared)
           n == Reloaded(blocks, node.cp)
<1>1. /\ node.blocks \in Seq(Seq(E)) /\ node.cp \in Nat /\ Len(node.blocks) \in Nat
      /\ \A b \in 1..Len(node.blocks) : node.blocks[b] \in Seq(E)
  BY DEF Nodes
<1>2. shared \in node.cp..Len(node.blocks)
  BY DEF Rewind
<1>3. blocks \in Seq(Seq(E)) /\ Len(blocks) = node.cp
  <2>1. 1 \in Int /\ node.cp \in Int /\ \A b \in 1..node.cp : node.blocks[b] \in Seq(E)
    BY <1>1
  <2>2. blocks \in Seq(Seq(E)) /\ Len(blocks) = IF 1 <= node.cp THEN node.cp - 1 + 1 ELSE 0
    BY <2>1, SubSeqProperties
  <2> HIDE DEF blocks
  <2> QED BY <1>1, <2>2
<1>4. ahead \in Seq(Seq(E))
  <2>1. node.cp + 1 \in Int /\ shared \in Int
    BY <1>1, <1>2
  <2>2. \A b \in node.cp + 1..shared : node.blocks[b] \in Seq(E)
    BY <1>1, <1>2
  <2> QED BY <2>1, <2>2, SubSeqProperties
<1>5. node' = [n EXCEPT !.ahead = ahead]
  BY DEF Rewind
<1> HIDE DEF blocks, ahead
<1>6. n \in Nodes(E) /\ n.blocks = blocks /\ n.cp = node.cp
  BY <1>1, <1>3, ReloadedHas
<1> HIDE DEF n
<1> QED BY <1>1, <1>3, <1>4, <1>5, <1>6, AheadIs

LEMMA AdoptIs ==
    ASSUME NEW E, node \in Nodes(E), node.cp <= Len(node.blocks), Adopt
    PROVE  node' \in Nodes(E) /\ node'.cp <= Len(node'.blocks)
<1> DEFINE blocks == Append(node.blocks \o node.ahead, <<>>)
<1>1. node.blocks \in Seq(Seq(E)) /\ node.ahead \in Seq(Seq(E)) /\ <<>> \in Seq(E)
  BY DEF Nodes
<1>2. node.blocks \o node.ahead \in Seq(Seq(E))
  BY <1>1
<1>3. blocks \in Seq(Seq(E))
  BY <1>1, <1>2
<1>4. node' = Reloaded(blocks, Len(blocks))
  BY DEF Adopt
<1> HIDE DEF blocks
<1>5. Len(blocks) \in Nat /\ Len(blocks) <= Len(blocks)
  BY <1>3
<1>6. node' \in Nodes(E) /\ node'.blocks = blocks /\ node'.cp = Len(blocks)
  BY <1>3, <1>4, <1>5, ReloadedHas
<1> QED BY <1>5, <1>6

LEMMA PullIs ==
    ASSUME NEW E, node \in Nodes(E), node.cp <= Len(node.blocks), Pull
    PROVE  node' \in Nodes(E) /\ node'.cp <= Len(node'.blocks)
<1> DEFINE n == Absorbed(node, OpenBlock(node), Head(node.ahead))
           blocks == Append(node.blocks, Head(node.ahead))
<1>1. /\ node.blocks \in Seq(Seq(E)) /\ node.ahead \in Seq(Seq(E)) /\ node.ahead # <<>>
      /\ Len(node.blocks) \in Nat /\ OpenBlock(node) \in Nat /\ node.cp \in Nat
  BY DEF Nodes, Pull, OpenBlock
<1>2. Head(node.ahead) \in Seq(E) /\ Tail(node.ahead) \in Seq(Seq(E))
  BY <1>1
<1>3. n \in Nodes(E) /\ n.blocks = node.blocks /\ n.cp = node.cp
  BY <1>1, <1>2, AbsorbedIs
<1>4. n.ahead = node.ahead
  BY DEF Absorbed, Nodes
<1>5. blocks \in Seq(Seq(E)) /\ Len(blocks) = Len(node.blocks) + 1
  BY <1>1, <1>2
<1>6. node' = [n EXCEPT !.blocks = blocks, !.ahead = Tail(node.ahead)]
  <2>1. node' = [n EXCEPT !.blocks = Append(@, Head(node.ahead)), !.ahead = Tail(@)]
    BY DEF Pull
  <2> HIDE DEF n
  <2> QED BY <1>3, <1>4, <2>1 DEF Nodes
<1> HIDE DEF n, blocks
<1>7. node' \in Nodes(E) /\ node'.cp = n.cp /\ node'.blocks = blocks
  BY <1>2, <1>3, <1>5, <1>6 DEF Nodes
<1> QED BY <1>1, <1>3, <1>5, <1>7

LEMMA SealNode == SealInv /\ TheNode => SealInv'
<1> SUFFICES ASSUME SealInv, TheNode PROVE SealInv'
  OBVIOUS
<1>1. node \in Nodes(Known) /\ node.cp <= Len(node.blocks) /\ EnvOK
  BY DEF SealInv
<1>2. ASSUME NEW k \in Kinds, Emit(k) PROVE SealInv'
  BY <1>2, SealEmit
<1>3. ASSUME LineKept, UNCHANGED <<setup, watch, inbox, disk, local>>,
             node' \in Nodes(Known), node'.cp <= Len(node'.blocks)
      PROVE  SealInv'
  BY <1>3, SealKept DEF SealInv
<1>4. ASSUME NEW compact \in BOOLEAN, Seal(compact) PROVE SealInv'
  <2>1. LineKept
    BY <1>1, <1>4 DEF Seal, LineKept, EnvOK
  <2> QED BY <1>1, <1>3, <1>4, <2>1, SealsIs DEF Seal
<1>5. ASSUME env' = Noted \/ env' = [Noted EXCEPT !.epochs = @ + 1] PROVE LineKept
  <2>1. /\ DOMAIN Noted = DOMAIN env /\ Noted.rebuilds = env.rebuilds + 1
        /\ Noted.events = env.events /\ Noted.ran = env.ran /\ Noted.givenUp = env.givenUp
        /\ Noted.sending = env.sending /\ Noted.sealing = env.sealing
        /\ Noted.restarts = env.restarts
    BY <1>1 DEF Noted, EnvOK
  <2>2. CASE env' = Noted
    BY <1>1, <2>1, <2>2 DEF LineKept, EnvOK
  <2>3. CASE env' = [Noted EXCEPT !.epochs = @ + 1]
    <3>1. /\ DOMAIN env' = DOMAIN Noted /\ env'.rebuilds = Noted.rebuilds
          /\ env'.events = Noted.events /\ env'.ran = Noted.ran /\ env'.givenUp = Noted.givenUp
          /\ env'.sending = Noted.sending /\ env'.sealing = Noted.sealing
          /\ env'.restarts = Noted.restarts
      BY <1>1, <2>1, <2>3 DEF EnvOK
    <3> QED BY <1>1, <2>1, <3>1 DEF LineKept, EnvOK
  <2> QED BY <1>5, <2>2, <2>3
<1>6. CASE Demote
  <2>1. LineKept
    BY <1>5, <1>6 DEF Demote
  <2> QED BY <1>1, <1>3, <1>6, <2>1, DemoteIs DEF Demote, Rebuilds
<1>7. CASE Adopt
  <2>1. LineKept
    BY <1>5, <1>7 DEF Adopt
  <2> QED BY <1>1, <1>3, <1>7, <2>1, AdoptIs DEF Adopt, Rebuilds
<1>8. ASSUME NEW shared, Rewind(shared) PROVE SealInv'
  <2>1. LineKept
    BY <1>5, <1>8 DEF Rewind
  <2> QED BY <1>1, <1>3, <1>8, <2>1, RewindIs DEF Rewind, Rebuilds
<1>9. CASE Pull
  <2>1. LineKept
    BY <1>1, <1>9 DEF Pull, LineKept, EnvOK
  <2> QED BY <1>1, <1>3, <1>9, <2>1, PullIs DEF Pull
<1> QED BY <1>2, <1>4, <1>6, <1>7, <1>8, <1>9 DEF TheNode

LEMMA SealCat == SealInv /\ TheCat => SealInv'
<1> SUFFICES ASSUME SealInv, TheCat PROVE SealInv'
  OBVIOUS
<1>1. node \in Nodes(Known) /\ node.cp <= Len(node.blocks) /\ EnvOK /\ "pc" \in DOMAIN watch
  BY DEF SealInv
<1>2. ASSUME LineKept, setup' = setup, node' = node, "pc" \in DOMAIN watch', ~Is("terminal")
      PROVE  SealInv'
  BY <1>1, <1>2, SealKept
<1>3. (Is("cat") \/ watch.pc = "send") => ~Is("terminal")
  BY DEF SealInv, Is
<1>4. CASE Poll
  BY <1>1, <1>2, <1>3, <1>4 DEF Poll, LineKept, EnvOK
<1>5. CASE PollFails
  BY <1>1, <1>2, <1>3, <1>5 DEF PollFails, LineKept, EnvOK
<1>6. CASE Fetch
  BY <1>1, <1>2, <1>3, <1>6 DEF Fetch, LineKept, EnvOK
<1>7. CASE FetchFails
  BY <1>1, <1>2, <1>3, <1>7 DEF FetchFails, LineKept, EnvOK
<1>8. CASE Send
  BY <1>1, <1>2, <1>3, <1>8 DEF Send, LineKept, EnvOK
<1>9. CASE Save
  BY <1>1, <1>2, <1>3, <1>9 DEF Save, LineKept, EnvOK
<1>10. CASE CallLocalTask
  BY <1>1, <1>2, <1>3, <1>10 DEF CallLocalTask, LineKept, EnvOK
<1>11. ASSUME NEW torn \in BOOLEAN, Restart(torn) PROVE SealInv'
  <2>1. "pc" \in DOMAIN watch'
    BY <1>11 DEF Restart, Watching
  <2>2. LineKept
    BY <1>1, <1>11 DEF Restart, Restarted, LineKept, EnvOK
  <2> QED BY <1>2, <1>3, <1>11, <2>1, <2>2 DEF Restart
<1> QED BY <1>4, <1>5, <1>6, <1>7, <1>8, <1>9, <1>10, <1>11 DEF TheCat

LEMMA SealSleeper == SealInv /\ TheSleeper => SealInv'
<1> SUFFICES ASSUME SealInv, TheSleeper PROVE SealInv'
  OBVIOUS
<1>1. node \in Nodes(Known) /\ node.cp <= Len(node.blocks) /\ EnvOK /\ "pc" \in DOMAIN watch
  BY DEF SealInv
<1>2. ASSUME LineKept, setup' = setup, node' = node, "pc" \in DOMAIN watch', ~Is("terminal")
      PROVE  SealInv'
  BY <1>1, <1>2, SealKept
<1>3. Is("asleep") => ~Is("terminal")
  BY DEF Is
<1>4. CASE AsleepReads
  <2>1. env' = env \/ env' = [env EXCEPT !.log = ReadAt(watch.cursor.seq)]
    BY <1>4 DEF AsleepReads
  <2>2. LineKept
    BY <1>1, <2>1 DEF LineKept, EnvOK
  <2> QED BY <1>1, <1>2, <1>3, <1>4, <2>2 DEF AsleepReads
<1>5. CASE AsleepChecks
  <2>1. \E h, P : env' = [env EXCEPT !.log = h, !.passed = P] \/ env' = [env EXCEPT !.log = h]
    BY <1>5 DEF AsleepChecks
  <2>2. LineKept
    BY <1>1, <2>1 DEF LineKept, EnvOK
  <2> QED BY <1>1, <1>2, <1>3, <1>5, <2>2 DEF AsleepChecks
<1>6. CASE AsleepMisses
  BY <1>1, <1>2, <1>3, <1>6 DEF AsleepMisses, LineKept, EnvOK
<1>7. CASE AsleepRestart
  BY <1>1, <1>2, <1>3, <1>7 DEF AsleepRestart, Restarted, LineKept, EnvOK
<1> QED BY <1>4, <1>5, <1>6, <1>7 DEF TheSleeper

\* What a terminal reads of a node's log are entries.
LEMMA NewsAreEntries ==
    ASSUME NEW E, node \in Nodes(E), NEW c
    PROVE  Batch(c, Since(c.seq)).news \in Seq(Entry(E))
<1> DEFINE S == {x \in Range(node.log) : x.seq > c.seq}
           T == Entry(E)
<1>1. node.log \in Seq(T)
  BY DEF Nodes
<1> HIDE DEF S, T
<1>2. Only(node.log, S) \in Seq(T \cap S)
  BY <1>1, OnlyIsASequence
<1>3. Only(node.log, S) \in Seq(T)
  BY <1>2, SeqGrows
<1>4. Since(c.seq) \in Seq(T)
  BY <1>3 DEF Since, S
<1> QED BY <1>4, NewsIsRead DEF T

\* A line that has run comes back as one of the operator's own.
LEMMA ShownIsCounted ==
    ASSUME EnvOK, NEW news \in Seq(Entry(Known)), NEW box \in Seq(1..env.events)
    PROVE  LET own == Cardinality({i \in DOMAIN news : news[i].ev.kind = "mine"})
               after == box \o Ids(news) IN
           /\ own \in Nat /\ after \in Seq(1..env.events)
           /\ Cardinality(env.ran \ Range(box)) <= Cardinality(env.ran \ Range(after)) + own
<1> DEFINE M == {i \in DOMAIN news : news[i].ev.kind = "mine"}
           L == {i \in DOMAIN news : news[i].ev.id \in env.ran}
           ids == Ids(news)
           after == box \o ids
           A == env.ran \ Range(box)
           B == env.ran \ Range(after)
           C == env.ran \cap Range(ids)
           f == [i \in L |-> news[i].ev.id]
<1>1. Len(news) \in Nat /\ DOMAIN news = 1..Len(news) /\ \A i \in DOMAIN news : news[i].ev \in Known
  <2>1. \A i \in DOMAIN news : news[i] \in Entry(Known)
    OBVIOUS
  <2> QED BY <2>1 DEF Entry
<1>2. ids \in Seq(1..env.events) /\ Len(ids) = Len(news) /\ \A i \in DOMAIN news : ids[i] = news[i].ev.id
  <2>1. \A i \in DOMAIN news : news[i].ev.id \in 1..env.events
    BY <1>1 DEF Known
  <2>2. ids = [i \in 1..Len(news) |-> news[i].ev.id]
    BY <1>1 DEF Ids
  <2>3. ids \in [1..Len(news) -> 1..env.events]
    BY <1>1, <2>1, <2>2
  <2>4. ids \in Seq(1..env.events) /\ Len(ids) = Len(news)
    <3> HIDE DEF ids
    <3>1. Len(news) \in Nat
      BY <1>1
    <3> QED BY <2>3, <3>1, SeqByFunction
  <2> QED BY <1>1, <2>2, <2>4
<1>3. IsFiniteSet(1..Len(news)) /\ IsFiniteSet(1..env.events)
  BY FS_Interval, <1>1 DEF EnvOK
<1>4. L \subseteq M /\ IsFiniteSet(M) /\ IsFiniteSet(L)
  <2>1. L \subseteq M
    BY <1>1 DEF Known
  <2>2. M \subseteq 1..Len(news)
    BY <1>1
  <2> QED BY <1>3, <2>1, <2>2, FS_Subset
<1>5. Cardinality(L) <= Cardinality(M) /\ Cardinality(M) \in Nat /\ Cardinality(L) \in Nat
  BY <1>4, FS_Subset, FS_CardinalityType
<1>6. IsFiniteSet(C) /\ Cardinality(C) <= Cardinality(L)
  <2>1. f \in Surjection(L, C)
    <3>1. \A i \in L : f[i] \in C
      BY <1>1, <1>2 DEF Range
    <3>2. \A x \in C : \E i \in L : f[i] = x
      BY <1>1, <1>2 DEF Range
    <3> HIDE DEF f, C, L
    <3>3. f \in [L -> C]
      BY <3>1 DEF f
    <3> QED BY <3>2, <3>3 DEF Surjection
  <2> HIDE DEF f, C, L
  <2> QED BY <1>4, <2>1, FS_Surjection
<1>7. after \in Seq(1..env.events) /\ Range(after) = Range(box) \cup Range(ids)
  <2> HIDE DEF ids
  <2> QED BY <1>2, RangeConcatenation
<1>8. A \subseteq B \cup C
  BY <1>7
<1>9. IsFiniteSet(A) /\ IsFiniteSet(B)
  BY <1>3, FS_Subset DEF EnvOK
<1> HIDE DEF M, L, ids, after, A, B, C, f
<1>10. Cardinality(A) <= Cardinality(B) + Cardinality(C)
  <2>1. /\ IsFiniteSet(B \cup C) /\ IsFiniteSet(B \cap C)
        /\ Cardinality(B \cup C) = Cardinality(B) + Cardinality(C) - Cardinality(B \cap C)
    BY <1>6, <1>9, FS_Union, FS_Intersection
  <2>2. Cardinality(A) <= Cardinality(B \cup C)
    BY <1>8, <2>1, FS_Subset
  <2>3. /\ Cardinality(A) \in Nat /\ Cardinality(B) \in Nat /\ Cardinality(C) \in Nat
        /\ Cardinality(B \cap C) \in Nat /\ Cardinality(B \cup C) \in Nat
    BY <1>6, <1>9, <2>1, FS_CardinalityType
  <2> QED BY <2>1, <2>2, <2>3
<1>11. Cardinality(A) \in Nat /\ Cardinality(B) \in Nat /\ Cardinality(C) \in Nat
  BY <1>6, <1>9, FS_CardinalityType
<1>12. Cardinality(A) <= Cardinality(B) + Cardinality(M)
  BY <1>5, <1>6, <1>10, <1>11
<1> QED BY <1>5, <1>7, <1>12 DEF M, after, A, B, ids

LEMMA SealShow == SealInv /\ Show => SealInv'
<1> SUFFICES ASSUME SealInv, Show PROVE SealInv'
  OBVIOUS
<1> DEFINE news == Batch(watch.cursor, Since(watch.cursor.seq)).news
           own == Cardinality({i \in DOMAIN news : news[i].ev.kind = "mine"})
           after == inbox \o Ids(news)
<1>1. node \in Nodes(Known) /\ node.cp <= Len(node.blocks) /\ EnvOK /\ "pc" \in DOMAIN watch
  BY DEF SealInv
<1>2. news \in Seq(Entry(Known))
  BY <1>1, NewsAreEntries
<1>3. env.sealing \in Nat /\ env.sending \in Nat /\ env.ran \in SUBSET (1..env.events) /\ env.events \in Nat
  BY <1>1 DEF EnvOK
<1>4. /\ setup' = setup /\ node' = node /\ inbox' = after
      /\ watch'.pc = "head" /\ "pc" \in DOMAIN watch'
  BY <1>1 DEF Show
<1>5. /\ DOMAIN env' = DOMAIN env /\ env'.events = env.events /\ env'.ran = env.ran
      /\ env'.givenUp = env.givenUp /\ env'.sending = env.sending
      /\ env'.sealing = Shown(env.sealing, news)
      /\ env'.rebuilds = env.rebuilds /\ env'.restarts = env.restarts
  BY <1>1 DEF Show, EnvOK
<1>6. Shown(env.sealing, news) = IF own > env.sealing THEN 0 ELSE env.sealing - own
  BY DEF Shown
<1>7. own \in Nat
  <2>1. IsFiniteSet(DOMAIN news)
    <3>1. DOMAIN news = 1..Len(news) /\ Len(news) \in Nat
      BY <1>2
    <3> HIDE DEF news
    <3> QED BY <3>1, FS_Interval
  <2> HIDE DEF news
  <2>2. IsFiniteSet({i \in DOMAIN news : news[i].ev.kind = "mine"})
    BY <2>1, FS_Subset
  <2> QED BY <2>2, FS_CardinalityType
<1> HIDE DEF news
<1>8. CASE ~Is("terminal")
  <2>1. env.sealing = 0 /\ env.sending = 0
    BY <1>8 DEF SealInv
  <2>2. env'.sealing = env.sealing
    <3> HIDE DEF own
    <3> QED BY <1>5, <1>6, <1>7, <2>1
  <2>3. LineKept
    BY <1>1, <1>5, <2>2 DEF LineKept, EnvOK
  <2> QED BY <1>1, <1>4, <1>8, <2>3, SealKept
<1>9. CASE Is("terminal")
  <2>1. inbox \in Seq(1..env.events) /\ (~env.givenUp => Counted)
    BY <1>9 DEF SealInv
  <2>2. /\ after \in Seq(1..env.events)
        /\ Cardinality(env.ran \ Range(inbox)) <= Cardinality(env.ran \ Range(after)) + own
    BY <1>1, <1>2, <2>1, ShownIsCounted
  <2> DEFINE a == Cardinality(env.ran \ Range(inbox))
             b == Cardinality(env.ran \ Range(after))
  <2>3. a \in Nat /\ b \in Nat
    <3>1. IsFiniteSet(1..env.events)
      BY <1>3, UpToIsFinite
    <3>2. IsFiniteSet(env.ran \ Range(inbox)) /\ IsFiniteSet(env.ran \ Range(after))
      BY <1>3, <3>1, FS_Subset
    <3> QED BY <3>2, FS_CardinalityType
  <2>4. Known' = Known /\ Is("terminal")'
    BY <1>4, <1>5, <1>9 DEF Known, Is
  <2>5. Counted' <=> env'.sealing <= env.sending + b
    BY <1>4, <1>5 DEF Counted
  <2>6. Counted <=> env.sealing <= env.sending + a
    BY DEF Counted
  <2> HIDE DEF own, a, b
  <2>7. env'.sealing \in Nat /\ (Counted => Counted')
    <3>1. a <= b + own
      BY <2>2 DEF a, b
    <3>2. env'.sealing = IF own > env.sealing THEN 0 ELSE env.sealing - own
      BY <1>5, <1>6 DEF own
    <3> QED BY <1>3, <1>7, <2>3, <2>5, <2>6, <3>1, <3>2
  <2>8. EnvOK'
    BY <1>1, <1>5, <2>7 DEF EnvOK
  <2> HIDE DEF after
  <2> QED BY <1>1, <1>4, <1>5, <2>1, <2>2, <2>4, <2>7, <2>8 DEF SealInv
<1> QED BY <1>8, <1>9

\* A line that runs is a new event, which nobody was shown yet.
LEMMA SealRuns == SealInv /\ LineRuns => SealInv'
<1> SUFFICES ASSUME SealInv, LineRuns PROVE SealInv'
  OBVIOUS
<1> DEFINE e == NextEvent("mine")
           new == env.events + 1
<1>1. node \in Nodes(Known) /\ node.cp <= Len(node.blocks) /\ EnvOK /\ "pc" \in DOMAIN watch
  BY DEF SealInv
<1>2. Is("terminal")
  BY DEF SealInv, LineRuns
<1>3. watch.pc \in {"head", "events"} /\ inbox \in Seq(1..env.events) /\ (~env.givenUp => Counted)
  BY <1>2 DEF SealInv
<1>4. Emits(e) /\ setup' = setup /\ watch' = watch /\ inbox' = inbox
  BY DEF LineRuns
<1>5. /\ DOMAIN env' = DOMAIN env /\ env'.events = new /\ env'.ran = env.ran \cup {new}
      /\ env'.givenUp = env.givenUp /\ env'.sending = env.sending - 1
      /\ env'.sealing = env.sealing
      /\ env'.rebuilds = env.rebuilds /\ env'.restarts = env.restarts
  BY <1>1 DEF LineRuns, NextEvent, EnvOK
<1>6. /\ env.events \in Nat /\ env.sending \in Nat /\ env.sending > 0 /\ env.sealing \in Nat
      /\ env.ran \in SUBSET (1..env.events)
  BY <1>1 DEF EnvOK, LineRuns
<1>7. EnvOK'
  BY <1>1, <1>5, <1>6 DEF EnvOK
<1>8. Known \subseteq Known'
  BY <1>1, <1>5, <1>6, KnownGrows
<1>9. e \in Known'
  BY <1>1, <1>5, <1>6 DEF Known, EnvOK, NextEvent, Kinds
<1> HIDE DEF e
<1>10. node' \in Nodes(Known') /\ node'.cp <= Len(node'.blocks)
  <2>1. node \in Nodes(Known')
    BY <1>1, <1>8, NodesGrow
  <2> QED BY <1>1, <1>4, <1>9, <2>1, EmitsIs
<1>11. inbox' \in Seq(1..env'.events)
  <2>1. 1..env.events \subseteq 1..env'.events
    BY <1>5, <1>6
  <2>2. Seq(1..env.events) \subseteq Seq(1..env'.events)
    BY <2>1, SeqGrows
  <2> QED BY <1>3, <1>4, <2>2
<1>12. Counted => Counted'
  <2> DEFINE A == env.ran \ Range(inbox)
             B == env'.ran \ Range(inbox)
  <2>1. new \notin env.ran /\ new \notin Range(inbox)
    <3>1. Range(inbox) \subseteq 1..env.events
      BY <1>3, RangeIsIn
    <3> QED BY <1>6, <3>1
  <2>2. B = A \cup {new} /\ new \notin A
    BY <1>5, <2>1
  <2>3. IsFiniteSet(A)
    <3>1. IsFiniteSet(1..env.events)
      BY <1>6, UpToIsFinite
    <3> QED BY <1>6, <3>1, FS_Subset
  <2> HIDE DEF A, B
  <2>4. Cardinality(B) = Cardinality(A) + 1 /\ Cardinality(A) \in Nat
    BY <2>2, <2>3, FS_AddElement, FS_CardinalityType
  <2>5. /\ Counted <=> env.sealing <= env.sending + Cardinality(A)
        /\ Counted' <=> env.sealing <= (env.sending - 1) + Cardinality(B)
    BY <1>4, <1>5 DEF Counted, A, B
  <2> QED BY <1>6, <2>4, <2>5
<1>13. Is("terminal")'
  BY <1>2, <1>4 DEF Is
<1> QED BY <1>1, <1>3, <1>4, <1>5, <1>7, <1>10, <1>11, <1>12, <1>13 DEF SealInv

\* The other steps of a line change the counts only.
LEMMA SealLine ==
    ASSUME SealInv, UNCHANGED <<setup, node, watch, inbox>>, Is("terminal"),
           DOMAIN env' = DOMAIN env, env'.events = env.events, env'.ran = env.ran,
           env'.rebuilds = env.rebuilds, env'.restarts = env.restarts,
           env'.sending \in Nat, env'.sealing \in Nat, env'.givenUp \in BOOLEAN,
           ~env'.givenUp => ~env.givenUp /\ (Counted => Counted')
    PROVE  SealInv'
<1>1. EnvOK'
  BY DEF SealInv, EnvOK
<1>2. Known' = Known /\ Is("terminal")'
  BY DEF Known, Is
<1> QED BY <1>1, <1>2 DEF SealInv

LEMMA SealTerminal == SealInv /\ TheTerminal => SealInv'
<1> SUFFICES ASSUME SealInv, TheTerminal PROVE SealInv'
  OBVIOUS
<1>1. node \in Nodes(Known) /\ node.cp <= Len(node.blocks) /\ EnvOK /\ "pc" \in DOMAIN watch
  BY DEF SealInv
<1>2. env.sealing \in Nat /\ env.sending \in Nat /\ env.givenUp \in BOOLEAN
  BY <1>1 DEF EnvOK
<1>3. env.sending > 0 => Is("terminal")
  BY DEF SealInv
<1> DEFINE a == Cardinality(env.ran \ Range(inbox))
<1>4. a \in Nat
  <2>1. IsFiniteSet(1..env.events)
    BY <1>1, FS_Interval DEF EnvOK
  <2>2. IsFiniteSet(env.ran \ Range(inbox))
    BY <1>1, <2>1, FS_Subset DEF EnvOK
  <2> QED BY <2>2, FS_CardinalityType
<1>5. Counted <=> env.sealing <= env.sending + a
  BY DEF Counted
<1> HIDE DEF a
<1>6. CASE ShowHead
  <2>1. LineKept
    BY <1>1, <1>6 DEF ShowHead, LineKept, EnvOK
  <2>2. "pc" \in DOMAIN watch' /\ watch'.pc = "events"
    BY <1>1, <1>6 DEF ShowHead
  <2> QED BY <1>1, <1>6, <2>1, <2>2, SealKept DEF ShowHead
<1>7. CASE Show
  BY <1>7, SealShow
<1>8. CASE ShowMisses
  <2>1. LineKept
    BY <1>1, <1>8 DEF ShowMisses, LineKept, EnvOK
  <2>2. "pc" \in DOMAIN watch' /\ watch'.pc \in {"head", "events"}
    BY <1>1, <1>8 DEF ShowMisses
  <2> QED BY <1>1, <1>8, <2>1, <2>2, SealKept DEF ShowMisses
<1>9. ASSUME UNCHANGED <<setup, node, watch, inbox>>, env'.ran = env.ran
      PROVE  Counted' <=> env'.sealing <= env'.sending + a
  BY <1>9 DEF Counted, a
<1>10. CASE TypeLine
  <2>1. /\ DOMAIN env' = DOMAIN env /\ env'.events = env.events /\ env'.ran = env.ran
        /\ env'.rebuilds = env.rebuilds /\ env'.restarts = env.restarts
        /\ env'.sending = env.sending + 1 /\ env'.sealing = env.sealing + 1
        /\ env'.givenUp = env.givenUp
    BY <1>1, <1>10 DEF TypeLine, EnvOK
  <2>2. Is("terminal") /\ UNCHANGED <<setup, node, watch, inbox>>
    BY <1>10 DEF TypeLine
  <2>3. Counted => Counted'
    BY <1>2, <1>4, <1>5, <1>9, <2>1, <2>2
  <2> QED BY <1>2, <2>1, <2>2, <2>3, SealLine
<1>11. CASE LineRuns
  BY <1>11, SealRuns
<1>12. CASE LineRefused
  <2>1. /\ DOMAIN env' = DOMAIN env /\ env'.events = env.events /\ env'.ran = env.ran
        /\ env'.rebuilds = env.rebuilds /\ env'.restarts = env.restarts
        /\ env'.sending = env.sending - 1
        /\ env'.sealing = IF env.sealing > 0 THEN env.sealing - 1 ELSE 0
        /\ env'.givenUp = env.givenUp
    BY <1>1, <1>12 DEF LineRefused, EnvOK
  <2>2. env.sending > 0 /\ UNCHANGED <<setup, node, watch, inbox>>
    BY <1>12 DEF LineRefused
  <2>3. (Counted => Counted') /\ env'.sending \in Nat /\ env'.sealing \in Nat
    BY <1>2, <1>4, <1>5, <1>9, <2>1, <2>2
  <2> QED BY <1>2, <1>3, <2>1, <2>2, <2>3, SealLine
<1>13. CASE LineGivenUp
  <2>1. /\ DOMAIN env' = DOMAIN env /\ env'.events = env.events /\ env'.ran = env.ran
        /\ env'.rebuilds = env.rebuilds /\ env'.restarts = env.restarts
        /\ env'.sending = env.sending - 1 /\ env'.sealing = env.sealing
        /\ env'.givenUp = TRUE
    BY <1>1, <1>13 DEF LineGivenUp, EnvOK
  <2>2. env.sending > 0 /\ UNCHANGED <<setup, node, watch, inbox>>
    BY <1>13 DEF LineGivenUp
  <2>3. env'.sending \in Nat /\ env'.sealing \in Nat
    BY <1>2, <2>1, <2>2
  <2> QED BY <1>3, <2>1, <2>2, <2>3, SealLine
<1> QED BY <1>6, <1>7, <1>8, <1>10, <1>11, <1>12, <1>13 DEF TheTerminal

LEMMA SealInit == Init => SealInv
<1> SUFFICES ASSUME Init PROVE SealInv
  OBVIOUS
<1>1. /\ env.events = 0 /\ env.rebuilds = 0 /\ env.restarts = 0 /\ env.sending = 0
      /\ env.sealing = 0 /\ env.ran = {} /\ env.givenUp = FALSE
      /\ {"events", "rebuilds", "restarts", "sending", "sealing", "ran", "givenUp"} \subseteq DOMAIN env
  BY DEF Init
<1>2. EnvOK
  <2>1. {} \in SUBSET (1..0) /\ FALSE \in BOOLEAN /\ 0 \in Nat
    OBVIOUS
  <2> QED BY <1>1, <2>1, Zenon DEF EnvOK
<1>3. node \in Nodes(Known) /\ node.cp <= Len(node.blocks)
  <2>1. <<>> \in Seq(Seq(Known)) /\ Len(<<>>) = 0 /\ node = Reloaded(<<>>, 0)
    BY DEF Init
  <2> DEFINE none == <<>>
  <2>2. none \in Seq(Seq(Known)) /\ 0 \in Nat /\ 0 <= Len(none) /\ node = Reloaded(none, 0)
    BY <2>1
  <2> HIDE DEF none
  <2>3. node \in Nodes(Known) /\ node.cp = 0 /\ node.blocks = none
    BY <2>2, ReloadedHas
  <2> QED BY <2>2, <2>3
<1>4. "pc" \in DOMAIN watch /\ (Is("terminal") => watch.pc = "events")
  <2>1. "pc" \in DOMAIN Watching(Session(disk, 0), 0)
    BY DEF Watching
  <2>2. watch = [Watching(Session(disk, 0), 0) EXCEPT !.pc = IF Is("cat") THEN "head" ELSE "events"]
    BY DEF Init
  <2> QED BY <2>1, <2>2 DEF Is
<1>5. inbox \in Seq(1..env.events)
  BY DEF Init
<1>6. Counted
  <2>1. env.ran \ Range(inbox) = {}
    BY <1>1
  <2>2. Cardinality(env.ran \ Range(inbox)) = 0
    BY <2>1, FS_EmptySet
  <2> QED BY <1>1, <2>2 DEF Counted
<1> QED BY <1>1, <1>2, <1>3, <1>4, <1>5, <1>6 DEF SealInv

LEMMA SealStep == SealInv /\ [Next]_vars => SealInv'
<1> SUFFICES ASSUME SealInv, [Next]_vars PROVE SealInv'
  OBVIOUS
<1>1. CASE UNCHANGED vars
  <2>1. LineKept
    BY <1>1 DEF vars, LineKept, SealInv, EnvOK
  <2> QED BY <1>1, <2>1, SealKept DEF vars, SealInv
<1> QED BY <1>1, SealNode, SealCat, SealSleeper, SealTerminal DEF Next

LEMMA SealInvGivesEnds == SealInv => SealingEnds
<1> SUFFICES ASSUME SealInv, env.sending = 0, ~env.givenUp, env.ran \subseteq Range(inbox)
             PROVE  env.sealing = 0
  BY DEF SealingEnds
<1>1. CASE Is("terminal")
  <2>1. env.ran \ Range(inbox) = {}
    OBVIOUS
  <2>2. Cardinality(env.ran \ Range(inbox)) = 0
    BY <2>1, FS_EmptySet
  <2>3. env.sealing <= 0 /\ env.sealing \in Nat
    BY <1>1, <2>2 DEF SealInv, Counted, EnvOK
  <2> QED BY <2>3
<1>2. CASE ~Is("terminal")
  BY <1>2 DEF SealInv
<1> QED BY <1>1, <1>2

\* Once every line typed at a terminal has been refused or has come back, none is
\* shown as sealing, unless one was given up in the background (client.rs:
\* send_and_seal, tail_events): for any number of lines and of others' events in
\* the operator's name, whatever the node's log drops, and however often it is
\* rebuilt.
THEOREM SealingDoesEnd == Spec => []SealingEnds
<1>1. Spec => []SealInv
  BY SealInit, SealStep, PTL DEF Spec
<1>2. SealInv => SealingEnds
  BY SealInvGivesEnds
<1> QED BY <1>1, <1>2, PTL

-----------------------------------------------------------------------------
(* The log and the record. *)

\* What is on record, block by block: sealed, and open or still to be pulled
\* again.
Chain(n) == n.blocks \o (IF n.ahead = <<>> THEN <<n.open>> ELSE n.ahead)

\* The last block of which there can be entries in the log.
Top(n) == IF n.ahead = <<>> THEN Len(n.blocks) + 1 ELSE Len(n.blocks)

\* Ids grow along the record.
ChainOK(ch) ==
    \A c, d \in DOMAIN ch : \A p \in DOMAIN ch[c], q \in DOMAIN ch[d] :
        (c < d \/ (c = d /\ p < q)) => ch[c][p].id < ch[d][q].id

Grows(log) ==
    \A i, j \in DOMAIN log :
        i < j => log[i].ev.id < log[j].ev.id /\ log[i].block <= log[j].block

\* Ids and blocks grow along the log, which counts without a gap.
LogOK(log, seq) ==
    /\ Len(log) <= LogCap /\ Len(log) <= seq
    /\ \A i \in DOMAIN log : log[i].seq = (seq - Len(log)) + i
    /\ Grows(log)

\* An id of an earlier block is a smaller one, in the log as on record.
Agree(log, ch) ==
    \A j \in DOMAIN log, c \in DOMAIN ch : \A p \in DOMAIN ch[c] :
        /\ c < log[j].block => ch[c][p].id < log[j].ev.id
        /\ log[j].block < c => log[j].ev.id < ch[c][p].id

\* Of the record, up to the top, the log drops blocks from the front only: it has
\* all of the later blocks, and of its first one too unless it is full.
Whole(log, ch, top) ==
    \A c \in DOMAIN ch : \A p \in DOMAIN ch[c] :
        (/\ c <= top /\ 0 < Len(log)
         /\ log[1].block < c \/ (log[1].block = c /\ Len(log) < LogCap))
            => \E j \in DOMAIN log : log[j].block = c /\ log[j].ev.id = ch[c][p].id

\* A log, for the record up to its top.
Fits(log, seq, ch, top) ==
    /\ LogOK(log, seq) /\ Agree(log, ch) /\ Whole(log, ch, top)
    /\ \A j \in DOMAIN log : log[j].block \in 1..top

NodeOK(n) ==
    /\ ChainOK(Chain(n)) /\ Fits(n.log, n.seq, Chain(n), Top(n))
    /\ n.ahead # <<>> \/ n.log = <<>> => n.open = <<>>

NodeInv == NodeOK(node)

-----------------------------------------------------------------------------
(* What a reader knows of the log. *)

\* A cursor, with the ids of what was acted on in A, for a log of which it has
\* read d entries: nothing it accepts of the others is in A.
Follows(c, log, d, A) ==
    /\ \A k \in 1..d : log[k].block <= c.block
    /\ c.floor = NoFloor =>
          /\ Count(log, c.block, 1, d) <= c.in
          /\ \A j \in d + 1..Len(log) : log[j].block >= c.block /\ log[j].ev.id \notin A
    /\ c.floor # NoFloor =>
          /\ Count(log, c.block, 1, d) <= c.floorSeen /\ c.floorSeen <= c.in
          /\ \A j \in d + 1..Len(log) : log[j].ev.id \in A =>
                \/ log[j].block < c.block
                \/ /\ log[j].block = c.block
                   /\ Count(log, c.block, d + 1, j) <= c.in - c.floorSeen

\* And for a log that is read from its start: what is in A is below its place.
Knows(c, log, A) ==
    \A j \in DOMAIN log : log[j].ev.id \in A =>
        \/ log[j].block < c.block
        \/ log[j].block = c.block /\ Count(log, c.block, 1, j) <= c.in

\* And for the record: as many as the log can hold, or all it has read of the
\* block.
Past(c, ch, A) ==
    \A d \in DOMAIN ch : \A p \in DOMAIN ch[d] : ch[d][p].id \in A =>
        d <= c.block /\ (d = c.block => p <= c.in \/ LogCap <= c.in)

CursorOK(c) ==
    /\ DOMAIN c = {"seq", "block", "in", "floor", "floorSeen"}
    /\ c.seq \in Nat /\ c.block \in Nat /\ c.in \in Nat /\ c.floorSeen \in Nat
    /\ c.floor = NoFloor \/ c.floor = <<c.block, c.in>>

\* The ids of some entries.
IdsOf(xs) == {x.ev.id : x \in Range(xs)}

\* What was acted on, and what is about to be: once, and in its order.
ToldOf(box, mine) == (Range(box) \cup IdsOf(mine)) \ {0}

Tells(box, mine) ==
    /\ \A i, j \in DOMAIN box : (box[i] = box[j] /\ box[i] # 0) => i = j
    /\ \A i, j \in DOMAIN mine : i < j => mine[i].ev.id < mine[j].ev.id
    /\ \A i \in DOMAIN mine : mine[i].ev.id \notin Range(box)

Told == ToldOf(inbox, watch.mine)
TellsOnce == Tells(inbox, watch.mine)

\* A cursor whose log was not rebuilt under it.
Tracks(n, c, A) ==
    /\ c.seq <= n.seq
    /\ c.floor = NoFloor \/ c.floorSeen > 0 => c.block <= Top(n)
    /\ Follows(c, n.log, Read(n, c.seq), A)

ReaderOK(n, c, A, how) ==
    /\ Past(c, Chain(n), A) /\ Knows(c, n.log, A)
    /\ c.seq = 0 => c.floorSeen = 0 /\ (c.floor = NoFloor => A = {} /\ c.block = 0)
    /\ how = "followed" => Tracks(n, c, A)

ReaderInv ==
    (~Is("asleep") /\ env.restarts = 0 /\ env.log # "outgrown") =>
        CursorOK(watch.cursor) /\ TellsOnce /\ ReaderOK(node, watch.cursor, Told, env.log)

SleeperInv ==
    (Is("asleep") /\ env.rebuilds = 0) =>
        /\ TellsOnce /\ node.ahead = <<>> /\ watch.mine = <<>>
        /\ CursorOK(watch.cursor) /\ watch.cursor.seq <= node.seq
        /\ \A j \in DOMAIN node.log :
              node.log[j].seq > watch.cursor.seq => node.log[j].ev.id \notin Told

ReadsInv ==
    /\ {"pc", "cursor", "mine", "seen", "head"} \subseteq DOMAIN watch
    /\ inbox \in Seq(0..env.events) /\ watch.mine \in Seq(Entry(Known))
    /\ "log" \in DOMAIN env /\ env.log \in {"followed", "rebuilt", "outgrown"}

-----------------------------------------------------------------------------
(* Reading an entry. *)

Events(E) == \A e \in E : e.id \in Nat

\* What one entry makes of a cursor that follows the log.
ReadsRight(c, log, d, A) ==
    LET x == log[d + 1]
        e == Advanced(c, x) IN
    /\ CursorOK(e) /\ e.seq = IF x.seq > c.seq THEN x.seq ELSE c.seq
    /\ Follows(e, log, d + 1, IF Accepts(c, x) THEN A \cup {x.ev.id} ELSE A)
    /\ c.block <= e.block /\ (e.block = c.block => c.in <= e.in)
    /\ Accepts(c, x) => x.ev.id \notin A /\ e.block = x.block
    /\ e.floor = NoFloor \/ e.floorSeen > 0 =>
          e.block = x.block \/ (e.block = c.block /\ (c.floor = NoFloor \/ c.floorSeen > 0))

\* One entry is read: if it is news it was not acted on, and what follows is not
\* acted on either, once it is.
LEMMA ReadsOne ==
    ASSUME NEW E, Events(E), NEW log \in Seq(Entry(E)), Grows(log),
           NEW c, CursorOK(c), NEW A, NEW d \in Nat, d < Len(log), Follows(c, log, d, A)
    PROVE  ReadsRight(c, log, d, A)
<1> DEFINE n == Len(log)
           x == log[d + 1]
           e == Advanced(c, x)
           b == c.block
           s == IF x.seq > c.seq THEN x.seq ELSE c.seq
<1>1. /\ n \in Nat /\ DOMAIN log = 1..n /\ d + 1 \in 1..n /\ d + 1 \in Nat
      /\ \A k \in 1..n : log[k].seq \in Nat /\ log[k].block \in Nat /\ log[k].ev.id \in Nat
  <2>1. n \in Nat /\ DOMAIN log = 1..n /\ \A k \in 1..n : log[k] \in Entry(E)
    OBVIOUS
  <2> HIDE DEF e, x, b, s
  <2> QED BY <2>1 DEF Entry, Events
<1>2. /\ \A k \in 1..d : k \in 1..n /\ log[k].block <= x.block
      /\ \A k \in (d + 1) + 1..n : k \in 1..n /\ x.block <= log[k].block /\ x.ev.id < log[k].ev.id
  <2> HIDE DEF e, b, s
  <2>1. \A k \in 1..d : k \in 1..n /\ k < d + 1
    BY <1>1
  <2>2. \A k \in (d + 1) + 1..n : k \in 1..n /\ d + 1 < k
    BY <1>1
  <2> QED BY <1>1, <2>1, <2>2 DEF Grows
<1>3. /\ c.seq \in Nat /\ b \in Nat /\ c.in \in Nat /\ c.floorSeen \in Nat
      /\ DOMAIN c = {"seq", "block", "in", "floor", "floorSeen"}
      /\ c.floor = NoFloor \/ c.floor = <<b, c.in>>
  BY DEF CursorOK
<1>4. NoFloor # <<b, c.in>>
  BY DEF NoFloor
<1>5. \A k \in 1..d : log[k].block <= b
  BY DEF Follows
<1>6. s \in Nat
  BY <1>1, <1>3
<1>7. Count(log, x.block, 1, d + 1) = Count(log, x.block, 1, d) + 1
  <2>1. 1 \in Nat /\ d \in Nat /\ 1 <= d + 1
    OBVIOUS
  <2> HIDE DEF x, e
  <2> QED BY <2>1, CountLast DEF x
<1>8. Count(log, x.block, 1, d) \in Nat /\ Count(log, b, 1, d) \in Nat
  BY CountIs
<1>9. b < x.block => Count(log, x.block, 1, d) = 0
  <2>1. SUFFICES ASSUME b < x.block PROVE \A k \in 1..d : log[k].block # x.block
    BY CountNone
  <2> QED BY <1>1, <1>2, <1>3, <1>5, <2>1
<1>10. CASE ~Accepts(c, x)
  <2>1. c.floor = <<b, c.in>> /\ (x.block < b \/ (x.block = b /\ c.floorSeen < c.in))
    BY <1>3, <1>4, <1>10 DEF Accepts, BelowFloor, AtFloor
  <2>2. AtFloor(c, x) <=> (x.block = b /\ c.floorSeen < c.in)
    BY <1>4, <2>1 DEF AtFloor
  <2>3. e = IF AtFloor(c, x) THEN [[c EXCEPT !.seq = s] EXCEPT !.floorSeen = c.floorSeen + 1]
                             ELSE [c EXCEPT !.seq = s]
    BY <1>3, <1>10 DEF Advanced
  <2> DEFINE seen == IF x.block = b THEN c.floorSeen + 1 ELSE c.floorSeen
  <2>4. /\ DOMAIN e = DOMAIN c /\ e.seq = s /\ e.block = b /\ e.in = c.in
        /\ e.floor = c.floor /\ e.floorSeen = seen
    BY <1>1, <1>3, <2>1, <2>2, <2>3
  <2>5. /\ Count(log, b, 1, d) <= c.floorSeen /\ c.floorSeen <= c.in
        /\ \A j \in d + 1..n : log[j].ev.id \in A =>
              \/ log[j].block < b
              \/ log[j].block = b /\ Count(log, b, d + 1, j) <= c.in - c.floorSeen
    BY <1>4, <2>1 DEF Follows
  <2> HIDE DEF x, e, s
  <2>6. Count(log, b, 1, d + 1) <= seen /\ seen <= c.in /\ seen \in Nat
    <3>1. CASE x.block = b
      BY <1>3, <1>7, <1>8, <2>1, <2>5, <3>1
    <3>2. CASE x.block # b
      <4>1. Count(log, b, 1, d + 1) = Count(log, b, 1, d)
        <5>1. 1 \in Nat /\ d \in Nat /\ 1 <= d + 1
          OBVIOUS
        <5>2. Count(log, b, 1, d + 1) = Count(log, b, 1, d) + 0
          BY <3>2, <5>1, CountLast DEF x
        <5> QED BY <1>8, <5>2
      <4> QED BY <1>3, <2>5, <3>2, <4>1
    <3> QED BY <3>1, <3>2
  <2>7. ASSUME NEW j \in (d + 1) + 1..n, log[j].ev.id \in A, ~(log[j].block < b)
        PROVE  log[j].block = b /\ Count(log, b, (d + 1) + 1, j) <= c.in - seen
    <3>1. j \in d + 1..n /\ j \in Nat /\ d + 1 <= j
      BY <1>1
    <3>2. log[j].block = b /\ Count(log, b, d + 1, j) <= c.in - c.floorSeen
      BY <2>5, <2>7, <3>1
    <3>3. Count(log, b, d + 1, j) =
            Count(log, b, (d + 1) + 1, j) + (IF log[d + 1].block = b THEN 1 ELSE 0)
      <4> DEFINE m == d + 1
      <4>1. m \in Nat /\ m <= j
        BY <1>1, <3>1
      <4> HIDE DEF m, b
      <4>2. Count(log, b, m, j) = Count(log, b, m + 1, j) + (IF log[m].block = b THEN 1 ELSE 0)
        BY <3>1, <4>1, CountFirst
      <4> QED BY <4>2 DEF m
    <3>4. Count(log, b, (d + 1) + 1, j) \in Nat
      <4>1. (d + 1) + 1 \in Nat
        OBVIOUS
      <4> QED BY <3>1, <4>1, CountIs
    <3> QED BY <1>3, <3>2, <3>3, <3>4 DEF x
  <2>8. \A k \in 1..d + 1 : log[k].block <= b
    <3>1. x.block <= b
      BY <1>1, <1>3, <2>1 DEF x
    <3> QED BY <1>1, <1>5, <3>1 DEF x
  <2>9. Follows(e, log, d + 1, A)
    <3>1. e.floor # NoFloor
      BY <1>4, <2>1, <2>4
    <3> HIDE DEF seen, b
    <3> QED BY <2>4, <2>6, <2>7, <2>8, <3>1 DEF Follows, n
  <2>10. CursorOK(e)
    BY <1>3, <1>6, <2>4, <2>6 DEF CursorOK
  <2>11. e.floor = NoFloor \/ e.floorSeen > 0 => e.block = x.block \/ c.floorSeen > 0
    BY <1>4, <2>1, <2>4
  <2> QED BY <1>3, <1>10, <2>4, <2>9, <2>10, <2>11 DEF ReadsRight, x, e, s
<1>11. CASE Accepts(c, x)
  <2> DEFINE i == IF x.block = b THEN c.in + 1 ELSE 1
             B == A \cup {x.ev.id}
  <2>1. e = [[c EXCEPT !.seq = s] EXCEPT !.floor = NoFloor, !.block = x.block, !.in = i]
    BY <1>3, <1>11 DEF Advanced
  <2>2. /\ DOMAIN e = DOMAIN c /\ e.seq = s /\ e.block = x.block /\ e.in = i
        /\ e.floor = NoFloor /\ e.floorSeen = c.floorSeen
    BY <1>3, <2>1
  <2>3. CursorOK(e)
    BY <1>1, <1>3, <1>6, <2>2 DEF CursorOK
  \* The entry is at the cursor's block or above, and it and what follows is news.
  <2>4. b <= x.block /\ (Count(log, b, 1, d) <= c.in) /\ \A j \in d + 1..n : log[j].ev.id \notin A
    <3>1. CASE c.floor = NoFloor
      BY <1>1, <3>1 DEF Follows
    <3>2. CASE c.floor # NoFloor
      <4>1. c.floor = <<b, c.in>> /\ c.floor[1] = b /\ c.floor[2] = c.in
        BY <1>3, <3>2
      <4>2. ~(x.block < b) /\ ~(x.block = b /\ c.floorSeen < c.in)
        BY <1>11, <3>2, <4>1 DEF Accepts, BelowFloor, AtFloor
      <4>3. /\ Count(log, b, 1, d) <= c.floorSeen /\ c.floorSeen <= c.in
            /\ \A j \in d + 1..n : log[j].ev.id \in A =>
                  \/ log[j].block < b
                  \/ log[j].block = b /\ Count(log, b, d + 1, j) <= c.in - c.floorSeen
        BY <3>2 DEF Follows
      <4>4. ASSUME NEW j \in d + 1..n, log[j].ev.id \in A PROVE FALSE
        <5>1. j \in Nat /\ d + 1 <= j /\ x.block <= log[j].block /\ log[j].block \in Nat
          BY <1>1, <1>2
        <5>2. ~(log[j].block < b)
          BY <1>1, <1>3, <4>2, <5>1
        <5>3. log[j].block = b /\ Count(log, b, d + 1, j) <= c.in - c.floorSeen
          BY <4>3, <4>4, <5>2
        <5>4. x.block = b /\ c.in <= c.floorSeen
          BY <1>1, <1>3, <4>2, <5>1, <5>3
        <5>5. Count(log, b, d + 1, j) = Count(log, b, (d + 1) + 1, j) + 1
          <6> DEFINE m == d + 1
          <6>1. m \in Nat /\ m <= j /\ log[m].block = b
            BY <1>1, <5>1, <5>4
          <6> HIDE DEF m, b
          <6>2. Count(log, b, m, j) = Count(log, b, m + 1, j) + (IF log[m].block = b THEN 1 ELSE 0)
            BY <5>1, <6>1, CountFirst
          <6>3. Count(log, b, m, j) = Count(log, b, m + 1, j) + 1
            BY <6>1, <6>2
          <6> QED BY <6>3 DEF m
        <5>6. Count(log, b, (d + 1) + 1, j) \in Nat
          <6>1. (d + 1) + 1 \in Nat
            OBVIOUS
          <6> QED BY <5>1, <6>1, CountIs
        <5> QED BY <1>3, <5>3, <5>4, <5>5, <5>6
      <4> QED BY <1>1, <1>3, <1>8, <4>2, <4>3, <4>4
    <3> QED BY <3>1, <3>2
  <2> HIDE DEF x, e, s
  <2>5. Count(log, x.block, 1, d + 1) <= i
    <3>1. CASE x.block = b
      BY <1>3, <1>7, <1>8, <2>4, <3>1
    <3>2. CASE x.block # b
      <4>1. b < x.block
        BY <1>1, <1>3, <2>4, <3>2 DEF x
      <4> QED BY <1>7, <1>8, <1>9, <3>2, <4>1
    <3> QED BY <3>1, <3>2
  <2>6. \A k \in 1..d + 1 : log[k].block <= x.block
    BY <1>1, <1>2 DEF x
  <2>7. \A j \in (d + 1) + 1..n : log[j].block >= x.block /\ log[j].ev.id \notin B
    <3>1. ASSUME NEW j \in (d + 1) + 1..n PROVE log[j].block >= x.block /\ log[j].ev.id \notin B
      <4>1. j \in d + 1..n /\ x.block <= log[j].block /\ x.ev.id < log[j].ev.id
        BY <1>1, <1>2
      <4>2. log[j].ev.id \notin A /\ log[j].ev.id # x.ev.id
        BY <1>1, <2>4, <4>1 DEF x
      <4> QED BY <1>1, <4>1, <4>2 DEF x
    <3> QED BY <3>1
  <2>8. Follows(e, log, d + 1, B)
    <3> HIDE DEF i, B
    <3> QED BY <2>2, <2>5, <2>6, <2>7 DEF Follows, n
  <2>9. x.ev.id \notin A
    <3>1. d + 1 \in d + 1..n
      BY <1>1
    <3> QED BY <2>4, <3>1 DEF x
  <2>10. b <= x.block /\ (x.block = b => c.in <= i)
    BY <1>3, <2>4
  <2> QED BY <1>11, <2>2, <2>3, <2>8, <2>9, <2>10 DEF ReadsRight, x, e, s
<1> QED BY <1>10, <1>11

-----------------------------------------------------------------------------
(* Reading all there is. *)

LEMMA IdsOfAppend ==
    ASSUME NEW X, NEW s \in Seq(X), NEW x
    PROVE  IdsOf(Append(s, x)) = IdsOf(s) \cup {x.ev.id}
<1>1. Len(s) \in Nat /\ DOMAIN s = 1..Len(s)
  OBVIOUS
<1>2. Range(Append(s, x)) = Range(s) \cup {x}
  <2>1. DOMAIN Append(s, x) = 1..Len(s) + 1
    BY <1>1
  <2>2. \A i \in 1..Len(s) + 1 : Append(s, x)[i] = IF i = Len(s) + 1 THEN x ELSE s[i]
    BY <1>1
  <2> QED BY <1>1, <2>1, <2>2 DEF Range
<1> QED BY <1>2 DEF IdsOf

\* What a read of all but d entries of the log makes of the cursor c, and of A,
\* which was acted on: what is news was not, comes once, and in its order.
ReadsTo(E, c, log, d, A, top, e, news) ==
    /\ CursorOK(e) /\ e.seq = IF d < Len(log) THEN log[Len(log)].seq ELSE c.seq
    /\ Follows(e, log, Len(log), A \cup IdsOf(news))
    /\ c.block <= e.block /\ (e.block = c.block => c.in <= e.in)
    /\ e.floor = NoFloor \/ e.floorSeen > 0 => e.block <= top
    /\ d = Len(log) => e = c
    /\ news \in Seq(Entry(E))
    /\ \A i, j \in DOMAIN news : i < j => news[i].ev.id < news[j].ev.id
    /\ \A i \in DOMAIN news :
          news[i].ev.id \notin A /\ \E k \in d + 1..Len(log) : news[i] = log[k]

LEMMA ReadsAll ==
    ASSUME NEW E, Events(E), NEW log \in Seq(Entry(E)), Grows(log),
           \A i, j \in DOMAIN log : i < j => log[i].seq < log[j].seq,
           NEW c, CursorOK(c), NEW A, NEW d \in Nat, d <= Len(log), Follows(c, log, d, A),
           \A j \in d + 1..Len(log) : log[j].seq > c.seq,
           NEW top \in Nat, \A j \in 1..Len(log) : log[j].block <= top,
           c.floor = NoFloor \/ c.floorSeen > 0 => c.block <= top,
           NEW xs, Len(xs) = Len(log) - d, \A k \in 1..Len(xs) : xs[k] = log[d + k]
    PROVE  ReadsTo(E, c, log, d, A, top, Batch(c, xs).cursor, Batch(c, xs).news)
<1> DEFINE n == Len(log)
           m == n - d
<1>1. /\ n \in Nat /\ DOMAIN log = 1..n /\ m \in Nat /\ Len(xs) = m /\ d + m = n
      /\ \A k \in 1..n : log[k] \in Entry(E)
  OBVIOUS
<1>2. /\ \A k \in 1..n : log[k].seq \in Nat /\ log[k].block \in Nat /\ log[k].ev.id \in Nat
      /\ \A j \in d + 1..n : log[j].seq > c.seq
      /\ \A i, j \in 1..n : i < j => log[i].ev.id < log[j].ev.id /\ log[i].seq < log[j].seq
  <2>1. \A k \in 1..n : log[k].seq \in Nat /\ log[k].block \in Nat /\ log[k].ev.id \in Nat
    BY <1>1 DEF Entry, Events
  <2> QED BY <1>1, <2>1 DEF Grows
<1>3. c.block \in Nat /\ c.in \in Nat /\ c.seq \in Nat
  BY DEF CursorOK
<1>4. PICK f : IsBatch(f, c, xs) /\ Batch(c, xs) = f[m]
  BY <1>1, BatchIs
<1>5. f[0] = [cursor |-> c, news |-> <<>>] /\ \A i \in 1..m : f[i] = Taken(f[i - 1], xs[i])
  <2>1. \A i \in 0..m : f[i] = IF i = 0 THEN [cursor |-> c, news |-> <<>>] ELSE Taken(f[i - 1], xs[i])
    BY <1>1, <1>4 DEF IsBatch
  <2> QED BY <1>1, <2>1
<1> DEFINE Good(e, news, i) ==
              /\ CursorOK(e) /\ e.seq = IF i > 0 THEN log[d + i].seq ELSE c.seq
              /\ Follows(e, log, d + i, A \cup IdsOf(news))
              /\ c.block <= e.block /\ (e.block = c.block => c.in <= e.in)
              /\ e.floor = NoFloor \/ e.floorSeen > 0 => e.block <= top
              /\ i = 0 => e = c
              /\ news \in Seq(Entry(E))
              /\ \A j, k \in DOMAIN news : j < k => news[j].ev.id < news[k].ev.id
              /\ \A j \in DOMAIN news :
                    news[j].ev.id \notin A /\ \E k \in d + 1..d + i : news[j] = log[k]
           T == {i \in Nat : i <= m => Good(f[i].cursor, f[i].news, i)}
<1>6. Good(c, <<>>, 0)
  <2>1. <<>> \in Seq(Entry(E)) /\ DOMAIN <<>> = {} /\ Range(<<>>) = {}
    BY DEF Range
  <2>2. IdsOf(<<>>) = {} /\ A \cup {} = A /\ d + 0 = d
    BY <2>1 DEF IdsOf
  <2> DEFINE none == <<>>
  <2>3. /\ none \in Seq(Entry(E)) /\ DOMAIN none = {} /\ IdsOf(none) = {} /\ ~(0 > 0)
        /\ Follows(c, log, d + 0, A \cup IdsOf(none))
    <3>1. IdsOf(none) = {} /\ none \in Seq(Entry(E)) /\ DOMAIN none = {}
      BY <2>1, <2>2
    <3> HIDE DEF none, n, m, Good
    <3>2. A \cup IdsOf(none) = A
      BY <3>1
    <3> QED BY <2>2, <3>1, <3>2
  <2> HIDE DEF none, n, m
  <2>4. Good(c, none, 0)
    BY <1>3, <2>3
  <2> QED BY <2>4 DEF none
<1>7. ASSUME NEW i \in Nat, i + 1 <= m, NEW e, NEW news, Good(e, news, i)
      PROVE  LET t == Taken([cursor |-> e, news |-> news], log[d + (i + 1)]) IN
             Good(t.cursor, t.news, i + 1)
  <2> DEFINE h == d + i
             x == log[h + 1]
             B == A \cup IdsOf(news)
             u == Advanced(e, x)
             after == IF Accepts(e, x) THEN Append(news, x) ELSE news
  <2>1. d + i \in Nat /\ d + i < n /\ (d + i) + 1 \in 1..n /\ d + (i + 1) = (d + i) + 1 /\ (d + i) + 1 \in d + 1..n
    <3> HIDE DEF n, m, Good
    <3> QED BY <1>1, <1>7
  <2>2. x \in Entry(E)
    BY <1>1, <2>1
  <2>3. /\ CursorOK(e) /\ Follows(e, log, d + i, B) /\ c.block <= e.block
        /\ e.block = c.block => c.in <= e.in
        /\ e.floor = NoFloor \/ e.floorSeen > 0 => e.block <= top
        /\ e.seq = IF i > 0 THEN log[d + i].seq ELSE c.seq
        /\ news \in Seq(Entry(E))
        /\ \A j, k \in DOMAIN news : j < k => news[j].ev.id < news[k].ev.id
        /\ \A j \in DOMAIN news :
              news[j].ev.id \notin A /\ \E k \in d + 1..d + i : news[j] = log[k]
    BY <1>7
  <2> HIDE DEF Good, B
  <2>4. /\ CursorOK(u) /\ u.seq = IF x.seq > e.seq THEN x.seq ELSE e.seq
        /\ Follows(u, log, (d + i) + 1, IF Accepts(e, x) THEN B \cup {x.ev.id} ELSE B)
        /\ e.block <= u.block /\ (u.block = e.block => e.in <= u.in)
        /\ Accepts(e, x) => x.ev.id \notin B /\ u.block = x.block
        /\ u.floor = NoFloor \/ u.floorSeen > 0 =>
              u.block = x.block \/ (u.block = e.block /\ (e.floor = NoFloor \/ e.floorSeen > 0))
    <3>1. h \in Nat /\ h < Len(log) /\ Follows(e, log, h, B) /\ CursorOK(e)
      BY <2>1, <2>3
    <3> HIDE DEF n, m, h, x, u
    <3>2. ReadsRight(e, log, h, B)
      BY <3>1, ReadsOne
    <3> QED BY <3>2 DEF ReadsRight, x, u, h
  <2>5. e.block \in Nat /\ e.in \in Nat /\ u.block \in Nat /\ u.in \in Nat /\ x.block \in Nat /\ x.block <= top
    <3>1. e.block \in Nat /\ e.in \in Nat /\ u.block \in Nat /\ u.in \in Nat
      BY <2>3, <2>4 DEF CursorOK
    <3> QED BY <1>2, <2>1, <3>1
  <2>6. u.seq = x.seq
    <3>1. e.seq < x.seq /\ e.seq \in Nat /\ x.seq \in Nat
      <4>1. CASE i > 0
        BY <1>2, <2>1, <2>3, <4>1
      <4>2. CASE i = 0
        BY <1>2, <1>3, <2>1, <2>3, <4>2
      <4> QED BY <4>1, <4>2
    <3> QED BY <2>4, <3>1
  <2>7. Len(news) \in Nat /\ DOMAIN news = 1..Len(news) /\ \A j \in 1..Len(news) : news[j].ev.id \in Nat
    <3>1. \A j \in 1..Len(news) : news[j] \in Entry(E)
      BY <2>3
    <3>2. Len(news) \in Nat /\ DOMAIN news = 1..Len(news)
      BY <2>3
    <3> HIDE DEF x, u, after, h, m, n
    <3> QED BY <3>1, <3>2 DEF Entry, Events
  <2>8. \A j \in DOMAIN news : news[j].ev.id < x.ev.id
    <3>1. ASSUME NEW j \in DOMAIN news PROVE news[j].ev.id < x.ev.id
      <4>1. PICK k \in d + 1..d + i : news[j] = log[k]
        BY <2>3
      <4> QED BY <1>2, <2>1, <4>1
    <3> QED BY <3>1
  <2>9. /\ A \cup IdsOf(after) = IF Accepts(e, x) THEN B \cup {x.ev.id} ELSE B
        /\ after \in Seq(Entry(E))
    <3>1. CASE Accepts(e, x)
      <4>1. IdsOf(after) = IdsOf(news) \cup {x.ev.id}
        <5> HIDE DEF x
        <5> QED BY <2>3, <3>1, IdsOfAppend
      <4> QED BY <2>2, <2>3, <3>1, <4>1 DEF B
    <3>2. CASE ~Accepts(e, x)
      BY <2>3, <3>2 DEF B
    <3> QED BY <3>1, <3>2
  <2>10. /\ \A j, k \in DOMAIN after : j < k => after[j].ev.id < after[k].ev.id
         /\ \A j \in DOMAIN after :
               after[j].ev.id \notin A /\ \E k \in d + 1..d + (i + 1) : after[j] = log[k]
    <3>1. \A j \in DOMAIN news :
             news[j].ev.id \notin A /\ \E k \in d + 1..d + (i + 1) : news[j] = log[k]
      BY <1>1, <2>1, <2>3
    <3>2. CASE Accepts(e, x)
      <4>1. /\ DOMAIN after = 1..Len(news) + 1 /\ after[Len(news) + 1] = x
            /\ \A j \in 1..Len(news) : after[j] = news[j]
        <5> HIDE DEF x, u
        <5> QED BY <2>3, <2>7, <3>2
      <4>2. x.ev.id \notin A /\ (d + i) + 1 \in d + 1..d + (i + 1)
        BY <1>1, <2>1, <2>4, <3>2 DEF B
      <4>3. x = log[(d + i) + 1]
        OBVIOUS
      <4> HIDE DEF x, after, u
      <4>4. ASSUME NEW j \in 1..Len(news) + 1, NEW k \in 1..Len(news) + 1, j < k
            PROVE  after[j].ev.id < after[k].ev.id
        <5>1. j \in 1..Len(news)
          BY <2>7, <4>4
        <5>2. CASE k = Len(news) + 1
          BY <2>7, <2>8, <4>1, <5>1, <5>2
        <5>3. CASE k # Len(news) + 1
          <6>1. k \in 1..Len(news)
            BY <2>7, <5>3
          <6> QED BY <2>3, <2>7, <4>1, <4>4, <5>1, <6>1
        <5> QED BY <5>2, <5>3
      <4>5. ASSUME NEW j \in 1..Len(news) + 1
            PROVE  after[j].ev.id \notin A /\ \E k \in d + 1..d + (i + 1) : after[j] = log[k]
        <5>1. CASE j = Len(news) + 1
          BY <4>1, <4>2, <4>3, <5>1
        <5>2. CASE j # Len(news) + 1
          <6>1. j \in 1..Len(news)
            BY <2>7, <5>2
          <6> QED BY <2>7, <3>1, <4>1, <6>1
        <5> QED BY <5>1, <5>2
      <4> QED BY <4>1, <4>4, <4>5
    <3>3. CASE ~Accepts(e, x)
      BY <2>3, <3>1, <3>3
    <3> QED BY <3>2, <3>3
  <2> DEFINE t == Taken([cursor |-> e, news |-> news], x)
  <2>11. t.cursor = u /\ t.news = after
    BY DEF Taken
  <2> HIDE DEF u, after, t
  <2>12. Good(u, after, i + 1)
    <3>1. /\ i + 1 > 0 /\ i + 1 # 0 /\ x = log[d + (i + 1)]
          /\ Follows(u, log, d + (i + 1), A \cup IdsOf(after))
      <4>1. Follows(u, log, d + (i + 1), A \cup IdsOf(after))
        BY <2>1, <2>4, <2>9
      <4> QED BY <1>1, <2>1, <4>1 DEF h, x
    <3>2. c.block <= u.block /\ (u.block = c.block => c.in <= u.in)
      <4>1. /\ c.block <= e.block /\ (e.block = c.block => c.in <= e.in)
            /\ e.block <= u.block /\ (u.block = e.block => e.in <= u.in)
        BY <2>3, <2>4
      <4> HIDE DEF u, x
      <4> QED BY <1>3, <2>5, <4>1
    <3>3. u.floor = NoFloor \/ u.floorSeen > 0 => u.block <= top
      BY <2>3, <2>4, <2>5
    <3> HIDE DEF x, n, m
    <3> QED BY <2>4, <2>6, <2>9, <2>10, <3>1, <3>2, <3>3 DEF Good
  <2>13. x = log[d + (i + 1)]
    BY <2>1
  <2> HIDE DEF x
  <2> QED BY <2>11, <2>12, <2>13 DEF t
<1> HIDE DEF Good, m, n
<1>8. 0 \in T
  BY <1>5, <1>6
<1>9. ASSUME NEW i \in Nat, i \in T PROVE i + 1 \in T
  <2>1. SUFFICES ASSUME i + 1 <= m PROVE Good(f[i + 1].cursor, f[i + 1].news, i + 1)
    OBVIOUS
  <2>2. Good(f[i].cursor, f[i].news, i) /\ i + 1 \in 1..m
    BY <1>1, <1>9, <2>1
  <2>3. f[i + 1] = Taken(f[i], log[d + (i + 1)])
    <3>1. f[i + 1] = Taken(f[i], xs[i + 1])
      <4>1. (i + 1) - 1 = i
        OBVIOUS
      <4> QED BY <1>5, <2>2, <4>1
    <3> QED BY <1>1, <2>2, <3>1
  <2> DEFINE e == f[i].cursor
             news == f[i].news
             t == Taken([cursor |-> e, news |-> news], log[d + (i + 1)])
  <2>4. t = Taken(f[i], log[d + (i + 1)])
    BY DEF Taken
  <2> HIDE DEF e, news
  <2>5. Good(t.cursor, t.news, i + 1)
    BY <1>7, <2>1, <2>2 DEF e, news
  <2> HIDE DEF t
  <2> QED BY <2>3, <2>4, <2>5
<1>10. Good(f[m].cursor, f[m].news, m)
  <2>1. m \in T
    <3> HIDE DEF T
    <3> QED BY <1>1, <1>8, <1>9, InductionBySet
  <2> QED BY <1>1, <2>1
<1>11. (m > 0 <=> d < n) /\ (m = 0 <=> d = n)
  BY <1>1
<1> DEFINE e == f[m].cursor
           news == f[m].news
<1>12. /\ CursorOK(e) /\ e.seq = IF d < n THEN log[n].seq ELSE c.seq
       /\ Follows(e, log, n, A \cup IdsOf(news))
       /\ c.block <= e.block /\ (e.block = c.block => c.in <= e.in)
       /\ e.floor = NoFloor \/ e.floorSeen > 0 => e.block <= top
       /\ d = n => e = c
       /\ news \in Seq(Entry(E))
       /\ \A j, k \in DOMAIN news : j < k => news[j].ev.id < news[k].ev.id
       /\ \A j \in DOMAIN news : news[j].ev.id \notin A /\ \E k \in d + 1..n : news[j] = log[k]
  <2> HIDE DEF e, news
  <2>1. Good(e, news, m)
    BY <1>10 DEF e, news
  <2> QED BY <1>1, <1>11, <2>1 DEF Good
<1>13. Batch(c, xs).cursor = e /\ Batch(c, xs).news = news
  BY <1>4
<1> HIDE DEF e, news
<1> QED BY <1>12, <1>13 DEF n, ReadsTo

-----------------------------------------------------------------------------
(* What absorb makes of the log. *)

\* The new log is the old one and the entries of a block, without the first t.
Extends(old, new, seq, block, es, t) ==
    /\ t \in Nat /\ Len(new) = (Len(old) + Len(es)) - t /\ Len(new) <= LogCap
    /\ t = 0 \/ Len(new) = LogCap
    /\ \A i \in 1..Len(new) :
          IF t + i <= Len(old) THEN new[i] = old[t + i]
          ELSE /\ new[i].seq = seq + ((t + i) - Len(old)) /\ new[i].block = block
               /\ new[i].ev = es[(t + i) - Len(old)]

Absorbs(a, n, block, es) ==
    /\ a.blocks = n.blocks /\ a.open = n.open /\ a.cp = n.cp /\ a.ahead = n.ahead
    /\ a.seq = n.seq + Len(es)
    /\ \E t \in Nat : Extends(n.log, a.log, n.seq, block, es, t)

LEMMA AbsorbedLog ==
    ASSUME NEW E, NEW n \in Nodes(E), NEW block \in Nat, NEW es \in Seq(E)
    PROVE  Absorbs(Absorbed(n, block, es), n, block, es)
<1> DEFINE added == Entries(n, block, es)
           all == n.log \o added
           l == Len(n.log)
           k == Len(es)
           m == l + k
           t == IF m > LogCap THEN m - LogCap ELSE 0
           a == Absorbed(n, block, es)
<1>1. n.seq \in Nat /\ n.log \in Seq(Entry(E)) /\ l \in Nat /\ k \in Nat /\ LogCap \in Nat \ {0}
  BY CatAssumption DEF Nodes, CatAssumption
<1>2. added \in Seq(Entry(E)) /\ Len(added) = k /\ DOMAIN added = 1..k
  <2>1. \A i \in 1..k : es[i] \in E
    OBVIOUS
  <2>2. added \in [1..k -> Entry(E)]
    BY <1>1, <2>1 DEF Entries, Entry
  <2> HIDE DEF added, k
  <2> QED BY <1>1, <2>2
<1>3. \A i \in 1..k :
          added[i].seq = n.seq + i /\ added[i].block = block /\ added[i].ev = es[i]
  BY DEF Entries
<1>4. /\ a.blocks = n.blocks /\ a.open = n.open /\ a.cp = n.cp /\ a.ahead = n.ahead
      /\ a.seq = n.seq + k /\ a.log = Newer(all)
  BY DEF Absorbed, Nodes
<1> HIDE DEF added, k, l
<1>5. all \in Seq(Entry(E)) /\ Len(all) = m
  BY <1>1, <1>2 DEF l
<1>6. \A i \in 1..m : all[i] = IF i <= l THEN n.log[i] ELSE added[i - l]
  BY <1>1, <1>2 DEF l
<1> HIDE DEF all
<1>7. t \in Nat /\ t <= m
  BY <1>1
<1>8. Len(a.log) = m - t /\ \A i \in 1..m - t : a.log[i] = all[t + i]
  <2>1. CASE m > LogCap
    <3> DEFINE from == m - LogCap + 1
    <3>1. t = m - LogCap /\ from \in Int /\ m \in Int /\ from >= 1 /\ from <= m
      BY <1>1, <2>1
    <3>2. \A i \in from..m : all[i] \in Entry(E)
      BY <1>5, <3>1
    <3>3. a.log = SubSeq(all, from, m)
      BY <1>4, <1>5, <2>1 DEF Newer
    <3> HIDE DEF from
    <3>4. /\ Len(SubSeq(all, from, m)) = m - from + 1
          /\ \A i \in 1..m - from + 1 : SubSeq(all, from, m)[i] = all[from + i - 1]
      BY <3>1, <3>2, SubSeqProperties
    <3>5. m - from + 1 = m - t /\ \A i \in 1..m - t : from + i - 1 = t + i
      BY <1>1, <3>1 DEF from
    <3> QED BY <3>3, <3>4, <3>5
  <2>2. CASE ~(m > LogCap)
    <3>1. a.log = all /\ t = 0
      BY <1>4, <1>5, <2>2 DEF Newer
    <3>2. m \in Nat
      BY <1>1
    <3> HIDE DEF m, t
    <3> QED BY <1>5, <3>1, <3>2
  <2> QED BY <2>1, <2>2
<1> HIDE DEF a
<1>9. \A i \in 1..m - t :
          IF t + i <= l THEN a.log[i] = n.log[t + i]
          ELSE /\ a.log[i].seq = n.seq + ((t + i) - l) /\ a.log[i].block = block
               /\ a.log[i].ev = es[(t + i) - l]
  <2> SUFFICES ASSUME NEW i \in 1..m - t
               PROVE  IF t + i <= l THEN a.log[i] = n.log[t + i]
                      ELSE /\ a.log[i].seq = n.seq + ((t + i) - l) /\ a.log[i].block = block
                           /\ a.log[i].ev = es[(t + i) - l]
    OBVIOUS
  <2>1. t + i \in 1..m /\ a.log[i] = all[t + i] /\ m = l + k
    BY <1>1, <1>7, <1>8
  <2>2. CASE t + i <= l
    BY <1>6, <2>1, <2>2
  <2>3. CASE ~(t + i <= l)
    <3>1. (t + i) - l \in 1..k
      BY <1>1, <1>7, <2>1, <2>3
    <3>2. a.log[i] = added[(t + i) - l]
      BY <1>6, <2>1, <2>3
    <3> HIDE DEF m, t
    <3> QED BY <1>3, <2>3, <3>1, <3>2
  <2> QED BY <2>2, <2>3
<1>10. m - t <= LogCap /\ (t = 0 \/ m - t = LogCap)
  BY <1>1
<1> HIDE DEF t
<1>11. Extends(n.log, a.log, n.seq, block, es, t)
  BY <1>7, <1>8, <1>9, <1>10 DEF Extends, l, k
<1> QED BY <1>4, <1>7, <1>11 DEF Absorbs, a, k

\* The log stays in order, if what it absorbs follows it.
LEMMA ExtendsInOrder ==
    ASSUME NEW E, Events(E), NEW old \in Seq(Entry(E)), NEW new \in Seq(Entry(E)), NEW seq \in Nat,
           LogOK(old, seq), NEW block \in Nat, NEW es \in Seq(E), NEW t, Extends(old, new, seq, block, es, t),
           \A p, q \in DOMAIN es : p < q => es[p].id < es[q].id,
           \A j \in DOMAIN old : old[j].block <= block,
           \A j \in DOMAIN old, p \in DOMAIN es : old[j].ev.id < es[p].id
    PROVE  LogOK(new, seq + Len(es))
<1> DEFINE l == Len(old)
           k == Len(es)
           m == Len(new)
<1>1. /\ l \in Nat /\ k \in Nat /\ m \in Nat /\ t \in Nat /\ m = (l + k) - t /\ m <= LogCap
      /\ DOMAIN old = 1..l /\ DOMAIN es = 1..k /\ DOMAIN new = 1..m
  BY DEF Extends
<1>2. \A i \in 1..m : IF t + i <= l THEN t + i \in 1..l /\ new[i] = old[t + i]
                      ELSE /\ (t + i) - l \in 1..k
                           /\ new[i].seq = seq + ((t + i) - l) /\ new[i].block = block
                           /\ new[i].ev = es[(t + i) - l]
  <2>1. \A i \in 1..m : (t + i <= l => t + i \in 1..l) /\ (~(t + i <= l) => (t + i) - l \in 1..k)
    BY <1>1
  <2> QED BY <2>1 DEF Extends
<1>3. /\ l <= seq /\ \A i \in 1..l : old[i].seq = (seq - l) + i
      /\ \A i, j \in 1..l : i < j => old[i].ev.id < old[j].ev.id /\ old[i].block <= old[j].block
  BY <1>1 DEF LogOK, Grows
<1> HIDE DEF l, k, m
<1>4. \A i \in 1..m : new[i].seq = ((seq + k) - m) + i
  <2> SUFFICES ASSUME NEW i \in 1..m PROVE new[i].seq = ((seq + k) - m) + i
    OBVIOUS
  <2>1. CASE t + i <= l
    <3>1. new[i].seq = (seq - l) + (t + i)
      BY <1>2, <1>3, <2>1
    <3> QED BY <1>1, <3>1
  <2>2. CASE ~(t + i <= l)
    <3>1. new[i].seq = seq + ((t + i) - l)
      BY <1>2, <2>2
    <3>2. seq + ((t + i) - l) = ((seq + k) - m) + i
      BY <1>1
    <3> QED BY <3>1, <3>2
  <2> QED BY <2>1, <2>2
<1>5. ASSUME NEW i \in 1..m, NEW j \in 1..m, i < j
      PROVE  new[i].ev.id < new[j].ev.id /\ new[i].block <= new[j].block
  <2>1. CASE t + j <= l
    <3>1. t + i \in 1..l /\ t + j \in 1..l /\ t + i < t + j /\ t + i <= l
      BY <1>1, <1>5, <2>1
    <3> QED BY <1>2, <1>3, <2>1, <3>1
  <2>2. CASE t + i <= l /\ ~(t + j <= l)
    <3>1. new[i] = old[t + i] /\ t + i \in 1..l
      BY <1>2, <2>2
    <3>2. new[j].block = block /\ new[j].ev = es[(t + j) - l] /\ (t + j) - l \in 1..k
      BY <1>2, <2>2
    <3> QED BY <1>1, <3>1, <3>2
  <2>3. CASE ~(t + i <= l)
    <3>1. /\ ~(t + j <= l) /\ (t + i) - l < (t + j) - l
          /\ (t + i) - l \in 1..k /\ (t + j) - l \in 1..k
      BY <1>1, <1>2, <1>5, <2>3
    <3>2. /\ new[i].block = block /\ new[i].ev = es[(t + i) - l]
          /\ new[j].block = block /\ new[j].ev = es[(t + j) - l]
      BY <1>2, <2>3, <3>1
    <3> QED BY <1>1, <3>1, <3>2
  <2> QED BY <2>1, <2>2, <2>3
<1>6. m <= seq + k
  BY <1>1, <1>3
<1> QED BY <1>1, <1>4, <1>5, <1>6 DEF LogOK, Grows, m, k

-----------------------------------------------------------------------------
(* What becomes of the record. *)

\* What the record is, block by block.
ChainOf(E, n) ==
    /\ Chain(n) \in Seq(Seq(E)) /\ DOMAIN Chain(n) = 1..Len(Chain(n)) /\ Len(Chain(n)) \in Nat
    /\ Len(n.blocks) \in Nat /\ Len(n.ahead) \in Nat
    /\ \A c \in 1..Len(n.blocks) : Chain(n)[c] = n.blocks[c]
    /\ n.ahead = <<>> => /\ Len(Chain(n)) = Len(n.blocks) + 1
                         /\ Chain(n)[Len(n.blocks) + 1] = n.open
                         /\ Top(n) = Len(n.blocks) + 1
    /\ n.ahead # <<>> => /\ Len(Chain(n)) = Len(n.blocks) + Len(n.ahead) /\ Len(n.ahead) > 0
                         /\ Top(n) = Len(n.blocks)
    /\ n.ahead # <<>> => \A i \in 1..Len(n.ahead) : Chain(n)[Len(n.blocks) + i] = n.ahead[i]
    /\ Top(n) \in Nat /\ Len(n.blocks) <= Len(Chain(n)) /\ Len(n.blocks) <= Top(n)

LEMMA ChainIs == ASSUME NEW E, NEW n \in Nodes(E) PROVE ChainOf(E, n)
<1> DEFINE rest == IF n.ahead = <<>> THEN <<n.open>> ELSE n.ahead
           l == Len(n.blocks)
           ch == n.blocks \o rest
<1>1. n.blocks \in Seq(Seq(E)) /\ n.open \in Seq(E) /\ n.ahead \in Seq(Seq(E)) /\ l \in Nat
  BY DEF Nodes
<1>2. rest \in Seq(Seq(E))
  BY <1>1
<1>3. IF n.ahead = <<>> THEN Len(rest) = 1 /\ rest[1] = n.open ELSE rest = n.ahead /\ Len(rest) > 0
  BY <1>1
<1> HIDE DEF rest
<1>4. /\ ch \in Seq(Seq(E)) /\ Len(ch) = l + Len(rest) /\ DOMAIN ch = 1..Len(ch)
      /\ \A c \in 1..l : ch[c] = n.blocks[c]
      /\ \A i \in 1..Len(rest) : ch[l + i] = rest[i]
  BY <1>1, <1>2
<1>5. Chain(n) = ch
  BY DEF Chain, rest
<1>6. Top(n) \in Nat /\ Len(ch) \in Nat /\ Top(n) = IF n.ahead = <<>> THEN l + 1 ELSE l
  BY <1>1, <1>4 DEF Top
<1> HIDE DEF ch
<1>7. Len(n.ahead) \in Nat
  BY <1>1
<1> HIDE DEF l
<1>8. CASE n.ahead = <<>>
  <2>1. Len(ch) = l + 1 /\ ch[l + 1] = n.open
    <3>1. Len(rest) = 1 /\ rest[1] = n.open /\ 1 \in 1..Len(rest)
      BY <1>3, <1>8
    <3> QED BY <1>4, <3>1
  <2>2. l <= Len(ch) /\ l <= Top(n)
    BY <1>1, <1>6, <1>8, <2>1 DEF l
  <2> QED BY <1>1, <1>4, <1>5, <1>6, <1>7, <1>8, <2>1, <2>2 DEF l, ChainOf
<1>9. CASE n.ahead # <<>>
  <2>1. Len(ch) = l + Len(n.ahead) /\ Len(n.ahead) > 0 /\ \A i \in 1..Len(n.ahead) : ch[l + i] = n.ahead[i]
    BY <1>3, <1>4, <1>9
  <2>2. l <= Len(ch) /\ l <= Top(n)
    <3>1. l \in Nat
      BY <1>1 DEF l
    <3> QED BY <1>6, <1>7, <1>9, <2>1, <3>1
  <2> QED BY <1>1, <1>4, <1>5, <1>6, <1>7, <1>9, <2>1, <2>2 DEF l, ChainOf
<1> QED BY <1>8, <1>9

\* The record loses blocks, or gets empty ones.
Shrinks(ch2, ch) == \A c \in DOMAIN ch2 : ch2[c] = <<>> \/ (c \in DOMAIN ch /\ ch2[c] = ch[c])

LEMMA ShrinksOK ==
    ASSUME NEW ch2, NEW ch, Shrinks(ch2, ch), ChainOK(ch)
    PROVE  ChainOK(ch2)
<1>1. \A c \in DOMAIN ch2 : \A p \in DOMAIN ch2[c] : c \in DOMAIN ch /\ ch2[c] = ch[c]
  BY DEF Shrinks
<1> QED BY <1>1 DEF ChainOK

\* Above the top the record may grow by empty blocks.
LEMMA FitsShrunk ==
    ASSUME NEW E, NEW log \in Seq(Entry(E)), NEW seq, NEW ch2, NEW ch, Shrinks(ch2, ch),
           NEW top \in Nat, NEW top2 \in Nat, top <= top2, DOMAIN ch2 \subseteq Nat,
           \A c \in DOMAIN ch2 : top < c /\ c <= top2 => ch2[c] = <<>>,
           Fits(log, seq, ch, top)
    PROVE  Fits(log, seq, ch2, top2)
<1>1. \A c \in DOMAIN ch2 : \A p \in DOMAIN ch2[c] : c \in DOMAIN ch /\ ch2[c] = ch[c]
  BY DEF Shrinks
<1>2. Agree(log, ch2)
  BY <1>1 DEF Fits, Agree
<1>3. Whole(log, ch2, top2)
  <2> SUFFICES ASSUME NEW c \in DOMAIN ch2, NEW p \in DOMAIN ch2[c], c <= top2, 0 < Len(log),
                      log[1].block < c \/ (log[1].block = c /\ Len(log) < LogCap)
               PROVE  \E j \in DOMAIN log : log[j].block = c /\ log[j].ev.id = ch2[c][p].id
    BY DEF Whole
  <2>1. c \in Nat /\ c <= top /\ c \in DOMAIN ch /\ ch2[c] = ch[c]
    BY <1>1
  <2> QED BY <2>1 DEF Fits, Whole
<1>4. \A j \in DOMAIN log : log[j].block \in 1..top2
  BY DEF Fits
<1> QED BY <1>2, <1>3, <1>4 DEF Fits

-----------------------------------------------------------------------------
(* The log and the record, when it absorbs a block. *)

\* Of what the log is to hold, the old one and the entries have it all.
Covers(old, ch, block, es) ==
    \A c \in DOMAIN ch : \A p \in DOMAIN ch[c] :
        (/\ c <= block
         /\ IF Len(old) = 0 THEN c = block
            ELSE old[1].block < c \/ (old[1].block = c /\ Len(old) < LogCap))
            => \/ \E j \in DOMAIN old : old[j].block = c /\ old[j].ev.id = ch[c][p].id
               \/ c = block /\ \E q \in 1..Len(es) : es[q].id = ch[c][p].id

\* Where the entries of the new log are from, and where the old ones go.
Moves(old, new, block, es, t) ==
    /\ t \in Nat /\ Len(old) \in Nat /\ Len(new) \in Nat /\ Len(es) \in Nat
    /\ Len(new) = (Len(old) + Len(es)) - t /\ Len(new) <= LogCap /\ LogCap \in Nat \ {0}
    /\ t = 0 \/ Len(new) = LogCap
    /\ DOMAIN old = 1..Len(old) /\ DOMAIN new = 1..Len(new) /\ DOMAIN es = 1..Len(es)
    /\ \A i \in 1..Len(new) :
          IF t + i <= Len(old) THEN t + i \in 1..Len(old) /\ new[i] = old[t + i]
          ELSE /\ (t + i) - Len(old) \in 1..Len(es)
               /\ new[i].block = block /\ new[i].ev = es[(t + i) - Len(old)]
    /\ \A j \in 1..Len(old) : j > t => j - t \in 1..Len(new) /\ new[j - t] = old[j]
    /\ \A q \in 1..Len(es) : Len(old) + q > t =>
          /\ (Len(old) + q) - t \in 1..Len(new)
          /\ new[(Len(old) + q) - t].block = block /\ new[(Len(old) + q) - t].ev = es[q]

LEMMA ExtendsMoves ==
    ASSUME NEW E, NEW old \in Seq(Entry(E)), NEW new \in Seq(Entry(E)), NEW seq, NEW block,
           NEW es \in Seq(E), NEW t, Extends(old, new, seq, block, es, t)
    PROVE  Moves(old, new, block, es, t)
<1> DEFINE l == Len(old)
           k == Len(es)
           m == Len(new)
<1>1. /\ l \in Nat /\ k \in Nat /\ m \in Nat /\ t \in Nat /\ m = (l + k) - t /\ m <= LogCap
      /\ t = 0 \/ m = LogCap
      /\ DOMAIN old = 1..l /\ 1..Len(es) = 1..k /\ DOMAIN new = 1..m /\ LogCap \in Nat \ {0}
  BY CatAssumption DEF Extends, CatAssumption
<1>2. \A i \in 1..m :
          IF t + i <= l THEN new[i] = old[t + i]
          ELSE new[i].block = block /\ new[i].ev = es[(t + i) - l]
  BY DEF Extends
<1> HIDE DEF l, k, m
<1>3. \A i \in 1..m : (t + i <= l => t + i \in 1..l) /\ (~(t + i <= l) => (t + i) - l \in 1..k)
  BY <1>1
<1>4. ASSUME NEW j \in 1..l, j > t PROVE j - t \in 1..m /\ new[j - t] = old[j]
  <2>1. j - t \in 1..m /\ t + (j - t) = j /\ j <= l
    BY <1>1, <1>4
  <2> QED BY <1>2, <2>1
<1>5. ASSUME NEW q \in 1..k, l + q > t
      PROVE  (l + q) - t \in 1..m /\ new[(l + q) - t].block = block /\ new[(l + q) - t].ev = es[q]
  <2>1. (l + q) - t \in 1..m /\ t + ((l + q) - t) = l + q /\ ~(l + q <= l) /\ (l + q) - l = q
    BY <1>1, <1>5
  <2> QED BY <1>2, <2>1
<1> QED BY <1>1, <1>2, <1>3, <1>4, <1>5 DEF l, k, m, Moves

LEMMA WholeAfter ==
    ASSUME NEW E, NEW old \in Seq(Entry(E)), NEW new \in Seq(Entry(E)), NEW seq, NEW block \in Nat,
           NEW es \in Seq(E), NEW t, Extends(old, new, seq, block, es, t), Grows(old),
           NEW ch \in Seq(Seq(E)), Covers(old, ch, block, es)
    PROVE  Whole(new, ch, block)
<1> DEFINE l == Len(old)
           m == Len(new)
<1>0. Moves(old, new, block, es, t)
  BY ExtendsMoves
<1>1. /\ t \in Nat /\ l \in Nat /\ m \in Nat /\ LogCap \in Nat \ {0} /\ Len(es) \in Nat
      /\ t = 0 \/ m = LogCap
      /\ m = (l + Len(es)) - t /\ DOMAIN old = 1..l /\ DOMAIN new = 1..m /\ DOMAIN es = 1..Len(es)
      /\ \A i \in 1..m : IF t + i <= l THEN t + i \in 1..l /\ new[i] = old[t + i]
                         ELSE new[i].block = block
      /\ \A j \in 1..l : j > t => j - t \in 1..m /\ new[j - t] = old[j]
      /\ \A q \in 1..Len(es) : l + q > t =>
            /\ (l + q) - t \in 1..m
            /\ new[(l + q) - t].block = block /\ new[(l + q) - t].ev = es[q]
  BY <1>0 DEF Moves
<1>9. DOMAIN new = 1..m /\ DOMAIN old = 1..l /\ DOMAIN es = 1..Len(es)
  BY <1>1
<1>2. \A i \in 1..l : old[i].block \in Nat
  <2>1. \A i \in 1..l : old[i] \in Entry(E)
    OBVIOUS
  <2> QED BY <2>1 DEF Entry
<1>3. \A i, j \in 1..l : i < j => old[i].block <= old[j].block
  BY <1>1 DEF Grows
<1> SUFFICES ASSUME NEW c \in DOMAIN ch, NEW p \in DOMAIN ch[c], c <= block, 0 < m,
                    new[1].block < c \/ (new[1].block = c /\ m < LogCap)
             PROVE  \E j \in 1..m : new[j].block = c /\ new[j].ev.id = ch[c][p].id
  BY <1>9 DEF Whole
<1>5. c \in Nat /\ 1 \in 1..m
  BY <1>1
<1> HIDE DEF l, m
<1>7. CASE t + 1 <= l
  <2>1. 1 \in 1..l /\ t + 1 \in 1..l /\ new[1] = old[t + 1] /\ old[1].block <= old[t + 1].block
    <3>1. 1 \in 1..l /\ t + 1 \in 1..l /\ new[1] = old[t + 1] /\ (1 < t + 1 \/ t + 1 = 1)
      BY <1>1, <1>5, <1>7
    <3>2. CASE 1 < t + 1
      BY <1>3, <3>1, <3>2
    <3>3. CASE t + 1 = 1
      BY <1>2, <3>1, <3>3
    <3> QED BY <3>1, <3>2, <3>3
  <2>2. l # 0 /\ (old[1].block < c \/ (old[1].block = c /\ l < LogCap /\ t = 0))
    <3>1. CASE new[1].block < c
      <4>1. old[1].block \in Nat /\ old[t + 1].block \in Nat /\ old[t + 1].block < c
        BY <1>2, <2>1, <3>1
      <4>2. l # 0
        BY <2>1
      <4> DEFINE a == old[1].block
                 b == old[t + 1].block
      <4>3. a \in Nat /\ b \in Nat /\ a <= b /\ b < c
        BY <2>1, <4>1
      <4> HIDE DEF a, b
      <4>4. a < c
        BY <1>5, <4>3
      <4> QED BY <4>2, <4>4 DEF a
    <3>2. CASE new[1].block = c /\ m < LogCap
      <4>1. t = 0 /\ l <= m /\ l < LogCap
        BY <1>1, <3>2
      <4>2. t + 1 = 1 /\ l # 0
        BY <1>1, <4>1, <1>7
      <4>3. new[1] = old[1]
        BY <2>1, <4>2
      <4> QED BY <3>2, <4>1, <4>2, <4>3
    <3> QED BY <3>1, <3>2
  <2>3. \/ \E j \in 1..l : old[j].block = c /\ old[j].ev.id = ch[c][p].id
        \/ c = block /\ \E q \in 1..Len(es) : es[q].id = ch[c][p].id
    BY <1>9, <2>2 DEF Covers, l
  <2>4. ASSUME NEW j \in 1..l, old[j].block = c, old[j].ev.id = ch[c][p].id
        PROVE  \E i \in 1..m : new[i].block = c /\ new[i].ev.id = ch[c][p].id
    <3>1. j > t
      <4>1. CASE new[1].block < c
        <5>1. t + 1 \in 1..l /\ old[t + 1].block < c /\ old[j].block = c /\ old[t + 1].block \in Nat
          BY <1>2, <2>1, <2>4, <4>1
        <5>2. ASSUME j < t + 1 PROVE FALSE
          <6> DEFINE b == old[t + 1].block
          <6>1. c <= b
            BY <1>3, <5>1, <5>2
          <6>2. b < c /\ b \in Nat /\ c \in Nat
            BY <1>5, <5>1
          <6> HIDE DEF b
          <6> QED BY <6>1, <6>2
        <5>3. j # t + 1
          BY <1>5, <5>1
        <5> QED BY <1>1, <5>2, <5>3
      <4>2. CASE new[1].block = c /\ m < LogCap
        BY <1>1, <4>2
      <4> QED BY <4>1, <4>2
    <3>2. j - t \in 1..m /\ new[j - t] = old[j]
      BY <1>1, <3>1
    <3> QED BY <2>4, <3>2
  <2>5. ASSUME NEW q \in 1..Len(es), c = block, es[q].id = ch[c][p].id
        PROVE  \E i \in 1..m : new[i].block = c /\ new[i].ev.id = ch[c][p].id
    <3>1. l + q > t
      BY <1>1, <1>7
    <3>2. (l + q) - t \in 1..m /\ new[(l + q) - t].block = block /\ new[(l + q) - t].ev = es[q]
      BY <1>1, <3>1
    <3> QED BY <2>5, <3>2
  <2> QED BY <2>3, <2>4, <2>5
<1>8. CASE ~(t + 1 <= l)
  <2>1. new[1].block = block
    BY <1>1, <1>5, <1>8
  <2>2. c = block /\ m < LogCap
    BY <1>5, <2>1
  <2>3. t = 0 /\ l = 0 
    BY <1>1, <1>8, <2>2
  <2>4. PICK q \in 1..Len(es) : es[q].id = ch[c][p].id
    <3>0. Len(old) = 0
      BY <2>3 DEF l
    <3>1. \/ \E j \in 1..l : old[j].block = c /\ old[j].ev.id = ch[c][p].id
          \/ \E q \in 1..Len(es) : es[q].id = ch[c][p].id
      BY <1>9, <2>2, <3>0 DEF Covers
    <3> QED BY <2>3, <3>1
  <2>5. l + q > t
    BY <1>1, <2>3
  <2>6. (l + q) - t \in 1..m /\ new[(l + q) - t].block = block /\ new[(l + q) - t].ev = es[q]
    BY <1>1, <2>5
  <2> QED BY <2>2, <2>4, <2>6
<1> QED BY <1>7, <1>8

\* The entries are between those of the blocks before theirs and those after it.
Between(es, block, ch) ==
    \A q \in 1..Len(es), c \in DOMAIN ch : \A p \in DOMAIN ch[c] :
       /\ c < block => ch[c][p].id < es[q].id
       /\ block < c => es[q].id < ch[c][p].id

LEMMA AgreeAfter ==
    ASSUME NEW E, NEW old \in Seq(Entry(E)), NEW new \in Seq(Entry(E)), NEW seq, NEW block,
           NEW es \in Seq(E), NEW t, Extends(old, new, seq, block, es, t), NEW ch,
           Agree(old, ch), Between(es, block, ch)
    PROVE  Agree(new, ch)
<1>0. Moves(old, new, block, es, t)
  BY ExtendsMoves
<1>1. \A i \in DOMAIN new :
          \/ \E j \in DOMAIN old : new[i] = old[j]
          \/ new[i].block = block /\ \E q \in 1..Len(es) : new[i].ev = es[q]
  BY <1>0 DEF Moves
<1> SUFFICES ASSUME NEW i \in DOMAIN new, NEW c \in DOMAIN ch, NEW p \in DOMAIN ch[c]
             PROVE  /\ c < new[i].block => ch[c][p].id < new[i].ev.id
                    /\ new[i].block < c => new[i].ev.id < ch[c][p].id
  BY DEF Agree
<1>2. CASE \E j \in DOMAIN old : new[i] = old[j]
  BY <1>2 DEF Agree
<1>3. CASE new[i].block = block /\ \E q \in 1..Len(es) : new[i].ev = es[q]
  BY <1>3 DEF Between
<1> QED BY <1>1, <1>2, <1>3

\* A block of the record is absorbed that follows what the log has.
LEMMA RecordAbsorbed ==
    ASSUME NEW E, Events(E), NEW old \in Seq(Entry(E)), NEW new \in Seq(Entry(E)), NEW seq \in Nat,
           NEW ch \in Seq(Seq(E)), ChainOK(ch), NEW top \in Nat, NEW block \in DOMAIN ch, block = top + 1,
           NEW t, Extends(old, new, seq, block, ch[block], t), Fits(old, seq, ch, top)
    PROVE  Fits(new, seq + Len(ch[block]), ch, block)
<1> DEFINE es == ch[block]
<1>1. es \in Seq(E) /\ block \in Nat /\ DOMAIN es = 1..Len(es)
  OBVIOUS
<1>2. /\ LogOK(old, seq) /\ Agree(old, ch) /\ Whole(old, ch, top)
      /\ \A j \in DOMAIN old : old[j].block \in 1..top
  BY DEF Fits
<1>3. Extends(old, new, seq, block, es, t)
  OBVIOUS
<1>4. \A p, q \in DOMAIN es : p < q => es[p].id < es[q].id
  BY DEF ChainOK
<1>5. \A j \in DOMAIN old, p \in DOMAIN es : old[j].ev.id < es[p].id
  <2>1. \A j \in DOMAIN old : old[j].block < block
    BY <1>2
  <2> QED BY <1>2, <2>1 DEF Agree
<1>6. Between(es, block, ch)
  BY <1>1 DEF ChainOK, Between
<1>7. \A c \in DOMAIN ch : \A p \in DOMAIN ch[c] : c = block => \E q \in DOMAIN es : es[q].id = ch[c][p].id
  OBVIOUS
<1> HIDE DEF es
<1>8. LogOK(new, seq + Len(es))
  <2>1. \A j \in DOMAIN old : old[j].block <= block
    BY <1>2
  <2> QED BY <1>1, <1>2, <1>3, <1>4, <1>5, <2>1, ExtendsInOrder
<1>9. Agree(new, ch)
  BY <1>1, <1>2, <1>3, <1>6, AgreeAfter
<1>10. Covers(old, ch, block, es)
  <2> SUFFICES ASSUME NEW c \in DOMAIN ch, NEW p \in DOMAIN ch[c], c <= block,
                      IF Len(old) = 0 THEN c = block
                      ELSE old[1].block < c \/ (old[1].block = c /\ Len(old) < LogCap)
               PROVE  \/ \E j \in DOMAIN old : old[j].block = c /\ old[j].ev.id = ch[c][p].id
                      \/ c = block /\ \E q \in 1..Len(es) : es[q].id = ch[c][p].id
    BY DEF Covers
  <2>1. CASE c = block
    BY <1>1, <1>7, <2>1
  <2>2. CASE c # block
    <3>0. c \in Nat /\ Len(old) \in Nat
      <4>1. DOMAIN ch = 1..Len(ch)
        OBVIOUS
      <4> QED BY <4>1
    <3>1. c <= top /\ Len(old) # 0 /\ Len(old) \in Nat /\ c \in Nat
      BY <2>2, <3>0
    <3>2. 0 < Len(old)
      BY <3>1
    <3> QED BY <1>2, <3>1, <3>2 DEF Whole
  <2> QED BY <2>1, <2>2
<1>11. Whole(new, ch, block)
  BY <1>1, <1>2, <1>3, <1>10, WholeAfter DEF LogOK
<1>12. \A j \in DOMAIN new : new[j].block \in 1..block
  <2>1. Moves(old, new, block, es, t)
    BY <1>1, <1>3, ExtendsMoves
  <2>2. \A j \in DOMAIN new : new[j].block = block \/ \E i \in DOMAIN old : new[j] = old[i]
    BY <2>1 DEF Moves
  <2>3. block \in 1..block /\ \A b \in 1..top : b \in 1..block
    OBVIOUS
  <2> QED BY <1>2, <2>2, <2>3
<1> QED BY <1>8, <1>9, <1>11, <1>12 DEF Fits, es

\* What the log has is on record.
Recorded(log, ch) ==
    \A j \in DOMAIN log : /\ log[j].block \in DOMAIN ch
                          /\ \E p \in DOMAIN ch[log[j].block] : log[j].ev = ch[log[j].block][p]

LEMMA FitsEmpty == ASSUME NEW ch, NEW top PROVE Fits(<<>>, 0, ch, top) /\ Recorded(<<>>, ch)
<1>1. Len(<<>>) = 0 /\ DOMAIN <<>> = {} /\ LogCap \in Nat
  BY CatAssumption DEF CatAssumption
<1> QED BY <1>1 DEF Fits, LogOK, Grows, Agree, Whole, Recorded

LEMMA RecordedAbsorbed ==
    ASSUME NEW E, NEW old \in Seq(Entry(E)), NEW new \in Seq(Entry(E)), NEW seq,
           NEW ch \in Seq(Seq(E)), NEW block \in DOMAIN ch,
           NEW t, Extends(old, new, seq, block, ch[block], t), Recorded(old, ch)
    PROVE  Recorded(new, ch)
<1> DEFINE es == ch[block]
<1>1. es \in Seq(E) /\ Extends(old, new, seq, block, es, t) /\ DOMAIN es = 1..Len(es)
  OBVIOUS
<1>2. Moves(old, new, block, es, t)
  <2> HIDE DEF es
  <2> QED BY <1>1, ExtendsMoves
<1>3. \A j \in DOMAIN new :
          \/ \E i \in DOMAIN old : new[j] = old[i]
          \/ new[j].block = block /\ \E p \in DOMAIN es : new[j].ev = es[p]
  <2> HIDE DEF es
  <2> QED BY <1>1, <1>2 DEF Moves
<1> SUFFICES ASSUME NEW j \in DOMAIN new
             PROVE  /\ new[j].block \in DOMAIN ch
                    /\ \E p \in DOMAIN ch[new[j].block] : new[j].ev = ch[new[j].block][p]
  BY DEF Recorded
<1>4. CASE \E i \in DOMAIN old : new[j] = old[i]
  BY <1>4 DEF Recorded
<1>5. CASE new[j].block = block /\ \E p \in DOMAIN es : new[j].ev = es[p]
  BY <1>5
<1> QED BY <1>3, <1>4, <1>5

\* What absorb makes of a node whose log fits the record, by the record's next
\* block.
LEMMA NextAbsorbed ==
    ASSUME NEW E, Events(E), NEW n \in Nodes(E), NEW ch \in Seq(Seq(E)), ChainOK(ch),
           NEW top \in Nat, NEW block \in DOMAIN ch, block = top + 1, Fits(n.log, n.seq, ch, top)
    PROVE  LET a == Absorbed(n, block, ch[block]) IN
           /\ a \in Nodes(E) /\ Fits(a.log, a.seq, ch, block)
           /\ Recorded(n.log, ch) => Recorded(a.log, ch)
           /\ a.blocks = n.blocks /\ a.open = n.open /\ a.cp = n.cp /\ a.ahead = n.ahead
           /\ a.seq = n.seq + Len(ch[block])
           /\ \E t \in Nat : Extends(n.log, a.log, n.seq, block, ch[block], t)
<1> DEFINE es == ch[block]
           a == Absorbed(n, block, es)
<1>1. es \in Seq(E) /\ block \in Nat /\ n.log \in Seq(Entry(E)) /\ n.seq \in Nat
  BY DEF Nodes
<1> HIDE DEF es
<1>2. a \in Nodes(E)
  BY <1>1, AbsorbedIs
<1>3. Absorbs(a, n, block, es)
  BY <1>1, AbsorbedLog
<1>4. a.log \in Seq(Entry(E))
  BY <1>2 DEF Nodes
<1> HIDE DEF a
<1>5. PICK t \in Nat : Extends(n.log, a.log, n.seq, block, es, t)
  BY <1>3 DEF Absorbs
<1>6. a.seq = n.seq + Len(es)
  BY <1>3 DEF Absorbs
<1>7. Extends(n.log, a.log, n.seq, block, ch[block], t)
  BY <1>5 DEF es
<1>8. Fits(a.log, a.seq, ch, block)
  <2>1. Fits(a.log, n.seq + Len(ch[block]), ch, block)
    BY <1>1, <1>4, <1>7, RecordAbsorbed
  <2> QED BY <1>6, <2>1 DEF es
<1>9. Recorded(n.log, ch) => Recorded(a.log, ch)
  BY <1>1, <1>4, <1>7, RecordedAbsorbed
<1> QED BY <1>2, <1>3, <1>5, <1>8, <1>9 DEF Absorbs, es, a

\* A rebuilt log fits the record its blocks are of.
LEMMA ReloadedFits ==
    ASSUME NEW E, Events(E), NEW blocks \in Seq(Seq(E)), NEW cp \in Nat, cp <= Len(blocks),
           NEW ch \in Seq(Seq(E)), ChainOK(ch), Len(blocks) <= Len(ch),
           \A c \in 1..Len(blocks) : ch[c] = blocks[c]
    PROVE  LET r == Reloaded(blocks, cp) IN
           /\ r.open = <<>> /\ Fits(r.log, r.seq, ch, Len(blocks)) /\ Recorded(r.log, ch)
           /\ r.ahead = <<>>
<1> DEFINE n == Len(blocks) - cp
<1>1. n \in Nat /\ Len(blocks) \in Nat /\ DOMAIN ch = 1..Len(ch) /\ Len(ch) \in Nat
  OBVIOUS
<1>2. PICK f : IsReload(f, blocks, cp) /\ Reloaded(blocks, cp) = f[n]
  BY <1>1, ReloadedIs
<1>3. \A i \in 0..n : f[i] = IF i = 0 THEN Emptied(blocks, cp)
                             ELSE Absorbed(f[i - 1], cp + i, blocks[cp + i])
  BY <1>2 DEF IsReload
<1> DEFINE OK(m, i) == /\ m \in Nodes(E) /\ m.open = <<>> /\ m.ahead = <<>>
                       /\ Fits(m.log, m.seq, ch, cp + i) /\ Recorded(m.log, ch)
           T == {i \in Nat : i <= n => OK(f[i], i)}
<1>4. OK(Emptied(blocks, cp), 0)
  <2>1. <<>> \in Seq(E) /\ <<>> \in Seq(Entry(E)) /\ <<>> \in Seq(Seq(E))
    OBVIOUS
  <2>2. Emptied(blocks, cp).log = <<>> /\ Emptied(blocks, cp).seq = 0
    BY DEF Emptied
  <2>3. Emptied(blocks, cp) \in Nodes(E)
    BY <2>1 DEF Emptied, Nodes
  <2> QED BY <2>2, <2>3, FitsEmpty DEF Emptied
<1>5. 0 \in T
  <2>1. f[0] = Emptied(blocks, cp)
    BY <1>1, <1>3
  <2> HIDE DEF OK
  <2> QED BY <1>4, <2>1
<1>6. ASSUME NEW i \in Nat, i \in T PROVE i + 1 \in T
  <2>1. SUFFICES ASSUME i + 1 <= n PROVE OK(f[i + 1], i + 1)
    OBVIOUS
  <2> DEFINE b == cp + (i + 1)
             top == cp + i
             m == f[i]
  <2>2. /\ i + 1 \in 0..n /\ i + 1 # 0 /\ (i + 1) - 1 = i /\ b \in 1..Len(blocks) /\ b = top + 1
        /\ top \in Nat
    BY <1>1, <2>1
  <2>3. b \in DOMAIN ch /\ ch[b] = blocks[b]
    <3>1. 1..Len(blocks) \subseteq 1..Len(ch)
      BY <1>1
    <3> QED BY <1>1, <2>2, <3>1
  <2>4. f[i + 1] = Absorbed(m, b, ch[b])
    BY <1>3, <2>2, <2>3
  <2>5. OK(m, i)
    BY <1>1, <1>6, <2>1
  <2>6. m \in Nodes(E) /\ m.open = <<>> /\ m.ahead = <<>> /\ Fits(m.log, m.seq, ch, top) /\ Recorded(m.log, ch)
    BY <2>5
  <2> HIDE DEF T, n, b, m, top
  <2>7. LET a == Absorbed(m, b, ch[b]) IN
        /\ a \in Nodes(E) /\ Fits(a.log, a.seq, ch, b)
        /\ Recorded(m.log, ch) => Recorded(a.log, ch)
        /\ a.blocks = m.blocks /\ a.open = m.open /\ a.cp = m.cp /\ a.ahead = m.ahead
        /\ a.seq = m.seq + Len(ch[b])
        /\ \E t \in Nat : Extends(m.log, a.log, m.seq, b, ch[b], t)
    BY <2>2, <2>3, <2>6, NextAbsorbed
  <2>8. OK(Absorbed(m, b, ch[b]), i + 1)
    BY <2>6, <2>7 DEF b
  <2> HIDE DEF OK
  <2> QED BY <2>4, <2>8
<1>7. OK(f[n], n)
  <2>1. n \in T
    <3> HIDE DEF T
    <3> QED BY <1>1, <1>5, <1>6, InductionBySet
  <2> HIDE DEF OK, n
  <2> QED BY <1>1, <2>1
<1>8. cp + n = Len(blocks)
  BY <1>1
<1> HIDE DEF n
<1> QED BY <1>2, <1>7, <1>8

-----------------------------------------------------------------------------
(* The node's steps. *)

LEMMA ShrunkIsOK ==
    ASSUME NEW E, NEW n \in Nodes(E), NodeOK(n), NEW m \in Nodes(E), m.log = n.log, m.seq = n.seq,
           Shrinks(Chain(m), Chain(n)), Top(n) <= Top(m),
           \A c \in DOMAIN Chain(m) : Top(n) < c /\ c <= Top(m) => Chain(m)[c] = <<>>,
           m.open = <<>>
    PROVE  NodeOK(m)
<1>1. ChainOK(Chain(m))
  BY ShrinksOK DEF NodeOK
<1>2. /\ Top(n) \in Nat /\ Top(m) \in Nat /\ DOMAIN Chain(m) = 1..Len(Chain(m))
      /\ Chain(m) \in Seq(Seq(E)) /\ n.log \in Seq(Entry(E))
  BY ChainIs DEF Nodes, ChainOf
<1>3. DOMAIN Chain(m) \subseteq Nat
  BY <1>2
<1>4. Fits(n.log, n.seq, Chain(n), Top(n))
  BY DEF NodeOK
<1>5. Fits(n.log, n.seq, Chain(m), Top(m))
  BY <1>2, <1>3, <1>4, FitsShrunk
<1> QED BY <1>1, <1>5 DEF NodeOK

LEMMA SealedIsOK ==
    ASSUME NEW E, node \in Nodes(E), node.cp <= Len(node.blocks), NodeInv,
           NEW compact \in BOOLEAN, Seal(compact)
    PROVE  /\ NodeInv' /\ node'.log = node.log /\ node'.seq = node.seq
           /\ Shrinks(Chain(node'), Chain(node)) /\ Top(node) <= Top(node')
<1> DEFINE l == Len(node.blocks)
           sealed == [node EXCEPT !.blocks = Append(@, node.open), !.open = <<>>]
<1>1. node' \in Nodes(E)
  BY SealsIs
<1>2. node.ahead = <<>> /\ node' = IF compact THEN CompactAt(sealed, OpenBlock(node)) ELSE sealed
  BY DEF Seal
<1>3. node.ahead = <<>>
  BY DEF Seal
<1>4. /\ node'.log = node.log /\ node'.seq = node.seq /\ node'.ahead = <<>> /\ node'.open = <<>>
      /\ node'.blocks = Append(node.blocks, node.open)
  BY <1>2, <1>3 DEF CompactAt, Nodes
<1>5. node.blocks \in Seq(Seq(E)) /\ node.open \in Seq(E)
  BY DEF Nodes
<1>6. /\ l \in Nat /\ Len(node'.blocks) = l + 1 /\ node'.blocks[l + 1] = node.open
      /\ \A c \in 1..l : node'.blocks[c] = node.blocks[c]
  BY <1>4, <1>5
<1>c. ChainOf(E, node) /\ ChainOf(E, node')
  BY <1>1, ChainIs
<1>7. /\ Len(Chain(node)) = l + 1 /\ DOMAIN Chain(node) = 1..Len(Chain(node))
      /\ \A c \in 1..l : Chain(node)[c] = node.blocks[c]
      /\ Chain(node)[l + 1] = node.open /\ Top(node) = l + 1
  BY <1>3, <1>c DEF ChainOf
<1>8. /\ Len(Chain(node')) = (l + 1) + 1 /\ DOMAIN Chain(node') = 1..Len(Chain(node'))
      /\ \A c \in 1..l + 1 : Chain(node')[c] = node'.blocks[c]
      /\ Chain(node')[(l + 1) + 1] = <<>> /\ Top(node') = (l + 1) + 1
  <2>1. node'.ahead = <<>> /\ node'.open = <<>>
    BY <1>4
  <2> DEFINE k == Len(node'.blocks)
  <2>2. /\ Len(Chain(node')) = k + 1 /\ DOMAIN Chain(node') = 1..Len(Chain(node'))
        /\ \A c \in 1..k : Chain(node')[c] = node'.blocks[c]
        /\ Chain(node')[k + 1] = <<>> /\ Top(node') = k + 1
    BY <1>c, <2>1 DEF ChainOf
  <2>3. k = l + 1
    BY <1>6
  <2> HIDE DEF k, l
  <2> QED BY <2>2, <2>3
<1> HIDE DEF l, sealed
<1>9. \A c \in 1..l + 1 : Chain(node')[c] = Chain(node)[c]
  <2> SUFFICES ASSUME NEW c \in 1..l + 1 PROVE Chain(node')[c] = Chain(node)[c]
    OBVIOUS
  <2>1. CASE c = l + 1
    BY <1>6, <1>7, <1>8, <2>1
  <2>2. CASE c # l + 1
    <3>1. c \in 1..l
      BY <1>6, <2>2
    <3>2. Chain(node')[c] = node'.blocks[c]
      BY <1>8
    <3> QED BY <1>6, <1>7, <3>1, <3>2
  <2> QED BY <2>1, <2>2
<1>10. Shrinks(Chain(node'), Chain(node))
  <2> SUFFICES ASSUME NEW c \in DOMAIN Chain(node')
               PROVE  Chain(node')[c] = <<>> \/ (c \in DOMAIN Chain(node) /\ Chain(node')[c] = Chain(node)[c])
    BY DEF Shrinks
  <2>1. c \in 1..l + 1 \/ c = (l + 1) + 1
    BY <1>6, <1>8
  <2> QED BY <1>7, <1>8, <1>9, <2>1
<1>11. \A c \in DOMAIN Chain(node') : Top(node) < c /\ c <= Top(node') => Chain(node')[c] = <<>>
  <2>1. \A c \in 1..(l + 1) + 1 : l + 1 < c => c = (l + 1) + 1
    BY <1>6
  <2> QED BY <1>7, <1>8, <2>1
<1>12. Top(node) <= Top(node')
  BY <1>6, <1>7, <1>8
<1>13. NodeOK(node')
  BY <1>1, <1>4, <1>10, <1>11, <1>12, ShrunkIsOK DEF NodeInv
<1> QED BY <1>4, <1>10, <1>12, <1>13 DEF NodeInv

LEMMA RebuiltIsOK ==
    ASSUME NEW E, Events(E), NEW n \in Nodes(E), NodeOK(n), NEW m \in Nodes(E),
           NEW blocks \in Seq(Seq(E)), NEW cp \in Nat, cp <= Len(blocks),
           m.blocks = blocks, m.open = <<>>,
           m.log = Reloaded(blocks, cp).log, m.seq = Reloaded(blocks, cp).seq,
           Shrinks(Chain(m), Chain(n))
    PROVE  NodeOK(m) /\ Recorded(m.log, Chain(m))
<1> DEFINE ch == Chain(m)
           l == Len(blocks)
<1>1. ChainOK(ch)
  BY ShrinksOK DEF NodeOK
<1>2. /\ ch \in Seq(Seq(E)) /\ l \in Nat /\ DOMAIN ch = 1..Len(ch) /\ l <= Len(ch) /\ Len(ch) \in Nat
      /\ \A c \in 1..l : ch[c] = blocks[c]
      /\ IF m.ahead = <<>> THEN Top(m) = l + 1 /\ ch[l + 1] = <<>> ELSE Top(m) = l
      /\ m.log \in Seq(Entry(E))
  <2>1. ChainOf(E, m) /\ m.log \in Seq(Entry(E))
    BY ChainIs DEF Nodes
  <2>2. CASE m.ahead = <<>>
    BY <2>1, <2>2 DEF ChainOf
  <2>3. CASE m.ahead # <<>>
    <3>1. Top(m) = l /\ l <= Len(ch) /\ \A c \in 1..l : ch[c] = blocks[c]
      BY <2>1, <2>3 DEF ChainOf
    <3>2. ch \in Seq(Seq(E)) /\ l \in Nat /\ DOMAIN ch = 1..Len(ch) /\ Len(ch) \in Nat
      BY <2>1 DEF ChainOf
    <3> QED BY <2>1, <2>3, <3>1, <3>2
  <2> QED BY <2>2, <2>3
<1> HIDE DEF ch
<1>3. Fits(m.log, m.seq, ch, l) /\ Recorded(m.log, ch)
  <2>1. LET r == Reloaded(blocks, cp) IN
        /\ r.open = <<>> /\ Fits(r.log, r.seq, ch, Len(blocks)) /\ Recorded(r.log, ch)
        /\ r.ahead = <<>>
    BY <1>1, <1>2, ReloadedFits
  <2> QED BY <2>1
<1>4. Shrinks(ch, ch)
  BY DEF Shrinks
<1>5. DOMAIN ch \subseteq Nat /\ l <= Top(m) /\ Top(m) \in Nat
  BY <1>2
<1>6. \A c \in DOMAIN ch : l < c /\ c <= Top(m) => ch[c] = <<>>
  <2>1. \A c \in Nat : l < c /\ c <= Top(m) => m.ahead = <<>> /\ c = l + 1
    BY <1>2
  <2> QED BY <1>2, <1>5, <2>1
<1> HIDE DEF l
<1>7. Fits(m.log, m.seq, ch, Top(m))
  BY <1>2, <1>3, <1>4, <1>5, <1>6, FitsShrunk
<1> QED BY <1>1, <1>3, <1>7 DEF NodeOK, ch

LEMMA DemotedIsOK ==
    ASSUME NEW E, Events(E), node \in Nodes(E), node.cp <= Len(node.blocks), NodeInv, Demote
    PROVE  NodeInv' /\ Recorded(node'.log, Chain(node')) /\ Shrinks(Chain(node'), Chain(node))
<1> DEFINE n == Reloaded(node.blocks, node.cp)
           l == Len(node.blocks)
<1>1. node.blocks \in Seq(Seq(E)) /\ node.cp \in Nat /\ node.ahead \in Seq(Seq(E))
  BY DEF Nodes
<1>2. n \in Nodes(E) /\ n.blocks = node.blocks
  BY <1>1, ReloadedHas
<1>3. node' = [n EXCEPT !.ahead = node.ahead]
  BY DEF Demote
<1>4. node' \in Nodes(E)
  BY DemoteIs
<1>c. ChainOf(E, node) /\ ChainOf(E, node')
  BY <1>4, ChainIs
<1>5. n.open = <<>>
  <2>1. \A c \in 1..Len(node.blocks) : node.blocks[c] = Chain(node)[c]
    BY <1>c DEF ChainOf
  <2>2. Chain(node) \in Seq(Seq(E)) /\ Len(node.blocks) <= Len(Chain(node)) /\ ChainOK(Chain(node))
    <3>1. ChainOK(Chain(node))
      BY DEF NodeInv, NodeOK
    <3> QED BY <1>c, <3>1 DEF ChainOf
  <2> DEFINE ch == Chain(node)
  <2> HIDE DEF n, ch
  <2>3. LET r == Reloaded(node.blocks, node.cp) IN
        /\ r.open = <<>> /\ Fits(r.log, r.seq, ch, Len(node.blocks)) /\ Recorded(r.log, ch)
        /\ r.ahead = <<>>
    BY <1>1, <2>1, <2>2, ReloadedFits DEF ch
  <2> QED BY <2>3 DEF n
<1>6. /\ node'.blocks = node.blocks /\ node'.open = <<>> /\ node'.ahead = node.ahead
      /\ node'.log = n.log /\ node'.seq = n.seq
  <2> HIDE DEF n
  <2> QED BY <1>2, <1>3, <1>5 DEF Nodes
<1>7. Shrinks(Chain(node'), Chain(node))
  <2>1. /\ l \in Nat /\ Len(Chain(node)) = Len(Chain(node'))
        /\ DOMAIN Chain(node) = 1..Len(Chain(node)) /\ DOMAIN Chain(node') = 1..Len(Chain(node'))
        /\ Len(Chain(node)) = l + (IF node.ahead = <<>> THEN 1 ELSE Len(node.ahead))
        /\ \A c \in 1..l : Chain(node)[c] = node.blocks[c] /\ Chain(node')[c] = node.blocks[c]
    <3>1. CASE node.ahead = <<>>
      BY <1>6, <1>c, <3>1 DEF ChainOf
    <3>2. CASE node.ahead # <<>>
      BY <1>6, <1>c, <3>2 DEF ChainOf
    <3> QED BY <3>1, <3>2
  <2>2. CASE node.ahead = <<>>
    <3>1. Chain(node')[l + 1] = <<>>
      BY <1>6, <1>c, <2>2 DEF ChainOf
    <3>2. \A c \in DOMAIN Chain(node') : c \in 1..l \/ c = l + 1
      BY <2>1, <2>2
    <3> QED BY <2>1, <3>1, <3>2 DEF Shrinks
  <2>3. CASE node.ahead # <<>>
    <3> DEFINE k == Len(node.ahead)
    <3>1. \A i \in 1..k : Chain(node)[l + i] = node.ahead[i] /\ Chain(node')[l + i] = node.ahead[i]
      BY <1>6, <1>c, <2>3 DEF ChainOf
    <3>2. k \in Nat
      BY <1>1
    <3> HIDE DEF k, l
    <3>3. ASSUME NEW c \in DOMAIN Chain(node') PROVE Chain(node')[c] = Chain(node)[c]
      <4>1. c \in 1..l + k
        BY <2>1, <2>3 DEF k
      <4>2. CASE c \in 1..l
        BY <2>1, <4>2
      <4>3. CASE c \notin 1..l
        <5> DEFINE i == c - l
        <5>1. i \in 1..k /\ l + i = c
          BY <2>1, <3>2, <4>1, <4>3
        <5> HIDE DEF i
        <5> QED BY <3>1, <5>1
      <4> QED BY <4>2, <4>3
    <3> QED BY <2>1, <3>3 DEF Shrinks
  <2> QED BY <2>2, <2>3
<1> DEFINE m == node'
           blocks == node.blocks
           cp == node.cp
<1>8. NodeOK(m) /\ Recorded(m.log, Chain(m))
  <2>1. /\ node \in Nodes(E) /\ NodeOK(node) /\ m \in Nodes(E) /\ blocks \in Seq(Seq(E)) /\ cp \in Nat
        /\ cp <= Len(blocks) /\ m.blocks = blocks /\ m.open = <<>>
        /\ m.log = Reloaded(blocks, cp).log /\ m.seq = Reloaded(blocks, cp).seq
        /\ Shrinks(Chain(m), Chain(node))
    BY <1>1, <1>4, <1>6, <1>7 DEF NodeInv
  <2> HIDE DEF m, blocks, cp
  <2> QED BY <2>1, RebuiltIsOK
<1> QED BY <1>7, <1>8 DEF NodeInv

Reloads(m, blocks, cp, ahead) == m = [Reloaded(blocks, cp) EXCEPT !.ahead = ahead]

\* The record starts with the blocks.
Starts(ch, blocks) == Len(blocks) <= Len(ch) /\ \A c \in 1..Len(blocks) : ch[c] = blocks[c]

LEMMA ReloadedOf ==
    ASSUME NEW E, Events(E), NEW blocks \in Seq(Seq(E)), NEW cp \in Nat, cp <= Len(blocks),
           NEW ch \in Seq(Seq(E)), ChainOK(ch), Starts(ch, blocks),
           NEW ahead \in Seq(Seq(E)), NEW m, Reloads(m, blocks, cp, ahead)
    PROVE  /\ m.blocks = blocks /\ m.open = <<>> /\ m.ahead = ahead /\ m \in Nodes(E)
           /\ m.log = Reloaded(blocks, cp).log /\ m.seq = Reloaded(blocks, cp).seq
           /\ Reloaded(blocks, cp).ahead = <<>>
<1> DEFINE r == Reloaded(blocks, cp)
<1>1. r \in Nodes(E) /\ r.blocks = blocks /\ r.cp = cp
  BY ReloadedHas
<1>2. r.open = <<>> /\ r.ahead = <<>>
  <2>1. /\ r.open = <<>> /\ Fits(r.log, r.seq, ch, Len(blocks)) /\ Recorded(r.log, ch)
        /\ r.ahead = <<>>
    BY ReloadedFits DEF Starts
  <2> QED BY <2>1
<1>3. m = [r EXCEPT !.ahead = ahead]
  BY DEF Reloads
<1> HIDE DEF r
<1>4. m \in Nodes(E)
  BY <1>1, <1>3 DEF Nodes
<1>5. m.blocks = blocks /\ m.open = <<>> /\ m.ahead = ahead /\ m.log = r.log /\ m.seq = r.seq
  BY <1>1, <1>2, <1>3 DEF Nodes
<1> QED BY <1>2, <1>4, <1>5 DEF r

LEMMA RewoundIsOK ==
    ASSUME NEW E, Events(E), node \in Nodes(E), node.cp <= Len(node.blocks), NodeInv,
           NEW shared, Rewind(shared)
    PROVE  NodeInv' /\ Recorded(node'.log, Chain(node')) /\ Shrinks(Chain(node'), Chain(node))
<1> DEFINE blocks == SubSeq(node.blocks, 1, node.cp)
           ahead == SubSeq(node.blocks, node.cp + 1, shared)
           cp == node.cp
           l == Len(node.blocks)
           ch == Chain(node)
           m == node'
<1>1. /\ node.blocks \in Seq(Seq(E)) /\ cp \in Nat /\ l \in Nat /\ cp <= l
      /\ \A b \in 1..l : node.blocks[b] \in Seq(E)
  BY DEF Nodes
<1>2. shared \in cp..l /\ node.ahead = <<>> /\ shared \in Nat
  BY <1>1 DEF Rewind
<1>3. blocks \in Seq(Seq(E)) /\ Len(blocks) = cp /\ \A c \in 1..cp : blocks[c] = node.blocks[c]
  <2>1. 1 \in Int /\ cp \in Int /\ \A b \in 1..cp : node.blocks[b] \in Seq(E)
    BY <1>1
  <2>2. /\ blocks \in Seq(Seq(E)) /\ Len(blocks) = IF 1 <= cp THEN cp - 1 + 1 ELSE 0
        /\ \A c \in 1..cp - 1 + 1 : blocks[c] = node.blocks[1 + c - 1]
    BY <2>1, SubSeqProperties
  <2> HIDE DEF blocks
  <2>3. cp - 1 + 1 = cp /\ \A c \in 1..cp : 1 + c - 1 = c
    BY <1>1
  <2> QED BY <1>1, <2>2, <2>3
<1>4. /\ ahead \in Seq(Seq(E)) /\ Len(ahead) = shared - cp
      /\ \A i \in 1..shared - cp : ahead[i] = node.blocks[cp + i]
  <2> DEFINE from == cp + 1
  <2>1. from \in Int /\ shared \in Int /\ \A b \in from..shared : node.blocks[b] \in Seq(E)
    BY <1>1, <1>2
  <2> HIDE DEF from
  <2>2. /\ SubSeq(node.blocks, from, shared) \in Seq(Seq(E))
        /\ Len(SubSeq(node.blocks, from, shared)) = IF from <= shared THEN shared - from + 1 ELSE 0
        /\ \A i \in 1..shared - from + 1 : SubSeq(node.blocks, from, shared)[i] = node.blocks[from + i - 1]
    BY <2>1, SubSeqProperties
  <2>3. /\ (IF from <= shared THEN shared - from + 1 ELSE 0) = shared - cp
        /\ shared - from + 1 = shared - cp /\ \A i \in 1..shared - cp : from + i - 1 = cp + i
    <3>1. from = cp + 1 /\ shared \in Nat /\ cp \in Nat /\ cp <= shared
      BY <1>1, <1>2 DEF from
    <3> HIDE DEF cp
    <3> QED BY <3>1
  <2>4. ahead = SubSeq(node.blocks, from, shared)
    BY DEF from
  <2> HIDE DEF ahead
  <2> QED BY <2>2, <2>3, <2>4
<1>5. Reloads(m, blocks, cp, ahead)
  BY DEF Rewind, Reloads
<1>6. ChainOf(E, node) /\ ChainOK(ch) /\ NodeOK(node)
  BY ChainIs DEF NodeInv, NodeOK
<1>7. /\ ch \in Seq(Seq(E)) /\ cp <= Len(ch) /\ DOMAIN ch = 1..Len(ch) /\ l <= Len(ch) /\ Len(ch) \in Nat
      /\ \A c \in 1..l : ch[c] = node.blocks[c]
  <2>1. /\ ch \in Seq(Seq(E)) /\ l <= Len(ch) /\ Len(ch) \in Nat /\ DOMAIN ch = 1..Len(ch)
        /\ \A c \in 1..l : ch[c] = node.blocks[c]
    BY <1>6 DEF ChainOf
  <2> HIDE DEF ch, l, cp
  <2> QED BY <1>1, <2>1
<1> HIDE DEF blocks, ahead, cp, l, ch, m
<1>8. \A c \in 1..cp : ch[c] = blocks[c]
  <2>1. \A c \in 1..cp : c \in 1..l
    BY <1>1
  <2> QED BY <1>3, <1>7, <2>1
<1>b. cp <= Len(blocks) /\ Starts(ch, blocks)
  BY <1>1, <1>3, <1>7, <1>8 DEF Starts
<1>9. /\ m.blocks = blocks /\ m.open = <<>> /\ m.ahead = ahead /\ m \in Nodes(E)
      /\ m.log = Reloaded(blocks, cp).log /\ m.seq = Reloaded(blocks, cp).seq
  <2>1. blocks \in Seq(Seq(E)) /\ cp \in Nat /\ ch \in Seq(Seq(E)) /\ ahead \in Seq(Seq(E)) /\ ChainOK(ch)
    BY <1>1, <1>3, <1>4, <1>6, <1>7
  <2> QED BY <1>5, <1>b, <2>1, ReloadedOf
<1>10. ChainOf(E, m)
  BY <1>9, ChainIs
<1>11. Shrinks(Chain(m), ch)
  <2>1. CASE ahead = <<>>
    <3>1. /\ DOMAIN Chain(m) = 1..Len(Chain(m)) /\ Len(Chain(m)) = cp + 1 /\ Chain(m)[cp + 1] = <<>>
          /\ \A c \in 1..cp : Chain(m)[c] = blocks[c]
      BY <1>3, <1>9, <1>10, <2>1 DEF ChainOf
    <3>2. \A c \in 1..cp + 1 : c \in 1..cp \/ c = cp + 1
      BY <1>1
    <3>3. \A c \in 1..cp : c \in DOMAIN ch
      BY <1>1, <1>7
    <3> QED BY <1>8, <3>1, <3>2, <3>3 DEF Shrinks
  <2>2. CASE ahead # <<>>
    <3> DEFINE k == Len(ahead)
    <3>1. /\ DOMAIN Chain(m) = 1..Len(Chain(m)) /\ Len(Chain(m)) = cp + k
          /\ \A c \in 1..cp : Chain(m)[c] = blocks[c]
          /\ \A i \in 1..k : Chain(m)[cp + i] = ahead[i]
      BY <1>3, <1>9, <1>10, <2>2 DEF ChainOf
    <3>2. k = shared - cp
      BY <1>4
    <3> HIDE DEF k
    <3> SUFFICES ASSUME NEW c \in 1..cp + k PROVE c \in DOMAIN ch /\ Chain(m)[c] = ch[c]
      BY <3>1 DEF Shrinks
    <3>3. CASE c \in 1..cp
      BY <1>1, <1>7, <1>8, <3>1, <3>3
    <3>4. CASE c \notin 1..cp
      <4> DEFINE i == c - cp
      <4>1. i \in 1..k /\ cp + i = c /\ c \in 1..l
        BY <1>1, <1>2, <3>2, <3>4
      <4> HIDE DEF i
      <4>2. Chain(m)[c] = ahead[i] /\ ahead[i] = node.blocks[c]
        BY <1>4, <3>1, <3>2, <4>1
      <4>3. c \in 1..Len(ch)
        BY <1>1, <1>7, <4>1
      <4> QED BY <1>7, <4>1, <4>2, <4>3
    <3> QED BY <3>3, <3>4
  <2> QED BY <2>1, <2>2
<1>12. NodeOK(m) /\ Recorded(m.log, Chain(m))
  <2>1. cp <= Len(blocks)
    BY <1>1, <1>3
  <2> QED BY <1>1, <1>3, <1>6, <1>9, <1>11, <2>1, RebuiltIsOK DEF ch
<1> QED BY <1>11, <1>12 DEF NodeInv, m, ch

LEMMA AdoptedIsOK ==
    ASSUME NEW E, Events(E), node \in Nodes(E), node.cp <= Len(node.blocks), NodeInv, Adopt
    PROVE  NodeInv' /\ Recorded(node'.log, Chain(node')) /\ Shrinks(Chain(node'), Chain(node))
<1> DEFINE all == node.blocks \o node.ahead
           blocks == Append(all, <<>>)
           cp == Len(blocks)
           l == Len(node.blocks)
           k == Len(node.ahead)
           ch == Chain(node)
           m == node'
<1>1. node.blocks \in Seq(Seq(E)) /\ node.ahead \in Seq(Seq(E)) /\ <<>> \in Seq(E) /\ l \in Nat /\ k \in Nat
  BY DEF Nodes
<1>2. /\ all \in Seq(Seq(E)) /\ Len(all) = l + k
      /\ \A c \in 1..l : all[c] = node.blocks[c]
      /\ \A i \in 1..k : all[l + i] = node.ahead[i]
  <2> DEFINE s == node.blocks
             u == node.ahead
  <2>1. s \in Seq(Seq(E)) /\ u \in Seq(Seq(E))
    BY <1>1
  <2> HIDE DEF s, u
  <2>2. /\ s \o u \in Seq(Seq(E)) /\ Len(s \o u) = Len(s) + Len(u)
        /\ \A i \in 1..Len(s) : (s \o u)[i] = s[i]
        /\ \A i \in 1..Len(u) : (s \o u)[Len(s) + i] = u[i]
    BY <2>1, ConcatIs
  <2> QED BY <2>2 DEF s, u
<1>3. m = Reloaded(blocks, Len(blocks))
  BY DEF Adopt
<1>4. ChainOf(E, node) /\ ChainOK(ch) /\ NodeOK(node)
  BY ChainIs DEF NodeInv, NodeOK
<1> HIDE DEF all
<1>5. /\ blocks \in Seq(Seq(E)) /\ cp = (l + k) + 1 /\ cp \in Nat
      /\ \A c \in 1..l + k : blocks[c] = all[c]
      /\ blocks[cp] = <<>>
  <2> DEFINE none == <<>>
  <2>1. none \in Seq(E) /\ blocks = Append(all, none)
    BY <1>1
  <2> HIDE DEF none, blocks, cp, l, k
  <2>2. /\ blocks \in Seq(Seq(E)) /\ Len(blocks) = Len(all) + 1 /\ Len(all) \in Nat
        /\ \A i \in 1..Len(all) : blocks[i] = all[i]
        /\ blocks[Len(all) + 1] = none
    BY <1>2, <2>1, AppendHas
  <2>3. Len(all) = l + k /\ cp = Len(all) + 1
    BY <1>2, <2>2 DEF cp, l, k
  <2>4. blocks[cp] = <<>>
    BY <2>2, <2>3 DEF none
  <2>5. \A c \in 1..l + k : blocks[c] = all[c]
    BY <2>2, <2>3
  <2> QED BY <1>1, <2>2, <2>3, <2>4, <2>5
<1>6. /\ DOMAIN ch = 1..Len(ch) /\ Len(ch) \in Nat /\ l + k <= Len(ch)
      /\ \A c \in 1..l + k : ch[c] = all[c]
  <2>1. \A c \in 1..l : ch[c] = node.blocks[c]
    BY <1>4 DEF ChainOf
  <2>2. node.ahead # <<>> => \A i \in 1..k : ch[l + i] = node.ahead[i]
    BY <1>4 DEF ChainOf
  <2>3. DOMAIN ch = 1..Len(ch) /\ Len(ch) \in Nat
    BY <1>4 DEF ChainOf
  <2>4. IF node.ahead = <<>> THEN Len(ch) = l + 1 ELSE Len(ch) = l + k
    BY <1>4 DEF ChainOf
  <2>5. node.ahead = <<>> => k = 0
    OBVIOUS
  <2> HIDE DEF l, k, ch
  <2>6. l + k <= Len(ch)
    BY <1>1, <2>4, <2>5
  <2>7. ASSUME NEW c \in 1..l + k PROVE ch[c] = all[c]
    <3>1. CASE c \in 1..l
      BY <1>2, <2>1, <3>1
    <3>2. CASE c \notin 1..l
      <4> DEFINE i == c - l
      <4>1. i \in 1..k /\ l + i = c /\ k # 0
        BY <1>1, <3>2
      <4> HIDE DEF i
      <4> QED BY <1>2, <2>2, <2>5, <4>1
    <3> QED BY <3>1, <3>2
  <2> QED BY <2>3, <2>6, <2>7
<1> HIDE DEF blocks, l, k, ch
<1>7. ChainOK(blocks)
  <2>1. Shrinks(blocks, ch)
    <3> SUFFICES ASSUME NEW c \in DOMAIN blocks PROVE blocks[c] = <<>> \/ (c \in DOMAIN ch /\ blocks[c] = ch[c])
      BY DEF Shrinks
    <3>1. c \in 1..l + k \/ c = cp
      BY <1>1, <1>5
    <3>2. 1..l + k \subseteq DOMAIN ch
      BY <1>1, <1>6
    <3> QED BY <1>5, <1>6, <3>1, <3>2
  <2> QED BY <1>4, <2>1, ShrinksOK
<1>8. cp <= Len(blocks) /\ Len(blocks) <= Len(blocks) /\ \A c \in 1..Len(blocks) : blocks[c] = blocks[c]
  BY <1>5
<1>9. m \in Nodes(E) /\ m.blocks = blocks
  BY <1>3, <1>5, <1>8, ReloadedHas
<1>10. m.open = <<>> /\ m.ahead = <<>>
  <2>1. LET r == Reloaded(blocks, cp) IN
        /\ r.open = <<>> /\ Fits(r.log, r.seq, blocks, Len(blocks)) /\ Recorded(r.log, blocks)
        /\ r.ahead = <<>>
    BY <1>5, <1>7, <1>8, ReloadedFits
  <2> QED BY <1>3, <2>1
<1>11. ChainOf(E, m)
  BY <1>9, ChainIs
<1> HIDE DEF m
<1>12. /\ DOMAIN Chain(m) = 1..Len(Chain(m)) /\ Len(Chain(m)) = cp + 1 /\ Chain(m)[cp + 1] = <<>>
       /\ \A c \in 1..cp : Chain(m)[c] = blocks[c]
  BY <1>9, <1>10, <1>11 DEF ChainOf
<1>13. Shrinks(Chain(m), ch)
  <2> SUFFICES ASSUME NEW c \in 1..cp + 1
               PROVE  Chain(m)[c] = <<>> \/ (c \in DOMAIN ch /\ Chain(m)[c] = ch[c])
    BY <1>12 DEF Shrinks
  <2>1. c \in 1..l + k \/ (c = cp /\ c \in 1..cp) \/ c = cp + 1
    <3> HIDE DEF cp
    <3> QED BY <1>1, <1>5
  <2>2. CASE c \in 1..l + k
    <3>1. c \in 1..cp /\ c \in DOMAIN ch
      <4> HIDE DEF cp
      <4> QED BY <1>1, <1>5, <1>6, <2>2
    <3> QED BY <1>5, <1>6, <1>12, <2>2, <3>1
  <2>3. CASE c = cp /\ c \in 1..cp
    BY <1>5, <1>12, <2>3
  <2>4. CASE c = cp + 1
    BY <1>12, <2>4
  <2> QED BY <2>1, <2>2, <2>3, <2>4
<1>14. NodeOK(m) /\ Recorded(m.log, Chain(m))
  <2> HIDE DEF cp
  <2>1. m.log = Reloaded(blocks, cp).log /\ m.seq = Reloaded(blocks, cp).seq
    BY <1>3 DEF cp
  <2> QED BY <1>4, <1>5, <1>8, <1>9, <1>10, <1>13, <2>1, RebuiltIsOK DEF ch
<1> QED BY <1>13, <1>14 DEF NodeInv, m, ch

LEMMA PulledIsOK ==
    ASSUME NEW E, Events(E), node \in Nodes(E), node.cp <= Len(node.blocks), NodeInv, Pull
    PROVE  /\ NodeInv' /\ Shrinks(Chain(node'), Chain(node)) /\ Top(node) <= Top(node')
           /\ \E block \in DOMAIN Chain(node), t \in Nat :
                 LET es == Chain(node)[block] IN
                 /\ block = Top(node) + 1 /\ node'.seq = node.seq + Len(es)
                 /\ Extends(node.log, node'.log, node.seq, block, es, t)
<1> DEFINE l == Len(node.blocks)
           k == Len(node.ahead)
           ch == Chain(node)
           m == node'
           block == l + 1
           es == Head(node.ahead)
           a == Absorbed(node, block, es)
           blocks == Append(node.blocks, es)
           ahead == Tail(node.ahead)
<1>1. /\ node.blocks \in Seq(Seq(E)) /\ node.ahead \in Seq(Seq(E)) /\ node.ahead # <<>>
      /\ l \in Nat /\ k \in Nat /\ k > 0 /\ block \in Nat
  BY DEF Nodes, Pull
<1>2. es \in Seq(E) /\ ahead \in Seq(Seq(E)) /\ es = node.ahead[1]
      /\ Len(ahead) = k - 1 /\ \A i \in 1..k - 1 : ahead[i] = node.ahead[i + 1]
  BY <1>1
<1>3. m \in Nodes(E)
  BY PullIs
<1>4. ChainOf(E, node) /\ ChainOf(E, m)
  BY <1>3, ChainIs
<1>5. /\ ch \in Seq(Seq(E)) /\ DOMAIN ch = 1..Len(ch) /\ Len(ch) = l + k /\ Top(node) = l
      /\ \A c \in 1..l : ch[c] = node.blocks[c]
      /\ \A i \in 1..k : ch[l + i] = node.ahead[i]
  BY <1>1, <1>4 DEF ChainOf
<1>6. NodeOK(node) /\ ChainOK(ch) /\ Fits(node.log, node.seq, ch, l) /\ node.open = <<>>
  BY <1>1, <1>5 DEF NodeInv, NodeOK
<1>n. l \in Nat /\ k \in Nat /\ k > 0
  BY <1>1
<1>7. block \in DOMAIN ch /\ ch[block] = es
  <2> HIDE DEF ch, es, k, l
  <2>1. 1 \in 1..k /\ l + 1 \in 1..l + k
    BY <1>n
  <2> QED BY <1>2, <1>5, <2>1
<1>8. m = [a EXCEPT !.blocks = Append(@, es), !.ahead = Tail(@)]
  BY DEF Pull, OpenBlock
<1> HIDE DEF es, ch, l
<1>9. /\ a \in Nodes(E) /\ Fits(a.log, a.seq, ch, block)
      /\ a.blocks = node.blocks /\ a.open = node.open /\ a.ahead = node.ahead
      /\ a.seq = node.seq + Len(es)
      /\ \E t \in Nat : Extends(node.log, a.log, node.seq, block, es, t)
  <2> DEFINE b == block
  <2> HIDE DEF b, a
  <2>1. LET x == Absorbed(node, b, ch[b]) IN
        /\ x \in Nodes(E) /\ Fits(x.log, x.seq, ch, b)
        /\ Recorded(node.log, ch) => Recorded(x.log, ch)
        /\ x.blocks = node.blocks /\ x.open = node.open /\ x.cp = node.cp /\ x.ahead = node.ahead
        /\ x.seq = node.seq + Len(ch[b])
        /\ \E t \in Nat : Extends(node.log, x.log, node.seq, b, ch[b], t)
    <3>1. b = l + 1 /\ b \in DOMAIN ch /\ l \in Nat
      BY <1>1, <1>7 DEF b
    <3> QED BY <1>5, <1>6, <3>1, NextAbsorbed
  <2> QED BY <1>7, <2>1 DEF a, b
<1> HIDE DEF a
<1>10. /\ m.blocks = blocks /\ m.ahead = ahead /\ m.open = <<>> /\ m.log = a.log /\ m.seq = a.seq
  BY <1>6, <1>8, <1>9 DEF Nodes
<1>11. /\ blocks \in Seq(Seq(E)) /\ Len(blocks) = block /\ blocks[block] = es
       /\ \A c \in 1..l : blocks[c] = node.blocks[c]
  <2> DEFINE s == node.blocks
  <2>1. s \in Seq(Seq(E)) /\ es \in Seq(E) /\ Len(s) = l
    BY <1>1, <1>2 DEF l
  <2> HIDE DEF s
  <2>2. /\ Append(s, es) \in Seq(Seq(E)) /\ Len(Append(s, es)) = Len(s) + 1 /\ Len(s) \in Nat
        /\ \A i \in 1..Len(s) : Append(s, es)[i] = s[i]
        /\ Append(s, es)[Len(s) + 1] = es
    BY <2>1, AppendHas
  <2> QED BY <2>1, <2>2 DEF s
<1> HIDE DEF blocks, ahead, m
<1>12. \A c \in 1..block : ch[c] = blocks[c]
  <2> SUFFICES ASSUME NEW c \in 1..block PROVE ch[c] = blocks[c]
    OBVIOUS
  <2>1. CASE c = block
    BY <1>7, <1>11, <2>1
  <2>2. CASE c # block
    <3>1. c \in 1..l
      BY <1>1, <2>2
    <3> QED BY <1>5, <1>11, <3>1
  <2> QED BY <2>1, <2>2
<1>13. /\ DOMAIN Chain(m) = 1..Len(Chain(m)) /\ \A c \in 1..block : Chain(m)[c] = blocks[c]
       /\ Top(m) \in Nat /\ block <= Top(m)
  BY <1>4, <1>10, <1>11 DEF ChainOf
<1>14. /\ Shrinks(Chain(m), ch)
       /\ \A c \in DOMAIN Chain(m) : block < c /\ c <= Top(m) => Chain(m)[c] = <<>>
  <2>1. CASE ahead = <<>>
    <3>1. Len(Chain(m)) = block + 1 /\ Chain(m)[block + 1] = <<>> /\ Top(m) = block + 1
      BY <1>4, <1>10, <1>11, <2>1 DEF ChainOf
    <3>2. \A c \in 1..block + 1 : (c \in 1..block /\ c \in DOMAIN ch /\ ~(block < c)) \/ c = block + 1
      BY <1>1, <1>5
    <3> HIDE DEF block
    <3>3. \A c \in DOMAIN Chain(m) : (c \in 1..block /\ c \in DOMAIN ch /\ ~(block < c)) \/ c = block + 1
      BY <1>13, <3>1, <3>2
    <3> QED BY <1>12, <1>13, <3>1, <3>3 DEF Shrinks
  <2>2. CASE ahead # <<>>
    <3>1. Len(Chain(m)) = block + (k - 1) /\ Top(m) = block
      BY <1>2, <1>4, <1>10, <1>11, <2>2 DEF ChainOf
    <3>2. \A i \in 1..k - 1 : Chain(m)[block + i] = ahead[i]
      BY <1>2, <1>4, <1>10, <1>11, <2>2 DEF ChainOf
    <3>3. ASSUME NEW c \in DOMAIN Chain(m) PROVE c \in DOMAIN ch /\ Chain(m)[c] = ch[c]
      <4>1. c \in 1..l + k
        <5> HIDE DEF k
        <5> QED BY <1>n, <1>13, <3>1
      <4>2. CASE c \in 1..block
        BY <1>5, <1>12, <1>13, <4>1, <4>2
      <4>3. CASE c \notin 1..block
        <5> DEFINE i == c - block
        <5>1. i \in 1..k - 1 /\ block + i = c /\ i + 1 \in 1..k /\ l + (i + 1) = c
          <6> HIDE DEF k
          <6> QED BY <1>n, <4>1, <4>3
        <5>2. Chain(m)[c] = ahead[i] /\ ahead[i] = node.ahead[i + 1]
          <6> HIDE DEF i, block
          <6> QED BY <1>2, <3>2, <5>1
        <5>3. ch[c] = node.ahead[i + 1]
          <6> DEFINE j == i + 1
          <6>1. j \in 1..k /\ l + j = c
            BY <5>1
          <6> HIDE DEF j
          <6>2. ch[c] = node.ahead[j]
            BY <1>5, <6>1
          <6> QED BY <6>2 DEF j
        <5> QED BY <1>5, <4>1, <5>2, <5>3
      <4> QED BY <4>2, <4>3
    <3>4. \A c \in DOMAIN Chain(m) : ~(block < c /\ c <= Top(m))
      <4>1. \A c \in DOMAIN Chain(m) : c \in Int
        BY <1>13
      <4> QED BY <1>1, <3>1, <4>1
    <3> QED BY <3>3, <3>4 DEF Shrinks
  <2> QED BY <2>1, <2>2
<1>15. Fits(m.log, m.seq, Chain(m), Top(m))
  <2> DEFINE b == block
  <2>1. b \in Nat /\ b <= Top(m) /\ Top(m) \in Nat /\ DOMAIN Chain(m) \subseteq Nat
    BY <1>1, <1>13
  <2>2. m.log \in Seq(Entry(E)) /\ Fits(m.log, m.seq, ch, b)
    BY <1>3, <1>9, <1>10 DEF Nodes, m
  <2>3. \A c \in DOMAIN Chain(m) : b < c /\ c <= Top(m) => Chain(m)[c] = <<>>
    BY <1>14
  <2> HIDE DEF b
  <2> QED BY <1>14, <2>1, <2>2, <2>3, FitsShrunk
<1>16. NodeOK(m)
  <2>1. ChainOK(Chain(m))
    BY <1>6, <1>14, ShrinksOK
  <2> QED BY <1>10, <1>15, <2>1 DEF NodeOK
<1>17. Top(node) <= Top(m)
  BY <1>1, <1>5, <1>13
<1>18. \E b \in DOMAIN Chain(node), t \in Nat :
           LET xs == Chain(node)[b] IN
           /\ b = Top(node) + 1 /\ m.seq = node.seq + Len(xs)
           /\ Extends(node.log, m.log, node.seq, b, xs, t)
  <2>1. PICK t \in Nat : Extends(node.log, a.log, node.seq, block, es, t)
    BY <1>9
  <2>2. /\ block = Top(node) + 1 /\ m.seq = node.seq + Len(ch[block])
        /\ Extends(node.log, m.log, node.seq, block, ch[block], t)
    BY <1>5, <1>7, <1>9, <1>10, <2>1
  <2> HIDE DEF block
  <2> QED BY <1>7, <2>2 DEF ch
<1> QED BY <1>14, <1>16, <1>17, <1>18 DEF NodeInv, m, ch

LEMMA EmittedIsOK ==
    ASSUME NEW E, Events(E), node \in Nodes(E), NodeInv, NEW e \in E, Emits(e),
           NEW F, node \in Nodes(F), \A x \in F : x.id < e.id
    PROVE  /\ NodeInv' /\ Gains(Chain(node'), Chain(node), e) /\ Top(node') = Top(node)
           /\ Top(node) = Len(Chain(node))
           /\ node'.seq = node.seq + 1
           /\ \E t \in Nat : Extends(node.log, node'.log, node.seq, Top(node), <<e>>, t)
<1> DEFINE l == Len(node.blocks)
           ch == Chain(node)
           m == node'
           block == l + 1
           es == <<e>>
           a == Absorbed(node, block, es)
           new == Chain(m)
<1>1. node.ahead = <<>> /\ l \in Nat /\ es \in Seq(E) /\ Len(es) = 1 /\ es[1] = e /\ DOMAIN es = 1..1
  BY DEF Emits, Nodes
<1>2. m \in Nodes(E) /\ m.blocks = node.blocks
  BY EmitsIs
<1>3. ChainOf(E, node) /\ ChainOf(E, m) /\ ChainOf(F, node)
  BY <1>2, ChainIs
<1>4. /\ ch \in Seq(Seq(E)) /\ ch \in Seq(Seq(F)) /\ DOMAIN ch = 1..block /\ Len(ch) = block /\ Top(node) = block
      /\ \A c \in 1..l : ch[c] = node.blocks[c]
      /\ ch[block] = node.open
  BY <1>1, <1>3 DEF ChainOf
<1>5. m = [a EXCEPT !.open = IF OffRecord(e) THEN @ ELSE Append(@, e)]
  BY DEF Emits, OpenBlock
<1> HIDE DEF es, block
<1>6. block \in Nat /\ block > 0
  BY <1>1 DEF block
<1>7. a \in Nodes(E) /\ Absorbs(a, node, block, es)
  BY <1>1, <1>6, AbsorbedIs, AbsorbedLog
<1> HIDE DEF a
<1>8. /\ m.ahead = <<>> /\ m.log = a.log /\ m.seq = node.seq + 1
      /\ m.open = node.open \/ m.open = Append(node.open, e)
  BY <1>1, <1>5, <1>7 DEF Nodes, Absorbs
<1>9. PICK t \in Nat : Extends(node.log, m.log, node.seq, block, es, t)
  BY <1>7, <1>8 DEF Absorbs
<1> HIDE DEF ch, m
<1>10. /\ new \in Seq(Seq(E)) /\ DOMAIN new = 1..block /\ Len(new) = block /\ Top(m) = block
       /\ \A c \in 1..l : new[c] = ch[c]
       /\ new[block] = m.open
  BY <1>2, <1>3, <1>4, <1>8 DEF ChainOf, block
<1>11. Gains(new, ch, e)
  <2>1. \A c \in 1..block : c \in 1..l \/ c = block
    BY <1>1 DEF block
  <2> HIDE DEF new
  <2> QED BY <1>4, <1>8, <1>10, <2>1 DEF Gains
<1> HIDE DEF new
<1>12. \A c \in DOMAIN new : \A p \in DOMAIN new[c] :
           /\ c \in DOMAIN ch
           /\ \/ p \in DOMAIN ch[c] /\ new[c][p] = ch[c][p]
              \/ c = block /\ p = Len(ch[c]) + 1 /\ new[c][p] = e
  BY <1>4, <1>11, GainsIs
<1>13. NodeOK(node) /\ ChainOK(ch) /\ Fits(node.log, node.seq, ch, block)
  BY <1>4 DEF NodeInv, NodeOK, ch
<1>14. /\ \A c \in DOMAIN ch : ch[c] \in Seq(F)
       /\ \A c \in DOMAIN ch : \A p \in DOMAIN ch[c] : ch[c][p] \in F
       /\ \A j \in DOMAIN node.log : node.log[j].ev \in F
  <2>1. \A c \in DOMAIN ch : ch[c] \in Seq(F)
    BY <1>4
  <2>2. node.log \in Seq(Entry(F))
    BY DEF Nodes
  <2>3. \A j \in DOMAIN node.log : node.log[j] \in Entry(F)
    BY <2>2
  <2> QED BY <2>1, <2>3 DEF Entry
<1>15. /\ \A c \in DOMAIN ch : \A p \in DOMAIN ch[c] : ch[c][p].id < e.id
       /\ \A j \in DOMAIN node.log : node.log[j].ev.id < e.id
  BY <1>14
<1>16. ChainOK(new)
  <2> SUFFICES ASSUME NEW c \in DOMAIN new, NEW d \in DOMAIN new, NEW p \in DOMAIN new[c], NEW q \in DOMAIN new[d],
                      c < d \/ (c = d /\ p < q)
               PROVE  new[c][p].id < new[d][q].id
    BY DEF ChainOK
  <2>1. CASE q \in DOMAIN ch[d] /\ new[d][q] = ch[d][q]
    <3>1. p \in DOMAIN ch[c] /\ new[c][p] = ch[c][p] /\ c \in DOMAIN ch /\ d \in DOMAIN ch
      <4>1. c \in DOMAIN ch /\ d \in DOMAIN ch
        BY <1>12
      <4>2. ASSUME c = block, p = Len(ch[c]) + 1 PROVE FALSE
        <5>1. d \in 1..block /\ c = d
          BY <1>4, <1>6, <4>1, <4>2
        <5>2. ch[d] \in Seq(F) /\ q \in 1..Len(ch[d]) /\ Len(ch[d]) \in Nat
          BY <1>14, <2>1, <4>1
        <5> QED BY <4>2, <5>1, <5>2
      <4> QED BY <1>12, <4>1, <4>2
    <3> QED BY <1>13, <2>1, <3>1 DEF ChainOK
  <2>2. CASE d = block /\ q = Len(ch[d]) + 1 /\ new[d][q] = e
    <3>1. c \in DOMAIN ch /\ d \in DOMAIN ch
      BY <1>12
    <3>2. CASE p \in DOMAIN ch[c] /\ new[c][p] = ch[c][p]
      BY <1>15, <2>2, <3>1, <3>2
    <3>3. CASE c = block /\ p = Len(ch[c]) + 1
      <4>1. ch[d] \in Seq(F) /\ Len(ch[d]) \in Nat
        BY <1>14, <3>1
      <4> QED BY <1>6, <2>2, <3>3, <4>1
    <3> QED BY <1>12, <3>2, <3>3
  <2> QED BY <1>12, <2>1, <2>2
<1>17. /\ LogOK(node.log, node.seq) /\ Agree(node.log, ch) /\ Whole(node.log, ch, block)
       /\ \A j \in DOMAIN node.log : node.log[j].block \in 1..block
  BY <1>13 DEF Fits
<1>18. node.log \in Seq(Entry(E)) /\ m.log \in Seq(Entry(E)) /\ node.seq \in Nat
  BY <1>2 DEF Nodes
<1>19. LogOK(m.log, m.seq)
  <2>1. \A p, q \in DOMAIN es : p < q => es[p].id < es[q].id
    BY <1>1
  <2>2. \A j \in DOMAIN node.log : node.log[j].block <= block
    BY <1>6, <1>17
  <2>3. \A j \in DOMAIN node.log, p \in DOMAIN es : node.log[j].ev.id < es[p].id
    BY <1>1, <1>15
  <2>4. LogOK(m.log, node.seq + Len(es))
    BY <1>1, <1>6, <1>9, <1>17, <1>18, <2>1, <2>2, <2>3, ExtendsInOrder
  <2> QED BY <1>1, <1>8, <2>4
<1>20. Agree(m.log, new)
  <2>1. Agree(node.log, new)
    <3> SUFFICES ASSUME NEW j \in DOMAIN node.log, NEW c \in DOMAIN new, NEW p \in DOMAIN new[c]
                 PROVE  /\ c < node.log[j].block => new[c][p].id < node.log[j].ev.id
                        /\ node.log[j].block < c => node.log[j].ev.id < new[c][p].id
      BY DEF Agree
    <3>1. CASE p \in DOMAIN ch[c] /\ new[c][p] = ch[c][p]
      BY <1>12, <1>17, <3>1 DEF Agree
    <3>2. CASE c = block /\ new[c][p] = e
      <4>1. ~(c < node.log[j].block)
        BY <1>6, <1>17, <3>2
      <4> QED BY <1>15, <3>2, <4>1
    <3> QED BY <1>12, <3>1, <3>2
  <2>2. Between(es, block, new)
    <3> SUFFICES ASSUME NEW q \in 1..Len(es), NEW c \in DOMAIN new, NEW p \in DOMAIN new[c]
                 PROVE  /\ c < block => new[c][p].id < es[q].id
                        /\ block < c => es[q].id < new[c][p].id
      BY DEF Between
    <3>1. es[q] = e /\ ~(block < c)
      BY <1>1, <1>6, <1>10
    <3>2. c < block => new[c][p].id < e.id
      BY <1>6, <1>12, <1>15
    <3> QED BY <3>1, <3>2
  <2> QED BY <1>1, <1>9, <1>18, <2>1, <2>2, AgreeAfter
<1>21. Whole(m.log, new, block)
  <2>1. Covers(node.log, new, block, es)
    <3> SUFFICES ASSUME NEW c \in DOMAIN new, NEW p \in DOMAIN new[c], c <= block,
                        IF Len(node.log) = 0 THEN c = block
                        ELSE node.log[1].block < c \/ (node.log[1].block = c /\ Len(node.log) < LogCap)
                 PROVE  \/ \E j \in DOMAIN node.log : node.log[j].block = c /\ node.log[j].ev.id = new[c][p].id
                        \/ c = block /\ \E q \in 1..Len(es) : es[q].id = new[c][p].id
      BY DEF Covers
    <3>1. CASE c = block /\ new[c][p] = e
      BY <1>1, <3>1
    <3>2. CASE p \in DOMAIN ch[c] /\ new[c][p] = ch[c][p]
      <4>1. Len(node.log) \in Nat
        BY <1>18
      <4>2. CASE Len(node.log) = 0
        <5>1. node.log = <<>>
          BY <1>18, <4>2
        <5>2. node.open = <<>>
          BY <1>13, <5>1 DEF NodeOK
        <5>3. DOMAIN ch[c] = {}
          BY <1>4, <4>2, <5>2
        <5> QED BY <3>2, <5>3
      <4>3. CASE Len(node.log) # 0
        <5>1. 0 < Len(node.log) /\ c \in DOMAIN ch
          BY <1>12, <4>1, <4>3
        <5> QED BY <1>17, <3>2, <4>3, <5>1 DEF Whole
      <4> QED BY <4>2, <4>3
    <3> QED BY <1>12, <3>1, <3>2
  <2>2. Grows(node.log)
    BY <1>17 DEF LogOK
  <2> QED BY <1>1, <1>6, <1>9, <1>10, <1>18, <2>1, <2>2, WholeAfter
<1>22. Moves(node.log, m.log, block, es, t)
  BY <1>1, <1>9, <1>18, ExtendsMoves
<1>23. \A j \in DOMAIN m.log : m.log[j].block \in 1..block
  <2>1. \A j \in DOMAIN m.log : m.log[j].block = block \/ \E i \in DOMAIN node.log : m.log[j] = node.log[i]
    BY <1>22 DEF Moves
  <2>2. block \in 1..block
    BY <1>6
  <2> QED BY <1>17, <2>1, <2>2
<1>24. m.log # <<>>
  <2>1. Len(m.log) > 0
    BY <1>1, <1>22 DEF Moves
  <2> QED BY <2>1
<1>25. NodeOK(m)
  BY <1>8, <1>10, <1>16, <1>19, <1>20, <1>21, <1>23, <1>24 DEF NodeOK, Fits, new
<1> QED BY <1>4, <1>8, <1>9, <1>10, <1>11, <1>25 DEF NodeInv, m, ch, new, es

-----------------------------------------------------------------------------
(* What a reader knows, when the log absorbs a block. *)

\* What was acted on of what the log absorbs is below the place of the cursor.
Below(c, old, block, es, A) ==
    \A q \in 1..Len(es) : es[q].id \in A =>
       /\ \A j \in DOMAIN old : old[j].block < block
       /\ block < c.block \/ (block = c.block /\ (q <= c.in \/ LogCap <= c.in))

LEMMA CountOfNew ==
    ASSUME NEW old, NEW new, NEW block \in Nat, NEW es, NEW t, Moves(old, new, block, es, t),
           \A j \in DOMAIN old : old[j].block < block,
           NEW lo \in Nat \ {0}, NEW i \in 1..Len(new), t + i > Len(old)
    PROVE  /\ Count(new, block, lo, i) <= (t + i) - Len(old)
           /\ Count(new, block, lo, i) <= LogCap /\ Count(new, block, lo, i) \in Nat
<1> DEFINE l == Len(old)
           m == Len(new)
           S == {k \in lo..i : new[k].block = block}
           from == (l - t) + 1
<1>1. /\ l \in Nat /\ m \in Nat /\ t \in Nat /\ m <= LogCap /\ LogCap \in Nat /\ i \in Nat /\ i <= m
      /\ \A k \in 1..m : t + k <= l => t + k \in DOMAIN old /\ new[k] = old[t + k]
      /\ \A j \in DOMAIN old : old[j].block # block
  <2>1. /\ l \in Nat /\ m \in Nat /\ t \in Nat /\ m <= LogCap /\ LogCap \in Nat
        /\ \A k \in 1..m : t + k <= l => t + k \in 1..l /\ new[k] = old[t + k]
        /\ DOMAIN old = 1..l
    BY DEF Moves
  <2>2. \A j \in DOMAIN old : old[j].block # block
    OBVIOUS
  <2> QED BY <2>1, <2>2
<1> HIDE DEF l, m
<1>2. ASSUME NEW k \in S PROVE k \in from..i /\ k \in 1..i
  <2>1. k \in 1..m /\ new[k].block = block /\ k <= i
    BY <1>1
  <2>2. ~(t + k <= l)
    BY <1>1, <2>1
  <2> QED BY <1>1, <2>1, <2>2
<1>3. from \in Int /\ from <= i /\ (i - from) + 1 = (t + i) - l
  BY <1>1 DEF l
<1>4. IsFiniteSet(from..i) /\ Cardinality(from..i) = (t + i) - l /\ IsFiniteSet(1..i) /\ Cardinality(1..i) = i
  <2> HIDE DEF from
  <2>0. from \in Int /\ i \in Int /\ 1 \in Int
    BY <1>1, <1>3
  <2>1. IsFiniteSet(from..i) /\ Cardinality(from..i) = IF from > i THEN 0 ELSE i - from + 1
    BY <2>0, FS_Interval
  <2>2. IsFiniteSet(1..i) /\ Cardinality(1..i) = IF 1 > i THEN 0 ELSE i - 1 + 1
    BY <2>0, FS_Interval
  <2> QED BY <1>1, <1>3, <2>1, <2>2
<1>5. S \subseteq from..i /\ S \subseteq 1..i
  <2> HIDE DEF S
  <2> QED BY <1>2
<1> HIDE DEF from
<1>6. Cardinality(S) <= (t + i) - l /\ Cardinality(S) <= i /\ Cardinality(S) \in Nat
  <2> HIDE DEF S
  <2> QED BY <1>4, <1>5, FS_Subset, FS_CardinalityType
<1>7. Count(new, block, lo, i) = Cardinality(S)
  BY DEF Count
<1> HIDE DEF S
<1> QED BY <1>1, <1>6, <1>7 DEF l

LEMMA KnowsMore ==
    ASSUME NEW old, NEW new, NEW block \in Nat, NEW es, NEW t, Moves(old, new, block, es, t),
           NEW c, CursorOK(c), NEW A, Knows(c, old, A), Below(c, old, block, es, A)
    PROVE  Knows(c, new, A)
<1> DEFINE l == Len(old)
           m == Len(new)
           b == c.block
<1>1. /\ l \in Nat /\ m \in Nat /\ t \in Nat /\ DOMAIN old = 1..l /\ DOMAIN new = 1..m /\ LogCap \in Nat
      /\ \A i \in 1..m :
          IF t + i <= l THEN t + i \in 1..l /\ new[i] = old[t + i]
          ELSE /\ (t + i) - l \in 1..Len(es)
               /\ new[i].block = block /\ new[i].ev = es[(t + i) - l]
  BY DEF Moves
<1>2. c.in \in Nat /\ b \in Nat
  BY DEF CursorOK
<1> HIDE DEF l, m, b
<1> SUFFICES ASSUME NEW j \in 1..m, new[j].ev.id \in A
             PROVE  new[j].block < b \/ (new[j].block = b /\ Count(new, b, 1, j) <= c.in)
  BY <1>1 DEF Knows, b
<1>3. CASE t + j <= l
  <2>1. t + j \in 1..l /\ new[j] = old[t + j]
    BY <1>1, <1>3
  <2>2. old[t + j].block < b \/ (old[t + j].block = b /\ Count(old, b, 1, t + j) <= c.in)
    BY <1>1, <2>1 DEF Knows, b
  <2>3. Count(new, b, 1, j) <= Count(old, b, 1, t + j)
    <3> DEFINE top == t + j
    <3>1. \A k \in 1..j : k + t \in 1..top /\ new[k] = old[k + t]
      BY <1>1, <1>3
    <3>2. top \in Nat /\ j \in Nat /\ t \in Int
      BY <1>1
    <3> HIDE DEF top
    <3>3. Count(new, b, 1, j) <= Count(old, b, 1, top)
      BY <3>1, <3>2, CountShift
    <3> QED BY <3>3 DEF top
  <2>4. Count(new, b, 1, j) \in Nat /\ Count(old, b, 1, t + j) \in Nat
    <3> DEFINE top == t + j
    <3>1. top \in Nat /\ j \in Nat
      BY <1>1
    <3> HIDE DEF top
    <3>2. Count(new, b, 1, j) \in Nat /\ Count(old, b, 1, top) \in Nat
      BY <3>1, CountIs
    <3> QED BY <3>2 DEF top
  <2> QED BY <1>2, <2>1, <2>2, <2>3, <2>4
<1>4. CASE ~(t + j <= l)
  <2> DEFINE q == (t + j) - l
  <2>1. q \in 1..Len(es) /\ new[j].block = block /\ es[q].id \in A /\ t + j > l
    BY <1>1, <1>4
  <2> HIDE DEF q
  <2>2. /\ \A k \in DOMAIN old : old[k].block < block
        /\ block < b \/ (block = b /\ (q <= c.in \/ LogCap <= c.in))
    BY <2>1 DEF Below, b
  <2>3. Count(new, block, 1, j) <= q /\ Count(new, block, 1, j) <= LogCap /\ Count(new, block, 1, j) \in Nat
    BY <2>1, <2>2, CountOfNew DEF q, l, m
  <2>4. q \in Nat
    BY <1>1, <2>1 DEF q
  <2> QED BY <1>1, <1>2, <2>1, <2>2, <2>3, <2>4
<1> QED BY <1>3, <1>4

LEMMA FollowsMore ==
    ASSUME NEW old, NEW new, NEW block \in Nat, NEW es, NEW t, Moves(old, new, block, es, t),
           NEW c, CursorOK(c), NEW A, NEW d \in Nat, d <= Len(old), Follows(c, old, d, A),
           Below(c, old, block, es, A),
           \A q \in 1..Len(es) : es[q].id \in A => c.floor # NoFloor /\ c.floorSeen = 0,
           c.floor = NoFloor => c.block <= block,
           NEW d2, d2 = IF d <= t THEN 0 ELSE d - t
    PROVE  Follows(c, new, d2, A)
<1> DEFINE l == Len(old)
           m == Len(new)
           b == c.block
<1>1. /\ l \in Nat /\ m \in Nat /\ t \in Nat /\ DOMAIN old = 1..l /\ DOMAIN new = 1..m /\ LogCap \in Nat
      /\ \A i \in 1..m :
          IF t + i <= l THEN t + i \in 1..l /\ new[i] = old[t + i]
          ELSE /\ (t + i) - l \in 1..Len(es)
               /\ new[i].block = block /\ new[i].ev = es[(t + i) - l]
      /\ \A j \in 1..l : j > t => j - t \in 1..m /\ new[j - t] = old[j]
  BY DEF Moves
<1>2. c.in \in Nat /\ b \in Nat /\ c.floorSeen \in Nat
  BY DEF CursorOK
<1>3. d \in Nat /\ d <= l /\ d2 \in Nat /\ (d2 = 0 \/ d2 + t = d) /\ d <= d2 + t
  BY <1>1
<1>4. /\ \A k \in 1..d : old[k].block <= b
      /\ c.floor = NoFloor =>
            /\ Count(old, b, 1, d) <= c.in
            /\ \A j \in d + 1..l : old[j].block >= b /\ old[j].ev.id \notin A
      /\ c.floor # NoFloor =>
            /\ Count(old, b, 1, d) <= c.floorSeen /\ c.floorSeen <= c.in
            /\ \A j \in d + 1..l : old[j].ev.id \in A =>
                  \/ old[j].block < b
                  \/ old[j].block = b /\ Count(old, b, d + 1, j) <= c.in - c.floorSeen
  BY DEF Follows
<1> HIDE DEF l, m, b
<1>5. \A k \in 1..d2 : k + t \in 1..d /\ new[k] = old[k + t]
  <2> SUFFICES ASSUME NEW k \in 1..d2 PROVE k + t \in 1..d /\ new[k] = old[k + t]
    OBVIOUS
  <2>1. k + t \in 1..d /\ k + t \in 1..l /\ k + t > t /\ (k + t) - t = k
    BY <1>1, <1>3
  <2> QED BY <1>1, <2>1
<1>6. \A k \in 1..d2 : new[k].block <= b
  BY <1>4, <1>5
<1>7. Count(new, b, 1, d2) <= Count(old, b, 1, d) /\ Count(new, b, 1, d2) \in Nat /\ Count(old, b, 1, d) \in Nat
  <2>1. \A k \in 1..d2 : new[k].block = b => k + t \in 1..d /\ old[k + t].block = b
    BY <1>5
  <2>2. t \in Int
    BY <1>1
  <2> QED BY <1>3, <2>1, <2>2, CountShift, CountIs
\* An entry of what is left is an old one, not read either, or a new one.
<1>8. ASSUME NEW j \in d2 + 1..m
      PROVE  \/ t + j \in d + 1..l /\ new[j] = old[t + j]
             \/ /\ (t + j) - l \in 1..Len(es) /\ t + j > l /\ j \in 1..m
                /\ new[j].block = block /\ new[j].ev = es[(t + j) - l]
  <2>1. j \in 1..m /\ t + j >= d + 1
    BY <1>1, <1>3
  <2> QED BY <1>1, <2>1
<1>9. ASSUME c.floor = NoFloor, NEW j \in d2 + 1..m
      PROVE  new[j].block >= b /\ new[j].ev.id \notin A
  <2>1. CASE t + j \in d + 1..l /\ new[j] = old[t + j]
    BY <1>4, <1>9, <2>1
  <2>2. CASE /\ (t + j) - l \in 1..Len(es)
             /\ new[j].block = block /\ new[j].ev = es[(t + j) - l]
    <3>1. b <= block
      BY <1>9 DEF b
    <3> QED BY <1>2, <1>9, <2>2, <3>1
  <2> QED BY <1>8, <2>1, <2>2
<1>10. ASSUME c.floor # NoFloor, NEW j \in d2 + 1..m, new[j].ev.id \in A
       PROVE  \/ new[j].block < b
              \/ new[j].block = b /\ Count(new, b, d2 + 1, j) <= c.in - c.floorSeen
  <2> DEFINE lo == d2 + 1
             from == d + 1
             to == t + j
  <2>0. lo \in Nat \ {0} /\ from \in Nat /\ j \in Nat /\ to \in Nat
    BY <1>1, <1>3
  <2>1. CASE t + j \in d + 1..l /\ new[j] = old[t + j]
    <3>1. \/ old[t + j].block < b
          \/ old[t + j].block = b /\ Count(old, b, from, to) <= c.in - c.floorSeen
      BY <1>4, <1>10, <2>1
    <3>2. \A k \in lo..j : k + t \in from..to /\ new[k] = old[k + t]
      <4> SUFFICES ASSUME NEW k \in lo..j PROVE k + t \in from..to /\ new[k] = old[k + t]
        OBVIOUS
      <4>1. k + t \in from..to /\ k + t \in 1..l /\ k + t > t /\ (k + t) - t = k
        BY <1>1, <1>3, <2>1
      <4> QED BY <1>1, <4>1
    <3> HIDE DEF lo, from, to
    <3>3. Count(new, b, lo, j) <= Count(old, b, from, to)
      <4>1. t \in Int
        BY <1>1
      <4> QED BY <2>0, <3>2, <4>1, CountShift
    <3>4. Count(new, b, lo, j) \in Nat /\ Count(old, b, from, to) \in Nat
      BY <2>0, CountIs
    <3>5. Count(old, b, from, to) <= c.in - c.floorSeen => Count(new, b, lo, j) <= c.in - c.floorSeen
      BY <1>2, <3>3, <3>4
    <3> QED BY <2>1, <3>1, <3>5 DEF lo
  <2>2. CASE /\ (t + j) - l \in 1..Len(es) /\ t + j > l /\ j \in 1..m
             /\ new[j].block = block /\ new[j].ev = es[(t + j) - l]
    <3> DEFINE q == (t + j) - l
    <3>1. q \in 1..Len(es) /\ es[q].id \in A
      BY <1>10, <2>2
    <3>2. q \in Nat
      BY <1>1, <2>2
    <3> HIDE DEF q, lo
    <3>3. /\ \A k \in DOMAIN old : old[k].block < block
          /\ block < b \/ (block = b /\ (q <= c.in \/ LogCap <= c.in))
          /\ c.floorSeen = 0
      BY <3>1 DEF Below, b
    <3>4. Count(new, block, lo, j) <= q /\ Count(new, block, lo, j) <= LogCap /\ Count(new, block, lo, j) \in Nat
      BY <2>0, <2>2, <3>3, CountOfNew DEF q, l, m
    <3>5. Count(new, block, lo, j) <= c.in \/ block < b
      BY <1>1, <1>2, <3>2, <3>3, <3>4
    <3> QED BY <1>2, <2>2, <3>3, <3>5 DEF lo
  <2> QED BY <1>8, <2>1, <2>2
<1>11. c.floor = NoFloor => Count(new, b, 1, d2) <= c.in
  BY <1>2, <1>4, <1>7
<1>12. c.floor # NoFloor => Count(new, b, 1, d2) <= c.floorSeen /\ c.floorSeen <= c.in
  BY <1>2, <1>4, <1>7
<1> QED BY <1>6, <1>9, <1>10, <1>11, <1>12 DEF Follows, b, m

\* A log that was built again has of a block no more than is on record.
LEMMA KnowsReloaded ==
    ASSUME NEW E, Events(E), NEW log \in Seq(Entry(E)), Grows(log), Len(log) <= LogCap,
           NEW ch \in Seq(Seq(E)), ChainOK(ch), Recorded(log, ch),
           NEW c, CursorOK(c), NEW A, Past(c, ch, A)
    PROVE  Knows(c, log, A)
<1> SUFFICES ASSUME NEW j \in DOMAIN log, log[j].ev.id \in A
             PROVE  log[j].block < c.block \/ (log[j].block = c.block /\ Count(log, c.block, 1, j) <= c.in)
  BY DEF Knows
<1> DEFINE b == log[j].block
           S == {k \in 1..j : log[k].block = b}
           At(k) == CHOOSE q \in DOMAIN ch[b] : log[k].ev = ch[b][q]
<1>1. b \in DOMAIN ch /\ j \in Nat /\ Len(log) \in Nat /\ j <= Len(log) /\ DOMAIN log = 1..Len(log)
  BY DEF Recorded
<1>2. PICK p \in DOMAIN ch[b] : log[j].ev = ch[b][p]
  BY DEF Recorded
<1>3. b <= c.block /\ (b = c.block => p <= c.in \/ LogCap <= c.in)
  BY <1>1, <1>2 DEF Past
<1>4. b \in Nat /\ c.block \in Nat /\ c.in \in Nat /\ LogCap \in Nat /\ p \in Nat /\ ch[b] \in Seq(E)
      /\ DOMAIN ch[b] = 1..Len(ch[b])
  <2>1. ch[b] \in Seq(E) /\ b \in Nat
    <3>1. DOMAIN ch = 1..Len(ch)
      OBVIOUS
    <3> HIDE DEF b
    <3> QED BY <1>1, <3>1
  <2>2. LogCap \in Nat /\ c.block \in Nat /\ c.in \in Nat
    BY CatAssumption DEF CursorOK, CatAssumption
  <2> HIDE DEF b
  <2>3. DOMAIN ch[b] = 1..Len(ch[b])
    BY <2>1
  <2> QED BY <1>2, <2>1, <2>2, <2>3
<1>5. \A k \in S : At(k) \in DOMAIN ch[b] /\ log[k].ev = ch[b][At(k)]
  <2> SUFFICES ASSUME NEW k \in S PROVE At(k) \in DOMAIN ch[b] /\ log[k].ev = ch[b][At(k)]
    OBVIOUS
  <2>1. k \in DOMAIN log /\ log[k].block = b
    BY <1>1
  <2>2. \E q \in DOMAIN ch[b] : log[k].ev = ch[b][q]
    BY <2>1 DEF Recorded
  <2> QED BY <2>2
<1>6. \A i, k \in S : i < k => log[i].ev.id < log[k].ev.id
  <2>1. \A i \in S : i \in DOMAIN log
    BY <1>1
  <2> HIDE DEF S
  <2> QED BY <2>1 DEF Grows
<1>7. \A q \in DOMAIN ch[b] : ch[b][q].id \in Nat
  BY <1>4 DEF Events
<1>8. \A q, r \in DOMAIN ch[b] : q < r => ch[b][q].id < ch[b][r].id
  BY <1>1 DEF ChainOK
<1>9. j \in S /\ S \subseteq 1..j
  BY <1>1
<1> HIDE DEF S, At, b
<1>10. \A k \in S : At(k) \in 1..p
  <2> SUFFICES ASSUME NEW k \in S PROVE At(k) \in 1..p
    OBVIOUS
  <2>1. At(k) \in DOMAIN ch[b] /\ log[k].ev = ch[b][At(k)] /\ k \in 1..j
    BY <1>5, <1>9
  <2>2. k < j \/ k = j
    BY <1>1, <2>1
  <2>3. log[k].ev.id <= log[j].ev.id
    <3>1. log[k].ev.id \in Nat /\ log[j].ev.id \in Nat
      BY <1>2, <1>7, <2>1
    <3> QED BY <1>6, <1>9, <2>2, <3>1
  <2>4. ~(p < At(k))
    <3>1. p < At(k) => ch[b][p].id < ch[b][At(k)].id
      BY <1>2, <1>8, <2>1
    <3>2. ch[b][p].id \in Nat /\ ch[b][At(k)].id \in Nat
      BY <1>2, <1>7, <2>1
    <3> QED BY <1>2, <2>1, <2>3, <3>1, <3>2
  <2> QED BY <1>4, <2>1, <2>4
<1>11. \A i, k \in S : At(i) = At(k) => i = k
  <2> SUFFICES ASSUME NEW i \in S, NEW k \in S, At(i) = At(k) PROVE i = k
    OBVIOUS
  <2>1. log[i].ev = log[k].ev /\ log[i].ev.id \in Nat
    BY <1>5, <1>7
  <2>2. ~(i < k) /\ ~(k < i)
    BY <1>6, <2>1
  <2> QED BY <1>1, <1>9, <2>2
<1>12. Cardinality(S) <= p
  <2> DEFINE f == [k \in S |-> At(k)]
  <2>1. f \in Injection(S, 1..p)
    BY <1>10, <1>11 DEF Injection, IsInjective
  <2>2. IsFiniteSet(1..p) /\ Cardinality(1..p) = p
    <3>1. 1 \in Int /\ p \in Int
      BY <1>4
    <3>2. IsFiniteSet(1..p) /\ Cardinality(1..p) = IF 1 > p THEN 0 ELSE p - 1 + 1
      BY <3>1, FS_Interval
    <3> QED BY <1>4, <3>2
  <2> HIDE DEF f
  <2> QED BY <2>1, <2>2, FS_Injection
<1>13. Count(log, b, 1, j) = Cardinality(S) /\ Count(log, b, 1, j) <= j /\ Count(log, b, 1, j) \in Nat
  BY <1>1, CountAtMost, CountIs DEF Count, S
<1> QED BY <1>1, <1>3, <1>4, <1>12, <1>13 DEF b

-----------------------------------------------------------------------------
(* What becomes of a reader's cursor, while it waits. *)

\* Of less there is less to know.
LEMMA ReaderLess ==
    ASSUME NEW n, NEW c, NEW A, NEW B, B \subseteq A, NEW how, ReaderOK(n, c, A, how)
    PROVE  ReaderOK(n, c, B, how)
<1>1. Past(c, Chain(n), B)
  BY DEF ReaderOK, Past
<1>2. Knows(c, n.log, B)
  BY DEF ReaderOK, Knows
<1>3. Follows(c, n.log, Read(n, c.seq), A) => Follows(c, n.log, Read(n, c.seq), B)
  BY DEF Follows
<1> QED BY <1>1, <1>2, <1>3 DEF ReaderOK, Tracks

LEMMA PastShrunk ==
    ASSUME NEW ch2, NEW ch, Shrinks(ch2, ch), NEW c, NEW A, Past(c, ch, A)
    PROVE  Past(c, ch2, A)
<1>1. \A d \in DOMAIN ch2 : \A p \in DOMAIN ch2[d] : d \in DOMAIN ch /\ ch2[d] = ch[d]
  BY DEF Shrinks
<1> QED BY <1>1 DEF Past

\* A block is sealed: the log is the same.
LEMMA ReaderSealed ==
    ASSUME NEW n, NEW m, m.log = n.log, m.seq = n.seq, Shrinks(Chain(m), Chain(n)),
           Top(n) \in Nat, Top(m) \in Nat, Top(n) <= Top(m),
           NEW c, CursorOK(c), NEW A, NEW how, ReaderOK(n, c, A, how)
    PROVE  ReaderOK(m, c, A, how)
<1>1. Past(c, Chain(m), A)
  BY PastShrunk DEF ReaderOK
<1>2. Read(m, c.seq) = Read(n, c.seq)
  BY DEF Read
<1>3. Tracks(n, c, A) => Tracks(m, c, A)
  BY <1>2 DEF Tracks, CursorOK
<1> QED BY <1>1, <1>3 DEF ReaderOK

\* The log is built again, from a record that has no more.
LEMMA ReaderRebuilt ==
    ASSUME NEW E, Events(E), NEW m \in Nodes(E), NodeOK(m), Recorded(m.log, Chain(m)),
           NEW n, Shrinks(Chain(m), Chain(n)),
           NEW c, CursorOK(c), NEW A, NEW how, ReaderOK(n, c, A, how)
    PROVE  ReaderOK(m, c, A, "rebuilt")
<1>1. Past(c, Chain(m), A)
  BY PastShrunk DEF ReaderOK
<1>2. /\ Chain(m) \in Seq(Seq(E)) /\ ChainOK(Chain(m)) /\ Grows(m.log) /\ Len(m.log) <= LogCap
      /\ m.log \in Seq(Entry(E))
  <2>1. ChainOf(E, m)
    BY ChainIs
  <2> QED BY <2>1 DEF ChainOf, NodeOK, Fits, LogOK, Nodes
<1>3. Knows(c, m.log, A)
  BY <1>1, <1>2, KnowsReloaded
<1> QED BY <1>1, <1>3 DEF ReaderOK

\* The log absorbs what it has not held since it was built.
LEMMA ReaderAbsorbs ==
    ASSUME NEW E, NEW n \in Nodes(E), NEW m \in Nodes(E), LogOK(n.log, n.seq),
           Top(n) \in Nat, Top(m) \in Nat, Top(n) <= Top(m),
           NEW block \in Nat, Top(n) <= block, NEW es \in Seq(E), m.seq = n.seq + Len(es),
           NEW t \in Nat, Extends(n.log, m.log, n.seq, block, es, t),
           NEW c, CursorOK(c), NEW A, NEW how, ReaderOK(n, c, A, how),
           Past(c, Chain(m), A), Below(c, n.log, block, es, A),
           Tracks(n, c, A) => \A q \in 1..Len(es) : es[q].id \in A => c.floor # NoFloor /\ c.floorSeen = 0
    PROVE  ReaderOK(m, c, A, how)
<1> DEFINE old == n.log
           new == m.log
           d == Read(n, c.seq)
           d2 == Read(m, c.seq)
<1>1. Moves(old, new, block, es, t)
  <2>1. old \in Seq(Entry(E)) /\ new \in Seq(Entry(E))
    BY DEF Nodes
  <2> QED BY <2>1, ExtendsMoves
<1>2. Knows(c, new, A)
  BY <1>1, KnowsMore DEF ReaderOK
<1>3. ASSUME Tracks(n, c, A) PROVE Tracks(m, c, A)
  <2>1. /\ c.seq \in Nat /\ c.block \in Nat /\ n.seq \in Nat /\ Len(old) \in Nat /\ Len(old) <= n.seq
        /\ Len(es) \in Nat /\ c.seq <= n.seq /\ Len(new) = (Len(old) + Len(es)) - t
    BY <1>1, <1>3 DEF Moves, CursorOK, LogOK, Nodes, Tracks
  <2>2. d \in Nat /\ d <= Len(old) /\ d2 = IF d <= t THEN 0 ELSE d - t
    <3> DEFINE l == Len(old)
               base == n.seq - l
               s == c.seq
    <3>1. d = (IF s <= base THEN 0 ELSE s - base) /\ base + l = n.seq
      BY <2>1 DEF Read
    <3>2. d2 = IF s <= m.seq - Len(new) THEN 0 ELSE s - (m.seq - Len(new))
      BY DEF Read
    <3>3. m.seq - Len(new) = base + t
      <4> DEFINE a == m.seq
                 b == n.seq
                 k == Len(es)
                 w == Len(new)
      <4>1. a = b + k /\ a \in Nat /\ b \in Nat /\ k \in Nat /\ l \in Nat /\ w = (l + k) - t
        BY <2>1
      <4> HIDE DEF a, b, k, w, l
      <4>2. a - w = (b - l) + t
        BY <4>1
      <4> QED BY <4>2 DEF a, b, w
    <3>4. s \in Nat /\ base \in Int /\ l \in Nat /\ s <= n.seq /\ t \in Nat
      BY <2>1
    <3> HIDE DEF d, d2, l, base, s, new
    <3>5. d2 = IF s <= base + t THEN 0 ELSE s - (base + t)
      BY <3>2, <3>3
    <3> QED BY <3>1, <3>4, <3>5 DEF l
  <2>3. Follows(c, old, d, A)
    BY <1>3 DEF Tracks
  <2>4. /\ c.floor = NoFloor => c.block <= block
        /\ c.floor = NoFloor \/ c.floorSeen > 0 => c.block <= Top(m)
    BY <1>3, <2>1 DEF Tracks
  <2>5. \A q \in 1..Len(es) : es[q].id \in A => c.floor # NoFloor /\ c.floorSeen = 0
    BY <1>3
  <2>51. Below(c, old, block, es, A)
    OBVIOUS
  <2> HIDE DEF d, d2, old, new
  <2>6. Follows(c, new, d2, A)
    BY <1>1, <2>2, <2>3, <2>4, <2>5, <2>51, FollowsMore
  <2>7. c.seq <= m.seq
    BY <2>1
  <2> QED BY <2>4, <2>6, <2>7 DEF Tracks, new, d2
<1> QED BY <1>2, <1>3 DEF ReaderOK

LEMMA ReaderPulled ==
    ASSUME NEW E, NEW n \in Nodes(E), NEW m \in Nodes(E), NodeOK(n),
           Shrinks(Chain(m), Chain(n)), Top(n) <= Top(m),
           NEW block \in DOMAIN Chain(n), block = Top(n) + 1, m.seq = n.seq + Len(Chain(n)[block]),
           NEW t \in Nat, Extends(n.log, m.log, n.seq, block, Chain(n)[block], t),
           NEW c, CursorOK(c), NEW A, NEW how, ReaderOK(n, c, A, how)
    PROVE  ReaderOK(m, c, A, how)
<1> DEFINE es == Chain(n)[block]
<1>1. ChainOf(E, n) /\ ChainOf(E, m)
  BY ChainIs
<1>2. Top(n) \in Nat /\ Top(m) \in Nat /\ block \in Nat /\ es \in Seq(E)
  <2> DEFINE ch == Chain(n)
  <2>1. Top(n) \in Nat /\ Top(m) \in Nat /\ ch \in Seq(Seq(E)) /\ block \in DOMAIN ch
    BY <1>1 DEF ChainOf
  <2> HIDE DEF ch
  <2>2. block \in Nat /\ ch[block] \in Seq(E)
    <3>1. DOMAIN ch = 1..Len(ch) /\ \A b \in DOMAIN ch : ch[b] \in Seq(E)
      BY <2>1
    <3> QED BY <2>1, <3>1
  <2> QED BY <2>1, <2>2 DEF ch
<1>3. Past(c, Chain(n), A) /\ Past(c, Chain(m), A)
  BY PastShrunk DEF ReaderOK
<1>4. DOMAIN es = 1..Len(es)
  <2> HIDE DEF es
  <2> QED BY <1>2
<1>5. ASSUME NEW q \in 1..Len(es), es[q].id \in A
      PROVE  block <= c.block /\ (block = c.block => q <= c.in \/ LogCap <= c.in)
  BY <1>3, <1>4, <1>5 DEF Past
<1>6. LogOK(n.log, n.seq) /\ \A j \in DOMAIN n.log : n.log[j].block \in 1..Top(n)
  BY DEF NodeOK, Fits
<1>7. c.block \in Nat /\ c.floorSeen \in Nat
  BY DEF CursorOK
<1>8. m.seq = n.seq + Len(es) /\ Extends(n.log, m.log, n.seq, block, es, t)
  OBVIOUS
<1> HIDE DEF es
<1>9. Below(c, n.log, block, es, A)
  <2>1. \A j \in DOMAIN n.log : n.log[j].block < block
    BY <1>2, <1>6
  <2> QED BY <1>2, <1>5, <1>7, <2>1 DEF Below
<1>10. Tracks(n, c, A) => \A q \in 1..Len(es) : es[q].id \in A => c.floor # NoFloor /\ c.floorSeen = 0
  BY <1>2, <1>5, <1>7 DEF Tracks
<1>11. Top(n) <= block
  BY <1>2
<1> QED BY <1>2, <1>3, <1>6, <1>8, <1>9, <1>10, <1>11, ReaderAbsorbs

LEMMA ReaderEmitted ==
    ASSUME NEW E, NEW n \in Nodes(E), NEW m \in Nodes(E), NodeOK(n), NEW e \in E,
           Gains(Chain(m), Chain(n), e), Top(m) = Top(n), m.seq = n.seq + 1,
           NEW t \in Nat, Extends(n.log, m.log, n.seq, Top(n), <<e>>, t),
           NEW c, CursorOK(c), NEW A, e.id \notin A, NEW how, ReaderOK(n, c, A, how)
    PROVE  ReaderOK(m, c, A, how)
<1> DEFINE es == <<e>>
<1>1. ChainOf(E, n) /\ ChainOf(E, m)
  BY ChainIs
<1>2. Top(n) \in Nat /\ Chain(n) \in Seq(Seq(E)) /\ Len(es) = 1 /\ es \in Seq(E) /\ es[1] = e
  <2>1. Top(n) \in Nat /\ Chain(n) \in Seq(Seq(E))
    BY <1>1 DEF ChainOf
  <2>2. Len(es) = 1 /\ es \in Seq(E) /\ es[1] = e
    OBVIOUS
  <2> QED BY <2>1, <2>2
<1>3. Past(c, Chain(m), A)
  <2>1. \A d \in DOMAIN Chain(m) : \A p \in DOMAIN Chain(m)[d] :
              /\ d \in DOMAIN Chain(n)
              /\ \/ p \in DOMAIN Chain(n)[d] /\ Chain(m)[d][p] = Chain(n)[d][p]
                 \/ d = Len(Chain(n)) /\ p = Len(Chain(n)[d]) + 1 /\ Chain(m)[d][p] = e
    BY <1>2, GainsIs
  <2> QED BY <2>1 DEF ReaderOK, Past
<1>4. LogOK(n.log, n.seq)
  BY DEF NodeOK, Fits
<1>5. m.seq = n.seq + Len(es) /\ Extends(n.log, m.log, n.seq, Top(n), es, t)
  BY <1>2
<1> HIDE DEF es
<1>6. \A q \in 1..Len(es) : es[q].id \notin A
  BY <1>2
<1>7. Below(c, n.log, Top(n), es, A)
  BY <1>6 DEF Below
<1>8. Top(n) <= Top(m)
  BY <1>2
<1> DEFINE top == Top(n)
<1>9. /\ top \in Nat /\ Top(n) <= top /\ Extends(n.log, m.log, n.seq, top, es, t)
      /\ Below(c, n.log, top, es, A)
  BY <1>2, <1>5, <1>7, <1>8
<1> HIDE DEF top
<1> QED BY <1>2, <1>3, <1>4, <1>5, <1>6, <1>8, <1>9, ReaderAbsorbs

-----------------------------------------------------------------------------
(* What becomes of a reader's cursor, when it looks. *)

\* Read from the start of a log, a cursor follows it.
LEMMA ReaderFromStart ==
    ASSUME NEW E, NEW n \in Nodes(E), LogOK(n.log, n.seq), Top(n) \in Nat,
           NEW c, CursorOK(c), c.seq = 0, NEW A, NEW how, ReaderOK(n, c, A, how), NEW h
    PROVE  ReaderOK(n, c, A, h)
<1> DEFINE log == n.log
<1>1. /\ Len(log) \in Nat /\ n.seq \in Nat /\ Len(log) <= n.seq /\ c.block \in Nat /\ c.in \in Nat
      /\ c.floorSeen = 0 /\ (c.floor = NoFloor => A = {} /\ c.block = 0)
  BY DEF LogOK, Nodes, CursorOK, ReaderOK
<1>2. \A j \in DOMAIN log : log[j].block \in Nat /\ j \in 1..Len(log)
  <2>1. log \in Seq(Entry(E))
    BY DEF Nodes
  <2> HIDE DEF log
  <2>2. \A j \in DOMAIN log : log[j] \in Entry(E) /\ j \in 1..Len(log)
    BY <2>1
  <2> QED BY <2>2 DEF Entry
<1>3. Knows(c, log, A)
  BY DEF ReaderOK
<1>4. Read(n, c.seq) = 0
  BY <1>1 DEF Read
<1>5. Count(log, c.block, 1, 0) = 0
  <2>1. \A k \in 1..0 : log[k].block # c.block
    OBVIOUS
  <2> QED BY <2>1, CountNone
<1> DEFINE l == Len(log)
<1>6. l \in Nat /\ DOMAIN log = 1..l
  <2>1. log \in Seq(Entry(E))
    BY DEF Nodes
  <2> HIDE DEF log
  <2> QED BY <2>1
<1> HIDE DEF log
<1>7. Follows(c, log, 0, A)
  <2>1. \A k \in 1..0 : log[k].block <= c.block
    OBVIOUS
  <2>2. c.floor = NoFloor => /\ Count(log, c.block, 1, 0) <= c.in
                             /\ \A j \in 0 + 1..Len(log) : log[j].block >= c.block /\ log[j].ev.id \notin A
    BY <1>1, <1>2, <1>5, <1>6
  <2>3. ASSUME NEW j \in 0 + 1..Len(log), log[j].ev.id \in A
        PROVE  log[j].block < c.block
               \/ (log[j].block = c.block /\ Count(log, c.block, 0 + 1, j) <= c.in - c.floorSeen)
    <3>1. j \in DOMAIN log /\ 0 + 1 = 1 /\ c.in - c.floorSeen = c.in
      BY <1>1, <1>6
    <3> QED BY <1>3, <2>3, <3>1 DEF Knows
  <2> QED BY <1>1, <1>5, <2>1, <2>2, <2>3 DEF Follows
<1>8. Tracks(n, c, A)
  BY <1>1, <1>4, <1>7 DEF Tracks, log
<1> QED BY <1>8 DEF ReaderOK

\* A head behind the cursor makes it read the log from the start.
LEMMA CheckedIs ==
    ASSUME NEW c, CursorOK(c), NEW head
    PROVE  LET e == Checked(c, head) IN
           /\ CursorOK(e) /\ e.block = c.block /\ e.in = c.in
           /\ IF head >= c.seq THEN e = c
              ELSE e.seq = 0 /\ e.floorSeen = 0 /\ e.floor = <<c.block, c.in>> /\ e.floor # NoFloor
<1> DEFINE r == [c EXCEPT !.seq = 0, !.floor = <<c.block, c.in>>, !.floorSeen = 0]
           f == <<c.block, c.in>>
<1>1. f # NoFloor
  BY DEF NoFloor
<1>2. /\ DOMAIN r = DOMAIN c /\ r.seq = 0 /\ r.floor = f /\ r.floorSeen = 0
      /\ r.block = c.block /\ r.in = c.in
  BY DEF CursorOK
<1>3. Checked(c, head) = IF head >= c.seq THEN c ELSE r
  BY DEF Checked
<1> HIDE DEF r
<1> QED BY <1>1, <1>2, <1>3 DEF CursorOK

LEMMA ReaderChecks ==
    ASSUME NEW E, NEW n \in Nodes(E), LogOK(n.log, n.seq), Top(n) \in Nat,
           NEW c, CursorOK(c), NEW A, NEW how, ReaderOK(n, c, A, how), NEW head
    PROVE  LET e == Checked(c, head) IN CursorOK(e) /\ ReaderOK(n, e, A, how)
<1> DEFINE e == Checked(c, head)
<1>1. /\ CursorOK(e) /\ e.block = c.block /\ e.in = c.in
      /\ IF head >= c.seq THEN e = c
         ELSE e.seq = 0 /\ e.floorSeen = 0 /\ e.floor = <<c.block, c.in>> /\ e.floor # NoFloor
  BY CheckedIs
<1> HIDE DEF e
<1>2. CASE head >= c.seq
  <2>1. e = c
    BY <1>1, <1>2
  <2> QED BY <1>1, <2>1 DEF e
<1>3. CASE ~(head >= c.seq)
  <2>1. Past(e, Chain(n), A) /\ Knows(e, n.log, A)
    BY <1>1 DEF ReaderOK, Past, Knows
  <2>2. ReaderOK(n, e, A, "rebuilt")
    BY <1>1, <1>3, <2>1 DEF ReaderOK
  <2>3. ReaderOK(n, e, A, how)
    BY <1>1, <1>3, <2>2, ReaderFromStart
  <2> QED BY <1>1, <2>3 DEF e
<1> QED BY <1>2, <1>3

\* What there is to read.
Unread(log, seq) == Only(log, {x \in Range(log) : x.seq > seq})

LEMMA UnreadIs ==
    ASSUME NEW E, NEW log \in Seq(Entry(E)), NEW seq \in Nat, LogOK(log, seq),
           NEW s \in Nat, NEW d \in Nat, d <= Len(log),
           \A j \in 1..Len(log) : (seq - Len(log)) + j > s <=> j > d
    PROVE  /\ Len(Unread(log, s)) = Len(log) - d
           /\ \A k \in 1..Len(Unread(log, s)) : Unread(log, s)[k] = log[d + k]
           /\ \A j \in d + 1..Len(log) : log[j].seq > s
<1> DEFINE S == {x \in Range(log) : x.seq > s}
           X == Entry(E)
           l == Len(log)
           b == seq - l
<1>1. l \in Nat /\ DOMAIN log = 1..l
  OBVIOUS
<1>2. \A j \in 1..l : log[j].seq = b + j
  BY <1>1 DEF LogOK
<1>3. \A j \in 1..l : log[j].seq > s <=> j > d
  BY <1>2
<1>4. \A j \in 1..l : log[j] \in S <=> j > d
  <2>1. \A j \in 1..l : log[j] \in Range(log)
    BY <1>1 DEF Range
  <2> QED BY <1>3, <2>1
<1>5. Positions(log, S) = {j \in 1..l : log[j] \in S}
  BY <1>1 DEF Positions
<1> HIDE DEF S, l
<1>6. Positions(log, S) = d + 1..l
  BY <1>1, <1>4, <1>5
<1> HIDE DEF X
<1>7. log \in Seq(X)
  BY DEF X
<1>8. /\ Len(Only(log, S)) = l - d
      /\ \A k \in 1..l - d : Only(log, S)[k] = log[d + k]
  BY <1>6, <1>7, OnlyTheLast DEF l
<1>9. \A j \in d + 1..l : log[j].seq > s
  BY <1>1, <1>3
<1> QED BY <1>8, <1>9 DEF Unread, S, l

\* A batch of nothing.
LEMMA BatchOfNothing ==
    ASSUME NEW c, NEW xs, Len(xs) = 0
    PROVE  Batch(c, xs).cursor = c /\ Batch(c, xs).news = <<>>
<1>1. PICK f : IsBatch(f, c, xs) /\ Batch(c, xs) = f[Len(xs)]
  BY BatchIs
<1>2. f[0] = [cursor |-> c, news |-> <<>>]
  BY <1>1 DEF IsBatch
<1> QED BY <1>1, <1>2

\* As many entries of the last block as there are in the record up to one of
\* them, when the log has dropped none of these.
LEMMA CountOnRecord ==
    ASSUME NEW E, Events(E), NEW log \in Seq(Entry(E)), NEW seq \in Nat, NEW ch \in Seq(Seq(E)), NEW top \in Nat,
           ChainOK(ch), Fits(log, seq, ch, top),
           NEW k \in DOMAIN log, NEW b \in DOMAIN ch, log[k].block = b, NEW p \in DOMAIN ch[b],
           \A j \in DOMAIN log : log[j].block <= b,
           Count(log, b, 1, Len(log)) < LogCap
    PROVE  p <= Count(log, b, 1, Len(log))
<1> DEFINE l == Len(log)
           S == {j \in 1..l : log[j].block = b}
           s == ch[b]
           At(q) == CHOOSE j \in S : log[j].ev.id = s[q].id
<1>1. /\ l \in Nat /\ DOMAIN log = 1..l /\ \A j \in 1..l : log[j] \in Entry(E)
      /\ b \in Nat /\ s \in Seq(E) /\ LogCap \in Nat
  <2>1. l \in Nat /\ DOMAIN log = 1..l /\ \A j \in 1..l : log[j] \in Entry(E)
    OBVIOUS
  <2>2. DOMAIN ch = 1..Len(ch) /\ \A c \in DOMAIN ch : ch[c] \in Seq(E)
    OBVIOUS
  <2>3. b \in Nat /\ s \in Seq(E)
    BY <2>2
  <2> QED BY <2>1, <2>3, CatAssumption DEF CatAssumption
<1>2. DOMAIN s = 1..Len(s) /\ p \in 1..Len(s) /\ Len(s) \in Nat /\ \A q \in 1..Len(s) : s[q].id \in Nat
  <2>1. p \in DOMAIN s
    OBVIOUS
  <2> HIDE DEF s
  <2>2. DOMAIN s = 1..Len(s) /\ Len(s) \in Nat /\ \A q \in 1..Len(s) : s[q] \in E
    BY <1>1
  <2> QED BY <2>1, <2>2 DEF Events
<1>3. b <= top /\ 0 < l /\ k \in 1..l
  <2>1. log[k].block \in 1..top /\ k \in 1..l
    BY <1>1 DEF Fits
  <2> QED BY <1>1, <2>1
<1>4. Grows(log)
  BY DEF Fits, LogOK
<1>5. Count(log, b, 1, l) = Cardinality(S) /\ IsFiniteSet(S) /\ Cardinality(S) \in Nat
  <2>1. IsFiniteSet(1..l)
    BY <1>1, UpToIsFinite
  <2>2. IsFiniteSet(S)
    BY <2>1, FS_Subset
  <2> QED BY <2>2, FS_CardinalityType DEF Count
<1>6. log[1].block < b \/ (log[1].block = b /\ l < LogCap)
  <2>1. 1 \in 1..l /\ log[1].block \in Nat /\ \A j \in 1..l : log[j].block \in Nat
    BY <1>1, <1>3 DEF Entry
  <2>2. log[1].block <= b
    BY <1>1, <2>1
  <2>3. ASSUME log[1].block = b PROVE l < LogCap
    <3>1. ASSUME NEW j \in 1..l PROVE log[j].block = b
      <4>1. 1 < j => log[1].block <= log[j].block
        BY <1>1, <1>4, <2>1 DEF Grows
      <4>2. j \in DOMAIN log /\ j \in Nat
        BY <1>1
      <4>3. log[j].block <= b
        BY <4>2
      <4> QED BY <1>1, <2>1, <2>3, <4>1, <4>2, <4>3
    <3>2. S = 1..l
      BY <3>1
    <3>3. Cardinality(1..l) = l
      <4> HIDE DEF l
      <4>1. 1 \in Int /\ l \in Int
        BY <1>1
      <4>2. Cardinality(1..l) = IF 1 > l THEN 0 ELSE l - 1 + 1
        BY <4>1, FS_Interval
      <4> QED BY <1>3, <1>1, <4>2
    <3> QED BY <1>5, <3>2, <3>3
  <2> QED BY <1>1, <2>1, <2>2, <2>3
<1>7. ASSUME NEW q \in 1..Len(s) PROVE \E j \in S : log[j].ev.id = s[q].id
  <2>1. q \in DOMAIN ch[b]
    BY <1>2
  <2>2. \E j \in DOMAIN log : log[j].block = b /\ log[j].ev.id = ch[b][q].id
    BY <1>3, <1>6, <2>1 DEF Fits, Whole
  <2> QED BY <1>1, <2>2
<1>8. \A q \in 1..Len(s) : At(q) \in S /\ log[At(q)].ev.id = s[q].id
  BY <1>7
<1>9. \A q, r \in 1..Len(s) : q < r => s[q].id < s[r].id
  BY <1>2 DEF ChainOK
<1> HIDE DEF At, S, l, s
<1>10. \A q, r \in 1..Len(s) : At(q) = At(r) => q = r
  <2> SUFFICES ASSUME NEW q \in 1..Len(s), NEW r \in 1..Len(s), At(q) = At(r) PROVE q = r
    OBVIOUS
  <2>1. s[q].id = s[r].id /\ s[q].id \in Nat
    BY <1>2, <1>8
  <2>2. (q < r => s[q].id < s[r].id) /\ (r < q => s[r].id < s[q].id)
    BY <1>9
  <2>3. ~(s[q].id < s[r].id) /\ ~(s[r].id < s[q].id)
    BY <2>1
  <2>4. q \in Nat /\ r \in Nat
    OBVIOUS
  <2> QED BY <2>2, <2>3, <2>4
<1>11. p <= Cardinality(S)
  <2> DEFINE f == [q \in 1..p |-> At(q)]
  <2>1. f \in Injection(1..p, S)
    <3>1. \A q \in 1..p : q \in 1..Len(s)
      BY <1>2
    <3> QED BY <1>8, <1>10, <3>1 DEF Injection, IsInjective
  <2>2. IsFiniteSet(1..p) /\ Cardinality(1..p) = p
    <3>1. 1 \in Int /\ p \in Int /\ 1 <= p
      BY <1>2
    <3>2. IsFiniteSet(1..p) /\ Cardinality(1..p) = IF 1 > p THEN 0 ELSE p - 1 + 1
      BY <3>1, FS_Interval
    <3> QED BY <3>1, <3>2
  <2> HIDE DEF f
  <2> QED BY <1>5, <2>1, <2>2, FS_Injection
<1> QED BY <1>5, <1>11 DEF l

\* What was read of the log is below the place of the cursor, in the log.
LEMMA KnowsRead ==
    ASSUME NEW E, NEW log \in Seq(Entry(E)), NEW e, CursorOK(e), NEW C, Follows(e, log, Len(log), C), NEW A
    PROVE  /\ Knows(e, log, A) /\ \A j \in DOMAIN log : log[j].block <= e.block
           /\ Count(log, e.block, 1, Len(log)) <= e.in /\ Count(log, e.block, 1, Len(log)) \in Nat
<1> DEFINE l == Len(log)
           b == e.block
<1>1. /\ l \in Nat /\ DOMAIN log = 1..l /\ e.in \in Nat /\ b \in Nat /\ e.floorSeen \in Nat
      /\ \A j \in 1..l : log[j].block \in Nat
  <2>1. \A j \in 1..l : log[j] \in Entry(E)
    OBVIOUS
  <2> QED BY <2>1 DEF CursorOK, Entry
<1>2. \A j \in 1..l : log[j].block <= b
  BY DEF Follows
<1>3. Count(log, b, 1, l) \in Nat
  BY <1>1, CountIs
<1>4. Count(log, b, 1, l) <= e.in
  <2>1. CASE e.floor = NoFloor
    BY <2>1 DEF Follows
  <2>2. CASE e.floor # NoFloor
    BY <1>1, <1>3, <2>2 DEF Follows
  <2> QED BY <2>1, <2>2
<1> HIDE DEF b, l
<1>5. ASSUME NEW j \in 1..l, ~(log[j].block < b) PROVE log[j].block = b /\ Count(log, b, 1, j) <= e.in
  <2>1. log[j].block = b
    BY <1>1, <1>2, <1>5
  <2>2. 1 \in Nat /\ j \in Nat /\ l \in Nat /\ 1 <= j + 1 /\ j <= l
    BY <1>1
  <2>3. Count(log, b, 1, l) = Count(log, b, 1, j) + Count(log, b, j + 1, l)
    BY <2>2, CountSplit
  <2>4. Count(log, b, 1, j) \in Nat /\ Count(log, b, j + 1, l) \in Nat
    <3> DEFINE i == j + 1
    <3>1. i \in Nat
      BY <2>2
    <3> HIDE DEF i
    <3>2. Count(log, b, 1, j) \in Nat /\ Count(log, b, i, l) \in Nat
      BY <2>2, <3>1, CountIs
    <3> QED BY <3>2 DEF i
  <2>5. Count(log, b, 1, j) <= e.in
    BY <1>1, <1>4, <2>3, <2>4
  <2> QED BY <2>1, <2>5
<1> QED BY <1>1, <1>2, <1>3, <1>4, <1>5 DEF Knows, b, l

LEMMA PastRead ==
    ASSUME NEW E, Events(E), NEW log \in Seq(Entry(E)), NEW seq \in Nat, NEW ch \in Seq(Seq(E)), NEW top \in Nat,
           ChainOK(ch), Fits(log, seq, ch, top),
           NEW c, CursorOK(c), NEW e, CursorOK(e), NEW A, Past(c, ch, A),
           c.block <= e.block, e.block = c.block => c.in <= e.in,
           NEW B, \A a \in B : \E k \in DOMAIN log : a = log[k].ev.id,
           NEW C, Follows(e, log, Len(log), C)
    PROVE  Past(e, ch, A \cup B)
<1> SUFFICES ASSUME NEW b \in DOMAIN ch, NEW p \in DOMAIN ch[b], ch[b][p].id \in A \cup B
             PROVE  b <= e.block /\ (b = e.block => p <= e.in \/ LogCap <= e.in)
  BY DEF Past
<1>1. /\ b \in Nat /\ ch[b] \in Seq(E) /\ LogCap \in Nat
      /\ c.block \in Nat /\ c.in \in Nat /\ e.block \in Nat /\ e.in \in Nat
  <2>1. DOMAIN ch = 1..Len(ch) /\ \A i \in DOMAIN ch : ch[i] \in Seq(E)
    OBVIOUS
  <2>2. LogCap \in Nat
    BY CatAssumption DEF CatAssumption
  <2> QED BY <2>1, <2>2 DEF CursorOK
<1>2. p \in Nat /\ ch[b][p].id \in Nat
  <2> DEFINE s == ch[b]
  <2>1. s \in Seq(E) /\ p \in DOMAIN s
    BY <1>1
  <2> HIDE DEF s
  <2>2. p \in Nat /\ s[p] \in E
    BY <2>1
  <2> QED BY <2>2 DEF s, Events
<1>3. CASE ch[b][p].id \in A
  <2>1. b <= c.block /\ (b = c.block => p <= c.in \/ LogCap <= c.in)
    BY <1>3 DEF Past
  <2>2. c.block <= e.block /\ (e.block = c.block => c.in <= e.in)
    OBVIOUS
  <2>3. b <= e.block
    BY <1>1, <2>1, <2>2
  <2>4. ASSUME b = e.block PROVE p <= e.in \/ LogCap <= e.in
    <3>1. b = c.block /\ e.block = c.block
      BY <1>1, <2>1, <2>2, <2>4
    <3>2. c.in <= e.in /\ (p <= c.in \/ LogCap <= c.in)
      BY <2>1, <2>2, <3>1
    <3> QED BY <1>1, <1>2, <3>2
  <2> QED BY <2>3, <2>4
<1>4. CASE ch[b][p].id \in B
  <2>1. PICK k \in DOMAIN log : ch[b][p].id = log[k].ev.id
    BY <1>4
  <2>2. log[k].block \in Nat
    <3>1. log[k] \in Entry(E)
      OBVIOUS
    <3> QED BY <3>1 DEF Entry
  <2>3. ~(b < log[k].block) /\ ~(log[k].block < b)
    BY <1>2, <2>1 DEF Fits, Agree
  <2>4. log[k].block = b
    BY <1>1, <2>2, <2>3
  <2>5. /\ \A j \in DOMAIN log : log[j].block <= e.block
        /\ Count(log, e.block, 1, Len(log)) <= e.in /\ Count(log, e.block, 1, Len(log)) \in Nat
    BY KnowsRead
  <2>6. b <= e.block
    BY <2>4, <2>5
  <2>7. ASSUME b = e.block, ~(LogCap <= e.in) PROVE p <= e.in
    <3>1. Count(log, b, 1, Len(log)) < LogCap /\ \A j \in DOMAIN log : log[j].block <= b
      BY <1>1, <2>5, <2>7
    <3>2. p <= Count(log, b, 1, Len(log))
      BY <2>4, <3>1, CountOnRecord
    <3> QED BY <1>1, <1>2, <2>5, <2>7, <3>2
  <2> QED BY <2>6, <2>7
<1> QED BY <1>3, <1>4

\* What a read makes of the cursor: its news are new, in their order, and once.
Takes(E, n, c, A, how, xs) ==
    LET news == Batch(c, xs).news
        e == Batch(c, xs).cursor IN
    /\ CursorOK(e) /\ ReaderOK(n, e, A \cup IdsOf(news), how)
    /\ news \in Seq(Entry(E))
    /\ \A i, j \in DOMAIN news : i < j => news[i].ev.id < news[j].ev.id
    /\ \A i \in DOMAIN news : news[i].ev.id \notin A

\* A log that was not rebuilt, or whose rebuilding is known.
LEMMA ReaderFollows ==
    ASSUME NEW E, Events(E), NEW n \in Nodes(E), NodeOK(n),
           NEW c, CursorOK(c), NEW A, ReaderOK(n, c, A, "followed")
    PROVE  Takes(E, n, c, A, "followed", Unread(n.log, c.seq))
<1> DEFINE log == n.log
           xs == Unread(log, c.seq)
           d == Read(n, c.seq)
           top == Top(n)
           ch == Chain(n)
           news == Batch(c, xs).news
           e == Batch(c, xs).cursor
           B == A \cup IdsOf(news)
           l == Len(log)
           seq == n.seq
<1>1. /\ log \in Seq(Entry(E)) /\ seq \in Nat /\ ch \in Seq(Seq(E)) /\ top \in Nat
      /\ ChainOK(ch) /\ Fits(log, seq, ch, top) /\ LogOK(log, seq) /\ Grows(log)
  <2>1. ChainOf(E, n)
    BY ChainIs
  <2>2. ch \in Seq(Seq(E)) /\ top \in Nat
    BY <2>1 DEF ChainOf
  <2>3. log \in Seq(Entry(E)) /\ seq \in Nat
    BY DEF Nodes
  <2> QED BY <2>2, <2>3 DEF NodeOK, Fits, LogOK
<1>2. Tracks(n, c, A) /\ Past(c, ch, A)
  BY DEF ReaderOK
<1>3. /\ c.seq \in Nat /\ c.block \in Nat /\ c.seq <= seq
      /\ c.floor = NoFloor \/ c.floorSeen > 0 => c.block <= top
      /\ Follows(c, log, d, A)
  BY <1>2 DEF Tracks, CursorOK
<1>4. l \in Nat /\ DOMAIN log = 1..l /\ l <= seq
      /\ \A j \in 1..l : log[j].seq = (seq - l) + j /\ log[j].block <= top
  <2>1. l \in Nat /\ DOMAIN log = 1..l
    <3> HIDE DEF log
    <3> QED BY <1>1
  <2>2. l <= seq /\ \A j \in 1..l : log[j].seq = (seq - l) + j
    BY <1>1, <2>1 DEF LogOK
  <2>3. \A j \in 1..l : log[j].block \in 1..top
    BY <1>1, <2>1 DEF Fits
  <2> QED BY <1>1, <2>1, <2>2, <2>3
<1>5. d = IF c.seq <= seq - l THEN 0 ELSE c.seq - (seq - l)
  BY DEF Read
<1> HIDE DEF d, seq
<1>6. d \in Nat /\ d <= l /\ \A j \in 1..l : (seq - l) + j > c.seq <=> j > d
  <2> HIDE DEF log, l
  <2> QED BY <1>1, <1>3, <1>4, <1>5
<1> HIDE DEF log, top, ch
<1>7. /\ Len(xs) = l - d /\ \A k \in 1..Len(xs) : xs[k] = log[d + k]
      /\ \A j \in d + 1..l : log[j].seq > c.seq
  <2> DEFINE s == c.seq
  <2>1. s \in Nat /\ \A j \in 1..l : (seq - l) + j > s <=> j > d
    BY <1>3, <1>6
  <2>2. xs = Unread(log, s)
    OBVIOUS
  <2> HIDE DEF s, xs
  <2>3. /\ log \in Seq(Entry(E)) /\ seq \in Nat /\ LogOK(log, seq) /\ s \in Nat /\ d \in Nat /\ d <= Len(log)
        /\ \A j \in 1..Len(log) : (seq - Len(log)) + j > s <=> j > d
    BY <1>1, <1>6, <2>1
  <2>4. /\ Len(Unread(log, s)) = Len(log) - d
        /\ \A k \in 1..Len(Unread(log, s)) : Unread(log, s)[k] = log[d + k]
        /\ \A j \in d + 1..Len(log) : log[j].seq > s
    BY <2>3, UnreadIs
  <2> QED BY <2>2, <2>4 DEF s
<1>8. \A i, j \in DOMAIN log : i < j => log[i].seq < log[j].seq
  <2> HIDE DEF l
  <2> QED BY <1>1, <1>4
<1>9. \A j \in 1..Len(log) : log[j].block <= top
  BY <1>4
<1> HIDE DEF xs
<1>10. /\ CursorOK(e) /\ e.seq = IF d < l THEN log[l].seq ELSE c.seq
       /\ Follows(e, log, l, B)
       /\ c.block <= e.block /\ (e.block = c.block => c.in <= e.in)
       /\ e.floor = NoFloor \/ e.floorSeen > 0 => e.block <= top
       /\ d = l => e = c
       /\ news \in Seq(Entry(E))
       /\ \A i, j \in DOMAIN news : i < j => news[i].ev.id < news[j].ev.id
       /\ \A i \in DOMAIN news :
             news[i].ev.id \notin A /\ \E k \in d + 1..l : news[i] = log[k]
  <2>1. log \in Seq(Entry(E)) /\ Grows(log) /\ top \in Nat
    BY <1>1
  <2>2. d \in Nat /\ d <= Len(log) /\ Follows(c, log, d, A)
    BY <1>3, <1>6
  <2>3. /\ Len(xs) = Len(log) - d /\ \A k \in 1..Len(xs) : xs[k] = log[d + k]
        /\ \A j \in d + 1..Len(log) : log[j].seq > c.seq
    BY <1>7
  <2>4. c.floor = NoFloor \/ c.floorSeen > 0 => c.block <= top
    BY <1>3
  <2>5. ReadsTo(E, c, log, d, A, top, e, news)
    BY <1>8, <1>9, <2>1, <2>2, <2>3, <2>4, ReadsAll
  <2> HIDE DEF e, news
  <2> QED BY <2>5 DEF ReadsTo
<1> HIDE DEF e, news
<1>11. \A a \in IdsOf(news) : \E k \in d + 1..l : a = log[k].ev.id
  BY <1>10 DEF IdsOf, Range
<1>12. Past(e, ch, B)
  <2>1. \A a \in IdsOf(news) : \E k \in DOMAIN log : a = log[k].ev.id
    BY <1>4, <1>6, <1>11
  <2> HIDE DEF l
  <2>2. Follows(e, log, Len(log), B)
    BY <1>10 DEF l
  <2> HIDE DEF B
  <2>3. Past(e, ch, A \cup IdsOf(news))
    BY <1>1, <1>2, <1>10, <2>1, <2>2, PastRead
  <2> QED BY <2>3 DEF B
<1>13. Knows(e, log, B)
  BY <1>1, <1>10, KnowsRead
<1> HIDE DEF B, l
<1>14. CASE d = l
  <2>1. e = c
    BY <1>10, <1>14
  <2>2. IdsOf(news) = {}
    <3>1. d + 1..l = {}
      BY <1>4, <1>14
    <3> QED BY <1>11, <3>1
  <2>3. B = A
    BY <2>2 DEF B
  <2>4. ReaderOK(n, e, B, "followed")
    BY <2>1, <2>3
  <2> QED BY <1>10, <2>4 DEF Takes, e, news, B, xs, log
<1>15. CASE d # l
  <2>1. d < l /\ l > 0 /\ e.seq = log[l].seq /\ log[l].seq = (seq - l) + l
    BY <1>4, <1>6, <1>10, <1>15
  <2>2. e.seq = seq /\ seq > 0
    BY <1>1, <1>4, <2>1
  <2>3. Read(n, e.seq) = l
    <3>1. Read(n, e.seq) = IF e.seq <= seq - l THEN 0 ELSE e.seq - (seq - l)
      BY DEF Read, seq, l, log
    <3> QED BY <1>1, <1>4, <2>1, <2>2, <3>1
  <2>4. Tracks(n, e, B)
    BY <1>1, <1>10, <2>2, <2>3 DEF Tracks, seq, log, top
  <2>5. ReaderOK(n, e, B, "followed")
    BY <1>1, <1>12, <1>13, <2>2, <2>4 DEF ReaderOK, log, ch
  <2> QED BY <1>10, <2>5 DEF Takes, e, news, B, xs, log
<1> QED BY <1>14, <1>15

\* A rebuilt log that has not grown past the cursor has nothing for it.
LEMMA ReaderWaits ==
    ASSUME NEW E, NEW n \in Nodes(E), NodeOK(n),
           NEW c, CursorOK(c), n.seq <= c.seq, NEW A, NEW how, ReaderOK(n, c, A, how)
    PROVE  Takes(E, n, c, A, how, Unread(n.log, c.seq))
<1> DEFINE log == n.log
           seq == n.seq
           s == c.seq
           xs == Unread(log, s)
           l == Len(log)
<1>1. log \in Seq(Entry(E)) /\ seq \in Nat /\ LogOK(log, seq) /\ s \in Nat /\ seq <= s
  BY DEF Nodes, NodeOK, Fits, CursorOK
<1> HIDE DEF log, seq, s
<1>2. l \in Nat /\ l <= l /\ l - l = 0
  BY <1>1
<1> HIDE DEF l
<1>3. \A j \in 1..l : (seq - l) + j > s <=> j > l
  BY <1>1, <1>2
<1>4. Len(xs) = l - l
  BY <1>1, <1>2, <1>3, UnreadIs DEF l
<1> HIDE DEF xs
<1>5. Batch(c, xs).cursor = c /\ Batch(c, xs).news = <<>>
  BY <1>2, <1>4, BatchOfNothing
<1>6. <<>> \in Seq(Entry(E)) /\ DOMAIN <<>> = {} /\ IdsOf(<<>>) = {} /\ A \cup {} = A
  BY DEF IdsOf, Range
<1>7. Takes(E, n, c, A, how, xs)
  BY <1>5, <1>6 DEF Takes
<1> QED BY <1>7 DEF xs, log, s

-----------------------------------------------------------------------------
(* What the node does, and the reader who waits. *)

LEMMA KnownAre == ASSUME EnvOK PROVE Events(Known)
BY DEF EnvOK, Known, Events

LEMMA ReadsKept ==
    ASSUME ReadsInv, EnvOK, UNCHANGED <<setup, watch, inbox>>,
           env'.restarts = env.restarts, env'.events \in Nat, env'.events >= env.events,
           Known \subseteq Known',
           "log" \in DOMAIN env', env'.log \in {"followed", "rebuilt", "outgrown"}
    PROVE  ReadsInv'
<1>1. Entry(Known) \subseteq Entry(Known')
  BY DEF Entry
<1>2. Seq(Entry(Known)) \subseteq Seq(Entry(Known'))
  BY <1>1, SeqGrows
<1>3. 0..env.events \subseteq 0..env'.events
  BY DEF EnvOK
<1>4. Seq(0..env.events) \subseteq Seq(0..env'.events)
  BY <1>3, SeqGrows
<1>5. inbox' \in Seq(0..env'.events) /\ watch'.mine \in Seq(Entry(Known'))
  BY <1>2, <1>4 DEF ReadsInv
<1>6. Is("asleep")' <=> Is("asleep")
  BY DEF Is
<1> QED BY <1>5, <1>6 DEF ReadsInv

LEMMA ReaderKept ==
    ASSUME ReadsInv, ReaderInv, UNCHANGED <<setup, watch, inbox>>, env'.restarts = env.restarts,
           env.log = "outgrown" => env'.log = "outgrown",
           (/\ ~Is("asleep") /\ env.restarts = 0 /\ CursorOK(watch.cursor)
            /\ ReaderOK(node, watch.cursor, Told, env.log) /\ env'.log # "outgrown")
              => ReaderOK(node', watch.cursor, Told, env'.log)
    PROVE  ReaderInv'
<1> SUFFICES ASSUME ~Is("asleep"), env.restarts = 0, env'.log # "outgrown"
             PROVE  /\ CursorOK(watch'.cursor) /\ TellsOnce'
                    /\ ReaderOK(node', watch'.cursor, Told', env'.log)
  BY DEF ReaderInv, Is
<1>1. TellsOnce /\ ReaderOK(node, watch.cursor, Told, env.log) /\ CursorOK(watch.cursor)
  BY DEF ReaderInv
<1>2. ReaderOK(node', watch.cursor, Told, env'.log)
  BY <1>1
<1>3. Told' = Told /\ (TellsOnce' <=> TellsOnce)
  BY DEF Told, TellsOnce
<1> QED BY <1>1, <1>2, <1>3

\* Who sleeps answers what is new, as long as nothing is rebuilt.
LEMMA SleeperKept ==
    ASSUME SleeperInv, UNCHANGED <<setup, watch, inbox>>, env'.rebuilds = 0 => env.rebuilds = 0,
           (Is("asleep") /\ env.rebuilds = 0 /\ env'.rebuilds = 0 /\ node.ahead = <<>>
            /\ watch.cursor.seq <= node.seq) =>
              /\ node'.ahead = <<>> /\ watch.cursor.seq <= node'.seq
              /\ \A j \in DOMAIN node'.log :
                    node'.log[j].seq > watch.cursor.seq =>
                       \/ node'.log[j].ev.id \notin Told
                       \/ \E i \in DOMAIN node.log : node'.log[j] = node.log[i]
    PROVE  SleeperInv'
<1> SUFFICES ASSUME Is("asleep"), env.rebuilds = 0, env'.rebuilds = 0
             PROVE  /\ TellsOnce' /\ node'.ahead = <<>> /\ watch'.mine = <<>>
                    /\ CursorOK(watch'.cursor) /\ watch'.cursor.seq <= node'.seq
                    /\ \A j \in DOMAIN node'.log :
                          node'.log[j].seq > watch'.cursor.seq => node'.log[j].ev.id \notin Told'
  BY DEF SleeperInv, Is
<1>1. Told' = Told /\ (TellsOnce' <=> TellsOnce)
  BY DEF Told, TellsOnce
<1>2. /\ TellsOnce /\ node.ahead = <<>> /\ watch.mine = <<>>
      /\ CursorOK(watch.cursor) /\ watch.cursor.seq <= node.seq
      /\ \A j \in DOMAIN node.log :
            node.log[j].seq > watch.cursor.seq => node.log[j].ev.id \notin Told
  BY DEF SleeperInv
<1> QED BY <1>1, <1>2

OnceInv == SealInv /\ NodeInv /\ ReadsInv /\ ReaderInv /\ SleeperInv

\* An event is new to everybody.
LEMMA OnceEmits ==
    ASSUME OnceInv, NEW k \in Kinds, Emits(NextEvent(k)), UNCHANGED <<setup, watch, inbox>>,
           DOMAIN env' = DOMAIN env, env'.events = env.events + 1,
           env'.ran = env.ran \/ (k = "mine" /\ env'.ran = env.ran \cup {env.events + 1}),
           env'.rebuilds = env.rebuilds, env'.restarts = env.restarts, env'.log = env.log
    PROVE  NodeInv' /\ ReadsInv' /\ ReaderInv' /\ SleeperInv'
<1> DEFINE e == NextEvent(k)
           E == Known'
           c == watch.cursor
           new == env.events + 1
<1>1. EnvOK /\ node \in Nodes(Known) /\ node.cp <= Len(node.blocks) /\ NodeInv /\ ReadsInv
      /\ ReaderInv /\ SleeperInv
  BY DEF OnceInv, SealInv
<1>2. /\ env.events \in Nat /\ env.rebuilds \in Nat /\ env.restarts \in Nat
      /\ env.ran \in SUBSET (1..env.events) /\ env'.events \in Nat /\ env'.events >= env.events
      /\ env'.ran \cap (1..env.events) = env.ran
  BY <1>1 DEF EnvOK
<1>3. Known \subseteq E
  BY <1>1, <1>2, KnownGrows
<1>4. e \in E
  BY <1>2 DEF Known, NextEvent
<1>5. node \in Nodes(E)
  BY <1>1, <1>3, NodesGrow
<1>6. Events(E)
  BY <1>2 DEF Known, Events
<1>7. \A x \in Known : x.id < e.id
  BY <1>2 DEF Known, NextEvent
<1>8. e.id = new /\ Emits(e)
  BY DEF NextEvent
<1>9. e.id \notin Told
  <2>1. Range(inbox) \subseteq 0..env.events
    BY <1>1, RangeIsIn DEF ReadsInv
  <2>2. watch.mine \in Seq(Entry(Known))
    BY <1>1 DEF ReadsInv
  <2>3. Range(watch.mine) \subseteq Entry(Known)
    BY <2>2, RangeIsIn
  <2>4. \A x \in Range(watch.mine) : x.ev.id <= env.events
    BY <1>2, <2>3 DEF Entry, Known
  <2> QED BY <1>2, <1>8, <2>1, <2>4 DEF Told, ToldOf, IdsOf
<1> HIDE DEF e, E
<1>10. /\ NodeInv' /\ Gains(Chain(node'), Chain(node), e) /\ Top(node') = Top(node)
       /\ Top(node) = Len(Chain(node))
       /\ node'.seq = node.seq + 1
       /\ \E t \in Nat : Extends(node.log, node'.log, node.seq, Top(node), <<e>>, t)
  BY <1>1, <1>4, <1>5, <1>6, <1>7, <1>8, EmittedIsOK
<1>11. PICK t \in Nat : Extends(node.log, node'.log, node.seq, Top(node), <<e>>, t)
  BY <1>10
<1>12. node' \in Nodes(E)
  BY <1>4, <1>5, <1>8, EmitsIs
<1>13. NodeOK(node)
  BY <1>1 DEF NodeInv
<1>14. ReaderInv'
  <2>1. ASSUME CursorOK(c), ReaderOK(node, c, Told, env.log)
        PROVE  ReaderOK(node', c, Told, env.log)
    BY <1>4, <1>5, <1>9, <1>10, <1>11, <1>12, <1>13, <2>1, ReaderEmitted
  <2> QED BY <1>1, <2>1, ReaderKept
<1>15. ReadsInv'
  <2>1. "log" \in DOMAIN env' /\ env'.log \in {"followed", "rebuilt", "outgrown"}
    BY <1>1 DEF ReadsInv
  <2> QED BY <1>1, <1>2, <1>3, <2>1, ReadsKept DEF E
<1>16. SleeperInv'
  <2>1. node'.ahead = <<>>
    <3> DEFINE a == Absorbed(node, OpenBlock(node), <<e>>)
               o == IF OffRecord(e) THEN a.open ELSE Append(a.open, e)
    <3>0. <<e>> \in Seq(E) /\ OpenBlock(node) \in Nat
      BY <1>4, <1>5 DEF Nodes, OpenBlock
    <3>1. a \in Nodes(E)
      BY <1>5, <3>0, AbsorbedIs
    <3>2. node' = [a EXCEPT !.open = o] /\ node.ahead = <<>>
      BY <1>8 DEF Emits
    <3>3. a.ahead = node.ahead
      BY <1>5 DEF Absorbed, Nodes
    <3> HIDE DEF a, o
    <3> QED BY <3>1, <3>2, <3>3 DEF Nodes
  <2>2. ASSUME NEW j \in DOMAIN node'.log
        PROVE  node'.log[j].ev.id \notin Told \/ \E i \in DOMAIN node.log : node'.log[j] = node.log[i]
    <3>1. Moves(node.log, node'.log, Top(node), <<e>>, t)
      <4>1. node.log \in Seq(Entry(E)) /\ node'.log \in Seq(Entry(E)) /\ <<e>> \in Seq(E)
        BY <1>4, <1>5, <1>12 DEF Nodes
      <4> QED BY <1>11, <4>1, ExtendsMoves
    <3>2. /\ DOMAIN node.log = 1..Len(node.log) /\ DOMAIN node'.log = 1..Len(node'.log)
          /\ \A i \in 1..Len(node'.log) :
                IF t + i <= Len(node.log) THEN t + i \in 1..Len(node.log) /\ node'.log[i] = node.log[t + i]
                ELSE /\ (t + i) - Len(node.log) \in 1..Len(<<e>>)
                     /\ node'.log[i].ev = <<e>>[(t + i) - Len(node.log)]
      BY <3>1 DEF Moves
    <3>3. CASE t + j <= Len(node.log)
      BY <3>2, <3>3
    <3>4. CASE ~(t + j <= Len(node.log))
      <4>1. \A i \in 1..Len(<<e>>) : <<e>>[i] = e
        OBVIOUS
      <4>2. node'.log[j].ev = e
        BY <3>2, <3>4, <4>1
      <4> QED BY <1>9, <4>2
    <3> QED BY <3>3, <3>4
  <2>3. ASSUME Is("asleep"), env.rebuilds = 0, c.seq <= node.seq PROVE c.seq <= node'.seq
    <3>1. CursorOK(c) /\ node.seq \in Nat
      BY <1>1, <2>3 DEF SleeperInv, Nodes
    <3>2. c.seq \in Nat
      BY <3>1 DEF CursorOK
    <3> QED BY <1>10, <2>3, <3>1, <3>2
  <2> QED BY <1>1, <2>1, <2>2, <2>3, SleeperKept
<1> QED BY <1>10, <1>14, <1>15, <1>16

\* Nothing is in the log that was not: its readers know as much as they did.
LEMMA OnceNode ==
    ASSUME OnceInv, TheNode
    PROVE  NodeInv' /\ ReadsInv' /\ ReaderInv' /\ SleeperInv'
<1> DEFINE c == watch.cursor
           E == Known
<1>1. /\ EnvOK /\ node \in Nodes(E) /\ node.cp <= Len(node.blocks) /\ NodeInv /\ NodeOK(node)
      /\ ReadsInv /\ ReaderInv /\ SleeperInv /\ Events(E)
  <2>1. EnvOK
    BY DEF OnceInv, SealInv
  <2>2. Events(E)
    BY <2>1, KnownAre
  <2> QED BY <2>2 DEF OnceInv, SealInv, NodeInv
<1>2. /\ env.events \in Nat /\ env.rebuilds \in Nat
      /\ "log" \in DOMAIN env /\ env.log \in {"followed", "rebuilt", "outgrown"}
  BY <1>1 DEF EnvOK, ReadsInv
<1>3. ASSUME NEW k \in Kinds, Emit(k) PROVE NodeInv' /\ ReadsInv' /\ ReaderInv' /\ SleeperInv'
  <2>1. env' = [env EXCEPT !.events = @ + 1] /\ Emits(NextEvent(k)) /\ UNCHANGED <<setup, watch, inbox>>
    BY <1>3 DEF Emit
  <2>2. /\ DOMAIN env' = DOMAIN env /\ env'.events = env.events + 1 /\ env'.ran = env.ran
        /\ env'.rebuilds = env.rebuilds /\ env'.restarts = env.restarts /\ env'.log = env.log
    BY <1>1, <1>2, <2>1 DEF EnvOK
  <2> QED BY <2>1, <2>2, OnceEmits
<1>4. ASSUME UNCHANGED <<setup, watch, inbox>>, DOMAIN env' = DOMAIN env, env'.events = env.events, env'.ran = env.ran,
             env'.restarts = env.restarts, env'.log \in {"followed", "rebuilt", "outgrown"}
      PROVE  ReadsInv'
  <2>1. Known' = Known
    BY <1>4 DEF Known
  <2>2. env'.events \in Nat /\ env'.events >= env.events /\ Known \subseteq Known' /\ "log" \in DOMAIN env'
    BY <1>2, <1>4, <2>1
  <2> QED BY <1>1, <1>4, <2>2, ReadsKept
<1> HIDE DEF E
<1>5. ASSUME NEW compact \in BOOLEAN, Seal(compact)
      PROVE  NodeInv' /\ ReadsInv' /\ ReaderInv' /\ SleeperInv'
  <2>1. /\ UNCHANGED <<setup, watch, inbox>>
        /\ DOMAIN env' = DOMAIN env /\ env'.events = env.events /\ env'.ran = env.ran
        /\ env'.rebuilds = env.rebuilds /\ env'.restarts = env.restarts /\ env'.log = env.log
    BY <1>1, <1>2, <1>5 DEF Seal, EnvOK
  <2>2. /\ NodeInv' /\ node'.log = node.log /\ node'.seq = node.seq
        /\ Shrinks(Chain(node'), Chain(node)) /\ Top(node) <= Top(node')
    BY <1>1, <1>5, SealedIsOK
  <2>3. node' \in Nodes(E)
    BY <1>1, <1>5, SealsIs
  <2>4. Top(node) \in Nat /\ Top(node') \in Nat
    <3>1. ChainOf(E, node) /\ ChainOf(E, node')
      BY <1>1, <2>3, ChainIs
    <3> QED BY <3>1 DEF ChainOf
  <2>5. ASSUME CursorOK(c), ReaderOK(node, c, Told, env.log)
        PROVE  ReaderOK(node', c, Told, env.log)
    BY <2>2, <2>4, <2>5, ReaderSealed
  <2>6. ReaderInv'
    BY <1>1, <2>1, <2>5, ReaderKept
  <2>7. node'.ahead = node.ahead
    <3> DEFINE sealed == [node EXCEPT !.blocks = Append(@, node.open), !.open = <<>>]
    <3>1. sealed.ahead = node.ahead /\ DOMAIN sealed = DOMAIN node
      BY <1>1 DEF Nodes
    <3>2. node' = IF compact THEN [sealed EXCEPT !.cp = OpenBlock(node)] ELSE sealed
      BY <1>5 DEF Seal, CompactAt
    <3> HIDE DEF sealed
    <3> QED BY <1>1, <3>1, <3>2 DEF Nodes
  <2>8. SleeperInv'
    BY <1>1, <2>1, <2>2, <2>7, SleeperKept
  <2> QED BY <1>4, <1>2, <2>1, <2>2, <2>6, <2>8
<1>6. ASSUME env' = Noted \/ env' = [Noted EXCEPT !.epochs = @ + 1]
      PROVE  /\ DOMAIN env' = DOMAIN env /\ env'.events = env.events /\ env'.ran = env.ran
             /\ env'.restarts = env.restarts /\ env'.rebuilds = env.rebuilds + 1
             /\ env'.log = IF env.log = "outgrown" THEN "outgrown" ELSE "rebuilt"
  <2>1. /\ DOMAIN Noted = DOMAIN env /\ Noted.events = env.events /\ Noted.ran = env.ran
        /\ Noted.restarts = env.restarts /\ Noted.rebuilds = env.rebuilds + 1
        /\ Noted.log = IF env.log = "outgrown" THEN "outgrown" ELSE "rebuilt"
    BY <1>1, <1>2 DEF Noted, EnvOK
  <2>2. CASE env' = Noted
    BY <2>1, <2>2
  <2>3. CASE env' = [Noted EXCEPT !.epochs = @ + 1]
    <3>1. /\ DOMAIN env' = DOMAIN Noted /\ env'.events = Noted.events /\ env'.ran = Noted.ran
          /\ env'.restarts = Noted.restarts /\ env'.rebuilds = Noted.rebuilds
          /\ env'.log = Noted.log
      BY <2>3
    <3> QED BY <2>1, <3>1
  <2> QED BY <1>6, <2>2, <2>3
<1>7. ASSUME env' = Noted \/ env' = [Noted EXCEPT !.epochs = @ + 1], UNCHANGED <<setup, watch, inbox>>,
             NodeInv', Recorded(node'.log, Chain(node')), Shrinks(Chain(node'), Chain(node)),
             node' \in Nodes(E)
      PROVE  NodeInv' /\ ReadsInv' /\ ReaderInv' /\ SleeperInv'
  <2>1. /\ DOMAIN env' = DOMAIN env /\ env'.events = env.events /\ env'.ran = env.ran
        /\ env'.restarts = env.restarts /\ env'.rebuilds = env.rebuilds + 1
        /\ env'.log = IF env.log = "outgrown" THEN "outgrown" ELSE "rebuilt"
    BY <1>6, <1>7
  <2>2. NodeOK(node')
    BY <1>7 DEF NodeInv
  <2>3. ASSUME CursorOK(c), ReaderOK(node, c, Told, env.log)
        PROVE  ReaderOK(node', c, Told, "rebuilt")
    BY <1>1, <1>7, <2>2, <2>3, ReaderRebuilt
  <2>4. ReaderInv'
    BY <1>1, <1>7, <2>1, <2>3, ReaderKept
  <2>5. SleeperInv'
    <3>1. env'.rebuilds # 0
      BY <1>2, <2>1
    <3> QED BY <3>1 DEF SleeperInv
  <2>6. ReadsInv'
    BY <1>2, <1>4, <1>7, <2>1
  <2> QED BY <1>7, <2>4, <2>5, <2>6
<1>8. CASE Demote
  <2>1. NodeInv' /\ Recorded(node'.log, Chain(node')) /\ Shrinks(Chain(node'), Chain(node))
    BY <1>1, <1>8, DemotedIsOK
  <2>2. node' \in Nodes(E)
    BY <1>1, <1>8, DemoteIs
  <2>3. env' = Noted /\ UNCHANGED <<setup, watch, inbox>>
    BY <1>8 DEF Demote, Rebuilds
  <2> QED BY <1>7, <2>1, <2>2, <2>3
<1>9. ASSUME NEW shared, Rewind(shared) PROVE NodeInv' /\ ReadsInv' /\ ReaderInv' /\ SleeperInv'
  <2>1. NodeInv' /\ Recorded(node'.log, Chain(node')) /\ Shrinks(Chain(node'), Chain(node))
    BY <1>1, <1>9, RewoundIsOK
  <2>2. node' \in Nodes(E)
    BY <1>1, <1>9, RewindIs
  <2>3. env' = Noted /\ UNCHANGED <<setup, watch, inbox>>
    BY <1>9 DEF Rewind, Rebuilds
  <2> QED BY <1>7, <2>1, <2>2, <2>3
<1>10. CASE Adopt
  <2>1. NodeInv' /\ Recorded(node'.log, Chain(node')) /\ Shrinks(Chain(node'), Chain(node))
    BY <1>1, <1>10, AdoptedIsOK
  <2>2. node' \in Nodes(E)
    BY <1>1, <1>10, AdoptIs
  <2>3. env' = [Noted EXCEPT !.epochs = @ + 1] /\ UNCHANGED <<setup, watch, inbox>>
    BY <1>10 DEF Adopt, Rebuilds
  <2> QED BY <1>7, <2>1, <2>2, <2>3
<1>11. CASE Pull
  <2>1. UNCHANGED <<setup, watch, inbox, env>> /\ node.ahead # <<>>
    BY <1>11 DEF Pull
  <2>2. /\ NodeInv' /\ Shrinks(Chain(node'), Chain(node)) /\ Top(node) <= Top(node')
        /\ \E block \in DOMAIN Chain(node), t \in Nat :
              LET es == Chain(node)[block] IN
              /\ block = Top(node) + 1 /\ node'.seq = node.seq + Len(es)
              /\ Extends(node.log, node'.log, node.seq, block, es, t)
    BY <1>1, <1>11, PulledIsOK
  <2>3. node' \in Nodes(E)
    BY <1>1, <1>11, PullIs
  <2>4. PICK block \in DOMAIN Chain(node), t \in Nat :
              /\ block = Top(node) + 1 /\ node'.seq = node.seq + Len(Chain(node)[block])
              /\ Extends(node.log, node'.log, node.seq, block, Chain(node)[block], t)
    BY <2>2
  <2>5. ASSUME CursorOK(c), ReaderOK(node, c, Told, env.log)
        PROVE  ReaderOK(node', c, Told, env.log)
    BY <1>1, <2>2, <2>3, <2>4, <2>5, ReaderPulled
  <2>6. ReaderInv'
    BY <1>1, <2>1, <2>5, ReaderKept
  <2>7. SleeperInv'
    BY <1>1, <2>1, SleeperKept
  <2> QED BY <1>2, <1>4, <2>1, <2>2, <2>6, <2>7
<1> QED BY <1>3, <1>5, <1>8, <1>9, <1>10, <1>11 DEF TheNode

-----------------------------------------------------------------------------
(* What is told, and what is about to be. *)

Numbered(E) == \A e \in E : e.id \in Nat \ {0}

\* The end of an epoch is no event.
LEMMA TellsMark ==
    ASSUME NEW E, Numbered(E), NEW box \in Seq(Nat), NEW mine \in Seq(Entry(E)), Tells(box, mine)
    PROVE  Tells(Append(box, 0), mine) /\ ToldOf(Append(box, 0), mine) = ToldOf(box, mine)
<1> DEFINE l == Len(box)
           b2 == Append(box, 0)
<1>1. /\ l \in Nat /\ DOMAIN box = 1..l /\ DOMAIN b2 = 1..l + 1
      /\ \A i \in 1..l + 1 : b2[i] = IF i = l + 1 THEN 0 ELSE box[i]
  OBVIOUS
<1>2. \A i \in DOMAIN mine : mine[i].ev.id # 0
  <2>1. \A i \in DOMAIN mine : mine[i] \in Entry(E)
    OBVIOUS
  <2> QED BY <2>1 DEF Entry, Numbered
<1> HIDE DEF b2, l
<1>3. Range(b2) = Range(box) \cup {0}
  BY <1>1 DEF Range
<1>4. ASSUME NEW i \in 1..l + 1, NEW j \in 1..l + 1, b2[i] = b2[j], b2[i] # 0 PROVE i = j
  <2>1. i # l + 1 /\ j # l + 1
    BY <1>1, <1>4
  <2>2. i \in 1..l /\ j \in 1..l /\ box[i] = box[j] /\ box[i] # 0
    BY <1>1, <1>4, <2>1
  <2> QED BY <1>1, <2>2 DEF Tells
<1>5. Tells(b2, mine)
  BY <1>1, <1>2, <1>3, <1>4 DEF Tells
<1>6. ToldOf(b2, mine) = ToldOf(box, mine)
  BY <1>3 DEF ToldOf
<1> QED BY <1>5, <1>6 DEF b2

\* The first that is about to be told is told, or not.
LEMMA TellsHead ==
    ASSUME NEW E, Numbered(E), NEW box \in Seq(Nat), NEW mine \in Seq(Entry(E)), mine # <<>>,
           Tells(box, mine), NEW b2, b2 = box \/ b2 = Append(box, Head(mine).ev.id)
    PROVE  Tells(b2, Tail(mine)) /\ ToldOf(b2, Tail(mine)) \subseteq ToldOf(box, mine)
<1> DEFINE l == Len(box)
           m == Len(mine)
           x == mine[1]
           rest == Tail(mine)
           id == x.ev.id
<1>1. /\ l \in Nat /\ DOMAIN box = 1..l /\ m \in Nat /\ m > 0 /\ DOMAIN mine = 1..m /\ Head(mine) = x
      /\ DOMAIN rest = 1..m - 1 /\ \A i \in 1..m - 1 : rest[i] = mine[i + 1]
  OBVIOUS
<1>2. \A i \in 1..m : mine[i].ev.id \in Nat
  <2>1. \A i \in DOMAIN mine : mine[i] \in Entry(E)
    OBVIOUS
  <2> QED BY <1>1, <2>1 DEF Entry, Numbered
<1> HIDE DEF l, m, rest
<1>3. /\ \A i \in 1..m - 1 : i + 1 \in 1..m /\ rest[i] = mine[i + 1] /\ id < rest[i].ev.id
      /\ \A i \in 1..m - 1 : rest[i].ev.id \in Nat
  <2>1. \A i \in 1..m - 1 : i + 1 \in 1..m /\ 1 \in 1..m /\ 1 < i + 1
    BY <1>1
  <2>2. \A i \in 1..m - 1 : id < mine[i + 1].ev.id
    BY <1>1, <2>1 DEF Tells
  <2> QED BY <1>1, <1>2, <2>1, <2>2
<1>4. \A i, j \in 1..m - 1 : i < j => rest[i].ev.id < rest[j].ev.id
  <2> SUFFICES ASSUME NEW i \in 1..m - 1, NEW j \in 1..m - 1, i < j PROVE rest[i].ev.id < rest[j].ev.id
    OBVIOUS
  <2>1. i + 1 < j + 1
    OBVIOUS
  <2>2. mine[i + 1].ev.id < mine[j + 1].ev.id
    BY <1>1, <1>3, <2>1 DEF Tells
  <2> QED BY <1>3, <2>2
<1>5. id \notin Range(box) /\ id \in IdsOf(mine) /\ id \in Nat
  <2>1. 1 \in 1..m
    BY <1>1
  <2> QED BY <1>1, <1>2, <2>1 DEF Tells, IdsOf, Range
<1>6. IdsOf(rest) \subseteq IdsOf(mine)
  <2>1. \A k \in DOMAIN rest : \E i \in DOMAIN mine : rest[k] = mine[i]
    <3>1. DOMAIN rest = 1..m - 1 /\ DOMAIN mine = 1..m
      BY <1>1
    <3> QED BY <1>3, <3>1
  <2> QED BY <2>1 DEF IdsOf, Range
<1>7. \A i \in 1..m - 1 : rest[i].ev.id \notin Range(box) /\ rest[i].ev.id # id
  <2>1. \A i \in 1..m - 1 : rest[i].ev.id \notin Range(box)
    BY <1>1, <1>3 DEF Tells
  <2> QED BY <1>3, <1>5, <2>1
<1> HIDE DEF x, id
<1>8. CASE b2 = box
  BY <1>1, <1>4, <1>6, <1>7, <1>8 DEF Tells, ToldOf, rest
<1>9. CASE b2 = Append(box, Head(mine).ev.id)
  <2>1. b2 = Append(box, id)
    BY <1>1, <1>9 DEF id
  <2>2. DOMAIN b2 = 1..l + 1 /\ \A i \in 1..l + 1 : b2[i] = IF i = l + 1 THEN id ELSE box[i]
    <3>1. /\ DOMAIN Append(box, id) = 1..Len(box) + 1
          /\ \A i \in 1..Len(box) + 1 : Append(box, id)[i] = IF i = Len(box) + 1 THEN id ELSE box[i]
      OBVIOUS
    <3> QED BY <2>1, <3>1 DEF l
  <2>3. Range(b2) = Range(box) \cup {id}
    <3>1. \A i \in 1..l : i \in 1..l + 1 /\ b2[i] = box[i]
      BY <1>1, <2>2
    <3>2. l + 1 \in 1..l + 1 /\ b2[l + 1] = id
      BY <1>1, <2>2
    <3>3. \A i \in 1..l + 1 : b2[i] = id \/ i \in 1..l
      BY <1>1, <2>2
    <3>4. Range(b2) \subseteq Range(box) \cup {id}
      BY <1>1, <2>2, <3>1, <3>3 DEF Range
    <3>5. Range(box) \subseteq Range(b2)
      BY <1>1, <2>2, <3>1 DEF Range
    <3>6. id \in Range(b2)
      BY <2>2, <3>2 DEF Range
    <3> QED BY <3>4, <3>5, <3>6
  <2>4. ASSUME NEW i \in 1..l + 1, NEW j \in 1..l + 1, b2[i] = b2[j], b2[i] # 0 PROVE i = j
    <3>1. CASE i \in 1..l /\ j \in 1..l
      <4>1. box[i] = box[j] /\ box[i] # 0
        BY <1>1, <2>2, <2>4, <3>1
      <4> QED BY <1>1, <3>1, <4>1 DEF Tells
    <3>2. CASE i = l + 1 /\ j \in 1..l
      <4>1. box[j] = id
        BY <1>1, <2>2, <2>4, <3>2
      <4> QED BY <1>1, <1>5, <3>2, <4>1 DEF Range
    <3>3. CASE j = l + 1 /\ i \in 1..l
      <4>1. box[i] = id
        BY <1>1, <2>2, <2>4, <3>3
      <4> QED BY <1>1, <1>5, <3>3, <4>1 DEF Range
    <3> QED BY <1>1, <3>1, <3>2, <3>3
  <2>5. \A i \in 1..m - 1 : rest[i].ev.id \notin Range(b2)
    BY <1>7, <2>3
  <2> QED BY <1>1, <1>4, <1>5, <1>6, <2>2, <2>3, <2>4, <2>5 DEF Tells, ToldOf, rest
<1> QED BY <1>8, <1>9

\* What is chosen of a sequence keeps its order.
LEMMA OnlyInOrder ==
    ASSUME NEW E, Numbered(E), NEW news \in Seq(Entry(E)), NEW S,
           \A i, j \in DOMAIN news : i < j => news[i].ev.id < news[j].ev.id
    PROVE  LET o == Only(news, S) IN
           /\ o \in Seq(Entry(E)) /\ IdsOf(o) \subseteq IdsOf(news)
           /\ \A i, j \in DOMAIN o : i < j => o[i].ev.id < o[j].ev.id
<1> DEFINE o == Only(news, S)
           P == Positions(news, S)
           X == Entry(E)
<1>0. news \in Seq(X)
  OBVIOUS
<1> HIDE DEF X
<1>1. /\ o \in Seq(X \cap S) /\ DOMAIN o = 1..Cardinality(P)
      /\ \A k \in 1..Cardinality(P) : Nth(P, k) \in P /\ o[k] = news[Nth(P, k)]
  BY <1>0, OnlyIsASequence
<1>2. Len(news) \in Nat /\ P \in SUBSET (1..Len(news)) /\ DOMAIN news = 1..Len(news)
  BY <1>0, PositionsAreInDomain
<1>3. o \in Seq(X)
  <2>1. X \cap S \subseteq X
    OBVIOUS
  <2> QED BY <1>1, <2>1, SeqGrows
<1> HIDE DEF o, P
<1>4. ASSUME NEW i \in DOMAIN o, NEW j \in DOMAIN o, i < j PROVE o[i].ev.id < o[j].ev.id
  <2>1. Nth(P, i) < Nth(P, j)
    BY <1>1, <1>2, <1>4, NthGrows
  <2>2. Nth(P, i) \in DOMAIN news /\ Nth(P, j) \in DOMAIN news
    BY <1>1, <1>2
  <2> QED BY <1>1, <2>1, <2>2
<1>5. IdsOf(o) \subseteq IdsOf(news)
  <2>1. \A k \in DOMAIN o : \E i \in DOMAIN news : o[k] = news[i]
    BY <1>1, <1>2
  <2> QED BY <2>1 DEF IdsOf, Range
<1> QED BY <1>3, <1>4, <1>5 DEF o, X

\* News are about to be told, instead of what was before.
LEMMA TellsNews ==
    ASSUME NEW E, Numbered(E), NEW box, NEW mine, NEW news \in Seq(Entry(E)),
           \A i \in DOMAIN news : news[i].ev.id \notin ToldOf(box, mine),
           NEW m \in Seq(Entry(E)), IdsOf(m) \subseteq IdsOf(news), Tells(box, mine),
           \A i, j \in DOMAIN m : i < j => m[i].ev.id < m[j].ev.id
    PROVE  Tells(box, m) /\ ToldOf(box, m) \subseteq ToldOf(box, mine) \cup IdsOf(news)
<1>1. \A a \in IdsOf(news) : a # 0 /\ a \notin ToldOf(box, mine)
  <2>1. \A i \in DOMAIN news : news[i].ev.id # 0
    <3>1. \A i \in DOMAIN news : news[i] \in Entry(E)
      OBVIOUS
    <3> QED BY <3>1 DEF Entry, Numbered
  <2> QED BY <2>1 DEF IdsOf, Range
<1>2. \A a \in IdsOf(news) : a \notin Range(box)
  BY <1>1 DEF ToldOf
<1>3. \A i \in DOMAIN m : m[i].ev.id \in IdsOf(m)
  BY DEF IdsOf, Range
<1> QED BY <1>2, <1>3 DEF Tells, ToldOf

\* What is told is added to the inbox.
LEMMA ToldMore ==
    ASSUME NEW E, Numbered(E), NEW box \in Seq(Nat), NEW xs \in Seq(Entry(E))
    PROVE  /\ DOMAIN (box \o Ids(xs)) = 1..Len(box) + Len(xs)
           /\ \A i \in 1..Len(box) : (box \o Ids(xs))[i] = box[i]
           /\ \A i \in 1..Len(xs) : (box \o Ids(xs))[Len(box) + i] = xs[i].ev.id
           /\ Range(box \o Ids(xs)) = Range(box) \cup IdsOf(xs)
<1> DEFINE l == Len(box)
           k == Len(xs)
           ids == Ids(xs)
           b2 == box \o ids
<1>1. l \in Nat /\ DOMAIN box = 1..l /\ k \in Nat /\ DOMAIN xs = 1..k
  OBVIOUS
<1>2. \A i \in 1..k : xs[i].ev.id \in Nat
  <2>1. \A i \in 1..k : xs[i] \in Entry(E)
    OBVIOUS
  <2> QED BY <2>1 DEF Entry, Numbered
<1>3. ids \in Seq(Nat) /\ Len(ids) = k /\ \A i \in 1..k : ids[i] = xs[i].ev.id
  <2>1. ids = [i \in 1..k |-> xs[i].ev.id]
    BY <1>1 DEF Ids
  <2>2. ids \in [1..k -> Nat] /\ \A i \in 1..k : ids[i] = xs[i].ev.id
    BY <1>2, <2>1
  <2> HIDE DEF ids, k
  <2>3. ids \in Seq(Nat) /\ Len(ids) = k
    BY <1>1, <2>2, SeqByFunction
  <2> QED BY <2>2, <2>3
<1> HIDE DEF l, k, ids
<1>4. b2 \in Seq(Nat) /\ Len(b2) = l + k /\ (\A i \in 1..l : b2[i] = box[i]) /\ \A i \in 1..k : b2[l + i] = ids[i]
  <2>1. /\ box \o ids \in Seq(Nat) /\ Len(box \o ids) = Len(box) + Len(ids)
        /\ \A i \in 1..Len(box) : (box \o ids)[i] = box[i]
        /\ \A i \in 1..Len(ids) : (box \o ids)[Len(box) + i] = ids[i]
    BY <1>3, ConcatIs
  <2> QED BY <1>3, <2>1 DEF l
<1> HIDE DEF b2
<1>5. DOMAIN b2 = 1..l + k
  BY <1>4
<1>6. \A i \in 1..l + k : i \in 1..l \/ (i - l \in 1..k /\ i = l + (i - l))
  BY <1>1
<1>7. (\A i \in 1..l : i \in 1..l + k) /\ (\A i \in 1..k : l + i \in 1..l + k)
  BY <1>1
<1>8. Range(b2) \subseteq Range(box) \cup IdsOf(xs)
  <2> SUFFICES ASSUME NEW i \in 1..l + k PROVE b2[i] \in Range(box) \cup IdsOf(xs)
    BY <1>5 DEF Range
  <2>1. CASE i \in 1..l
    BY <1>1, <1>4, <2>1 DEF Range
  <2>2. CASE i - l \in 1..k /\ i = l + (i - l)
    <3>1. b2[i] = xs[i - l].ev.id
      BY <1>3, <1>4, <2>2
    <3> QED BY <1>1, <2>2, <3>1 DEF IdsOf, Range
  <2> QED BY <1>6, <2>1, <2>2
<1>9. Range(box) \subseteq Range(b2)
  <2>1. \A i \in 1..l : b2[i] = box[i] /\ i \in DOMAIN b2
    BY <1>4, <1>5, <1>7
  <2> QED BY <1>1, <2>1 DEF Range
<1>10. IdsOf(xs) \subseteq Range(b2)
  <2>1. \A a \in IdsOf(xs) : \E i \in 1..k : a = xs[i].ev.id
    BY <1>1 DEF IdsOf, Range
  <2>2. \A i \in 1..k : b2[l + i] = xs[i].ev.id /\ l + i \in DOMAIN b2
    BY <1>3, <1>4, <1>5, <1>7
  <2>3. \A i \in 1..k : xs[i].ev.id \in Range(b2)
    BY <2>2 DEF Range
  <2> QED BY <2>1, <2>3
<1>11. \A i \in 1..k : b2[l + i] = xs[i].ev.id
  BY <1>3, <1>4
<1> QED BY <1>4, <1>5, <1>8, <1>9, <1>10, <1>11 DEF b2, ids, l, k

\* News are told.
LEMMA TellsShown ==
    ASSUME NEW E, Numbered(E), NEW box \in Seq(Nat), NEW mine \in Seq(Entry(E)), NEW news \in Seq(Entry(E)),
           \A i \in DOMAIN news : news[i].ev.id \notin ToldOf(box, mine), Tells(box, mine),
           \A i, j \in DOMAIN news : i < j => news[i].ev.id < news[j].ev.id
    PROVE  /\ Tells(box \o Ids(news), mine)
           /\ ToldOf(box \o Ids(news), mine) \subseteq ToldOf(box, mine) \cup IdsOf(news)
<1> DEFINE l == Len(box)
           k == Len(news)
           ids == Ids(news)
           b2 == box \o ids
<1>1. /\ l \in Nat /\ DOMAIN box = 1..l /\ k \in Nat /\ DOMAIN news = 1..k
      /\ \A i \in 1..k : news[i].ev.id \in Nat /\ news[i].ev.id # 0
  <2>1. \A i \in DOMAIN news : news[i] \in Entry(E)
    OBVIOUS
  <2>2. \A i \in DOMAIN news : news[i].ev.id \in Nat /\ news[i].ev.id # 0
    BY <2>1 DEF Entry, Numbered
  <2>3. l \in Nat /\ DOMAIN box = 1..l /\ k \in Nat /\ DOMAIN news = 1..k
    OBVIOUS
  <2> QED BY <2>2, <2>3
<1>2. \A i \in 1..k : ids[i] = news[i].ev.id
  BY <1>1 DEF Ids
<1>3. /\ DOMAIN b2 = 1..l + k /\ \A i \in 1..l : b2[i] = box[i]
      /\ \A i \in 1..k : b2[l + i] = ids[i]
      /\ Range(b2) = Range(box) \cup IdsOf(news)
  BY <1>2, ToldMore
<1> HIDE DEF l, k, ids, b2
<1>4. \A i \in 1..l + k : i \in 1..l \/ (i - l \in 1..k /\ i = l + (i - l))
  BY <1>1
<1>6. \A i \in 1..k : news[i].ev.id \notin Range(box) /\ news[i].ev.id \notin IdsOf(mine)
  BY <1>1 DEF ToldOf
<1>7. ASSUME NEW i \in 1..l + k, NEW j \in 1..l + k, b2[i] = b2[j], b2[i] # 0 PROVE i = j
  <2>1. CASE i \in 1..l /\ j \in 1..l
    <3>1. box[i] = box[j] /\ box[i] # 0
      BY <1>3, <1>7, <2>1
    <3> QED BY <1>1, <2>1, <3>1 DEF Tells
  <2>2. ASSUME NEW a \in 1..l, NEW b \in 1..k PROVE b2[a] # b2[l + b]
    <3>1. b2[a] \in Range(box) /\ b2[l + b] = news[b].ev.id
      BY <1>1, <1>2, <1>3 DEF Range
    <3> QED BY <1>6, <3>1
  <2>3. CASE i - l \in 1..k /\ i = l + (i - l) /\ j - l \in 1..k /\ j = l + (j - l)
    <3> DEFINE a == i - l
               b == j - l
    <3>1. a \in 1..k /\ b \in 1..k /\ i = l + a /\ j = l + b
      BY <2>3
    <3> HIDE DEF a, b
    <3>2. news[a].ev.id = news[b].ev.id
      BY <1>2, <1>3, <1>7, <3>1
    <3>3. ~(a < b) /\ ~(b < a)
      <4>1. (a < b => news[a].ev.id < news[b].ev.id) /\ (b < a => news[b].ev.id < news[a].ev.id)
        BY <1>1, <3>1
      <4>2. news[a].ev.id \in Nat
        BY <1>1, <3>1
      <4> QED BY <3>2, <4>1, <4>2
    <3>4. a \in Nat /\ b \in Nat
      BY <3>1
    <3> QED BY <3>1, <3>3, <3>4
  <2>4. CASE i \in 1..l /\ j - l \in 1..k /\ j = l + (j - l)
    BY <1>7, <2>2, <2>4
  <2>5. CASE j \in 1..l /\ i - l \in 1..k /\ i = l + (i - l)
    BY <1>7, <2>2, <2>5
  <2> QED BY <1>4, <2>1, <2>3, <2>4, <2>5
<1>8. \A i \in DOMAIN mine : mine[i].ev.id \notin Range(b2)
  <2>1. \A i \in DOMAIN mine : mine[i].ev.id \in IdsOf(mine)
    BY DEF IdsOf, Range
  <2>2. \A a \in IdsOf(news) : a \notin IdsOf(mine)
    BY <1>1, <1>6 DEF IdsOf, Range
  <2> QED BY <1>3, <2>1, <2>2 DEF Tells
<1>9. Tells(b2, mine)
  BY <1>3, <1>7, <1>8 DEF Tells
<1>10. ToldOf(b2, mine) \subseteq ToldOf(box, mine) \cup IdsOf(news)
  BY <1>3 DEF ToldOf
<1> QED BY <1>9, <1>10 DEF b2, ids

-----------------------------------------------------------------------------
(* What a reader does. *)

LEMMA OnceFacts ==
    ASSUME OnceInv
    PROVE  /\ EnvOK /\ node \in Nodes(Known) /\ NodeInv /\ NodeOK(node) /\ LogOK(node.log, node.seq)
           /\ Top(node) \in Nat /\ Events(Known) /\ Numbered(Known)
           /\ inbox \in Seq(Nat) /\ watch.mine \in Seq(Entry(Known)) /\ ReadsInv
           /\ env.events \in Nat /\ env.restarts \in Nat /\ env.rebuilds \in Nat
<1>1. EnvOK /\ node \in Nodes(Known) /\ NodeInv /\ ReadsInv
  BY DEF OnceInv, SealInv
<1>2. env.events \in Nat /\ env.restarts \in Nat /\ env.rebuilds \in Nat
  BY <1>1 DEF EnvOK
<1>3. Events(Known) /\ Numbered(Known)
  BY <1>2 DEF Known, Events, Numbered
<1>4. Top(node) \in Nat
  <2>1. ChainOf(Known, node)
    BY <1>1, ChainIs
  <2> QED BY <2>1 DEF ChainOf
<1>5. NodeOK(node) /\ LogOK(node.log, node.seq)
  BY <1>1 DEF NodeInv, NodeOK, Fits
<1>6. inbox \in Seq(Nat)
  <2>1. 0..env.events \subseteq Nat
    BY <1>2
  <2>2. Seq(0..env.events) \subseteq Seq(Nat)
    BY <2>1, SeqGrows
  <2> QED BY <1>1, <2>2 DEF ReadsInv
<1> QED BY <1>1, <1>2, <1>3, <1>4, <1>5, <1>6 DEF ReadsInv

LEMMA ReaderStep ==
    ASSUME OnceInv, UNCHANGED <<setup, node>>, ~Is("asleep"),
           env'.events = env.events, env'.ran = env.ran, env'.restarts = env.restarts,
           "log" \in DOMAIN env', env'.log \in {"followed", "rebuilt", "outgrown"},
           {"pc", "cursor", "mine", "seen", "head"} \subseteq DOMAIN watch',
           inbox' \in Seq(0..env.events), watch'.mine \in Seq(Entry(Known)),
           (env.restarts = 0 /\ env'.log # "outgrown") =>
              /\ CursorOK(watch'.cursor) /\ Tells(inbox', watch'.mine)
              /\ ReaderOK(node, watch'.cursor, ToldOf(inbox', watch'.mine), env'.log)
    PROVE  NodeInv' /\ ReadsInv' /\ ReaderInv' /\ SleeperInv'
<1>1. NodeInv'
  BY DEF OnceInv, NodeInv
<1>2. ~Is("asleep")' /\ Known' = Known
  BY DEF Is, Known
<1>3. ReadsInv'
  BY <1>2 DEF ReadsInv
<1>4. SleeperInv'
  BY <1>2 DEF SleeperInv
<1>5. Told' = ToldOf(inbox', watch'.mine) /\ (TellsOnce' <=> Tells(inbox', watch'.mine))
  BY DEF Told, TellsOnce
<1>6. ReaderInv'
  <2> SUFFICES ASSUME env.restarts = 0, env'.log # "outgrown"
               PROVE  /\ CursorOK(watch'.cursor) /\ TellsOnce'
                      /\ ReaderOK(node', watch'.cursor, Told', env'.log)
    BY DEF ReaderInv
  <2> QED BY <1>5
<1> QED BY <1>1, <1>3, <1>4, <1>6

\* What a reader knows before its step.
LEMMA ReaderHas ==
    ASSUME OnceInv, ~Is("asleep"), env.restarts = 0, env.log # "outgrown"
    PROVE  /\ CursorOK(watch.cursor) /\ Tells(inbox, watch.mine)
           /\ ReaderOK(node, watch.cursor, ToldOf(inbox, watch.mine), env.log)
BY DEF OnceInv, ReaderInv, Told, TellsOnce

\* It looks at the head.
LEMMA LooksAtHead ==
    ASSUME OnceInv, NEW c, CursorOK(c), NEW A, ReaderOK(node, c, A, env.log), NEW head,
           LookedAt(Checked(c, head)) # "outgrown"
    PROVE  ReaderOK(node, Checked(c, head), A, LookedAt(Checked(c, head)))
<1> DEFINE e == Checked(c, head)
           h == LookedAt(e)
<1>1. node \in Nodes(Known) /\ LogOK(node.log, node.seq) /\ Top(node) \in Nat
  BY OnceFacts
<1>2. CursorOK(e) /\ ReaderOK(node, e, A, env.log)
  BY <1>1, ReaderChecks
<1> HIDE DEF e
<1>3. CASE env.log = "rebuilt"
  <2>1. e.seq = 0
    BY <1>3 DEF LookedAt, e
  <2> HIDE DEF h
  <2>2. ReaderOK(node, e, A, h)
    BY <1>1, <1>2, <2>1, ReaderFromStart
  <2> QED BY <2>2 DEF e, h
<1>4. CASE env.log # "rebuilt"
  <2>1. h = env.log
    BY <1>4 DEF LookedAt
  <2> QED BY <1>2, <2>1 DEF e
<1> QED BY <1>3, <1>4

\* It reads the log.
LEMMA ReadsTheLog ==
    ASSUME OnceInv, NEW c, CursorOK(c), NEW A, ReaderOK(node, c, A, env.log), ReadAt(c.seq) # "outgrown"
    PROVE  Takes(Known, node, c, A, ReadAt(c.seq), Since(c.seq))
<1>1. node \in Nodes(Known) /\ NodeOK(node) /\ Events(Known)
      /\ env.log \in {"followed", "rebuilt", "outgrown"} /\ node.seq \in Nat
  BY OnceFacts DEF ReadsInv, Nodes
<1>2. Since(c.seq) = Unread(node.log, c.seq)
  BY DEF Since, Unread
<1>3. ReadAt(c.seq) = env.log /\ env.log # "outgrown"
  BY <1>1 DEF ReadAt
<1>4. CASE env.log = "followed"
  <2>1. Takes(Known, node, c, A, "followed", Unread(node.log, c.seq))
    BY <1>1, <1>4, ReaderFollows
  <2> QED BY <1>2, <1>3, <1>4, <2>1
<1>5. CASE env.log = "rebuilt"
  <2>1. ~(node.seq > c.seq) /\ c.seq \in Nat
    BY <1>5 DEF ReadAt, CursorOK
  <2>2. node.seq <= c.seq
    BY <1>1, <2>1
  <2>3. Takes(Known, node, c, A, env.log, Unread(node.log, c.seq))
    BY <1>1, <2>2, ReaderWaits
  <2> QED BY <1>2, <1>3, <2>3
<1> QED BY <1>1, <1>3, <1>4, <1>5

\* What is left of the actions of a cat and of a terminal that change neither the
\* cursor nor what is told.
LEMMA ReaderIdles ==
    ASSUME OnceInv, UNCHANGED <<setup, node, inbox>>, ~Is("asleep"),
           env'.events = env.events, env'.ran = env.ran, env'.restarts = env.restarts,
           "log" \in DOMAIN env', env'.log = env.log,
           DOMAIN watch' = DOMAIN watch, watch'.cursor = watch.cursor, watch'.mine = watch.mine
    PROVE  NodeInv' /\ ReadsInv' /\ ReaderInv' /\ SleeperInv'
<1>1. /\ ReadsInv /\ env.log \in {"followed", "rebuilt", "outgrown"}
      /\ {"pc", "cursor", "mine", "seen", "head"} \subseteq DOMAIN watch'
      /\ inbox' \in Seq(0..env.events) /\ watch'.mine \in Seq(Entry(Known))
  BY DEF OnceInv, ReadsInv
<1>2. (env.restarts = 0 /\ env'.log # "outgrown") =>
              /\ CursorOK(watch'.cursor) /\ Tells(inbox', watch'.mine)
              /\ ReaderOK(node, watch'.cursor, ToldOf(inbox', watch'.mine), env'.log)
  BY ReaderHas
<1> QED BY <1>1, <1>2, ReaderStep

LEMMA OncePoll == ASSUME OnceInv, Poll PROVE NodeInv' /\ ReadsInv' /\ ReaderInv' /\ SleeperInv'
<1> DEFINE c == watch.cursor
           e == Checked(c, node.seq)
           A == ToldOf(inbox, watch.mine)
<1>1. /\ ~Is("asleep") /\ UNCHANGED <<setup, node>>
      /\ inbox' = inbox \/ inbox' = Append(inbox, 0)
      /\ env' = [env EXCEPT !.log = LookedAt(e)]
  BY DEF Poll, Is, TheHead
<1>2. /\ EnvOK /\ ReadsInv /\ Numbered(Known) /\ inbox \in Seq(Nat) /\ watch.mine \in Seq(Entry(Known))
      /\ env.events \in Nat /\ inbox \in Seq(0..env.events)
  BY OnceFacts DEF ReadsInv
<1>3. {"pc", "cursor", "mine", "seen", "head"} \subseteq DOMAIN watch
      /\ "log" \in DOMAIN env /\ env.log \in {"followed", "rebuilt", "outgrown"}
  BY <1>2 DEF ReadsInv
<1>4. DOMAIN watch' = DOMAIN watch /\ watch'.cursor = e /\ watch'.mine = watch.mine
  BY <1>3 DEF Poll, TheHead
<1>5. /\ DOMAIN env' = DOMAIN env /\ env'.events = env.events /\ env'.ran = env.ran
      /\ env'.restarts = env.restarts /\ env'.log = LookedAt(e)
  BY <1>1, <1>3
<1>6. env'.log \in {"followed", "rebuilt", "outgrown"} /\ (env'.log # "outgrown" => env.log # "outgrown")
  BY <1>3, <1>5 DEF LookedAt
<1>7. inbox' \in Seq(0..env.events)
  <2>1. 0 \in 0..env.events
    BY <1>2
  <2>2. Append(inbox, 0) \in Seq(0..env.events)
    BY <1>2, <2>1
  <2> QED BY <1>1, <1>2, <2>2
<1> HIDE DEF e
<1>9. ASSUME env.restarts = 0, env'.log # "outgrown"
      PROVE  CursorOK(e) /\ Tells(inbox', watch'.mine) /\ ReaderOK(node, e, ToldOf(inbox', watch'.mine), env'.log)
  <2>1. CursorOK(c) /\ Tells(inbox, watch.mine) /\ ReaderOK(node, c, A, env.log)
    BY <1>1, <1>6, <1>9, ReaderHas
  <2>2. ReaderOK(node, e, A, env'.log)
    BY <1>5, <1>9, <2>1, LooksAtHead DEF e
  <2>3. Tells(inbox', watch.mine) /\ ToldOf(inbox', watch.mine) = A
    <3>1. Tells(Append(inbox, 0), watch.mine) /\ ToldOf(Append(inbox, 0), watch.mine) = A
      BY <1>2, <2>1, TellsMark
    <3> QED BY <1>1, <2>1, <3>1
  <2>4. CursorOK(e)
    BY <2>1, CheckedIs DEF e
  <2> QED BY <1>4, <2>2, <2>3, <2>4
<1> QED BY <1>1, <1>2, <1>3, <1>4, <1>5, <1>6, <1>7, <1>9, ReaderStep

LEMMA OncePollFails == ASSUME OnceInv, PollFails PROVE NodeInv' /\ ReadsInv' /\ ReaderInv' /\ SleeperInv'
<1> DEFINE c == watch.cursor
           e == Checked(c, watch.head)
           A == ToldOf(inbox, watch.mine)
<1>1. ~Is("asleep") /\ UNCHANGED <<setup, node, inbox>> /\ env' = [env EXCEPT !.missed = @ + 1]
  BY DEF PollFails, Is
<1>2. /\ ReadsInv /\ watch.mine \in Seq(Entry(Known)) /\ inbox \in Seq(0..env.events)
      /\ node \in Nodes(Known) /\ LogOK(node.log, node.seq) /\ Top(node) \in Nat
  BY OnceFacts DEF ReadsInv
<1>3. {"pc", "cursor", "mine", "seen", "head"} \subseteq DOMAIN watch
      /\ "log" \in DOMAIN env /\ env.log \in {"followed", "rebuilt", "outgrown"}
  BY <1>2 DEF ReadsInv
<1>4. DOMAIN watch' = DOMAIN watch /\ watch'.cursor = e /\ watch'.mine = watch.mine
  BY <1>3 DEF PollFails
<1>5. /\ DOMAIN env' = DOMAIN env /\ env'.events = env.events /\ env'.ran = env.ran
      /\ env'.restarts = env.restarts /\ env'.log = env.log
  BY <1>1, <1>3
<1>7. ASSUME env.restarts = 0, env'.log # "outgrown"
      PROVE  CursorOK(e) /\ Tells(inbox', watch'.mine) /\ ReaderOK(node, e, ToldOf(inbox', watch'.mine), env'.log)
  <2>1. CursorOK(c) /\ Tells(inbox, watch.mine) /\ ReaderOK(node, c, A, env.log)
    BY <1>1, <1>5, <1>7, ReaderHas
  <2>2. CursorOK(e) /\ ReaderOK(node, e, A, env.log)
    BY <1>2, <2>1, ReaderChecks
  <2> QED BY <1>1, <1>4, <1>5, <2>1, <2>2
<1> HIDE DEF e
<1> QED BY <1>1, <1>2, <1>3, <1>4, <1>5, <1>7, ReaderStep

LEMMA OnceFetch == ASSUME OnceInv, Fetch PROVE NodeInv' /\ ReadsInv' /\ ReaderInv' /\ SleeperInv'
<1> DEFINE c == watch.cursor
           xs == Since(c.seq)
           e == Batch(c, xs).cursor
           news == Batch(c, xs).news
           m == Newest(news)
           A == ToldOf(inbox, watch.mine)
<1>1. /\ ~Is("asleep") /\ UNCHANGED <<setup, node, inbox>>
      /\ watch' = [watch EXCEPT !.pc = "send", !.cursor = e, !.question = Asked(@, news), !.mine = m]
  BY DEF Fetch, Is
<1>2. /\ EnvOK /\ ReadsInv /\ Numbered(Known) /\ Events(Known)
      /\ watch.mine \in Seq(Entry(Known)) /\ inbox \in Seq(0..env.events) /\ node \in Nodes(Known)
      /\ node.seq \in Nat /\ NodeOK(node)
  BY OnceFacts DEF ReadsInv, Nodes
<1>3. {"pc", "cursor", "mine", "seen", "head"} \subseteq DOMAIN watch
      /\ "log" \in DOMAIN env /\ env.log \in {"followed", "rebuilt", "outgrown"}
  BY <1>2 DEF ReadsInv
<1>4. /\ DOMAIN env' = DOMAIN env /\ env'.events = env.events /\ env'.ran = env.ran
      /\ env'.restarts = env.restarts /\ env'.log = ReadAt(c.seq)
  BY <1>3 DEF Fetch
<1>5. env'.log \in {"followed", "rebuilt", "outgrown"} /\ (env'.log # "outgrown" => env.log # "outgrown")
  BY <1>3, <1>4 DEF ReadAt
<1>6. DOMAIN watch' = DOMAIN watch /\ watch'.cursor = e /\ watch'.mine = m
  <2> HIDE DEF e, m, news
  <2> QED BY <1>1, <1>3
<1>7. news \in Seq(Entry(Known))
  BY <1>2, NewsAreEntries
<1> HIDE DEF e, news, xs
<1>8. m \in Seq(Entry(Known))
  <2> DEFINE S == {x \in Range(news) :
                     /\ WakesMe(x.ev)
                     /\ \A y \in Range(news) : y.ev.kind = x.ev.kind => y.seq <= x.seq}
             X == Entry(Known)
  <2>1. m = Only(news, S)
    BY DEF Newest
  <2> HIDE DEF S, X
  <2>2. Only(news, S) \in Seq(X \cap S) /\ X \cap S \subseteq X
    BY <1>7, OnlyIsASequence DEF X
  <2> QED BY <2>1, <2>2, SeqGrows DEF X
<1>9. ASSUME env.restarts = 0, ReadAt(c.seq) # "outgrown"
      PROVE  /\ Takes(Known, node, c, A, ReadAt(c.seq), Since(c.seq))
             /\ CursorOK(c) /\ Tells(inbox, watch.mine)
  <2>1. CursorOK(c) /\ Tells(inbox, watch.mine) /\ ReaderOK(node, c, A, env.log)
    BY <1>1, <1>4, <1>5, <1>9, ReaderHas
  <2>2. Takes(Known, node, c, A, ReadAt(c.seq), Since(c.seq))
    BY <1>9, <2>1, ReadsTheLog
  <2> QED BY <2>1, <2>2
<1>11. ASSUME env.restarts = 0, env'.log # "outgrown"
       PROVE  CursorOK(e) /\ Tells(inbox', m) /\ ReaderOK(node, e, ToldOf(inbox', m), env'.log)
  <2>1. Takes(Known, node, c, A, env'.log, xs) /\ Tells(inbox, watch.mine)
    BY <1>4, <1>9, <1>11 DEF xs
  <2>2. /\ CursorOK(e) /\ ReaderOK(node, e, A \cup IdsOf(news), env'.log)
        /\ \A i, j \in DOMAIN news : i < j => news[i].ev.id < news[j].ev.id
        /\ \A i \in DOMAIN news : news[i].ev.id \notin A
    BY <2>1 DEF Takes, e, news
  <2>3. /\ IdsOf(m) \subseteq IdsOf(news)
        /\ \A i, j \in DOMAIN m : i < j => m[i].ev.id < m[j].ev.id
    BY <1>2, <1>7, <2>2, OnlyInOrder DEF Newest
  <2> HIDE DEF m
  <2>4. Tells(inbox, m) /\ ToldOf(inbox, m) \subseteq A \cup IdsOf(news)
    BY <1>2, <1>7, <1>8, <2>1, <2>2, <2>3, TellsNews
  <2>5. ReaderOK(node, e, ToldOf(inbox, m), env'.log)
    BY <2>2, <2>4, ReaderLess
  <2> QED BY <1>1, <2>2, <2>4, <2>5
<1> HIDE DEF m
<1> QED BY <1>1, <1>2, <1>3, <1>4, <1>5, <1>6, <1>8, <1>11, ReaderStep

LEMMA OnceSend == ASSUME OnceInv, Send PROVE NodeInv' /\ ReadsInv' /\ ReaderInv' /\ SleeperInv'
<1> DEFINE x == Head(watch.mine)
           m == Tail(watch.mine)
           A == ToldOf(inbox, watch.mine)
<1>1. /\ UNCHANGED <<setup, node, env>> /\ watch.mine # <<>>
      /\ watch' = [watch EXCEPT !.mine = Tail(@), !.seen = @ \cup {x.seq}]
      /\ inbox' = inbox \/ inbox' = Append(inbox, x.ev.id)
  BY DEF Send
<1>2. /\ ReadsInv /\ Numbered(Known) /\ inbox \in Seq(Nat) /\ watch.mine \in Seq(Entry(Known))
      /\ inbox \in Seq(0..env.events) /\ env.events \in Nat
  BY OnceFacts DEF ReadsInv
<1>3. {"pc", "cursor", "mine", "seen", "head"} \subseteq DOMAIN watch
      /\ "log" \in DOMAIN env /\ env.log \in {"followed", "rebuilt", "outgrown"}
  BY <1>2 DEF ReadsInv
<1>4. m \in Seq(Entry(Known)) /\ x \in Entry(Known)
  BY <1>1, <1>2
<1>5. DOMAIN watch' = DOMAIN watch /\ watch'.cursor = watch.cursor /\ watch'.mine = m
  BY <1>1, <1>3
<1>6. inbox' \in Seq(0..env.events)
  <2> HIDE DEF x
  <2>0. x.ev \in Known
    BY <1>4 DEF Entry
  <2>1. \A e \in Known : e.id \in 0..env.events
    <3>1. env.events \in Nat
      BY <1>2
    <3> QED BY <3>1 DEF Known
  <2>2. x.ev.id \in 0..env.events
    BY <2>0, <2>1
  <2> DEFINE S == 0..env.events
             y == x.ev.id
  <2>3. inbox \in Seq(S) /\ y \in S
    BY <1>2, <2>2
  <2>4. inbox' = inbox \/ inbox' = Append(inbox, y)
    BY <1>1
  <2> HIDE DEF S, y
  <2>5. inbox' \in Seq(S)
    BY <2>3, <2>4
  <2> QED BY <2>5 DEF S
<1>7. CASE Is("asleep")
  <2>1. env'.rebuilds # 0
    BY <1>1, <1>7 DEF OnceInv, SleeperInv
  <2>2. Is("asleep")' /\ Known' = Known
    BY <1>1, <1>7 DEF Is, Known
  <2>3. SleeperInv' /\ ReaderInv'
    BY <2>1, <2>2 DEF SleeperInv, ReaderInv
  <2>4. ReadsInv'
    BY <1>1, <1>3, <1>4, <1>5, <1>6, <2>2 DEF ReadsInv
  <2>5. NodeInv'
    BY <1>1 DEF OnceInv, NodeInv
  <2> QED BY <2>3, <2>4, <2>5
<1>8. CASE ~Is("asleep")
  <2>1. ASSUME env.restarts = 0, env'.log # "outgrown"
        PROVE  /\ CursorOK(watch'.cursor) /\ Tells(inbox', watch'.mine)
               /\ ReaderOK(node, watch'.cursor, ToldOf(inbox', watch'.mine), env'.log)
    <3>1. CursorOK(watch.cursor) /\ Tells(inbox, watch.mine) /\ ReaderOK(node, watch.cursor, A, env.log)
      BY <1>1, <1>8, <2>1, ReaderHas
    <3>2. Tells(inbox', m) /\ ToldOf(inbox', m) \subseteq A
      BY <1>1, <1>2, <3>1, TellsHead
    <3> HIDE DEF m
    <3>3. ReaderOK(node, watch.cursor, ToldOf(inbox', m), env.log)
      BY <3>1, <3>2, ReaderLess
    <3> QED BY <1>1, <1>5, <3>1, <3>2, <3>3
  <2> HIDE DEF m
  <2> QED BY <1>1, <1>3, <1>4, <1>5, <1>6, <1>8, <2>1, ReaderStep
<1> QED BY <1>7, <1>8

LEMMA OnceCat ==
    ASSUME OnceInv, TheCat
    PROVE  NodeInv' /\ ReadsInv' /\ ReaderInv' /\ SleeperInv'
<1>1. /\ EnvOK /\ ReadsInv /\ env.restarts \in Nat
      /\ {"pc", "cursor", "mine", "seen", "head"} \subseteq DOMAIN watch
      /\ "log" \in DOMAIN env /\ env.log \in {"followed", "rebuilt", "outgrown"}
  BY OnceFacts DEF ReadsInv
<1>2. Is("cat") => ~Is("asleep")
  BY DEF Is
<1>3. CASE FetchFails
  BY <1>1, <1>2, <1>3, ReaderIdles DEF FetchFails
<1>4. CASE Save
  <2>1. /\ UNCHANGED <<setup, node, inbox>> /\ env'.events = env.events /\ env'.ran = env.ran
        /\ env'.restarts = env.restarts /\ env'.rebuilds = env.rebuilds /\ env'.log = env.log /\ DOMAIN env' = DOMAIN env
        /\ DOMAIN watch' = DOMAIN watch /\ watch'.cursor = watch.cursor /\ watch'.mine = watch.mine
    BY <1>1, <1>4 DEF Save, EnvOK
  <2>2. CASE Is("asleep")
    <3>1. Is("asleep")' /\ Known' = Known
      BY <2>1, <2>2 DEF Is, Known
    <3>2. Told' = Told /\ (TellsOnce' <=> TellsOnce)
      BY <2>1 DEF Told, TellsOnce
    <3>3. SleeperInv'
      BY <2>1, <2>2, <3>1, <3>2 DEF OnceInv, SleeperInv
    <3>4. ReadsInv' /\ ReaderInv' /\ NodeInv'
      BY <1>1, <2>1, <3>1 DEF ReadsInv, ReaderInv, NodeInv, OnceInv
    <3> QED BY <3>3, <3>4
  <2>3. CASE ~Is("asleep")
    BY <1>1, <2>1, <2>3, ReaderIdles
  <2> QED BY <2>2, <2>3
<1>5. CASE CallLocalTask
  <2>1. /\ UNCHANGED <<setup, node, inbox, watch>> /\ env'.events = env.events /\ env'.ran = env.ran
        /\ env'.restarts = env.restarts /\ env'.log = env.log /\ DOMAIN env' = DOMAIN env
    BY <1>1, <1>5 DEF CallLocalTask, EnvOK
  <2>2. ~Is("asleep")
    BY <1>2, <1>5 DEF CallLocalTask
  <2> QED BY <1>1, <2>1, <2>2, ReaderIdles
<1>6. ASSUME NEW torn \in BOOLEAN, Restart(torn)
      PROVE  NodeInv' /\ ReadsInv' /\ ReaderInv' /\ SleeperInv'
  <2>1. /\ UNCHANGED <<setup, node>> /\ inbox' = <<>> /\ Is("cat")
        /\ env' = Restarted(IF env.saved = env.rebuilds THEN "followed" ELSE "rebuilt")
        /\ watch' = Watching(Session(disk, node.cp), HeadKept)
    BY <1>6 DEF Restart
  <2>2. /\ DOMAIN env' = DOMAIN env /\ env'.restarts = env.restarts + 1 /\ env'.events = env.events
        /\ env'.ran = env.ran /\ env'.log \in {"followed", "rebuilt", "outgrown"}
    BY <1>1, <2>1 DEF Restarted, EnvOK
  <2>3. watch'.mine = <<>> /\ {"pc", "cursor", "mine", "seen", "head"} \subseteq DOMAIN watch'
    BY <2>1 DEF Watching
  <2>4. ~Is("asleep")' /\ Known' = Known /\ env'.restarts # 0
    BY <1>1, <1>2, <2>1, <2>2 DEF Is, Known
  <2>5. ReaderInv' /\ SleeperInv'
    BY <2>4 DEF ReaderInv, SleeperInv
  <2>6. NodeInv'
    BY <2>1 DEF OnceInv, NodeInv
  <2>7. ReadsInv'
    <3>1. inbox' \in Seq(0..env'.events) /\ watch'.mine \in Seq(Entry(Known'))
      BY <2>1, <2>3
    <3> QED BY <1>1, <2>2, <2>3, <3>1 DEF ReadsInv
  <2> QED BY <2>5, <2>6, <2>7
<1> QED BY <1>3, <1>4, <1>5, <1>6, OncePoll, OncePollFails, OnceFetch, OnceSend DEF TheCat

LEMMA OnceShowHead == ASSUME OnceInv, ShowHead PROVE NodeInv' /\ ReadsInv' /\ ReaderInv' /\ SleeperInv'
<1> DEFINE c == watch.cursor
           e == Checked(c, node.seq)
           A == ToldOf(inbox, watch.mine)
<1>1. /\ ~Is("asleep") /\ UNCHANGED <<setup, node, inbox>>
      /\ env' = [env EXCEPT !.log = LookedAt(e)]
      /\ watch' = [watch EXCEPT !.pc = "events", !.cursor = e]
  BY DEF ShowHead, Shows, Is, TheHead
<1>2. ReadsInv /\ watch.mine \in Seq(Entry(Known)) /\ inbox \in Seq(0..env.events)
  BY OnceFacts DEF ReadsInv
<1>3. {"pc", "cursor", "mine", "seen", "head"} \subseteq DOMAIN watch
      /\ "log" \in DOMAIN env /\ env.log \in {"followed", "rebuilt", "outgrown"}
  BY <1>2 DEF ReadsInv
<1> HIDE DEF e
<1>4. DOMAIN watch' = DOMAIN watch /\ watch'.cursor = e /\ watch'.mine = watch.mine
  BY <1>1, <1>3
<1>5. /\ DOMAIN env' = DOMAIN env /\ env'.events = env.events /\ env'.ran = env.ran
      /\ env'.restarts = env.restarts /\ env'.log = LookedAt(e)
  BY <1>1, <1>3
<1>6. env'.log \in {"followed", "rebuilt", "outgrown"} /\ (env'.log # "outgrown" => env.log # "outgrown")
  BY <1>3, <1>5 DEF LookedAt
<1>9. ASSUME env.restarts = 0, env'.log # "outgrown"
      PROVE  CursorOK(e) /\ Tells(inbox', watch'.mine) /\ ReaderOK(node, e, ToldOf(inbox', watch'.mine), env'.log)
  <2>1. CursorOK(c) /\ Tells(inbox, watch.mine) /\ ReaderOK(node, c, A, env.log)
    BY <1>1, <1>6, <1>9, ReaderHas
  <2>2. ReaderOK(node, e, A, env'.log)
    BY <1>5, <1>9, <2>1, LooksAtHead DEF e
  <2>3. CursorOK(e)
    BY <2>1, CheckedIs DEF e
  <2> QED BY <1>1, <1>4, <2>1, <2>2, <2>3
<1> QED BY <1>1, <1>2, <1>3, <1>4, <1>5, <1>6, <1>9, ReaderStep

LEMMA OnceShow == ASSUME OnceInv, Show PROVE NodeInv' /\ ReadsInv' /\ ReaderInv' /\ SleeperInv'
<1> DEFINE c == watch.cursor
           xs == Since(c.seq)
           e == Batch(c, xs).cursor
           news == Batch(c, xs).news
           A == ToldOf(inbox, watch.mine)
           box == inbox \o Ids(news)
<1>1. /\ ~Is("asleep") /\ UNCHANGED <<setup, node>> /\ inbox' = box
      /\ watch' = [watch EXCEPT !.pc = "head", !.cursor = e]
  BY DEF Show, Shows, Is
<1>2. /\ EnvOK /\ ReadsInv /\ Numbered(Known) /\ inbox \in Seq(Nat)
      /\ watch.mine \in Seq(Entry(Known)) /\ inbox \in Seq(0..env.events) /\ node \in Nodes(Known)
  BY OnceFacts DEF ReadsInv
<1>3. {"pc", "cursor", "mine", "seen", "head"} \subseteq DOMAIN watch
      /\ "log" \in DOMAIN env /\ env.log \in {"followed", "rebuilt", "outgrown"}
  BY <1>2 DEF ReadsInv
<1>4. /\ DOMAIN env' = DOMAIN env /\ env'.events = env.events /\ env'.ran = env.ran
      /\ env'.restarts = env.restarts /\ env'.log = ReadAt(c.seq)
  BY <1>2, <1>3 DEF Show, EnvOK
<1>5. env'.log \in {"followed", "rebuilt", "outgrown"} /\ (env'.log # "outgrown" => env.log # "outgrown")
  BY <1>3, <1>4 DEF ReadAt
<1>6. DOMAIN watch' = DOMAIN watch /\ watch'.cursor = e /\ watch'.mine = watch.mine
  <2> HIDE DEF e
  <2> QED BY <1>1, <1>3
<1>7. news \in Seq(Entry(Known))
  BY <1>2, NewsAreEntries
<1> HIDE DEF e, news, xs
<1>8. box \in Seq(0..env.events)
  <2>1. Len(news) \in Nat /\ DOMAIN news = 1..Len(news) /\ \A i \in 1..Len(news) : news[i] \in Entry(Known)
    BY <1>7
  <2>2. \A i \in 1..Len(news) : news[i].ev.id \in 0..env.events
    <3>1. env.events \in Nat
      BY <1>2 DEF EnvOK
    <3> QED BY <2>1, <3>1 DEF Entry, Known
  <2>3. Ids(news) \in [1..Len(news) -> 0..env.events]
    BY <2>1, <2>2 DEF Ids
  <2>4. Ids(news) \in Seq(0..env.events)
    BY <2>1, <2>3, SeqByFunction
  <2> QED BY <1>2, <2>4
<1>9. ASSUME env.restarts = 0, env'.log # "outgrown"
      PROVE  /\ CursorOK(e) /\ Tells(inbox', watch'.mine)
             /\ ReaderOK(node, e, ToldOf(inbox', watch'.mine), env'.log)
  <2>1. CursorOK(c) /\ Tells(inbox, watch.mine) /\ ReaderOK(node, c, A, env.log)
    BY <1>1, <1>5, <1>9, ReaderHas
  <2>2. Takes(Known, node, c, A, env'.log, xs)
    BY <1>4, <1>9, <2>1, ReadsTheLog DEF xs
  <2>3. /\ CursorOK(e) /\ ReaderOK(node, e, A \cup IdsOf(news), env'.log)
        /\ \A i, j \in DOMAIN news : i < j => news[i].ev.id < news[j].ev.id
        /\ \A i \in DOMAIN news : news[i].ev.id \notin A
    BY <2>2 DEF Takes, e, news
  <2>4. Tells(box, watch.mine) /\ ToldOf(box, watch.mine) \subseteq A \cup IdsOf(news)
    BY <1>2, <1>7, <2>1, <2>3, TellsShown
  <2> HIDE DEF box
  <2>5. ReaderOK(node, e, ToldOf(box, watch.mine), env'.log)
    BY <2>3, <2>4, ReaderLess
  <2> QED BY <1>1, <1>6, <2>3, <2>4, <2>5
<1> HIDE DEF box
<1> QED BY <1>1, <1>2, <1>3, <1>4, <1>5, <1>6, <1>8, <1>9, ReaderStep

LEMMA OnceTerminal ==
    ASSUME OnceInv, TheTerminal
    PROVE  NodeInv' /\ ReadsInv' /\ ReaderInv' /\ SleeperInv'
<1>1. /\ EnvOK /\ ReadsInv
      /\ {"pc", "cursor", "mine", "seen", "head"} \subseteq DOMAIN watch
      /\ "log" \in DOMAIN env /\ env.log \in {"followed", "rebuilt", "outgrown"}
  BY OnceFacts DEF ReadsInv
<1>2. Shows \/ Is("terminal") => ~Is("asleep")
  BY DEF Shows, Is
<1>3. env.sending > 0 => ~Is("asleep")
  BY <1>2 DEF OnceInv, SealInv
<1>4. CASE ShowMisses
  BY <1>1, <1>2, <1>4, ReaderIdles DEF ShowMisses
<1>5. ASSUME UNCHANGED <<setup, node, watch, inbox>>, ~Is("asleep"), DOMAIN env' = DOMAIN env,
             env'.events = env.events, env'.ran = env.ran, env'.restarts = env.restarts, env'.log = env.log
      PROVE  NodeInv' /\ ReadsInv' /\ ReaderInv' /\ SleeperInv'
  BY <1>1, <1>5, ReaderIdles
<1>6. CASE TypeLine
  BY <1>1, <1>2, <1>5, <1>6 DEF TypeLine, EnvOK
<1>7. CASE LineRefused
  BY <1>1, <1>3, <1>5, <1>7 DEF LineRefused, EnvOK
<1>8. CASE LineGivenUp
  BY <1>1, <1>3, <1>5, <1>8 DEF LineGivenUp, EnvOK
<1>9. CASE LineRuns
  <2>1. Emits(NextEvent("mine")) /\ UNCHANGED <<setup, watch, inbox>> /\ "mine" \in Kinds
    BY <1>9 DEF LineRuns, Kinds
  <2>2. /\ DOMAIN env' = DOMAIN env /\ env'.events = env.events + 1
        /\ env'.ran = env.ran \cup {env.events + 1}
        /\ env'.rebuilds = env.rebuilds /\ env'.restarts = env.restarts /\ env'.log = env.log
    BY <1>1, <1>9 DEF LineRuns, NextEvent, EnvOK
  <2> QED BY <2>1, <2>2, OnceEmits
<1> QED BY <1>4, <1>6, <1>7, <1>8, <1>9, OnceShowHead, OnceShow DEF TheTerminal

\* Ids are numbers, whoever they are told.
LEMMA TellsNumbers ==
    ASSUME EnvOK, NEW box \in Seq(0..env.events), NEW xs \in Seq(Entry(Known))
    PROVE  box \o Ids(xs) \in Seq(0..env.events)
<1>1. Len(xs) \in Nat /\ DOMAIN xs = 1..Len(xs) /\ \A i \in 1..Len(xs) : xs[i] \in Entry(Known)
  OBVIOUS
<1>2. \A i \in 1..Len(xs) : xs[i].ev.id \in 0..env.events
  <2>1. env.events \in Nat
    BY DEF EnvOK
  <2> QED BY <1>1, <2>1 DEF Entry, Known
<1>3. Ids(xs) \in [1..Len(xs) -> 0..env.events]
  BY <1>1, <1>2 DEF Ids
<1>4. Ids(xs) \in Seq(0..env.events)
  BY <1>1, <1>3, SeqByFunction
<1> QED BY <1>4

\* The sleeper's steps leave the node, and what is left of its reader, alone.
LEMMA SleeperStep ==
    ASSUME OnceInv, UNCHANGED <<setup, node>>, Is("asleep"),
           env'.events = env.events, env'.ran = env.ran, env'.rebuilds = env.rebuilds,
           "log" \in DOMAIN env', env'.log \in {"followed", "rebuilt", "outgrown"},
           DOMAIN watch' = DOMAIN watch, watch'.mine = watch.mine,
           inbox' \in Seq(0..env.events),
           env.rebuilds = 0 =>
              /\ Tells(inbox', <<>>) /\ CursorOK(watch'.cursor) /\ watch'.cursor.seq <= node.seq
              /\ \A j \in DOMAIN node.log : node.log[j].seq > watch'.cursor.seq =>
                    node.log[j].ev.id \notin ToldOf(inbox', <<>>)
    PROVE  NodeInv' /\ ReadsInv' /\ ReaderInv' /\ SleeperInv'
<1>1. ReadsInv /\ NodeInv /\ SleeperInv
  BY DEF OnceInv
<1>2. Is("asleep")' /\ Known' = Known
  BY DEF Is, Known
<1>3. NodeInv'
  BY <1>1 DEF NodeInv
<1>4. ReaderInv'
  BY <1>2 DEF ReaderInv
<1>5. ReadsInv'
  BY <1>1, <1>2 DEF ReadsInv
<1>6. SleeperInv'
  <2> SUFFICES ASSUME env'.rebuilds = 0
               PROVE  /\ Tells(inbox', watch'.mine) /\ node'.ahead = <<>> /\ watch'.mine = <<>>
                      /\ CursorOK(watch'.cursor) /\ watch'.cursor.seq <= node'.seq
                      /\ \A j \in DOMAIN node'.log : node'.log[j].seq > watch'.cursor.seq =>
                            node'.log[j].ev.id \notin ToldOf(inbox', watch'.mine)
    BY DEF SleeperInv, Told, TellsOnce
  <2>1. env.rebuilds = 0
    OBVIOUS
  <2>2. node.ahead = <<>> /\ watch.mine = <<>>
    BY <1>1, <2>1 DEF SleeperInv
  <2>3. watch'.mine = <<>> /\ node' = node
    BY <2>2
  <2> QED BY <2>1, <2>2, <2>3
<1> QED BY <1>3, <1>4, <1>5, <1>6

LEMMA OnceAsleepReads == ASSUME OnceInv, AsleepReads PROVE NodeInv' /\ ReadsInv' /\ ReaderInv' /\ SleeperInv'
<1> DEFINE s == watch.cursor.seq
           log == node.log
           l == Len(log)
           xs == Since(s)
           own == Only(xs, {x \in Range(xs) : Owes(x.ev)})
           A == ToldOf(inbox, <<>>)
<1>1. Is("asleep") /\ UNCHANGED <<setup, node>>
  BY DEF AsleepReads
<1>2. /\ EnvOK /\ ReadsInv /\ Numbered(Known) /\ inbox \in Seq(Nat) /\ node \in Nodes(Known)
      /\ inbox \in Seq(0..env.events) /\ LogOK(log, node.seq) /\ SleeperInv
  BY OnceFacts DEF ReadsInv, OnceInv
<1>3. {"pc", "cursor", "mine", "seen", "head"} \subseteq DOMAIN watch
      /\ "log" \in DOMAIN env /\ env.log \in {"followed", "rebuilt", "outgrown"}
  BY <1>2 DEF ReadsInv
<1>4. log \in Seq(Entry(Known)) /\ node.seq \in Nat
  BY <1>2 DEF Nodes
<1>5. xs \in Seq(Entry(Known))
  BY <1>4, OnlyIsIn DEF Since
<1>6. CASE xs = <<>>
  <2>1. /\ watch' = [watch EXCEPT !.pc = "head"] /\ inbox' = inbox /\ env' = env
    BY <1>6 DEF AsleepReads
  <2>2. DOMAIN watch' = DOMAIN watch /\ watch'.cursor = watch.cursor /\ watch'.mine = watch.mine
    BY <1>3, <2>1
  <2>3. env.rebuilds = 0 =>
              /\ Tells(inbox, <<>>) /\ CursorOK(watch.cursor) /\ watch.cursor.seq <= node.seq
              /\ \A j \in DOMAIN node.log : node.log[j].seq > watch.cursor.seq =>
                    node.log[j].ev.id \notin ToldOf(inbox, <<>>)
    BY <1>1, <1>2 DEF SleeperInv, Told, TellsOnce
  <2> QED BY <1>1, <1>2, <1>3, <2>1, <2>2, <2>3, SleeperStep
<1>7. CASE xs # <<>>
  <2>1. /\ watch' = [watch EXCEPT !.cursor.seq = xs[Len(xs)].seq]
        /\ inbox' = inbox \o Ids(own) /\ env' = [env EXCEPT !.log = ReadAt(s)]
    BY <1>7 DEF AsleepReads
  <2>6. /\ DOMAIN env' = DOMAIN env /\ env'.events = env.events /\ env'.ran = env.ran
        /\ env'.rebuilds = env.rebuilds /\ env'.log \in {"followed", "rebuilt", "outgrown"}
    BY <1>2, <1>3, <2>1 DEF ReadAt, EnvOK
  <2>2. DOMAIN watch' = DOMAIN watch /\ watch'.cursor = [watch.cursor EXCEPT !.seq = xs[Len(xs)].seq]
        /\ watch'.mine = watch.mine
    BY <1>3, <2>1
  <2>3. own \in Seq(Entry(Known))
    BY <1>5, OnlyIsIn
  <2>4. inbox \o Ids(own) \in Seq(0..env.events)
    <3> HIDE DEF own
    <3> QED BY <1>2, <2>3, TellsNumbers
  <2>5. ASSUME env.rebuilds = 0
        PROVE  /\ Tells(inbox', <<>>) /\ CursorOK(watch'.cursor) /\ watch'.cursor.seq <= node.seq
               /\ \A j \in DOMAIN node.log : node.log[j].seq > watch'.cursor.seq =>
                     node.log[j].ev.id \notin ToldOf(inbox', <<>>)
    <3>1. /\ Tells(inbox, <<>>) /\ CursorOK(watch.cursor) /\ s <= node.seq
          /\ \A j \in DOMAIN log : log[j].seq > s => log[j].ev.id \notin A
      BY <1>1, <1>2, <2>5 DEF SleeperInv, Told, TellsOnce
    <3>2. s \in Nat
      BY <3>1 DEF CursorOK
    <3>3. /\ l \in Nat /\ l <= node.seq /\ DOMAIN log = 1..l /\ Grows(log)
          /\ \A j \in 1..l : log[j].seq = (node.seq - l) + j
      BY <1>2, <1>4 DEF LogOK
    <3>4. PICK d \in Nat : d <= l /\ \A j \in 1..l : (node.seq - l) + j > s <=> j > d
      <4> DEFINE d == IF s <= node.seq - l THEN 0 ELSE s - (node.seq - l)
      <4>1. d \in Nat /\ d <= l /\ \A j \in 1..l : (node.seq - l) + j > s <=> j > d
        BY <1>4, <3>1, <3>2, <3>3
      <4> QED BY <4>1
    <3>5. xs = Unread(log, s)
      BY DEF Unread, Since
    <3> HIDE DEF xs
    <3>6. Len(xs) = l - d /\ \A k \in 1..Len(xs) : xs[k] = log[d + k]
      <4>1. /\ Len(Unread(log, s)) = l - d
            /\ \A k \in 1..Len(Unread(log, s)) : Unread(log, s)[k] = log[d + k]
        <5> HIDE DEF s, log
        <5> QED BY <1>2, <1>4, <3>2, <3>4, UnreadIs
      <4> QED BY <3>5, <4>1
    <3>7. Len(xs) \in Nat \ {0} /\ DOMAIN xs = 1..Len(xs) /\ l = d + Len(xs)
      BY <1>5, <1>7, <3>3, <3>6
    <3>8. xs[Len(xs)].seq = node.seq
      <4>1. xs[Len(xs)] = log[l] /\ l \in 1..l
        BY <3>3, <3>6, <3>7
      <4>2. log[l].seq = (node.seq - l) + l
        BY <3>3, <4>1
      <4> QED BY <1>4, <3>3, <4>1, <4>2
    <3>9. \A i \in DOMAIN xs : xs[i] = log[d + i] /\ d + i \in 1..l
      BY <3>3, <3>6, <3>7
    <3>10. \A i, j \in DOMAIN xs : i < j => xs[i].ev.id < xs[j].ev.id
      <4> SUFFICES ASSUME NEW i \in DOMAIN xs, NEW j \in DOMAIN xs, i < j
                   PROVE  xs[i].ev.id < xs[j].ev.id
        OBVIOUS
      <4>1. d + i \in DOMAIN log /\ d + j \in DOMAIN log /\ d + i < d + j
        BY <3>3, <3>7, <3>9
      <4> QED BY <3>3, <3>9, <4>1 DEF Grows
    <3>11. \A i \in DOMAIN xs : xs[i].ev.id \notin A
      <4> SUFFICES ASSUME NEW i \in DOMAIN xs PROVE xs[i].ev.id \notin A
        OBVIOUS
      <4>1. d + i \in 1..l /\ d + i > d
        BY <3>7, <3>9
      <4>2. log[d + i].seq > s
        BY <3>3, <3>4, <4>1
      <4> QED BY <3>1, <3>3, <3>9, <4>1, <4>2
    <3>12. /\ IdsOf(own) \subseteq IdsOf(xs)
           /\ \A i, j \in DOMAIN own : i < j => own[i].ev.id < own[j].ev.id
      BY <1>2, <1>5, <3>10, OnlyInOrder
    <3>13. \A i \in DOMAIN own : own[i].ev.id \notin A
      <4> HIDE DEF own
      <4>1. \A a \in IdsOf(xs) : a \notin A
        BY <3>11 DEF IdsOf, Range
      <4>2. \A i \in DOMAIN own : own[i].ev.id \in IdsOf(own)
        BY DEF IdsOf, Range
      <4> QED BY <3>12, <4>1, <4>2
    <3>14. Tells(inbox \o Ids(own), <<>>)
      <4> HIDE DEF own, A
      <4>1. <<>> \in Seq(Entry(Known))
        OBVIOUS
      <4>2. \A i \in DOMAIN own : own[i].ev.id \notin ToldOf(inbox, <<>>)
        BY <3>13 DEF A
      <4> QED BY <1>2, <2>3, <3>1, <3>12, <4>1, <4>2, TellsShown
    <3>15. watch'.cursor = [watch.cursor EXCEPT !.seq = node.seq]
      BY <2>2, <3>8
    <3>16. CursorOK(watch'.cursor) /\ watch'.cursor.seq = node.seq
      BY <1>4, <3>1, <3>15 DEF CursorOK
    <3>17. \A j \in DOMAIN log : ~(log[j].seq > node.seq)
      <4> SUFFICES ASSUME NEW j \in 1..l PROVE ~(log[j].seq > node.seq)
        BY <3>3
      <4>1. log[j].seq = (node.seq - l) + j
        BY <3>3
      <4> HIDE DEF l, log
      <4> QED BY <1>4, <3>3, <4>1
    <3>18. node.seq <= node.seq
      BY <1>4
    <3> QED BY <2>1, <3>14, <3>16, <3>17, <3>18
  <2> HIDE DEF own, xs
  <2> QED BY <1>1, <1>3, <2>1, <2>2, <2>4, <2>5, <2>6, SleeperStep
<1> QED BY <1>6, <1>7

LEMMA OnceSleeper ==
    ASSUME OnceInv, TheSleeper
    PROVE  NodeInv' /\ ReadsInv' /\ ReaderInv' /\ SleeperInv'
<1>1. Is("asleep") /\ UNCHANGED <<setup, node>>
  BY DEF TheSleeper, AsleepReads, AsleepChecks, AsleepMisses, AsleepRestart
<1>2. /\ EnvOK /\ ReadsInv /\ node \in Nodes(Known) /\ node.seq \in Nat
      /\ inbox \in Seq(0..env.events) /\ LogOK(node.log, node.seq) /\ SleeperInv
  BY OnceFacts DEF ReadsInv, OnceInv, Nodes
<1>3. {"pc", "cursor", "mine", "seen", "head"} \subseteq DOMAIN watch
      /\ "log" \in DOMAIN env /\ env.log \in {"followed", "rebuilt", "outgrown"}
  BY <1>2 DEF ReadsInv
<1>4. env.rebuilds = 0 =>
          /\ Tells(inbox, <<>>) /\ CursorOK(watch.cursor) /\ watch.cursor.seq <= node.seq
          /\ \A j \in DOMAIN node.log : node.log[j].seq > watch.cursor.seq =>
                node.log[j].ev.id \notin ToldOf(inbox, <<>>)
  BY <1>1, <1>2 DEF SleeperInv, Told, TellsOnce
<1>5. CASE AsleepChecks
  <2>1. /\ inbox' = inbox
        /\ watch' = [watch EXCEPT !.pc = "events",
                       !.cursor.seq = IF node.seq < @ THEN node.seq ELSE @]
        /\ \/ env' = [env EXCEPT !.log = LookedAt(watch.cursor)]
           \/ \E P : env' = [env EXCEPT !.log = "followed", !.passed = P]
    BY <1>5 DEF AsleepChecks, TheHead
  <2>4. /\ DOMAIN env' = DOMAIN env /\ env'.events = env.events /\ env'.ran = env.ran
        /\ env'.rebuilds = env.rebuilds /\ env'.log \in {"followed", "rebuilt", "outgrown"}
    BY <1>2, <1>3, <2>1 DEF LookedAt, EnvOK
  <2>2. /\ DOMAIN watch' = DOMAIN watch /\ watch'.mine = watch.mine
        /\ watch'.cursor = [watch.cursor EXCEPT !.seq = IF node.seq < @ THEN node.seq ELSE @]
    BY <1>3, <2>1
  <2>3. ASSUME env.rebuilds = 0 PROVE CursorOK(watch'.cursor) /\ watch'.cursor.seq = watch.cursor.seq
    BY <1>2, <1>4, <2>2, <2>3 DEF CursorOK
  <2> QED BY <1>1, <1>2, <1>3, <1>4, <2>1, <2>2, <2>3, <2>4, SleeperStep
<1>6. CASE AsleepMisses
  <2>1. DOMAIN watch' = DOMAIN watch /\ watch'.mine = watch.mine /\ watch'.cursor = watch.cursor
        /\ UNCHANGED <<inbox, env>>
    BY <1>3, <1>6 DEF AsleepMisses
  <2> QED BY <1>1, <1>2, <1>3, <1>4, <2>1, SleeperStep
<1>7. CASE AsleepRestart
  <2>1. /\ inbox' = <<>> /\ env' = Restarted("followed")
        /\ watch' = [watch EXCEPT !.pc = "events", !.cursor = NewCursor(node.seq)]
    BY <1>7 DEF AsleepRestart, TheHead
  <2>2. DOMAIN watch' = DOMAIN watch /\ watch'.mine = watch.mine /\ watch'.cursor = NewCursor(node.seq)
    BY <1>3, <2>1
  <2>3. /\ DOMAIN env' = DOMAIN env /\ env'.events = env.events /\ env'.rebuilds = env.rebuilds
        /\ env'.ran = env.ran /\ env'.log \in {"followed", "rebuilt", "outgrown"}
    BY <1>2, <2>1 DEF Restarted, EnvOK
  <2>4. CursorOK(watch'.cursor) /\ watch'.cursor.seq <= node.seq
    BY <1>2, <2>2 DEF CursorOK, NewCursor, NoFloor
  <2>5. Tells(<<>>, <<>>) /\ ToldOf(<<>>, <<>>) = {}
    BY DEF Tells, ToldOf, IdsOf, Range
  <2>6. inbox' \in Seq(0..env.events)
    BY <2>1
  <2> QED BY <1>1, <1>3, <2>1, <2>2, <2>3, <2>4, <2>5, <2>6, SleeperStep
<1> QED BY <1>5, <1>6, <1>7, OnceAsleepReads DEF TheSleeper

LEMMA OnceInit == Init => OnceInv
<1> SUFFICES ASSUME Init PROVE OnceInv
  OBVIOUS
<1>1. SealInv
  BY SealInit
<1>2. /\ node = Reloaded(<<>>, 0) /\ inbox = <<>> /\ "log" \in DOMAIN env /\ env.log = "followed"
      /\ env.events = 0
  BY DEF Init
<1>3. node = Emptied(<<>>, 0)
  <2> DEFINE none == <<>>
  <2>1. Len(none) = 0 /\ Len(none) - 0 = 0 /\ 0 \in 0..0 /\ Len(none) - 0 \in Nat
    OBVIOUS
  <2> HIDE DEF none
  <2>2. PICK f : IsReload(f, none, 0) /\ Reloaded(none, 0) = f[Len(none) - 0]
    BY <2>1, ReloadedIs
  <2>3. f[0] = Emptied(none, 0)
    BY <2>1, <2>2 DEF IsReload
  <2> QED BY <1>2, <2>1, <2>2, <2>3 DEF none
<1>4. node.blocks = <<>> /\ node.open = <<>> /\ node.log = <<>> /\ node.seq = 0 /\ node.ahead = <<>>
  BY <1>3 DEF Emptied
<1>5. Chain(node) = << <<>> >> /\ Top(node) = 1
  BY <1>4 DEF Chain, Top
<1>6. NodeInv
  <2>1. Fits(<<>>, 0, Chain(node), Top(node))
    BY FitsEmpty
  <2>2. ChainOK(Chain(node))
    <3>1. DOMAIN << <<>> >> = {1} /\ DOMAIN << <<>> >>[1] = {}
      OBVIOUS
    <3> QED BY <1>5, <3>1 DEF ChainOK
  <2> QED BY <1>4, <2>1, <2>2 DEF NodeInv, NodeOK
<1>7. /\ watch.cursor = NewCursor(0) /\ watch.mine = <<>>
      /\ {"pc", "cursor", "mine", "seen", "head"} \subseteq DOMAIN watch
  <2>1. disk = [epoch |-> 0, cursor |-> 0, question |-> 0]
    BY DEF Init
  <2>2. Session(disk, 0).cursor = 0
    BY <2>1 DEF Session
  <2>3. watch = [Watching(Session(disk, 0), 0) EXCEPT !.pc = IF Is("cat") THEN "head" ELSE "events"]
    BY DEF Init
  <2> DEFINE w == Watching(Session(disk, 0), 0)
  <2>4. /\ w.cursor = NewCursor(0) /\ w.mine = <<>>
        /\ {"pc", "cursor", "mine", "seen", "head"} \subseteq DOMAIN w
    BY <2>2 DEF Watching
  <2> HIDE DEF w
  <2> QED BY <2>3, <2>4 DEF w
<1>8. ReadsInv
  <2>1. inbox \in Seq(0..env.events) /\ watch.mine \in Seq(Entry(Known))
    BY <1>2, <1>7
  <2> QED BY <1>2, <1>7, <2>1 DEF ReadsInv
<1>9. TellsOnce /\ Told = {}
  BY <1>2, <1>7 DEF TellsOnce, Tells, Told, ToldOf, IdsOf, Range
<1>10. CursorOK(watch.cursor) /\ watch.cursor.seq = 0
  BY <1>7 DEF CursorOK, NewCursor, NoFloor
<1>11. ReaderInv
  <2> DEFINE c == NewCursor(0)
  <2>1. c.seq = 0 /\ c.block = 0 /\ c.in = 0 /\ c.floor = NoFloor /\ c.floorSeen = 0
    BY DEF NewCursor
  <2> HIDE DEF c
  <2>2. Past(c, Chain(node), {})
    BY DEF Past
  <2>3. Knows(c, node.log, {})
    BY DEF Knows
  <2>4. Follows(c, node.log, 0, {})
    <3>1. {k \in 1..0 : node.log[k].block = c.block} = {}
      OBVIOUS
    <3>2. Count(node.log, c.block, 1, 0) = 0
      BY <3>1, FS_EmptySet DEF Count
    <3>3. Len(node.log) = 0
      BY <1>4
    <3>4. Count(node.log, c.block, 1, 0) <= c.in
      BY <2>1, <3>2
    <3>5. \A j \in 0 + 1..Len(node.log) : node.log[j].block >= c.block /\ node.log[j].ev.id \notin {}
      BY <3>3
    <3> QED BY <2>1, <3>4, <3>5 DEF Follows
  <2>5. Read(node, c.seq) = 0
    BY <1>4, <2>1 DEF Read
  <2>6. Tracks(node, c, {})
    BY <1>4, <1>5, <2>1, <2>4, <2>5 DEF Tracks
  <2>7. ReaderOK(node, c, {}, env.log)
    BY <2>1, <2>2, <2>3, <2>6 DEF ReaderOK
  <2>8. ReaderOK(node, watch.cursor, Told, env.log)
    BY <1>7, <1>9, <2>7 DEF c
  <2> QED BY <1>9, <1>10, <2>8 DEF ReaderInv
<1>12. SleeperInv
  <2>1. DOMAIN node.log = {} /\ watch.cursor.seq <= node.seq
    BY <1>4, <1>10
  <2> QED BY <1>4, <1>7, <1>9, <1>10, <2>1 DEF SleeperInv
<1> QED BY <1>1, <1>6, <1>8, <1>11, <1>12 DEF OnceInv

LEMMA OnceStep == OnceInv /\ [Next]_vars => OnceInv'
<1> SUFFICES ASSUME OnceInv, [Next]_vars PROVE OnceInv'
  OBVIOUS
<1>1. SealInv'
  BY SealStep DEF OnceInv
<1>2. CASE UNCHANGED vars
  <2>1. /\ SealInv /\ NodeInv /\ ReadsInv /\ ReaderInv /\ SleeperInv
        /\ UNCHANGED <<setup, node, watch, inbox, env>>
    BY <1>2 DEF OnceInv, vars
  <2>2. Known' = Known /\ (Is("asleep")' <=> Is("asleep")) /\ Told' = Told /\ (TellsOnce' <=> TellsOnce)
    BY <2>1 DEF Known, Is, Told, TellsOnce
  <2>3. NodeInv' /\ ReadsInv'
    BY <2>1, <2>2 DEF NodeInv, ReadsInv
  <2>4. ReaderInv' /\ SleeperInv'
    BY <2>1, <2>2 DEF ReaderInv, SleeperInv
  <2> QED BY <1>1, <2>3, <2>4 DEF OnceInv
<1>3. CASE Next
  <2>1. NodeInv' /\ ReadsInv' /\ ReaderInv' /\ SleeperInv'
    BY <1>3, OnceNode, OnceCat, OnceSleeper, OnceTerminal DEF Next
  <2> QED BY <1>1, <2>1 DEF OnceInv
<1> QED BY <1>2, <1>3

\* However often the node throws its log away and rebuilds it from its store, and
\* whatever it pulls again, no event wakes a cat twice or is shown twice (common.rs:
\* check_head, accept_at; agent.rs: watch_chain; client.rs: tail_events, log), nor
\* is a message answered twice by a cat asleep (agent.rs: run_asleep), under the
\* conditions ActedOnce states: for any LOG_CAP, any number of events, rebuilds,
\* rewinds, adopted checkpoints and unanswered calls.
THEOREM EventsAreActedOnce == Spec => []ActedOnce
<1>1. Spec => []OnceInv
  BY OnceInit, OnceStep, PTL DEF Spec
<1>2. OnceInv => ActedOnce
  <2> SUFFICES ASSUME OnceInv, IF Is("asleep") THEN env.rebuilds = 0
                                              ELSE env.restarts = 0 /\ env.log # "outgrown"
               PROVE  \A i, j \in DOMAIN inbox : (inbox[i] = inbox[j] /\ inbox[i] # 0) => i = j
    BY DEF ActedOnce
  <2>1. TellsOnce
    BY DEF OnceInv, ReaderInv, SleeperInv
  <2> QED BY <2>1 DEF TellsOnce, Tells
<1> QED BY <1>1, <1>2, PTL

\* What a reader is given is the record, in its order: the log's numbers have no
\* gap, its ids and blocks grow, it holds LOG_CAP entries at most, it agrees with
\* the blocks on which event came before which block, and it drops entries from its
\* oldest block only (node.rs: absorb, persist, reload_from_store, apply_block),
\* through every rebuild, rewind and adopted checkpoint.
THEOREM LogIsOfTheRecord == Spec => []NodeInv
<1>1. Spec => []OnceInv
  BY OnceInit, OnceStep, PTL DEF Spec
<1>2. OnceInv => NodeInv
  BY DEF OnceInv
<1> QED BY <1>1, <1>2, PTL

-----------------------------------------------------------------------------
(* Who hears what. *)

\* Of what is in W and above the mark, what was read is in T.
Heeds(log, d, mark, W, T) ==
    \A j \in 1..d : (log[j].ev \in W /\ mark < log[j].block) => log[j].ev.id \in T

\* And what is not read yet will not be skipped, or is in T.
Awaits(c, log, d, mark, W, T) ==
    c.floor # NoFloor =>
        \A j \in d + 1..Len(log) :
            (log[j].ev \in W /\ mark < log[j].block) =>
                \/ log[j].ev.id \in T \/ c.block < log[j].block
                \/ log[j].block = c.block /\ Count(log, c.block, d + 1, j) > c.in - c.floorSeen

\* The log has all of the block b that came since it was made.
Kept(log, seq, b) == Len(log) = seq \/ (log # <<>> /\ log[1].block < b)

\* How much of its block the cursor takes for read.
Seen(c) == IF c.floor = NoFloor THEN c.in ELSE c.floorSeen

\* Above the mark the place of the cursor is one in this log, which has as much of
\* its block as the cursor takes for read, and as it is to skip.
Places(c, log, seq, d, mark) ==
    mark < c.block =>
        /\ c.floor = NoFloor => \A j \in d + 1..Len(log) : c.block <= log[j].block
        /\ Kept(log, seq, c.block) =>
              /\ Seen(c) <= Count(log, c.block, 1, d)
              /\ c.floor # NoFloor => c.in - c.floorSeen <= Count(log, c.block, d + 1, Len(log))

\* What a cursor is, once it has read an entry.
AdvancesTo(c, x, e) ==
    /\ CursorOK(e) /\ e.seq = IF x.seq > c.seq THEN x.seq ELSE c.seq
    /\ Accepts(c, x) =>
          /\ e.block = x.block /\ e.in = (IF x.block = c.block THEN c.in + 1 ELSE 1)
          /\ e.floor = NoFloor
          /\ c.floor = NoFloor \/ c.block < x.block \/ (x.block = c.block /\ c.in <= c.floorSeen)
    /\ ~Accepts(c, x) =>
          /\ c.floor # NoFloor /\ e.floor # NoFloor /\ e.block = c.block /\ e.in = c.in
          /\ \/ x.block < c.block /\ e.floorSeen = c.floorSeen
             \/ x.block = c.block /\ c.floorSeen < c.in /\ e.floorSeen = c.floorSeen + 1

LEMMA AdvancedIs ==
    ASSUME NEW c, CursorOK(c), NEW x, x.seq \in Nat, x.block \in Nat
    PROVE  AdvancesTo(c, x, Advanced(c, x))
<1> DEFINE e == Advanced(c, x)
           b == c.block
           s == IF x.seq > c.seq THEN x.seq ELSE c.seq
<1>1. /\ c.seq \in Nat /\ b \in Nat /\ c.in \in Nat /\ c.floorSeen \in Nat
      /\ DOMAIN c = {"seq", "block", "in", "floor", "floorSeen"}
      /\ c.floor = NoFloor \/ c.floor = <<b, c.in>>
  BY DEF CursorOK
<1>2. NoFloor # <<b, c.in>>
  BY DEF NoFloor
<1>3. s \in Nat
  BY <1>1
<1>4. CASE ~Accepts(c, x)
  <2>1. c.floor = <<b, c.in>> /\ (x.block < b \/ (x.block = b /\ c.floorSeen < c.in))
    BY <1>1, <1>2, <1>4 DEF Accepts, BelowFloor, AtFloor
  <2>2. AtFloor(c, x) <=> (x.block = b /\ c.floorSeen < c.in)
    BY <1>2, <2>1 DEF AtFloor
  <2>3. e = IF AtFloor(c, x) THEN [[c EXCEPT !.seq = s] EXCEPT !.floorSeen = c.floorSeen + 1]
                             ELSE [c EXCEPT !.seq = s]
    BY <1>1, <1>4 DEF Advanced
  <2> DEFINE seen == IF x.block = b THEN c.floorSeen + 1 ELSE c.floorSeen
  <2>4. /\ DOMAIN e = DOMAIN c /\ e.seq = s /\ e.block = b /\ e.in = c.in
        /\ e.floor = c.floor /\ e.floorSeen = seen
    BY <1>1, <2>1, <2>2, <2>3
  <2> HIDE DEF e, s
  <2>5. CursorOK(e)
    BY <1>1, <1>3, <2>4 DEF CursorOK
  <2> QED BY <1>1, <1>2, <1>4, <2>1, <2>4, <2>5 DEF AdvancesTo, e, s
<1>5. CASE Accepts(c, x)
  <2> DEFINE i == IF x.block = b THEN c.in + 1 ELSE 1
  <2>1. e = [[c EXCEPT !.seq = s] EXCEPT !.floor = NoFloor, !.block = x.block, !.in = i]
    BY <1>1, <1>5 DEF Advanced
  <2>2. /\ DOMAIN e = DOMAIN c /\ e.seq = s /\ e.block = x.block /\ e.in = i
        /\ e.floor = NoFloor /\ e.floorSeen = c.floorSeen
    BY <1>1, <2>1
  <2> HIDE DEF e, s
  <2>3. CursorOK(e)
    BY <1>1, <1>3, <2>2 DEF CursorOK
  <2>4. c.floor = NoFloor \/ b < x.block \/ (x.block = b /\ c.in <= c.floorSeen)
    <3>1. SUFFICES ASSUME c.floor # NoFloor PROVE b < x.block \/ (x.block = b /\ c.in <= c.floorSeen)
      OBVIOUS
    <3>2. c.floor[1] = b /\ c.floor[2] = c.in
      BY <1>1, <3>1
    <3>3. ~(x.block < b) /\ ~(x.block = b /\ c.floorSeen < c.in)
      BY <1>5, <3>1, <3>2 DEF Accepts, BelowFloor, AtFloor
    <3> QED BY <1>1, <3>3
  <2> QED BY <1>5, <2>2, <2>3, <2>4 DEF AdvancesTo, e, s
<1> QED BY <1>4, <1>5

\* One entry is read: as nothing that is due was skipped, none is.
LEMMA HearsOne ==
    ASSUME NEW E, NEW log \in Seq(Entry(E)), Grows(log), NEW seq,
           NEW c, CursorOK(c), NEW d \in Nat, d < Len(log), NEW mark \in Nat, NEW W, NEW T,
           Heeds(log, d, mark, W, T), Awaits(c, log, d, mark, W, T), Places(c, log, seq, d, mark),
           NEW e, AdvancesTo(c, log[d + 1], e),
           NEW U, U = IF Accepts(c, log[d + 1]) THEN T \cup {log[d + 1].ev.id} ELSE T
    PROVE  /\ Heeds(log, d + 1, mark, W, U) /\ Awaits(e, log, d + 1, mark, W, U)
           /\ Places(e, log, seq, d + 1, mark)
<1> DEFINE n == Len(log)
           x == log[d + 1]
           b == c.block
           h == d + 1
<1>1. /\ n \in Nat /\ DOMAIN log = 1..n /\ h \in 1..n /\ h \in Nat /\ h - 1 = d
      /\ \A k \in 1..n : log[k].block \in Nat
  <2>1. n \in Nat /\ DOMAIN log = 1..n /\ \A k \in 1..n : log[k] \in Entry(E)
    OBVIOUS
  <2> HIDE DEF x, b
  <2> QED BY <2>1 DEF Entry
<1>2. \A k \in h + 1..n : k \in 1..n /\ x.block <= log[k].block
  <2> HIDE DEF b
  <2>2. \A k \in h + 1..n : k \in 1..n /\ h < k
    BY <1>1
  <2> QED BY <1>1, <2>2 DEF Grows
<1>3. /\ b \in Nat /\ c.in \in Nat /\ c.floorSeen \in Nat /\ x.block \in Nat
  BY <1>1 DEF CursorOK
<1>4. \A q \in {b, x.block} : /\ Count(log, q, 1, h) = Count(log, q, 1, d) + (IF x.block = q THEN 1 ELSE 0)
                              /\ Count(log, q, 1, d) \in Nat /\ Count(log, q, 1, h) \in Nat
  <2> SUFFICES ASSUME NEW q
               PROVE  /\ Count(log, q, 1, h) = Count(log, q, 1, d) + (IF x.block = q THEN 1 ELSE 0)
                      /\ Count(log, q, 1, d) \in Nat /\ Count(log, q, 1, h) \in Nat
    OBVIOUS
  <2>1. 1 \in Nat /\ d \in Nat /\ 1 <= d + 1 /\ h \in Nat
    BY <1>1
  <2>2. Count(log, q, 1, d + 1) = Count(log, q, 1, d) + (IF log[d + 1].block = q THEN 1 ELSE 0)
    BY <2>1, CountLast
  <2> QED BY <2>1, <2>2, CountIs
<1>5. ASSUME NEW j \in h..n
      PROVE  /\ Count(log, b, h, j) = Count(log, b, h + 1, j) + (IF x.block = b THEN 1 ELSE 0)
             /\ Count(log, b, h, j) \in Nat /\ Count(log, b, h + 1, j) \in Nat
  <2>1. h \in Nat /\ j \in Nat /\ h <= j /\ h + 1 \in Nat
    BY <1>1
  <2> HIDE DEF h
  <2>2. Count(log, b, h, j) = Count(log, b, h + 1, j) + (IF log[h].block = b THEN 1 ELSE 0)
    BY <2>1, CountFirst
  <2> QED BY <2>1, <2>2, CountIs DEF h
<1>6. T \subseteq U
  OBVIOUS
<1>7. AdvancesTo(c, x, e)
  OBVIOUS
<1>8. Accepts(c, x) => x.ev.id \in U
  OBVIOUS
<1>9. \A j \in 1..d : (log[j].ev \in W /\ mark < log[j].block) => log[j].ev.id \in T
  BY DEF Heeds
<1>10. c.floor # NoFloor =>
        \A j \in h..n :
            (log[j].ev \in W /\ mark < log[j].block) =>
                \/ log[j].ev.id \in T \/ b < log[j].block
                \/ log[j].block = b /\ Count(log, b, h, j) > c.in - c.floorSeen
  BY DEF Awaits
<1>11. mark < b =>
        /\ c.floor = NoFloor => \A j \in h..n : b <= log[j].block
        /\ Kept(log, seq, b) =>
              /\ Seen(c) <= Count(log, b, 1, d)
              /\ c.floor # NoFloor => c.in - c.floorSeen <= Count(log, b, h, n)
  BY DEF Places
<1>12. d \in Nat /\ \A j \in 1..h : j \in 1..d \/ j = h
  BY <1>1
<1> HIDE DEF x, b, h, n
<1>13. CASE ~Accepts(c, x)
  <2>1. /\ c.floor # NoFloor /\ e.floor # NoFloor /\ e.block = b /\ e.in = c.in
        /\ \/ x.block < b /\ e.floorSeen = c.floorSeen
           \/ x.block = b /\ c.floorSeen < c.in /\ e.floorSeen = c.floorSeen + 1
    BY <1>7, <1>13 DEF AdvancesTo, b
  <2>2. (x.ev \in W /\ mark < x.block) => x.ev.id \in T
    <3>1. SUFFICES ASSUME x.ev \in W, mark < x.block, x.ev.id \notin T PROVE FALSE
      OBVIOUS
    <3>2. h \in h..n /\ x = log[h]
      BY <1>1 DEF x, h
    <3>3. b < x.block \/ (x.block = b /\ Count(log, b, h, h) > c.in - c.floorSeen)
      BY <1>10, <2>1, <3>1, <3>2
    <3>4. Count(log, b, h, h) = 1 \/ x.block # b
      BY <1>1, <3>2, CountOne
    <3> QED BY <1>3, <2>1, <3>3, <3>4
  <2>3. Heeds(log, h, mark, W, U)
    <3>1. x = log[h]
      BY DEF x, h
    <3> QED BY <1>6, <1>9, <1>12, <2>2, <3>1 DEF Heeds
  <2>4. ASSUME NEW j \in h + 1..n, log[j].ev \in W, mark < log[j].block, log[j].ev.id \notin T,
               ~(b < log[j].block)
        PROVE  log[j].block = b /\ Count(log, b, h + 1, j) > c.in - e.floorSeen
    <3>1. j \in h..n
      BY <1>1
    <3>2. log[j].block = b /\ Count(log, b, h, j) > c.in - c.floorSeen
      BY <1>10, <2>1, <2>4, <3>1
    <3> QED BY <1>3, <1>5, <2>1, <3>1, <3>2
  <2>5. Awaits(e, log, h, mark, W, U)
    BY <1>6, <2>1, <2>4 DEF Awaits, n
  <2>6. ASSUME mark < b, Kept(log, seq, b)
        PROVE  e.floorSeen <= Count(log, b, 1, h) /\ e.in - e.floorSeen <= Count(log, b, h + 1, n)
    <3>1. c.floorSeen <= Count(log, b, 1, d) /\ c.in - c.floorSeen <= Count(log, b, h, n)
      BY <1>11, <2>1, <2>6 DEF Seen
    <3>2. n \in h..n
      BY <1>1
    <3>3. /\ Count(log, b, h, n) = Count(log, b, h + 1, n) + (IF x.block = b THEN 1 ELSE 0)
          /\ Count(log, b, h, n) \in Nat /\ Count(log, b, h + 1, n) \in Nat
      BY <1>5, <3>2
    <3>4. /\ Count(log, b, 1, h) = Count(log, b, 1, d) + (IF x.block = b THEN 1 ELSE 0)
          /\ Count(log, b, 1, d) \in Nat /\ Count(log, b, 1, h) \in Nat
      BY <1>4
    <3>5. CASE x.block < b /\ e.floorSeen = c.floorSeen
      BY <1>3, <2>1, <3>1, <3>3, <3>4, <3>5
    <3>6. CASE x.block = b /\ e.floorSeen = c.floorSeen + 1
      <4>1. Count(log, b, 1, h) = Count(log, b, 1, d) + 1 /\ Count(log, b, h, n) = Count(log, b, h + 1, n) + 1
        BY <3>3, <3>4, <3>6
      <4>2. e.floorSeen <= Count(log, b, 1, h)
        BY <1>3, <3>1, <3>4, <3>6, <4>1
      <4>3. e.in - e.floorSeen <= Count(log, b, h + 1, n)
        BY <1>3, <2>1, <3>1, <3>3, <3>6, <4>1
      <4> QED BY <4>2, <4>3
    <3> QED BY <2>1, <3>5, <3>6
  <2>7. Places(e, log, seq, h, mark)
    BY <2>1, <2>6 DEF Places, Seen, n
  <2> QED BY <2>3, <2>5, <2>7 DEF h
<1>14. CASE Accepts(c, x)
  <2>1. /\ e.block = x.block /\ e.in = (IF x.block = b THEN c.in + 1 ELSE 1) /\ e.floor = NoFloor
        /\ c.floor = NoFloor \/ b < x.block \/ (x.block = b /\ c.in <= c.floorSeen)
    BY <1>7, <1>14 DEF AdvancesTo, b
  <2>2. Heeds(log, h, mark, W, U)
    <3>1. x = log[h]
      BY DEF x, h
    <3> QED BY <1>6, <1>8, <1>9, <1>12, <1>14, <3>1 DEF Heeds
  <2>3. Awaits(e, log, h, mark, W, U)
    BY <2>1 DEF Awaits
  <2>4. ASSUME mark < x.block, Kept(log, seq, x.block)
        PROVE  e.in <= Count(log, x.block, 1, h)
    <3>1. CASE x.block = b
      <4>1. Seen(c) <= Count(log, b, 1, d)
        BY <1>11, <2>4, <3>1
      <4>2. c.in <= Count(log, b, 1, d)
        <5>1. CASE c.floor = NoFloor
          BY <4>1, <5>1 DEF Seen
        <5>2. CASE c.floor # NoFloor
          BY <1>3, <1>4, <2>1, <3>1, <4>1, <5>2 DEF Seen
        <5> QED BY <5>1, <5>2
      <4> QED BY <1>3, <1>4, <2>1, <3>1, <4>2
    <3>2. CASE x.block # b
      BY <1>4, <2>1, <3>2
    <3> QED BY <3>1, <3>2
  <2>5. Places(e, log, seq, h, mark)
    BY <1>2, <2>1, <2>4 DEF Places, Seen, n
  <2> QED BY <2>2, <2>3, <2>5 DEF h
<1> QED BY <1>13, <1>14

\* A cursor that has read d entries of a log, with what is due in T.
HearsAt(c, log, seq, d, mark, W, T) ==
    Heeds(log, d, mark, W, T) /\ Awaits(c, log, d, mark, W, T) /\ Places(c, log, seq, d, mark)

\* What a read of all but d entries makes of a cursor: what is news comes in its order.
ReadsOn(E, c, log, d, e, news) ==
    /\ CursorOK(e) /\ e.seq = IF d < Len(log) THEN log[Len(log)].seq ELSE c.seq
    /\ e.block = c.block \/ \E k \in DOMAIN log : e.block = log[k].block
    /\ e.floor # NoFloor => c.floor # NoFloor /\ e.block = c.block
    /\ news \in Seq(Entry(E))
    /\ \A i, j \in DOMAIN news : i < j => news[i].seq < news[j].seq
    /\ \A i \in DOMAIN news : \E k \in d + 1..Len(log) : news[i] = log[k]

LEMMA HearsAll ==
    ASSUME NEW E, NEW log \in Seq(Entry(E)), Grows(log),
           \A i, j \in DOMAIN log : i < j => log[i].seq < log[j].seq,
           NEW c, CursorOK(c), NEW d \in Nat, d <= Len(log),
           \A j \in d + 1..Len(log) : log[j].seq > c.seq,
           NEW seq, NEW mark \in Nat, NEW W, NEW T,
           NEW xs, Len(xs) = Len(log) - d, \A k \in 1..Len(xs) : xs[k] = log[d + k]
    PROVE  LET got == Batch(c, xs) IN
           /\ ReadsOn(E, c, log, d, got.cursor, got.news)
           /\ HearsAt(c, log, seq, d, mark, W, T) =>
                 HearsAt(got.cursor, log, seq, Len(log), mark, W, T \cup IdsOf(got.news))
<1> DEFINE n == Len(log)
           m == n - d
           H0 == HearsAt(c, log, seq, d, mark, W, T)
<1>1. /\ n \in Nat /\ DOMAIN log = 1..n /\ m \in Nat /\ Len(xs) = m /\ d + m = n
      /\ \A k \in 1..n : log[k] \in Entry(E)
  OBVIOUS
<1>2. /\ \A k \in 1..n : log[k].seq \in Nat /\ log[k].block \in Nat
      /\ \A j \in d + 1..n : log[j].seq > c.seq
      /\ \A i, j \in 1..n : i < j => log[i].seq < log[j].seq
  <2>1. \A k \in 1..n : log[k].seq \in Nat /\ log[k].block \in Nat
    BY <1>1 DEF Entry
  <2> QED BY <1>1, <2>1
<1>3. c.seq \in Nat
  BY DEF CursorOK
<1>4. PICK f : IsBatch(f, c, xs) /\ Batch(c, xs) = f[m]
  BY <1>1, BatchIs
<1>5. f[0] = [cursor |-> c, news |-> <<>>] /\ \A i \in 1..m : f[i] = Taken(f[i - 1], xs[i])
  <2>1. \A i \in 0..m : f[i] = IF i = 0 THEN [cursor |-> c, news |-> <<>>] ELSE Taken(f[i - 1], xs[i])
    BY <1>1, <1>4 DEF IsBatch
  <2> QED BY <1>1, <2>1
<1> DEFINE Good(e, news, i) ==
              /\ CursorOK(e) /\ e.seq = IF i > 0 THEN log[d + i].seq ELSE c.seq
              /\ e.block = c.block \/ \E k \in DOMAIN log : e.block = log[k].block
              /\ e.floor # NoFloor => c.floor # NoFloor /\ e.block = c.block
              /\ news \in Seq(Entry(E))
              /\ \A j, k \in DOMAIN news : j < k => news[j].seq < news[k].seq
              /\ \A j \in DOMAIN news : \E k \in d + 1..d + i : news[j] = log[k]
              /\ H0 => HearsAt(e, log, seq, d + i, mark, W, T \cup IdsOf(news))
           G == {i \in Nat : i <= m => Good(f[i].cursor, f[i].news, i)}
<1>6. Good(c, <<>>, 0)
  <2> DEFINE none == <<>>
  <2>1. none \in Seq(Entry(E)) /\ DOMAIN none = {} /\ Range(none) = {}
    BY DEF Range
  <2> HIDE DEF none
  <2>2. IdsOf(none) = {} /\ T \cup {} = T /\ d + 0 = d /\ ~(0 > 0)
    BY <2>1 DEF IdsOf
  <2> HIDE DEF n, m
  <2>3. H0 => HearsAt(c, log, seq, d + 0, mark, W, T \cup IdsOf(none))
    <3>1. T \cup IdsOf(none) = T
      BY <2>2
    <3> HIDE DEF none
    <3> QED BY <2>2, <3>1
  <2> HIDE DEF H0
  <2>4. Good(c, none, 0)
    BY <2>1, <2>2, <2>3
  <2> QED BY <2>4 DEF none
<1> HIDE DEF H0
<1>7. ASSUME NEW i \in Nat, i + 1 <= m, NEW e, NEW news, Good(e, news, i)
      PROVE  LET t == Taken([cursor |-> e, news |-> news], log[d + (i + 1)]) IN
             Good(t.cursor, t.news, i + 1)
  <2> DEFINE h == d + i
             x == log[h + 1]
             u == Advanced(e, x)
             after == IF Accepts(e, x) THEN Append(news, x) ELSE news
             B == T \cup IdsOf(news)
             V == IF Accepts(e, x) THEN B \cup {x.ev.id} ELSE B
  <2>1. h \in Nat /\ h < n /\ h + 1 \in 1..n /\ d + (i + 1) = h + 1 /\ h + 1 \in d + 1..n
    <3> HIDE DEF n, m, Good
    <3> QED BY <1>1, <1>7
  <2>2. x \in Entry(E) /\ x.seq \in Nat /\ x.block \in Nat
    BY <1>1, <1>2, <2>1
  <2>3. /\ CursorOK(e) /\ e.seq = IF i > 0 THEN log[d + i].seq ELSE c.seq
        /\ e.block = c.block \/ \E k \in DOMAIN log : e.block = log[k].block
        /\ e.floor # NoFloor => c.floor # NoFloor /\ e.block = c.block
        /\ news \in Seq(Entry(E))
        /\ \A j, k \in DOMAIN news : j < k => news[j].seq < news[k].seq
        /\ \A j \in DOMAIN news : \E k \in d + 1..d + i : news[j] = log[k]
        /\ H0 => HearsAt(e, log, seq, h, mark, W, B)
    BY <1>7
  <2> HIDE DEF Good, B
  <2>4. AdvancesTo(e, x, u)
    <3> HIDE DEF x, u
    <3> QED BY <2>2, <2>3, AdvancedIs DEF u
  <2>5. u.seq = x.seq
    <3>1. e.seq < x.seq /\ e.seq \in Nat /\ x.seq \in Nat
      <4>1. CASE i > 0
        BY <1>2, <2>1, <2>3, <4>1
      <4>2. CASE i = 0
        BY <1>2, <1>3, <2>1, <2>3, <4>2
      <4> QED BY <4>1, <4>2
    <3> QED BY <2>4, <3>1 DEF AdvancesTo
  <2>6. H0 => HearsAt(u, log, seq, h + 1, mark, W, V)
    <3>1. SUFFICES ASSUME H0 PROVE HearsAt(u, log, seq, h + 1, mark, W, V)
      OBVIOUS
    <3>2. /\ Heeds(log, h, mark, W, B) /\ Awaits(e, log, h, mark, W, B) /\ Places(e, log, seq, h, mark)
      BY <2>3, <3>1 DEF HearsAt
    <3>3. CursorOK(e) /\ h \in Nat /\ h < Len(log) /\ AdvancesTo(e, log[h + 1], u)
      BY <2>1, <2>3, <2>4
    <3>4. V = IF Accepts(e, log[h + 1]) THEN B \cup {log[h + 1].ev.id} ELSE B
      OBVIOUS
    <3> HIDE DEF n, m, h, x, u, V
    <3>5. /\ Heeds(log, h + 1, mark, W, V) /\ Awaits(u, log, h + 1, mark, W, V)
          /\ Places(u, log, seq, h + 1, mark)
      BY <3>2, <3>3, <3>4, HearsOne
    <3> QED BY <3>5 DEF HearsAt
  <2>7. Len(news) \in Nat /\ DOMAIN news = 1..Len(news)
    BY <2>3
  <2>8. \A j \in DOMAIN news : news[j].seq < x.seq
    <3>1. ASSUME NEW j \in DOMAIN news PROVE news[j].seq < x.seq
      <4>1. PICK k \in d + 1..d + i : news[j] = log[k]
        BY <2>3
      <4> QED BY <1>2, <2>1, <4>1
    <3> QED BY <3>1
  <2>9. T \cup IdsOf(after) = V /\ after \in Seq(Entry(E))
    <3>1. CASE Accepts(e, x)
      <4>1. IdsOf(after) = IdsOf(news) \cup {x.ev.id}
        <5> HIDE DEF x
        <5> QED BY <2>3, <3>1, IdsOfAppend
      <4> QED BY <2>2, <2>3, <3>1, <4>1 DEF B
    <3>2. CASE ~Accepts(e, x)
      BY <2>3, <3>2 DEF B
    <3> QED BY <3>1, <3>2
  <2>10. /\ \A j, k \in DOMAIN after : j < k => after[j].seq < after[k].seq
         /\ \A j \in DOMAIN after : \E k \in d + 1..d + (i + 1) : after[j] = log[k]
    <3>1. \A j \in DOMAIN news : \E k \in d + 1..d + (i + 1) : news[j] = log[k]
      BY <1>1, <2>1, <2>3
    <3>2. CASE Accepts(e, x)
      <4>1. /\ DOMAIN after = 1..Len(news) + 1 /\ after[Len(news) + 1] = x
            /\ \A j \in 1..Len(news) : after[j] = news[j]
        <5> HIDE DEF x, u
        <5> QED BY <2>3, <2>7, <3>2
      <4>2. h + 1 \in d + 1..d + (i + 1) /\ x = log[h + 1]
        BY <1>1, <2>1
      <4> HIDE DEF x, after, u, h
      <4>4. ASSUME NEW j \in 1..Len(news) + 1, NEW k \in 1..Len(news) + 1, j < k
            PROVE  after[j].seq < after[k].seq
        <5>1. j \in 1..Len(news)
          BY <2>7, <4>4
        <5>2. CASE k = Len(news) + 1
          BY <2>7, <2>8, <4>1, <5>1, <5>2
        <5>3. CASE k # Len(news) + 1
          <6>1. k \in 1..Len(news)
            BY <2>7, <5>3
          <6> QED BY <2>3, <2>7, <4>1, <4>4, <5>1, <6>1
        <5> QED BY <5>2, <5>3
      <4>5. ASSUME NEW j \in 1..Len(news) + 1
            PROVE  \E k \in d + 1..d + (i + 1) : after[j] = log[k]
        <5>0. Len(news) \in Nat
          BY <2>7
        <5>1. CASE j = Len(news) + 1
          BY <4>1, <4>2, <5>1
        <5>2. CASE j # Len(news) + 1
          <6>1. j \in 1..Len(news)
            BY <5>0, <5>2
          <6> QED BY <2>7, <3>1, <4>1, <6>1
        <5> QED BY <5>1, <5>2
      <4> QED BY <4>1, <4>4, <4>5
    <3>3. CASE ~Accepts(e, x)
      BY <2>3, <3>1, <3>3
    <3> QED BY <3>2, <3>3
  <2>11. /\ CursorOK(u)
         /\ u.block = c.block \/ \E k \in DOMAIN log : u.block = log[k].block
         /\ u.floor # NoFloor => c.floor # NoFloor /\ u.block = c.block
    <3>1. h + 1 \in DOMAIN log /\ x = log[h + 1]
      BY <1>1, <2>1
    <3> HIDE DEF x, u, h
    <3> QED BY <2>3, <2>4, <3>1 DEF AdvancesTo
  <2> DEFINE t == Taken([cursor |-> e, news |-> news], x)
  <2>12. t.cursor = u /\ t.news = after
    BY DEF Taken
  <2> HIDE DEF u, after, t, V
  <2>13. Good(u, after, i + 1)
    <3>1. i + 1 > 0 /\ x = log[d + (i + 1)]
      BY <1>1, <2>1 DEF h, x
    <3>2. H0 => HearsAt(u, log, seq, d + (i + 1), mark, W, T \cup IdsOf(after))
      BY <2>1, <2>6, <2>9
    <3> HIDE DEF x, n, m
    <3> QED BY <2>5, <2>9, <2>10, <2>11, <3>1, <3>2 DEF Good
  <2>14. x = log[d + (i + 1)]
    BY <2>1
  <2> HIDE DEF x
  <2> QED BY <2>12, <2>13, <2>14 DEF t
<1> HIDE DEF Good, m, n
<1>8. 0 \in G
  BY <1>5, <1>6
<1>9. ASSUME NEW i \in Nat, i \in G PROVE i + 1 \in G
  <2>1. SUFFICES ASSUME i + 1 <= m PROVE Good(f[i + 1].cursor, f[i + 1].news, i + 1)
    OBVIOUS
  <2>2. Good(f[i].cursor, f[i].news, i) /\ i + 1 \in 1..m
    BY <1>1, <1>9, <2>1
  <2>3. f[i + 1] = Taken(f[i], log[d + (i + 1)])
    <3>1. f[i + 1] = Taken(f[i], xs[i + 1])
      <4>1. (i + 1) - 1 = i
        OBVIOUS
      <4> QED BY <1>5, <2>2, <4>1
    <3> QED BY <1>1, <2>2, <3>1
  <2> DEFINE e == f[i].cursor
             news == f[i].news
             t == Taken([cursor |-> e, news |-> news], log[d + (i + 1)])
  <2>4. t = Taken(f[i], log[d + (i + 1)])
    BY DEF Taken
  <2> HIDE DEF e, news
  <2>5. Good(t.cursor, t.news, i + 1)
    BY <1>7, <2>1, <2>2 DEF e, news
  <2> HIDE DEF t
  <2> QED BY <2>3, <2>4, <2>5
<1>10. m \in G
  <2> HIDE DEF G
  <2> QED BY <1>1, <1>8, <1>9, InductionBySet
<1> DEFINE e == f[m].cursor
           news == f[m].news
<1>11. Good(e, news, m)
  BY <1>1, <1>10
<1>12. Batch(c, xs).cursor = e /\ Batch(c, xs).news = news
  BY <1>4
<1> HIDE DEF e, news
<1>13. ReadsOn(E, c, log, d, e, news) /\ (H0 => HearsAt(e, log, seq, n, mark, W, T \cup IdsOf(news)))
  <2>1. d + m = n /\ (m > 0 <=> d < n)
    BY <1>1 DEF m, n
  <2> QED BY <1>11, <2>1 DEF Good, ReadsOn, n
<1> QED BY <1>12, <1>13 DEF H0, n

\* The mark after a read: where the cursor skips more than was read of its block, as
\* the log has dropped entries of it, that block is given up.
MarkAt(c, log, seq, mark) ==
    IF c.floor # NoFloor /\ mark < c.block /\ Len(log) < seq /\ log[1].block = c.block
    THEN c.block ELSE mark

\* A cursor, for what its log is now.
HearsFrom(c, log, seq, d, mark, W, T) ==
    /\ Heeds(log, d, mark, W, T)
    /\ Awaits(c, log, d, MarkAt(c, log, seq, mark), W, T)
    /\ Places(c, log, seq, d, MarkAt(c, log, seq, mark))

\* Below the mark nothing is due, and what is above it follows what the cursor skips.
LEMMA HearsBelow ==
    ASSUME NEW E, NEW log \in Seq(Entry(E)), NEW seq, NEW c, CursorOK(c), NEW mark \in Nat,
           c.block <= mark, NEW d \in Nat, d <= Len(log), NEW W, NEW T, Heeds(log, d, mark, W, T)
    PROVE  HearsFrom(c, log, seq, d, mark, W, T)
<1>1. c.block \in Nat /\ ~(mark < c.block)
  BY DEF CursorOK
<1>2. MarkAt(c, log, seq, mark) = mark
  BY <1>1 DEF MarkAt
<1>3. Places(c, log, seq, d, mark)
  BY <1>1 DEF Places
<1>4. \A j \in d + 1..Len(log) : log[j].block \in Nat
  <2>1. \A j \in 1..Len(log) : log[j] \in Entry(E)
    OBVIOUS
  <2>2. \A j \in d + 1..Len(log) : j \in 1..Len(log)
    OBVIOUS
  <2> QED BY <2>1, <2>2 DEF Entry
<1>5. Awaits(c, log, d, mark, W, T)
  BY <1>1, <1>4 DEF Awaits
<1> QED BY <1>2, <1>3, <1>5 DEF HearsFrom

LEMMA HearsMore ==
    ASSUME NEW E, NEW old \in Seq(Entry(E)), NEW new \in Seq(Entry(E)), Grows(old), Grows(new),
           NEW block \in Nat, NEW es, NEW t, Moves(old, new, block, es, t),
           NEW seq \in Nat, Len(old) <= seq, NEW seq2, seq2 = seq + Len(es),
           NEW c, CursorOK(c), NEW mark \in Nat, mark < c.block => c.block <= block,
           NEW d \in Nat, d <= Len(old), NEW W, NEW T, HearsFrom(c, old, seq, d, mark, W, T),
           NEW d2, d2 = IF d <= t THEN 0 ELSE d - t
    PROVE  HearsFrom(c, new, seq2, d2, mark, W, T)
<1> DEFINE l == Len(old)
           m == Len(new)
           b == c.block
<1>1. /\ l \in Nat /\ m \in Nat /\ t \in Nat /\ Len(es) \in Nat /\ m = (l + Len(es)) - t /\ l <= seq
      /\ DOMAIN old = 1..l /\ DOMAIN new = 1..m
      /\ \A i \in 1..m :
          IF t + i <= l THEN t + i \in 1..l /\ new[i] = old[t + i]
          ELSE (t + i) - l \in 1..Len(es) /\ new[i].block = block
      /\ \A j \in 1..l : j > t => j - t \in 1..m /\ new[j - t] = old[j]
  BY DEF Moves
<1>2. /\ c.in \in Nat /\ b \in Nat /\ c.floorSeen \in Nat
      /\ \A j \in 1..l : old[j].block \in Nat
      /\ \A j \in 1..m : new[j].block \in Nat
  <2>1. (\A j \in 1..l : old[j] \in Entry(E)) /\ (\A j \in 1..m : new[j] \in Entry(E))
    OBVIOUS
  <2> QED BY <2>1 DEF CursorOK, Entry
<1>3. d \in Nat /\ d <= l /\ d2 \in Nat /\ (d2 = 0 \/ d2 + t = d) /\ d <= d2 + t
  BY <1>1
<1>4. /\ \A i, j \in 1..l : i < j => old[i].block <= old[j].block
      /\ \A i, j \in 1..m : i < j => new[i].block <= new[j].block
  BY <1>1 DEF Grows
<1>41. (m = 0 <=> new = <<>>) /\ (l = 0 <=> old = <<>>)
  OBVIOUS
<1> DEFINE w == MarkAt(c, old, seq, mark)
           v == MarkAt(c, new, seq2, mark)
<1>5. Heeds(old, d, mark, W, T) /\ Awaits(c, old, d, w, W, T) /\ Places(c, old, seq, d, w)
  BY DEF HearsFrom
<1>6. /\ w = IF c.floor # NoFloor /\ mark < b /\ l < seq /\ old[1].block = b THEN b ELSE mark
      /\ v = IF c.floor # NoFloor /\ mark < b /\ m < seq2 /\ new[1].block = b THEN b ELSE mark
  BY DEF MarkAt
<1> HIDE DEF l, m, b, w, v
<1>7. \A k \in 1..d2 : k + t \in 1..d /\ new[k] = old[k + t] /\ k \in 1..m
  <2> SUFFICES ASSUME NEW k \in 1..d2 PROVE k + t \in 1..d /\ new[k] = old[k + t] /\ k \in 1..m
    OBVIOUS
  <2>1. k + t \in 1..d /\ k + t \in 1..l /\ k + t > t /\ (k + t) - t = k
    BY <1>1, <1>3
  <2> QED BY <1>1, <2>1
<1>8. Heeds(new, d2, mark, W, T)
  BY <1>5, <1>7 DEF Heeds
\* An entry of what is left is an old one, not read either, or a new one.
<1>9. ASSUME NEW j \in d2 + 1..m
      PROVE  /\ j \in 1..m
             /\ \/ t + j \in d + 1..l /\ t + j \in 1..l /\ new[j] = old[t + j]
                \/ t + j > l /\ new[j].block = block
  <2>1. j \in 1..m /\ t + j >= d + 1
    BY <1>1, <1>3
  <2> QED BY <1>1, <2>1
<1>10. CASE ~(mark < b)
  <2>1. v = mark /\ b <= mark
    BY <1>2, <1>6, <1>10
  <2>2. Places(c, new, seq2, d2, v)
    BY <1>10, <2>1 DEF Places, b
  <2>3. Awaits(c, new, d2, v, W, T)
    <3>1. \A j \in d2 + 1..m : mark < new[j].block => b < new[j].block
      BY <1>2, <1>9, <2>1
    <3> QED BY <2>1, <3>1 DEF Awaits, b, m
  <2> QED BY <1>8, <2>2, <2>3 DEF HearsFrom, v
<1>11. CASE mark < b
  <2>1. b <= block /\ m <= seq2
    BY <1>1, <1>11 DEF b
  <2>2. c.floor = NoFloor => \A j \in d2 + 1..m : b <= new[j].block
    <3> SUFFICES ASSUME c.floor = NoFloor, NEW j \in d2 + 1..m PROVE b <= new[j].block
      OBVIOUS
    <3>1. \A k \in d + 1..l : b <= old[k].block
      BY <1>5, <1>6, <1>11 DEF Places, b, l
    <3> QED BY <1>9, <2>1, <3>1
  <2>3. CASE Kept(new, seq2, b)
    \* What was dropped is of earlier blocks.
    <3>1. Kept(old, seq, b) /\ \A k \in 1..l : old[k].block = b => k > t
      <4>1. CASE m = seq2
        <5>1. t = 0 /\ l = seq
          BY <1>1, <4>1
        <5> QED BY <5>1 DEF Kept, l
      <4>2. CASE m # seq2
        <5>1. m > 0 /\ new[1].block < b /\ 1 \in 1..m
          BY <1>1, <1>41, <2>3, <4>2 DEF Kept, m
        <5>2. t + 1 <= l /\ t + 1 \in 1..l /\ new[1] = old[t + 1] /\ 1 \in 1..l
          <6>1. new[1].block \in Nat /\ b \in Nat /\ ~(new[1].block = block)
            BY <1>2, <2>1, <5>1
          <6>2. t + 1 <= l /\ t + 1 \in 1..l /\ new[1] = old[t + 1]
            BY <1>1, <5>1, <6>1
          <6> QED BY <1>1, <6>2
        <5>3. \A k \in 1..l : k <= t => old[k].block < b
          <6> SUFFICES ASSUME NEW k \in 1..l, k <= t PROVE old[k].block < b
            OBVIOUS
          <6>1. k < t + 1 /\ k \in 1..l
            BY <1>1
          <6>2. old[k].block <= old[t + 1].block
            BY <1>4, <5>2, <6>1
          <6>3. old[k].block \in Nat /\ old[t + 1].block \in Nat /\ old[t + 1].block < b
            BY <1>2, <5>1, <5>2, <6>1
          <6> QED BY <1>2, <6>2, <6>3
        <5>4. old[1].block < b
          BY <1>1, <5>1, <5>2, <5>3
        <5>5. Kept(old, seq, b)
          BY <1>41, <5>2, <5>4 DEF Kept
        <5>6. ASSUME NEW k \in 1..l, old[k].block = b PROVE k > t
          BY <1>1, <1>2, <5>3, <5>6
        <5> QED BY <5>5, <5>6
      <4> QED BY <4>1, <4>2
    <3>2. w = mark /\ v = mark
      <4>1. l = seq \/ (l # 0 /\ old[1].block < b)
        BY <1>41, <3>1 DEF Kept, l
      <4>2. m = seq2 \/ (m # 0 /\ new[1].block < b)
        BY <1>41, <2>3 DEF Kept, m
      <4>3. ~(l < seq /\ old[1].block = b)
        BY <1>1, <1>2, <4>1
      <4>4. ~(m < seq2 /\ new[1].block = b)
        <5>1. CASE m = seq2
          BY <1>1, <5>1
        <5>2. CASE m # 0 /\ new[1].block < b
          BY <1>2, <5>2
        <5> QED BY <4>2, <5>1, <5>2
      <4> QED BY <1>6, <4>3, <4>4
    <3>3. /\ Seen(c) <= Count(old, b, 1, d)
          /\ c.floor # NoFloor => c.in - c.floorSeen <= Count(old, b, d + 1, l)
      BY <1>5, <1>11, <3>1, <3>2 DEF Places, b, l
    <3>4. ASSUME NEW lo \in Nat, NEW hi \in Nat, hi <= l, NEW from \in Nat, NEW to \in Nat, lo > 0,
                 \A k \in lo..hi : k > t => k - t \in from..to
          PROVE  Count(old, b, lo, hi) <= Count(new, b, from, to)
      <4>1. \A k \in lo..hi : old[k].block = b => k + (-t) \in from..to /\ new[k + (-t)].block = b
        <5> SUFFICES ASSUME NEW k \in lo..hi, old[k].block = b
                     PROVE  k + (-t) \in from..to /\ new[k + (-t)].block = b
          OBVIOUS
        <5>1. k \in 1..l
          BY <1>1, <3>4
        <5>2. k > t
          BY <3>1, <5>1
        <5>3. k - t \in from..to /\ new[k - t] = old[k]
          BY <1>1, <3>4, <5>1, <5>2
        <5>4. k + (-t) = k - t
          BY <1>1
        <5> QED BY <5>3, <5>4
      <4>2. -t \in Int
        BY <1>1
      <4> QED BY <3>4, <4>1, <4>2, CountShift
    <3>5. Seen(c) <= Count(new, b, 1, d2)
      <4>1. Count(old, b, 1, d) <= Count(new, b, 1, d2)
        <5>1. \A k \in 1..d : k > t => k - t \in 1..d2
          BY <1>1, <1>3
        <5> QED BY <1>3, <3>4, <5>1
      <4>2. Count(old, b, 1, d) \in Nat /\ Count(new, b, 1, d2) \in Nat /\ Seen(c) \in Nat
        BY <1>2, <1>3, CountIs DEF Seen
      <4> QED BY <3>3, <4>1, <4>2
    <3> DEFINE lo == d2 + 1
               from == d + 1
    <3>6. lo \in Nat /\ from \in Nat /\ from > 0
      BY <1>3
    <3>7. ASSUME NEW to \in Nat, t + to >= l PROVE Count(old, b, from, l) <= Count(new, b, lo, to)
      <4>1. \A k \in from..l : k > t => k - t \in lo..to
        <5> SUFFICES ASSUME NEW k \in from..l, k > t PROVE k - t \in lo..to
          OBVIOUS
        <5>1. k \in Int /\ d + 1 <= k /\ k <= l
          BY <1>1, <1>3
        <5>2. d2 + 1 <= k - t /\ k - t <= to
          BY <1>1, <1>3, <3>7, <5>1
        <5> QED BY <1>1, <1>3, <3>7, <5>1, <5>2
      <4> HIDE DEF lo, from
      <4> QED BY <1>1, <3>4, <3>6, <4>1
    <3>8. c.floor # NoFloor => c.in - c.floorSeen <= Count(new, b, lo, m)
      <4>1. Count(old, b, from, l) <= Count(new, b, lo, m)
        <5>1. t + m >= l /\ m \in Nat
          BY <1>1
        <5> HIDE DEF lo, from
        <5> QED BY <3>7, <5>1
      <4>2. Count(old, b, from, l) \in Nat /\ Count(new, b, lo, m) \in Nat
        <5> HIDE DEF lo, from
        <5> QED BY <1>1, <3>6, CountIs
      <4> QED BY <1>2, <3>3, <4>1, <4>2
    <3>9. Places(c, new, seq2, d2, v)
      BY <2>2, <3>5, <3>8 DEF Places, b, m
    <3>10. ASSUME c.floor # NoFloor, NEW j \in d2 + 1..m, new[j].ev \in W, mark < new[j].block,
                  new[j].ev.id \notin T, ~(b < new[j].block)
           PROVE  new[j].block = b /\ Count(new, b, lo, j) > c.in - c.floorSeen
      <4>1. CASE t + j \in d + 1..l /\ t + j \in 1..l /\ new[j] = old[t + j]
        <5> DEFINE to == t + j
        <5>1. old[to].block = b /\ Count(old, b, from, to) > c.in - c.floorSeen
          BY <1>5, <3>2, <3>10, <4>1 DEF Awaits, b, l
        <5>2. Count(old, b, from, to) <= Count(new, b, lo, j)
          <6>1. \A k \in from..to : k > t => k - t \in lo..j
            BY <1>1, <1>3, <4>1
          <6>2. to \in Nat /\ to <= l /\ j \in Nat
            BY <1>1, <4>1
          <6> HIDE DEF from, to, lo
          <6> QED BY <3>4, <3>6, <6>1, <6>2
        <5>3. Count(old, b, from, to) \in Nat /\ Count(new, b, lo, j) \in Nat
          <6>1. to \in Nat /\ j \in Nat
            BY <1>1, <4>1
          <6> HIDE DEF lo, from, to
          <6> QED BY <3>6, <6>1, CountIs
        <5>4. new[j].block = b
          BY <4>1, <5>1
        <5> HIDE DEF lo, from, to
        <5> QED BY <1>2, <5>1, <5>2, <5>3, <5>4
      <4>2. CASE t + j > l /\ new[j].block = block
        <5> DEFINE i == j - 1
        <5>1. new[j].block = b
          BY <1>2, <2>1, <3>10, <4>2
        <5>2. i \in Nat /\ j = i + 1 /\ t + i >= l /\ lo <= i + 1
          BY <1>1, <1>3, <4>2
        <5> HIDE DEF i, lo, from
        <5>3. Count(new, b, lo, i + 1) = Count(new, b, lo, i) + (IF new[i + 1].block = b THEN 1 ELSE 0)
          BY <3>6, <5>2, CountLast
        <5>4. Count(old, b, from, l) <= Count(new, b, lo, i)
          BY <3>7, <5>2
        <5>5. Count(old, b, from, l) \in Nat /\ Count(new, b, lo, i) \in Nat
          BY <1>1, <3>6, <5>2, CountIs
        <5>6. Count(new, b, lo, j) = Count(new, b, lo, i) + 1
          BY <5>1, <5>2, <5>3
        <5>7. c.in - c.floorSeen <= Count(old, b, from, l)
          BY <3>3, <3>10 DEF from
        <5> QED BY <1>2, <5>1, <5>4, <5>5, <5>6, <5>7
      <4> QED BY <1>9, <4>1, <4>2
    <3>11. Awaits(c, new, d2, v, W, T)
      BY <3>2, <3>10 DEF Awaits, b, m
    <3> QED BY <1>8, <3>9, <3>11 DEF HearsFrom, v
  <2>4. CASE ~Kept(new, seq2, b)
    <3>1. m < seq2 /\ (m # 0 => ~(new[1].block < b))
      <4>1. m # seq2 /\ (m # 0 => ~(new[1].block < b))
        BY <1>41, <2>4 DEF Kept, m
      <4>2. m \in Nat /\ seq2 \in Nat
        BY <1>1
      <4> QED BY <2>1, <4>1, <4>2
    <3>2. Places(c, new, seq2, d2, v)
      BY <2>2, <2>4 DEF Places, b, m
    <3>3. ASSUME c.floor # NoFloor, NEW j \in d2 + 1..m, v < new[j].block PROVE b < new[j].block
      <4>1. j \in 1..m /\ m # 0 /\ 1 \in 1..m /\ (j = 1 \/ 1 < j)
        BY <1>1, <1>9
      <4>2. new[1].block <= new[j].block
        BY <1>2, <1>4, <4>1
      <4>3. CASE new[1].block = b
        BY <1>6, <1>11, <3>1, <3>3, <4>3
      <4>4. CASE new[1].block # b
        <5>1. new[1].block \in Nat /\ new[j].block \in Nat /\ b \in Nat /\ ~(new[1].block < b)
          BY <1>2, <3>1, <4>1
        <5>2. b < new[1].block
          BY <4>4, <5>1
        <5> QED BY <4>2, <5>1, <5>2
      <4> QED BY <4>3, <4>4
    <3>4. Awaits(c, new, d2, v, W, T)
      BY <3>3 DEF Awaits, b, m
    <3> QED BY <1>8, <3>2, <3>4 DEF HearsFrom, v
  <2> QED BY <2>3, <2>4
<1> QED BY <1>10, <1>11

LEMMA HearsAlarm ==
    ASSUME NEW E, NEW log \in Seq(Entry(E)), Grows(log), NEW seq \in Nat, Len(log) <= seq,
           NEW c, CursorOK(c), NEW mark \in Nat, NEW d \in Nat, d <= Len(log), NEW W, NEW T,
           HearsFrom(c, log, seq, d, mark, W, T),
           NEW e, CursorOK(e), e.block = c.block, e.in = c.in, e.floorSeen = 0, e.floor # NoFloor
    PROVE  HearsFrom(e, log, seq, 0, mark, W, T)
<1> DEFINE l == Len(log)
           b == c.block
           w == MarkAt(c, log, seq, mark)
           v == MarkAt(e, log, seq, mark)
           from == d + 1
<1>1. /\ l \in Nat /\ DOMAIN log = 1..l /\ (l = 0 <=> log = <<>>) /\ l <= seq
      /\ b \in Nat /\ c.in \in Nat /\ c.floorSeen \in Nat /\ d \in Nat /\ d <= l
      /\ from \in Nat
  BY DEF CursorOK
<1>2. \A j \in 1..l : log[j].block \in Nat
  <2>1. \A j \in 1..l : log[j] \in Entry(E)
    OBVIOUS
  <2> QED BY <2>1 DEF Entry
<1>3. \A i, j \in 1..l : i < j => log[i].block <= log[j].block
  BY <1>1 DEF Grows
<1>4. Heeds(log, d, mark, W, T) /\ Awaits(c, log, d, w, W, T) /\ Places(c, log, seq, d, w)
  BY DEF HearsFrom
<1>5. Heeds(log, 0, mark, W, T)
  <2>1. 1..0 = {}
    OBVIOUS
  <2> QED BY <2>1 DEF Heeds
<1>6. /\ w = IF c.floor # NoFloor /\ mark < b /\ l < seq /\ log[1].block = b THEN b ELSE mark
      /\ v = IF mark < b /\ l < seq /\ log[1].block = b THEN b ELSE mark
  BY DEF MarkAt
<1> HIDE DEF l, w, v
<1>7. CASE ~(mark < b)
  <2>1. e.block <= mark /\ 0 <= l
    BY <1>1, <1>7
  <2> QED BY <1>5, <2>1, HearsBelow DEF l
<1>8. CASE mark < b
  <2>1. ASSUME NEW j \in d..l
        PROVE  /\ Count(log, b, 1, j) = Count(log, b, 1, d) + Count(log, b, from, j)
               /\ Count(log, b, 1, j) \in Nat /\ Count(log, b, 1, d) \in Nat /\ Count(log, b, from, j) \in Nat
    <3>1. 1 \in Nat /\ 1 <= d + 1 /\ d <= j /\ j \in Nat
      BY <1>1
    <3>2. Count(log, b, 1, j) = Count(log, b, 1, d) + Count(log, b, from, j)
      BY <3>1, CountSplit
    <3> HIDE DEF from, b
    <3> QED BY <1>1, <3>1, <3>2, CountIs
  <2>2. ASSUME Kept(log, seq, b)
        PROVE  /\ w = mark /\ Seen(c) <= Count(log, b, 1, d)
               /\ c.floor # NoFloor => c.in - c.floorSeen <= Count(log, b, from, l)
    <3>1. ~(l < seq /\ log[1].block = b)
      <4>1. CASE l = seq
        BY <1>1, <4>1
      <4>2. CASE log # <<>> /\ log[1].block < b
        BY <1>1, <1>2, <4>2
      <4> QED BY <2>2, <4>1, <4>2 DEF Kept, l
    <3>2. w = mark
      BY <1>6, <3>1
    <3> QED BY <1>4, <1>8, <2>2, <3>2 DEF Places, l
  <2>3. ASSUME v < b, Kept(log, seq, b) PROVE c.in <= Count(log, b, 1, l)
    <3>1. /\ Count(log, b, 1, l) = Count(log, b, 1, d) + Count(log, b, from, l)
          /\ Count(log, b, 1, l) \in Nat /\ Count(log, b, 1, d) \in Nat /\ Count(log, b, from, l) \in Nat
      <4>1. l \in d..l
        BY <1>1
      <4> QED BY <2>1, <4>1
    <3>2. CASE c.floor = NoFloor
      BY <1>1, <2>2, <2>3, <3>1, <3>2 DEF Seen
    <3>3. CASE c.floor # NoFloor
      BY <1>1, <2>2, <2>3, <3>1, <3>3 DEF Seen
    <3> QED BY <3>2, <3>3
  <2>4. Places(e, log, seq, 0, v)
    <3>1. Count(log, b, 1, 0) \in Nat
      <4>1. 1 \in Nat /\ 0 \in Nat
        OBVIOUS
      <4> HIDE DEF b
      <4> QED BY <4>1, CountIs
    <3>2. v < b /\ Kept(log, seq, b) => Seen(e) <= Count(log, b, 1, 0) /\ e.in - e.floorSeen <= Count(log, b, 1, l)
      BY <1>1, <2>3, <3>1 DEF Seen
    <3>3. 0 + 1 = 1
      OBVIOUS
    <3> QED BY <3>2, <3>3 DEF Places, l
  <2>5. ASSUME NEW j \in 1..l, log[j].ev \in W, v < log[j].block, log[j].ev.id \notin T, ~(b < log[j].block)
        PROVE  log[j].block = b /\ Count(log, b, 1, j) > c.in
    <3>1. v = mark /\ ~(l < seq /\ log[1].block = b)
      BY <1>2, <1>6, <1>8, <2>5
    <3>2. Kept(log, seq, b)
      <4>1. 1 \in 1..l /\ l # 0 /\ (j = 1 \/ 1 < j)
        BY <1>1
      <4>2. log[1].block <= log[j].block /\ log[1].block \in Nat /\ log[j].block \in Nat
        BY <1>2, <1>3, <4>1
      <4>3. l = seq \/ log[1].block < b
        BY <1>1, <2>5, <3>1, <4>2
      <4> QED BY <1>1, <4>1, <4>3 DEF Kept, l
    <3>3. ~(j <= d)
      BY <1>1, <1>4, <2>5, <3>1 DEF Heeds
    <3>4. j \in from..l /\ j \in d..l /\ j \in Nat
      BY <1>1, <3>3
    <3>5. /\ Count(log, b, 1, j) = Count(log, b, 1, d) + Count(log, b, from, j)
          /\ Count(log, b, 1, j) \in Nat /\ Count(log, b, 1, d) \in Nat /\ Count(log, b, from, j) \in Nat
      BY <2>1, <3>4
    <3>6. CASE c.floor = NoFloor
      <4>1. log[j].block = b
        <5>1. b <= log[j].block
          BY <1>4, <1>8, <2>2, <3>2, <3>4, <3>6 DEF Places, l
        <5> QED BY <1>1, <1>2, <2>5, <5>1
      <4> DEFINE i == j - 1
      <4>2. i \in Nat /\ j = i + 1 /\ from <= i + 1
        BY <1>1, <3>4
      <4> HIDE DEF i, from, b
      <4>3. /\ Count(log, b, from, i + 1) = Count(log, b, from, i) + (IF log[i + 1].block = b THEN 1 ELSE 0)
            /\ Count(log, b, from, i) \in Nat
        <5>1. from \in Nat /\ i \in Nat /\ from <= i + 1
          BY <1>1, <4>2
        <5>2. Count(log, b, from, i) \in Nat
          BY <5>1, CountIs
        <5>3. Count(log, b, from, i + 1) = Count(log, b, from, i) + (IF log[i + 1].block = b THEN 1 ELSE 0)
          BY <5>1, CountLast
        <5> QED BY <5>2, <5>3
      <4>4. Count(log, b, from, j) = Count(log, b, from, i) + 1
        BY <4>1, <4>2, <4>3
      <4>5. c.in <= Count(log, b, 1, d)
        BY <2>2, <3>2, <3>6 DEF Seen
      <4> QED BY <1>1, <3>5, <4>1, <4>3, <4>4, <4>5
    <3>7. CASE c.floor # NoFloor
      <4>1. log[j].block = b /\ Count(log, b, from, j) > c.in - c.floorSeen
        BY <1>4, <2>2, <2>5, <3>1, <3>2, <3>4, <3>7 DEF Awaits, l
      <4>2. c.floorSeen <= Count(log, b, 1, d)
        BY <2>2, <3>2, <3>7 DEF Seen
      <4> HIDE DEF from, b
      <4> QED BY <1>1, <3>5, <4>1, <4>2
    <3> QED BY <3>6, <3>7
  <2>6. Awaits(e, log, 0, v, W, T)
    <3>1. 0 + 1 = 1 /\ e.in - e.floorSeen = c.in
      BY <1>1
    <3> QED BY <2>5, <3>1 DEF Awaits, l
  <2> QED BY <1>5, <2>4, <2>6 DEF HearsFrom, v
<1> QED BY <1>7, <1>8

\* A reader that hears: of what is in W, in a block above the mark, what it has read
\* is in T, and it will read the rest.
HearsOK(n, c, mark, W, T) ==
    /\ c.seq <= n.seq
    /\ mark < c.block => c.block <= Top(n)
    /\ HearsFrom(c, n.log, n.seq, Read(n, c.seq), mark, W, T)

LEMMA HearsTells ==
    ASSUME NEW n, NEW c, NEW mark, NEW W, NEW T, HearsOK(n, c, mark, W, T), NEW U, T \subseteq U
    PROVE  HearsOK(n, c, mark, W, U)
BY DEF HearsOK, HearsFrom, Heeds, Awaits

\* What is known of a node and its log.
LogIs(E, n) ==
    /\ n.log \in Seq(Entry(E)) /\ n.seq \in Nat /\ Len(n.log) \in Nat /\ Len(n.log) <= n.seq
    /\ DOMAIN n.log = 1..Len(n.log) /\ Grows(n.log) /\ LogOK(n.log, n.seq)
    /\ \A j \in 1..Len(n.log) : n.log[j].seq = (n.seq - Len(n.log)) + j
    /\ \A j \in 1..Len(n.log) : n.log[j].block \in Nat /\ n.log[j].block <= Top(n)
    /\ Top(n) \in Nat

LEMMA NodeHasLog == ASSUME NEW E, NEW n \in Nodes(E), NodeOK(n) PROVE LogIs(E, n)
<1> DEFINE log == n.log
<1>1. log \in Seq(Entry(E)) /\ n.seq \in Nat /\ LogOK(log, n.seq) /\ \A j \in DOMAIN log : log[j].block \in 1..Top(n)
  BY DEF Nodes, NodeOK, Fits
<1>2. Top(n) \in Nat
  <2>1. ChainOf(E, n)
    BY ChainIs
  <2> QED BY <2>1 DEF ChainOf
<1> HIDE DEF log
<1>3. Len(log) \in Nat /\ DOMAIN log = 1..Len(log)
  BY <1>1
<1> QED BY <1>1, <1>2, <1>3 DEF LogIs, LogOK, log

\* The log absorbs a block, or an event.
LEMMA HearsAbsorbs ==
    ASSUME NEW E, NEW n \in Nodes(E), NEW m \in Nodes(E), NodeOK(n), NodeOK(m), Top(n) <= Top(m),
           NEW block \in Nat, Top(n) <= block, NEW es \in Seq(E), m.seq = n.seq + Len(es),
           NEW t \in Nat, Extends(n.log, m.log, n.seq, block, es, t),
           NEW c, CursorOK(c), NEW mark \in Nat, NEW W, NEW T, HearsOK(n, c, mark, W, T)
    PROVE  HearsOK(m, c, mark, W, T)
<1> DEFINE old == n.log
           new == m.log
           d == Read(n, c.seq)
           d2 == Read(m, c.seq)
<1>1. LogIs(E, n) /\ LogIs(E, m)
  BY NodeHasLog
<1>2. /\ old \in Seq(Entry(E)) /\ new \in Seq(Entry(E)) /\ Grows(old) /\ Grows(new)
      /\ n.seq \in Nat /\ m.seq \in Nat /\ Len(old) \in Nat /\ Len(old) <= n.seq
      /\ Top(n) \in Nat /\ Top(m) \in Nat
  BY <1>1 DEF LogIs
<1>3. Moves(old, new, block, es, t)
  BY <1>2, ExtendsMoves
<1>4. Len(es) \in Nat /\ Len(new) = (Len(old) + Len(es)) - t
  BY <1>3 DEF Moves
<1>5. c.seq \in Nat /\ c.block \in Nat
  BY DEF CursorOK
<1>6. /\ c.seq <= n.seq /\ (mark < c.block => c.block <= Top(n))
      /\ HearsFrom(c, old, n.seq, d, mark, W, T)
  BY DEF HearsOK
<1>7. d \in Nat /\ d <= Len(old) /\ d2 = IF d <= t THEN 0 ELSE d - t
  <2> DEFINE k == Len(es)
             s == c.seq
  <2>1. k \in Nat /\ m.seq = n.seq + k /\ Len(m.log) = (Len(n.log) + k) - t /\ s \in Nat /\ s <= n.seq
    BY <1>4, <1>5, <1>6
  <2> HIDE DEF k, s, old, new
  <2>2. /\ Read(n, s) \in Nat /\ Read(n, s) <= Len(n.log)
        /\ Read(m, s) = IF Read(n, s) <= t THEN 0 ELSE Read(n, s) - t
    BY <1>2, <2>1, ReadAfter DEF old
  <2> QED BY <2>2 DEF s, old
<1>8. mark < c.block => c.block <= block /\ c.block <= Top(m)
  BY <1>2, <1>5, <1>6
<1>9. c.seq <= m.seq
  BY <1>2, <1>4, <1>5, <1>6
<1> DEFINE s == n.seq
           s2 == m.seq
<1> HIDE DEF d, d2, old, new
<1>10. HearsFrom(c, new, s2, d2, mark, W, T)
  <2>1. s2 = s + Len(es) /\ s \in Nat /\ Len(old) <= s /\ HearsFrom(c, old, s, d, mark, W, T)
    BY <1>2, <1>6
  <2>2. mark < c.block => c.block <= block
    BY <1>8
  <2> HIDE DEF s, s2
  <2> QED BY <1>2, <1>3, <1>7, <2>1, <2>2, HearsMore
<1> QED BY <1>8, <1>9, <1>10 DEF HearsOK, new, d2

\* A cursor whose block is not above the mark, on a log of which it has read nothing,
\* or in which all that is due is in T.
LEMMA HearsAnew ==
    ASSUME NEW E, NEW n \in Nodes(E), NodeOK(n), NEW c, CursorOK(c), c.seq <= n.seq, NEW mark \in Nat,
           c.block <= mark, NEW W, NEW T,
           c.seq = 0 \/ \A j \in DOMAIN n.log : n.log[j].ev \in W => n.log[j].ev.id \in T
    PROVE  HearsOK(n, c, mark, W, T)
<1> DEFINE log == n.log
           d == Read(n, c.seq)
<1>1. LogIs(E, n)
  BY NodeHasLog
<1>2. /\ log \in Seq(Entry(E)) /\ n.seq \in Nat /\ Len(log) \in Nat /\ Len(log) <= n.seq /\ DOMAIN log = 1..Len(log)
      /\ c.seq \in Nat /\ c.block \in Nat
  BY <1>1 DEF LogIs, CursorOK
<1>3. d = IF c.seq <= n.seq - Len(log) THEN 0 ELSE c.seq - (n.seq - Len(log))
  BY DEF Read
<1> HIDE DEF d
<1>4. d \in Nat /\ d <= Len(log) /\ (c.seq = 0 => d = 0)
  BY <1>2, <1>3
<1>5. Heeds(log, d, mark, W, T)
  <2>1. CASE c.seq = 0
    <3>1. 1..d = {}
      BY <1>4, <2>1
    <3> QED BY <3>1 DEF Heeds
  <2>2. CASE \A j \in DOMAIN n.log : n.log[j].ev \in W => n.log[j].ev.id \in T
    <3>1. \A j \in 1..d : j \in DOMAIN log
      BY <1>2, <1>4
    <3> QED BY <2>2, <3>1 DEF Heeds
  <2> QED BY <2>1, <2>2
<1> HIDE DEF log
<1>6. HearsFrom(c, log, n.seq, d, mark, W, T)
  BY <1>2, <1>4, <1>5, HearsBelow
<1> QED BY <1>2, <1>6 DEF HearsOK, log, d

\* A log that is taken for a rebuilt one, and was not.
LEMMA HearsChecked ==
    ASSUME NEW E, NEW n \in Nodes(E), NodeOK(n), NEW c, CursorOK(c), NEW mark \in Nat, NEW W, NEW T,
           HearsOK(n, c, mark, W, T), NEW head
    PROVE  HearsOK(n, Checked(c, head), mark, W, T)
<1> DEFINE e == Checked(c, head)
           log == n.log
           d == Read(n, c.seq)
<1>1. /\ CursorOK(e) /\ e.block = c.block /\ e.in = c.in
      /\ IF head >= c.seq THEN e = c
         ELSE e.seq = 0 /\ e.floorSeen = 0 /\ e.floor = <<c.block, c.in>> /\ e.floor # NoFloor
  BY CheckedIs
<1> HIDE DEF e
<1>2. CASE head >= c.seq
  BY <1>1, <1>2 DEF e
<1>3. CASE ~(head >= c.seq)
  <2>1. LogIs(E, n)
    BY NodeHasLog
  <2>2. /\ log \in Seq(Entry(E)) /\ n.seq \in Nat /\ Len(log) \in Nat /\ Len(log) <= n.seq /\ Grows(log)
        /\ c.seq \in Nat
    BY <2>1 DEF LogIs, CursorOK
  <2>3. c.seq <= n.seq /\ HearsFrom(c, log, n.seq, d, mark, W, T) /\ (mark < c.block => c.block <= Top(n))
    BY DEF HearsOK
  <2>4. d = IF c.seq <= n.seq - Len(log) THEN 0 ELSE c.seq - (n.seq - Len(log))
    BY DEF Read
  <2> HIDE DEF d
  <2>5. d \in Nat /\ d <= Len(log)
    BY <2>2, <2>3, <2>4
  <2>6. Read(n, e.seq) = 0
    BY <1>1, <1>3, <2>2 DEF Read
  <2> HIDE DEF log
  <2>7. HearsFrom(e, log, n.seq, 0, mark, W, T)
    BY <1>1, <1>3, <2>2, <2>3, <2>5, HearsAlarm
  <2> QED BY <1>1, <1>3, <2>2, <2>3, <2>6, <2>7 DEF HearsOK, log, e
<1> QED BY <1>2, <1>3

\* What a read of the log makes of a cursor.
ReadBy(E, n, c, e, news) ==
    /\ CursorOK(e) /\ c.seq <= e.seq /\ (c.seq <= n.seq => e.seq <= n.seq)
    /\ e.floor # NoFloor => c.floor # NoFloor /\ e.block = c.block
    /\ news \in Seq(Entry(E))
    /\ \A i, j \in DOMAIN news : i < j => news[i].seq < news[j].seq
    /\ \A i \in DOMAIN news :
          /\ c.seq < news[i].seq /\ news[i].seq <= e.seq
          /\ \E k \in DOMAIN n.log : news[i] = n.log[k]
    /\ c.seq >= n.seq => e = c /\ news = <<>>

LEMMA HearsReads ==
    ASSUME NEW E, NEW n \in Nodes(E), NodeOK(n), NEW c, CursorOK(c), NEW mark \in Nat, NEW W, NEW T
    PROVE  LET got == Batch(c, Unread(n.log, c.seq)) IN
           /\ ReadBy(E, n, c, got.cursor, got.news)
           /\ HearsOK(n, c, mark, W, T) =>
                 HearsOK(n, got.cursor, MarkAt(c, n.log, n.seq, mark), W, T \cup IdsOf(got.news))
<1> DEFINE log == n.log
           l == Len(log)
           seq == n.seq
           s == c.seq
           xs == Unread(log, s)
           e == Batch(c, xs).cursor
           news == Batch(c, xs).news
           d == IF s >= seq THEN l ELSE Read(n, s)
           w == MarkAt(c, log, seq, mark)
           U == T \cup IdsOf(news)
<1>1. /\ log \in Seq(Entry(E)) /\ seq \in Nat /\ l \in Nat /\ l <= seq /\ DOMAIN log = 1..l
      /\ Grows(log) /\ LogOK(log, seq) /\ Top(n) \in Nat
      /\ \A j \in 1..l : log[j].seq = (seq - l) + j
      /\ \A j \in 1..l : log[j].block \in Nat /\ log[j].block <= Top(n)
  <2>1. LogIs(E, n)
    BY NodeHasLog
  <2> QED BY <2>1 DEF LogIs
<1>2. s \in Nat /\ c.block \in Nat
  BY DEF CursorOK
<1>3. Read(n, s) = IF s <= seq - l THEN 0 ELSE s - (seq - l)
  BY DEF Read
<1>4. d \in Nat /\ d <= l /\ (\A j \in 1..l : (seq - l) + j > s <=> j > d)
      /\ (s >= seq => d = l) /\ (s <= seq => d = Read(n, s))
  <2> HIDE DEF log, l, seq, s
  <2>1. CASE s >= seq
    <3>1. d = l /\ \A j \in 1..l : ~((seq - l) + j > s) /\ ~(j > l)
      BY <1>1, <1>2, <2>1
    <3>2. s <= seq => Read(n, s) = l
      BY <1>1, <1>2, <1>3, <2>1
    <3> HIDE DEF d
    <3> QED BY <1>1, <2>1, <3>1, <3>2
  <2>2. CASE ~(s >= seq)
    <3>1. d = (IF s <= seq - l THEN 0 ELSE s - (seq - l)) /\ d = Read(n, s)
      BY <1>3, <2>2
    <3> HIDE DEF d
    <3> QED BY <1>1, <1>2, <2>2, <3>1
  <2> QED BY <2>1, <2>2
<1> HIDE DEF d, log, l, seq
<1>5. /\ Len(xs) = Len(log) - d /\ \A k \in 1..Len(xs) : xs[k] = log[d + k]
      /\ \A j \in d + 1..Len(log) : log[j].seq > s
  <2> HIDE DEF s, xs
  <2>1. \A j \in 1..Len(log) : (seq - Len(log)) + j > s <=> j > d
    BY <1>4 DEF l
  <2>2. d <= Len(log)
    BY <1>4 DEF l
  <2>3. /\ Len(Unread(log, s)) = Len(log) - d
        /\ \A k \in 1..Len(Unread(log, s)) : Unread(log, s)[k] = log[d + k]
        /\ \A j \in d + 1..Len(log) : log[j].seq > s
    BY <1>1, <1>2, <1>4, <2>1, <2>2, UnreadIs
  <2> QED BY <2>3 DEF xs
<1>6. \A i, j \in DOMAIN log : i < j => log[i].seq < log[j].seq
  BY <1>1
<1> HIDE DEF xs, w
<1>7. w \in Nat /\ mark <= w /\ (w < c.block => w = mark)
  BY <1>2 DEF w, MarkAt
<1>8. /\ ReadsOn(E, c, log, d, e, news)
      /\ HearsAt(c, log, seq, d, w, W, T) => HearsAt(e, log, seq, Len(log), w, W, U)
  <2>1. /\ log \in Seq(Entry(E)) /\ Grows(log) /\ d \in Nat /\ d <= Len(log) /\ w \in Nat
        /\ \A j \in d + 1..Len(log) : log[j].seq > c.seq
    BY <1>1, <1>4, <1>5, <1>7 DEF l
  <2> QED BY <1>5, <1>6, <2>1, HearsAll
<1> HIDE DEF e, news, U
<1>9. /\ CursorOK(e) /\ e.seq = IF d < l THEN log[l].seq ELSE c.seq
      /\ e.block = c.block \/ \E k \in DOMAIN log : e.block = log[k].block
      /\ e.floor # NoFloor => c.floor # NoFloor /\ e.block = c.block
      /\ news \in Seq(Entry(E))
      /\ \A i, j \in DOMAIN news : i < j => news[i].seq < news[j].seq
      /\ \A i \in DOMAIN news : \E k \in d + 1..l : news[i] = log[k]
  BY <1>8 DEF ReadsOn, l
<1>10. e.seq \in Nat /\ (d < l => e.seq = seq /\ s < seq) /\ (d = l => e.seq = s) /\ (~(d < l) => d = l)
  <2>1. CASE d < l
    <3>1. l \in 1..l /\ log[l].seq = (seq - l) + l
      BY <1>1, <1>4, <2>1
    <3>2. s < seq
      BY <1>1, <1>2, <1>4, <2>1
    <3> QED BY <1>1, <1>4, <1>9, <2>1, <3>1, <3>2
  <2>2. CASE ~(d < l)
    BY <1>1, <1>2, <1>4, <1>9, <2>2
  <2> QED BY <2>1, <2>2
<1>11. ReadBy(E, n, c, e, news)
  <2>1. c.seq <= e.seq /\ (c.seq <= n.seq => e.seq <= n.seq)
    BY <1>1, <1>2, <1>10 DEF seq
  <2>2. ASSUME NEW i \in DOMAIN news
        PROVE  /\ c.seq < news[i].seq /\ news[i].seq <= e.seq
               /\ \E k \in DOMAIN n.log : news[i] = n.log[k]
    <3>1. PICK k \in d + 1..l : news[i] = log[k]
      BY <1>9
    <3>2. k \in 1..l /\ d < l /\ log[k].seq = (seq - l) + k
      BY <1>1, <1>4
    <3>3. s < log[k].seq
      BY <1>5 DEF l
    <3>4. log[k].seq <= seq
      BY <1>1, <3>2
    <3> QED BY <1>1, <1>10, <3>1, <3>2, <3>3, <3>4 DEF log
  <2>3. ASSUME c.seq >= n.seq PROVE e = c /\ news = <<>>
    <3>1. Len(xs) = 0
      <4>1. d = l /\ Len(log) = l
        BY <1>4, <2>3 DEF l, seq
      <4>2. l - l = 0
        BY <1>1
      <4> QED BY <1>5, <4>1, <4>2
    <3> QED BY <3>1, BatchOfNothing DEF e, news
  <2> QED BY <1>9, <2>1, <2>2, <2>3 DEF ReadBy
<1>12. ASSUME HearsOK(n, c, mark, W, T) PROVE HearsOK(n, e, w, W, U)
  <2>1. /\ c.seq <= seq /\ (mark < c.block => c.block <= Top(n)) /\ d = Read(n, s)
        /\ Heeds(log, d, mark, W, T) /\ Awaits(c, log, d, w, W, T) /\ Places(c, log, seq, d, w)
    BY <1>4, <1>12 DEF HearsOK, HearsFrom, log, seq, w
  <2>2. Heeds(log, d, w, W, T)
    <3>1. \A j \in 1..d : log[j].block \in Nat
      BY <1>1, <1>4
    <3>2. \A j \in 1..d : w < log[j].block => mark < log[j].block
      BY <1>7, <3>1
    <3> QED BY <2>1, <3>2 DEF Heeds
  <2>3. Heeds(log, l, w, W, U) /\ Places(e, log, seq, l, w)
    BY <1>8, <2>1, <2>2 DEF HearsAt, l
  <2> DEFINE v == MarkAt(e, log, seq, w)
  <2>4. e.block \in Nat
    BY <1>9 DEF CursorOK
  <2>5. v < e.block => v = w
    BY <2>4 DEF MarkAt
  <2> HIDE DEF v
  <2>6. Places(e, log, seq, l, v)
    BY <2>3, <2>5 DEF Places
  <2>7. Awaits(e, log, l, v, W, U)
    <3>1. l + 1..Len(log) = {}
      BY <1>1 DEF l
    <3> QED BY <3>1 DEF Awaits
  <2>8. Read(n, e.seq) = l
    <3>1. Read(n, e.seq) = IF e.seq <= seq - l THEN 0 ELSE e.seq - (seq - l)
      BY DEF Read, seq, l, log
    <3>2. CASE d < l
      BY <1>1, <1>4, <1>10, <3>1, <3>2
    <3>3. CASE ~(d < l)
      BY <1>1, <1>2, <1>4, <1>10, <2>1, <3>3
    <3> QED BY <3>2, <3>3
  <2>9. w < e.block => e.block <= Top(n)
    <3>1. CASE e.block = c.block
      BY <1>7, <2>1, <3>1
    <3>2. CASE \E k \in DOMAIN log : e.block = log[k].block
      BY <1>1, <3>2
    <3> QED BY <1>9, <3>1, <3>2
  <2>10. e.seq <= n.seq
    BY <1>1, <1>2, <1>10, <2>1 DEF seq
  <2> QED BY <2>3, <2>6, <2>7, <2>8, <2>9, <2>10 DEF HearsOK, HearsFrom, v, log, seq, l
<1> QED BY <1>11, <1>12 DEF e, news, U, w, xs, log, seq, s

-----------------------------------------------------------------------------
(* What is owed to a reader, and what it holds of it. *)

Era == env.rebuilds + env.restarts

\* Of what happens, all that concerns the reader and came since the last rebuild or
\* restart.
Owed == {e \in [id : Nat, kind : Kinds, era : Nat] : Concerns(e) /\ e.era = Era}

\* What has been acted on, was passed over, or is about to be acted on.
Reached == Range(inbox) \cup env.passed \cup {x.ev.id : x \in {y \in Range(watch.mine) : Prompts(y.ev)}}

\* What the node has is of this era, or of an earlier one.
Aged == {e \in Known : e.era <= Era}
EraInv == node \in Nodes(Aged)

\* Where the loop is; and a session saved since the last rebuild is of the log that
\* is there.
BookInv ==
    /\ {"saved", "mark", "passed"} \subseteq DOMAIN env /\ "session" \in DOMAIN watch
    /\ watch.head \in Nat /\ env.mark \in Nat /\ env.saved \in Nat
    /\ env.saved <= env.rebuilds /\ (env.saved = env.rebuilds => env.log = "followed")
    /\ watch.pc \in {"head", "events", "send"} /\ (watch.pc = "send" => Is("cat"))
    /\ watch.pc # "send" => watch.mine = <<>>
    /\ CursorOK(watch.cursor)
    /\ Is("asleep") => watch.cursor.block = 0 /\ watch.cursor.floor = NoFloor

\* What is about to be sent was read, and is no number that was sent.
SentOK(seen, mine, seq) ==
    /\ seen \subseteq Nat /\ \A s \in seen : s <= seq
    /\ \A i \in DOMAIN mine : mine[i].seq \notin seen /\ mine[i].seq <= seq
    /\ \A i, j \in DOMAIN mine : i < j => mine[i].seq < mine[j].seq

SeenInv == Is("cat") => SentOK(watch.seen, watch.mine, watch.cursor.seq)

\* The file is of the session's epoch, or of an earlier one; a cursor that can be
\* taken from it is one of this log.
SessionOK(file, session, cp) ==
    /\ {"epoch", "cursor", "question"} \subseteq DOMAIN file
    /\ {"epoch", "cursor", "question"} \subseteq DOMAIN session
    /\ file.epoch \in Nat /\ file.cursor \in Nat /\ session.epoch \in Nat /\ session.cursor \in Nat
    /\ file.epoch <= session.epoch /\ session.epoch <= cp
    /\ file.epoch = session.epoch => file.cursor = session.cursor

SessionInv ==
    Is("cat") =>
        /\ SessionOK(disk, watch.session, node.cp)
        /\ (env.saved = env.rebuilds /\ disk.epoch = node.cp) => disk.cursor <= node.seq

HearsInv ==
    /\ env.log = "rebuilt" => watch.cursor.block <= env.mark
    /\ env.log = "followed" =>
          /\ watch.cursor.floor # NoFloor => Is("cat") \/ watch.cursor.block <= env.mark
          /\ HearsOK(node, watch.cursor, env.mark, Owed, Reached)

HeardInv == EraInv /\ BookInv /\ SeenInv /\ SessionInv /\ HearsInv

LEMMA HeardFacts ==
    ASSUME OnceInv, HeardInv
    PROVE  /\ EnvOK /\ node \in Nodes(Known) /\ NodeOK(node) /\ LogIs(Known, node) /\ Numbered(Known)
           /\ node.cp \in Nat /\ node.seq \in Nat /\ node.cp <= Len(node.blocks)
           /\ node \in Nodes(Aged) /\ Era \in Nat
           /\ env.events \in Nat /\ env.restarts \in Nat /\ env.rebuilds \in Nat
           /\ env.log \in {"followed", "rebuilt", "outgrown"}
           /\ {"events", "rebuilds", "restarts", "ran", "log", "saved", "mark", "passed"} \subseteq DOMAIN env
           /\ {"pc", "cursor", "mine", "seen", "head", "session"} \subseteq DOMAIN watch
           /\ inbox \in Seq(Nat) /\ watch.mine \in Seq(Entry(Known))
           /\ BookInv /\ SeenInv /\ SessionInv /\ HearsInv
<1>1. /\ EnvOK /\ node \in Nodes(Known) /\ NodeOK(node) /\ Numbered(Known) /\ ReadsInv
      /\ inbox \in Seq(Nat) /\ watch.mine \in Seq(Entry(Known))
      /\ env.events \in Nat /\ env.restarts \in Nat /\ env.rebuilds \in Nat
  BY OnceFacts
<1>2. node.cp <= Len(node.blocks)
  BY DEF OnceInv, SealInv
<1>3. LogIs(Known, node)
  BY <1>1, NodeHasLog
<1>4. node.cp \in Nat /\ node.seq \in Nat
  BY <1>1 DEF Nodes
<1>5. {"events", "rebuilds", "restarts", "ran"} \subseteq DOMAIN env
  BY <1>1 DEF EnvOK
<1>6. /\ "log" \in DOMAIN env /\ env.log \in {"followed", "rebuilt", "outgrown"}
      /\ {"pc", "cursor", "mine", "seen", "head"} \subseteq DOMAIN watch
  BY <1>1 DEF ReadsInv
<1>7. node \in Nodes(Aged) /\ BookInv /\ SeenInv /\ SessionInv /\ HearsInv
  BY DEF HeardInv, EraInv
<1>8. {"saved", "mark", "passed"} \subseteq DOMAIN env /\ "session" \in DOMAIN watch
  BY <1>7 DEF BookInv
<1>9. Era \in Nat
  BY <1>1 DEF Era
<1> QED BY <1>1, <1>2, <1>3, <1>4, <1>5, <1>6, <1>7, <1>8, <1>9

LEMMA OwedSame ==
    ASSUME setup' = setup, env'.rebuilds = env.rebuilds, env'.restarts = env.restarts
    PROVE  Owed' = Owed
<1>1. Era' = Era
  BY DEF Era
<1>2. \A e : Concerns(e)' <=> Concerns(e)
  BY DEF Concerns, Is
<1> QED BY <1>1, <1>2 DEF Owed

\* What the node had before the last rebuild or restart is not owed.
LEMMA OldIsNotOwed ==
    ASSUME Era \in Nat, node' \in Nodes(Aged), Era' = Era + 1
    PROVE  \A j \in DOMAIN node'.log : node'.log[j].ev \notin Owed'
<1> DEFINE log == node'.log
<1>1. log \in Seq(Entry(Aged))
  BY DEF Nodes
<1> HIDE DEF log
<1>2. \A j \in DOMAIN log : log[j] \in Entry(Aged)
  BY <1>1
<1>3. \A j \in DOMAIN log : log[j].ev \in Aged
  BY <1>2 DEF Entry
<1>4. \A e \in Owed' : e.era = Era + 1
  BY DEF Owed
<1>5. \A e \in Aged : e.era <= Era
  BY DEF Aged
<1> QED BY <1>3, <1>4, <1>5 DEF log

LEMMA AgedGrows ==
    ASSUME Known \subseteq Known', Era \in Nat, Era' \in Nat, Era <= Era'
    PROVE  Aged \subseteq Aged' /\ Nodes(Aged) \subseteq Nodes(Aged')
<1>1. \A e \in Known : e.era \in Nat
  BY DEF Known
<1>2. Aged \subseteq Aged'
  BY <1>1 DEF Aged
<1> QED BY <1>2, NodesGrow

\* The node gets on, and its readers do nothing.
LEMMA HeardUnseen ==
    ASSUME OnceInv, HeardInv, UNCHANGED <<setup, watch, inbox, disk>>,
           DOMAIN env' = DOMAIN env, env'.rebuilds = env.rebuilds, env'.restarts = env.restarts,
           env'.log = env.log, env'.saved = env.saved, env'.mark = env.mark,
           env'.passed = env.passed,
           EraInv', node.cp <= node'.cp, node'.cp \in Nat, node.seq <= node'.seq, node'.seq \in Nat,
           HearsOK(node, watch.cursor, env.mark, Owed, Reached) =>
              HearsOK(node', watch.cursor, env.mark, Owed, Reached)
    PROVE  HeardInv'
<1>1. /\ BookInv /\ SeenInv /\ SessionInv /\ HearsInv /\ node.cp \in Nat /\ node.seq \in Nat
  BY HeardFacts
<1>2. \A r : Is(r)' <=> Is(r)
  BY DEF Is
<1>3. Owed' = Owed /\ Reached' = Reached
  BY OwedSame DEF Reached
<1>4. BookInv' /\ SeenInv'
  BY <1>1, <1>2 DEF BookInv, SeenInv
<1>5. SessionInv'
  <2> SUFFICES ASSUME Is("cat")
               PROVE  /\ SessionOK(disk, watch.session, node'.cp)
                      /\ (env.saved = env.rebuilds /\ disk.epoch = node'.cp) => disk.cursor <= node'.seq
    BY <1>2 DEF SessionInv
  <2>1. /\ SessionOK(disk, watch.session, node.cp)
        /\ (env.saved = env.rebuilds /\ disk.epoch = node.cp) => disk.cursor <= node.seq
    BY <1>1 DEF SessionInv
  <2> QED BY <1>1, <2>1 DEF SessionOK
<1>6. HearsInv'
  BY <1>1, <1>2, <1>3 DEF HearsInv
<1> QED BY <1>4, <1>5, <1>6 DEF HeardInv

\* The log is made anew: the mark is where its reader is.
LEMMA HeardRebuilt ==
    ASSUME OnceInv, HeardInv, env' = Noted \/ env' = [Noted EXCEPT !.epochs = @ + 1],
           UNCHANGED <<setup, watch, inbox, disk>>, node' \in Nodes(Aged), node.cp <= node'.cp
    PROVE  HeardInv'
<1>1. /\ BookInv /\ SeenInv /\ SessionInv /\ HearsInv /\ node.cp \in Nat /\ node.seq \in Nat /\ Era \in Nat
      /\ env.rebuilds \in Nat /\ env.restarts \in Nat
      /\ {"events", "rebuilds", "restarts", "ran", "log", "saved", "mark", "passed"} \subseteq DOMAIN env
  BY HeardFacts
<1>2. /\ DOMAIN env' = DOMAIN env /\ env'.events = env.events /\ env'.ran = env.ran
      /\ env'.restarts = env.restarts /\ env'.rebuilds = env.rebuilds + 1
      /\ env'.saved = env.saved /\ env'.mark = watch.cursor.block
      /\ env'.log \in {"rebuilt", "outgrown"}
  <2>1. /\ DOMAIN Noted = DOMAIN env /\ Noted.events = env.events /\ Noted.ran = env.ran
        /\ Noted.restarts = env.restarts /\ Noted.rebuilds = env.rebuilds + 1
        /\ Noted.saved = env.saved /\ Noted.mark = watch.cursor.block
        /\ Noted.log \in {"rebuilt", "outgrown"}
    BY <1>1 DEF Noted
  <2>2. CASE env' = Noted
    BY <2>1, <2>2
  <2>3. CASE env' = [Noted EXCEPT !.epochs = @ + 1]
    <3> HIDE DEF Noted
    <3> QED BY <2>1, <2>3
  <2> QED BY <2>2, <2>3
<1>3. \A r : Is(r)' <=> Is(r)
  BY DEF Is
<1>4. EraInv'
  <2>1. Known' = Known
    BY <1>2 DEF Known
  <2>2. Era' = Era + 1
    BY <1>1, <1>2 DEF Era
  <2>3. Nodes(Aged) \subseteq Nodes(Aged')
    BY <1>1, <2>1, <2>2, AgedGrows
  <2> QED BY <2>3 DEF EraInv
<1>5. BookInv'
  <2>1. watch.cursor.block \in Nat
    BY <1>1 DEF BookInv, CursorOK
  <2>2. env'.saved <= env'.rebuilds /\ env'.saved # env'.rebuilds
    BY <1>1, <1>2 DEF BookInv
  <2> QED BY <1>1, <1>2, <1>3, <2>1, <2>2 DEF BookInv
<1>6. SeenInv'
  BY <1>1, <1>3 DEF SeenInv
<1>7. SessionInv'
  <2> SUFFICES ASSUME Is("cat") PROVE SessionOK(disk, watch.session, node'.cp) /\ env'.saved # env'.rebuilds
    BY <1>3 DEF SessionInv
  <2>1. env'.saved # env'.rebuilds
    BY <1>1, <1>2 DEF BookInv
  <2>2. node'.cp \in Nat
    BY DEF Nodes
  <2> QED BY <1>1, <2>1, <2>2 DEF SessionInv, SessionOK
<1>8. HearsInv'
  <2>1. watch.cursor.block \in Nat
    BY <1>1 DEF BookInv, CursorOK
  <2> QED BY <1>2, <2>1 DEF HearsInv
<1> QED BY <1>4, <1>5, <1>6, <1>7, <1>8 DEF HeardInv

\* An event: new, and last in the log.
LEMMA HeardEmits ==
    ASSUME OnceInv, OnceInv', HeardInv, NEW k \in Kinds, Emits(NextEvent(k)),
           UNCHANGED <<setup, watch, inbox, disk>>,
           DOMAIN env' = DOMAIN env, env'.events = env.events + 1,
           env'.ran = env.ran \/ (k = "mine" /\ env'.ran = env.ran \cup {env.events + 1}),
           env'.rebuilds = env.rebuilds, env'.restarts = env.restarts, env'.log = env.log,
           env'.saved = env.saved, env'.mark = env.mark, env'.passed = env.passed
    PROVE  HeardInv'
<1> DEFINE e == NextEvent(k)
           E == Known'
           F == Aged'
<1>1. /\ EnvOK /\ node \in Nodes(Known) /\ NodeOK(node) /\ node \in Nodes(Aged) /\ Era \in Nat
      /\ env.events \in Nat /\ env.restarts \in Nat /\ env.rebuilds \in Nat
      /\ env.ran \in SUBSET (1..env.events) /\ node.cp \in Nat /\ node.seq \in Nat /\ BookInv
  BY HeardFacts DEF EnvOK
<1>2. Known \subseteq E
  <2>1. env'.events \in Nat /\ env'.events >= env.events /\ env'.ran \cap (1..env.events) = env.ran
    BY <1>1
  <2> QED BY <1>1, <2>1, KnownGrows
<1>3. e \in E
  BY <1>1 DEF Known, NextEvent
<1>4. Era' = Era /\ e.era = Era
  BY DEF Era, NextEvent
<1>5. e \in F /\ Nodes(Aged) \subseteq Nodes(F)
  BY <1>1, <1>2, <1>3, <1>4, AgedGrows DEF Aged
<1>6. node \in Nodes(E) /\ Events(E) /\ NodeInv
  <2>1. Events(E)
    BY <1>1 DEF Known, Events
  <2> QED BY <1>1, <1>2, <2>1, NodesGrow DEF NodeInv
<1>7. (\A x \in Known : x.id < e.id) /\ Emits(e)
  BY <1>1 DEF Known, NextEvent
<1> HIDE DEF e, E, F
<1>8. node' \in Nodes(F) /\ node'.cp = node.cp
  BY <1>1, <1>5, <1>7, EmitsIs
<1>9. node' \in Nodes(E)
  BY <1>3, <1>6, <1>7, EmitsIs
<1>10. /\ NodeInv' /\ Top(node') = Top(node) /\ node'.seq = node.seq + 1
       /\ \E t \in Nat : Extends(node.log, node'.log, node.seq, Top(node), <<e>>, t)
  BY <1>1, <1>3, <1>6, <1>7, EmittedIsOK
<1>11. ASSUME HearsOK(node, watch.cursor, env.mark, Owed, Reached)
       PROVE  HearsOK(node', watch.cursor, env.mark, Owed, Reached)
  <2>1. PICK t \in Nat : Extends(node.log, node'.log, node.seq, Top(node), <<e>>, t)
    BY <1>10
  <2>2. <<e>> \in Seq(E) /\ Len(<<e>>) = 1
    BY <1>3
  <2>3. NodeOK(node')
    BY <1>10 DEF NodeInv
  <2>4. LogIs(Known, node)
    BY <1>1, NodeHasLog
  <2>5. Top(node) \in Nat /\ Top(node) <= Top(node) /\ Top(node) <= Top(node')
    BY <1>10, <2>4 DEF LogIs
  <2>6. CursorOK(watch.cursor) /\ env.mark \in Nat
    BY <1>1 DEF BookInv
  <2> DEFINE es == <<e>>
             b == Top(node)
  <2>7. es \in Seq(E) /\ node'.seq = node.seq + Len(es) /\ Extends(node.log, node'.log, node.seq, b, es, t)
    BY <1>10, <2>1, <2>2
  <2>8. b \in Nat /\ Top(node) <= b
    BY <2>5
  <2> HIDE DEF es, b
  <2> QED BY <1>1, <1>6, <1>9, <1>11, <2>3, <2>5, <2>6, <2>7, <2>8, HearsAbsorbs
<1>12. EraInv'
  BY <1>8 DEF EraInv, F
<1>13. node.cp <= node'.cp /\ node'.cp \in Nat /\ node.seq <= node'.seq /\ node'.seq \in Nat
  BY <1>1, <1>8, <1>10
<1> QED BY <1>11, <1>12, <1>13, HeardUnseen

LEMMA CpIs ==
    ASSUME NEW E, node \in Nodes(E), node.cp <= Len(node.blocks)
    PROVE  /\ \A compact \in BOOLEAN : Seal(compact) => node.cp <= node'.cp
           /\ Demote => node'.cp = node.cp
           /\ \A shared : Rewind(shared) => node'.cp = node.cp
           /\ Adopt => node.cp <= node'.cp
           /\ Pull => node'.cp = node.cp
<1>1. /\ node.blocks \in Seq(Seq(E)) /\ node.cp \in Nat /\ Len(node.blocks) \in Nat /\ node.ahead \in Seq(Seq(E))
      /\ node.open \in Seq(E)
  BY DEF Nodes
<1>2. ASSUME NEW compact \in BOOLEAN, Seal(compact) PROVE node.cp <= node'.cp
  <2> DEFINE sealed == [node EXCEPT !.blocks = Append(@, node.open), !.open = <<>>]
  <2>1. sealed.cp = node.cp /\ DOMAIN sealed = DOMAIN node /\ "cp" \in DOMAIN node
    BY DEF Nodes
  <2>2. node' = IF compact THEN [sealed EXCEPT !.cp = OpenBlock(node)] ELSE sealed
    BY <1>2 DEF Seal, CompactAt
  <2> HIDE DEF sealed
  <2>3. node'.cp = IF compact THEN Len(node.blocks) + 1 ELSE node.cp
    BY <2>1, <2>2 DEF OpenBlock
  <2> QED BY <1>1, <2>3
<1>3. ASSUME Demote PROVE node'.cp = node.cp
  <2> DEFINE n == Reloaded(node.blocks, node.cp)
  <2>1. n \in Nodes(E) /\ n.cp = node.cp
    BY <1>1, ReloadedHas
  <2>2. node' = [n EXCEPT !.ahead = node.ahead]
    BY <1>3 DEF Demote
  <2> HIDE DEF n
  <2> QED BY <1>1, <2>1, <2>2, AheadIs
<1>4. ASSUME NEW shared, Rewind(shared) PROVE node'.cp = node.cp
  <2> DEFINE blocks == SubSeq(node.blocks, 1, node.cp)
             ahead == SubSeq(node.blocks, node.cp + 1, shared)
             n == Reloaded(blocks, node.cp)
  <2>1. \A b \in 1..Len(node.blocks) : node.blocks[b] \in Seq(E)
    BY <1>1
  <2>2. blocks \in Seq(Seq(E)) /\ Len(blocks) = node.cp
    BY <1>1, <2>1, SubSeqProperties
  <2>3. n \in Nodes(E) /\ n.cp = node.cp
    <3> HIDE DEF blocks
    <3> QED BY <1>1, <2>2, ReloadedHas
  <2>4. shared \in node.cp..Len(node.blocks)
    BY <1>4 DEF Rewind
  <2>5. \A b \in node.cp + 1..shared : node.blocks[b] \in Seq(E)
    BY <1>1, <2>1, <2>4
  <2>6. node.cp + 1 >= 1 /\ shared \in Int /\ node.cp + 1 \in Int
    BY <1>1, <2>4
  <2>7. ahead \in Seq(Seq(E))
    BY <2>5, <2>6, SubSeqProperties
  <2>8. node' = [n EXCEPT !.ahead = ahead]
    BY <1>4 DEF Rewind
  <2> HIDE DEF n, ahead
  <2> QED BY <2>3, <2>7, <2>8, AheadIs
<1>5. ASSUME Adopt PROVE node.cp <= node'.cp
  <2> DEFINE blocks == Append(node.blocks \o node.ahead, <<>>)
  <2>1. node.blocks \o node.ahead \in Seq(Seq(E)) /\ Len(node.blocks \o node.ahead) = Len(node.blocks) + Len(node.ahead)
        /\ <<>> \in Seq(E)
    BY <1>1
  <2>2. blocks \in Seq(Seq(E)) /\ Len(blocks) = Len(node.blocks) + Len(node.ahead) + 1
    BY <1>1, <2>1
  <2>3. Len(node.ahead) \in Nat
    BY <1>1
  <2> DEFINE l == Len(blocks)
  <2>7. l = Len(node.blocks) + Len(node.ahead) + 1
    BY <2>2
  <2> HIDE DEF blocks
  <2>4. l \in Nat /\ node.cp <= l
    <3> DEFINE a == Len(node.blocks)
               b == Len(node.ahead)
    <3>1. a \in Nat /\ b \in Nat /\ node.cp \in Nat /\ node.cp <= a /\ l = a + b + 1
      BY <1>1, <2>3, <2>7
    <3> HIDE DEF l, a, b
    <3> QED BY <3>1
  <2>5. node' = Reloaded(blocks, Len(blocks))
    BY <1>5 DEF Adopt, blocks
  <2>6. Reloaded(blocks, Len(blocks)).cp = Len(blocks)
    <3>1. blocks \in Seq(Seq(E)) /\ l \in Nat
      BY <2>2, <2>4 DEF blocks
    <3> HIDE DEF l
    <3>2. l <= l
      BY <3>1
    <3> QED BY <3>1, <3>2, ReloadedHas DEF l
  <2> QED BY <2>4, <2>5, <2>6
<1>6. ASSUME Pull PROVE node'.cp = node.cp
  <2> DEFINE n == Absorbed(node, OpenBlock(node), Head(node.ahead))
             blocks == Append(node.blocks, Head(node.ahead))
  <2>1. node.ahead # <<>> /\ OpenBlock(node) \in Nat
    BY <1>1, <1>6 DEF Pull, OpenBlock
  <2>2. Head(node.ahead) \in Seq(E)
    BY <1>1, <2>1
  <2>3. n \in Nodes(E) /\ n.cp = node.cp
    BY <2>1, <2>2, AbsorbedIs
  <2>4. node'.cp = n.cp
    <3>1. node' = [n EXCEPT !.blocks = Append(@, Head(node.ahead)), !.ahead = Tail(@)]
      BY <1>6 DEF Pull
    <3> HIDE DEF n
    <3> QED BY <2>3, <3>1 DEF Nodes
  <2> QED BY <2>3, <2>4
<1> QED BY <1>2, <1>3, <1>4, <1>5, <1>6

LEMMA HeardNode ==
    ASSUME OnceInv, OnceInv', HeardInv, TheNode
    PROVE  HeardInv'
<1> DEFINE c == watch.cursor
           E == Known
           F == Aged
<1>1. /\ EnvOK /\ node \in Nodes(E) /\ NodeOK(node) /\ node.cp <= Len(node.blocks) /\ NodeInv /\ Events(E)
      /\ node \in Nodes(F) /\ Era \in Nat /\ node.cp \in Nat /\ node.seq \in Nat /\ BookInv
      /\ {"events", "rebuilds", "restarts", "ran", "log", "saved", "mark", "passed"} \subseteq DOMAIN env
      /\ CursorOK(c) /\ env.mark \in Nat
  <2>1. Events(E)
    BY HeardFacts, KnownAre
  <2> QED BY <2>1, HeardFacts DEF NodeInv, BookInv
<1> HIDE DEF E, F
<1>2. ASSUME NEW k \in Kinds, Emit(k) PROVE HeardInv'
  <2>1. /\ env' = [env EXCEPT !.events = @ + 1] /\ Emits(NextEvent(k)) /\ UNCHANGED <<setup, watch, inbox, disk>>
    BY <1>2 DEF Emit
  <2>2. /\ DOMAIN env' = DOMAIN env /\ env'.events = env.events + 1 /\ env'.ran = env.ran
        /\ env'.rebuilds = env.rebuilds /\ env'.restarts = env.restarts /\ env'.log = env.log
        /\ env'.saved = env.saved /\ env'.mark = env.mark /\ env'.passed = env.passed
    BY <1>1, <2>1
  <2> QED BY <2>1, <2>2, HeardEmits
\* The events are those there were, and of their eras.
<1>3. ASSUME env'.events = env.events, env'.ran = env.ran, env'.rebuilds = env.rebuilds,
             env'.restarts = env.restarts, node' \in Nodes(F)
      PROVE  EraInv'
  <2>1. Known' = Known /\ Era' = Era
    BY <1>3 DEF Known, Era
  <2>2. Nodes(Aged) \subseteq Nodes(Aged')
    BY <1>1, <2>1, AgedGrows
  <2> QED BY <1>3, <2>2 DEF EraInv, F
<1>4. ASSUME NEW compact \in BOOLEAN, Seal(compact) PROVE HeardInv'
  <2>1. /\ UNCHANGED <<setup, watch, inbox, disk>>
        /\ DOMAIN env' = DOMAIN env /\ env'.events = env.events /\ env'.ran = env.ran
        /\ env'.rebuilds = env.rebuilds /\ env'.restarts = env.restarts /\ env'.log = env.log
        /\ env'.saved = env.saved /\ env'.mark = env.mark /\ env'.passed = env.passed
    BY <1>1, <1>4 DEF Seal
  <2>2. node'.log = node.log /\ node'.seq = node.seq /\ Top(node) <= Top(node')
    BY <1>1, <1>4, SealedIsOK
  <2>3. node' \in Nodes(E) /\ node' \in Nodes(F)
    BY <1>1, <1>4, SealsIs
  <2>4. EraInv'
    BY <1>3, <2>1, <2>3
  <2>5. node.cp <= node'.cp /\ node'.cp \in Nat
    BY <1>1, <1>4, <2>3, CpIs DEF Nodes
  <2>6. Top(node) \in Nat /\ Top(node') \in Nat /\ c.block \in Nat
    <3>1. ChainOf(E, node) /\ ChainOf(E, node')
      BY <1>1, <2>3, ChainIs
    <3> QED BY <1>1, <3>1 DEF ChainOf, CursorOK
  <2>7. HearsOK(node, c, env.mark, Owed, Reached) => HearsOK(node', c, env.mark, Owed, Reached)
    BY <2>2, <2>6 DEF HearsOK, Read
  <2> QED BY <1>1, <2>1, <2>2, <2>4, <2>5, <2>7, HeardUnseen
<1>5. CASE Demote
  <2>1. (env' = Noted \/ env' = [Noted EXCEPT !.epochs = @ + 1]) /\ UNCHANGED <<setup, watch, inbox, disk>>
    BY <1>5 DEF Demote, Rebuilds
  <2>2. node' \in Nodes(F) /\ node.cp <= node'.cp
    BY <1>1, <1>5, DemoteIs, CpIs
  <2> QED BY <2>1, <2>2, HeardRebuilt DEF F
<1>6. ASSUME NEW shared, Rewind(shared) PROVE HeardInv'
  <2>1. (env' = Noted \/ env' = [Noted EXCEPT !.epochs = @ + 1]) /\ UNCHANGED <<setup, watch, inbox, disk>>
    BY <1>6 DEF Rewind, Rebuilds
  <2>2. node' \in Nodes(F) /\ node.cp <= node'.cp
    BY <1>1, <1>6, RewindIs, CpIs
  <2> QED BY <2>1, <2>2, HeardRebuilt DEF F
<1>7. CASE Adopt
  <2>1. (env' = Noted \/ env' = [Noted EXCEPT !.epochs = @ + 1]) /\ UNCHANGED <<setup, watch, inbox, disk>>
    BY <1>7 DEF Adopt, Rebuilds
  <2>2. node' \in Nodes(F) /\ node.cp <= node'.cp
    BY <1>1, <1>7, AdoptIs, CpIs
  <2> QED BY <2>1, <2>2, HeardRebuilt DEF F
<1>8. CASE Pull
  <2>1. UNCHANGED <<setup, watch, inbox, disk, env>>
    BY <1>8 DEF Pull
  <2>2. /\ NodeInv' /\ Top(node) <= Top(node')
        /\ \E block \in DOMAIN Chain(node), t \in Nat :
              LET es == Chain(node)[block] IN
              /\ block = Top(node) + 1 /\ node'.seq = node.seq + Len(es)
              /\ Extends(node.log, node'.log, node.seq, block, es, t)
    BY <1>1, <1>8, PulledIsOK
  <2>3. node' \in Nodes(E) /\ node' \in Nodes(F)
    BY <1>1, <1>8, PullIs
  <2>4. PICK block \in DOMAIN Chain(node), t \in Nat :
              /\ block = Top(node) + 1 /\ node'.seq = node.seq + Len(Chain(node)[block])
              /\ Extends(node.log, node'.log, node.seq, block, Chain(node)[block], t)
    BY <2>2
  <2> DEFINE es == Chain(node)[block]
  <2>5. Top(node) \in Nat /\ es \in Seq(E)
    <3>1. ChainOf(E, node)
      BY <1>1, ChainIs
    <3>2. Chain(node) \in Seq(Seq(E)) /\ Top(node) \in Nat
      BY <3>1 DEF ChainOf
    <3> QED BY <3>2
  <2>6. block \in Nat /\ Top(node) <= block /\ Len(es) \in Nat
    BY <2>4, <2>5
  <2>7. NodeOK(node') /\ node'.seq \in Nat /\ node.seq <= node'.seq
    BY <1>1, <2>2, <2>4, <2>6 DEF NodeInv
  <2>8. ASSUME HearsOK(node, c, env.mark, Owed, Reached)
        PROVE  HearsOK(node', c, env.mark, Owed, Reached)
    <3>1. node'.seq = node.seq + Len(es) /\ Extends(node.log, node'.log, node.seq, block, es, t)
      BY <2>4
    <3> HIDE DEF es
    <3> QED BY <1>1, <2>2, <2>3, <2>5, <2>6, <2>7, <2>8, <3>1, HearsAbsorbs
  <2>9. EraInv'
    BY <1>3, <2>1, <2>3
  <2>10. node.cp <= node'.cp /\ node'.cp \in Nat
    BY <1>1, <1>8, CpIs
  <2> QED BY <2>1, <2>7, <2>8, <2>9, <2>10, HeardUnseen
<1> QED BY <1>2, <1>4, <1>5, <1>6, <1>7, <1>8 DEF TheNode

-----------------------------------------------------------------------------
(* What is held, through a step of a reader. *)

LEMMA EraStays ==
    ASSUME OnceInv, HeardInv, node' = node, env'.events = env.events, env'.ran = env.ran,
           env'.rebuilds = env.rebuilds, env'.restarts \in {env.restarts, env.restarts + 1}
    PROVE  EraInv'
<1>1. node \in Nodes(Aged) /\ Era \in Nat /\ env.rebuilds \in Nat /\ env.restarts \in Nat
  BY HeardFacts
<1>2. Known' = Known
  BY DEF Known
<1>3. Era' \in Nat /\ Era <= Era'
  BY <1>1 DEF Era
<1> QED BY <1>1, <1>2, <1>3, AgedGrows DEF EraInv

\* A step of a reader that goes on.
LEMMA HeardGoesOn ==
    ASSUME OnceInv, HeardInv, UNCHANGED <<setup, node>>,
           DOMAIN env' = DOMAIN env, env'.events = env.events, env'.ran = env.ran,
           env'.rebuilds = env.rebuilds, env'.restarts = env.restarts,
           env'.mark \in Nat, env.log = "followed" => env'.log = "followed",
           env'.saved = env.saved \/ (env.log = "followed" /\ env'.saved = env.rebuilds),
           "session" \in DOMAIN watch', watch'.head \in Nat,
           watch'.pc \in {"head", "events", "send"}, watch'.pc = "send" => Is("cat"),
           watch'.pc # "send" => watch'.mine = <<>>,
           CursorOK(watch'.cursor),
           Is("asleep") => watch'.cursor.block = 0 /\ watch'.cursor.floor = NoFloor,
           Is("cat") =>
              /\ SentOK(watch'.seen, watch'.mine, watch'.cursor.seq)
              /\ SessionOK(disk', watch'.session, node.cp)
              /\ (env'.saved = env.rebuilds /\ disk'.epoch = node.cp) => disk'.cursor <= node.seq,
           env'.log = "rebuilt" => watch'.cursor.block <= env'.mark,
           env'.log = "followed" =>
              /\ watch'.cursor.floor # NoFloor => Is("cat") \/ watch'.cursor.block <= env'.mark
              /\ HearsOK(node, watch'.cursor, env'.mark, Owed, Reached')
    PROVE  HeardInv'
<1>1. BookInv /\ env.rebuilds \in Nat
  BY HeardFacts
<1>2. \A r : Is(r)' <=> Is(r)
  BY DEF Is
<1>3. Owed' = Owed
  BY OwedSame
<1>4. EraInv'
  BY EraStays
<1>5. BookInv'
  <2>1. /\ env'.saved \in Nat /\ env'.saved <= env'.rebuilds
        /\ env'.saved = env'.rebuilds => env'.log = "followed"
    BY <1>1 DEF BookInv
  <2>2. {"saved", "mark", "passed"} \subseteq DOMAIN env'
    BY <1>1 DEF BookInv
  <2> QED BY <1>2, <2>1, <2>2 DEF BookInv
<1>6. SeenInv' /\ SessionInv'
  BY <1>2 DEF SeenInv, SessionInv
<1>7. HearsInv'
  BY <1>2, <1>3 DEF HearsInv
<1> QED BY <1>4, <1>5, <1>6, <1>7 DEF HeardInv

\* What is left of the actions changes neither the cursor nor what is held.
LEMMA HeardIdles ==
    ASSUME OnceInv, HeardInv, UNCHANGED <<setup, node, inbox, disk>>,
           DOMAIN env' = DOMAIN env, env'.events = env.events, env'.ran = env.ran,
           env'.rebuilds = env.rebuilds, env'.restarts = env.restarts, env'.log = env.log,
           env'.saved = env.saved, env'.mark = env.mark, env'.passed = env.passed,
           DOMAIN watch' = DOMAIN watch, watch'.cursor = watch.cursor, watch'.mine = watch.mine,
           watch'.seen = watch.seen, watch'.session = watch.session, watch'.head = watch.head,
           watch'.pc \in {"head", "events", "send"}, watch'.pc = "send" => Is("cat"),
           watch'.pc # "send" => watch.mine = <<>>
    PROVE  HeardInv'
<1>1. BookInv /\ SeenInv /\ SessionInv /\ HearsInv
  BY HeardFacts
<1>2. Reached' = Reached
  BY DEF Reached
<1>3. /\ env'.mark \in Nat /\ "session" \in DOMAIN watch' /\ watch'.head \in Nat /\ CursorOK(watch'.cursor)
      /\ Is("asleep") => watch'.cursor.block = 0 /\ watch'.cursor.floor = NoFloor
  BY <1>1 DEF BookInv
<1>4. Is("cat") =>
         /\ SentOK(watch'.seen, watch'.mine, watch'.cursor.seq)
         /\ SessionOK(disk', watch'.session, node.cp)
         /\ (env'.saved = env.rebuilds /\ disk'.epoch = node.cp) => disk'.cursor <= node.seq
  BY <1>1 DEF SeenInv, SessionInv
<1>5. /\ env'.log = "rebuilt" => watch'.cursor.block <= env'.mark
      /\ env'.log = "followed" =>
            /\ watch'.cursor.floor # NoFloor => Is("cat") \/ watch'.cursor.block <= env'.mark
            /\ HearsOK(node, watch'.cursor, env'.mark, Owed, Reached')
  BY <1>1, <1>2 DEF HearsInv
<1> QED BY <1>3, <1>4, <1>5, HeardGoesOn

\* A look at the head.
LEMMA HeardLooks ==
    ASSUME OnceInv, HeardInv, NEW e, e = Checked(watch.cursor, node.seq)
    PROVE  /\ LookedAt(e) # "rebuilt" /\ (env.log = "followed" => LookedAt(e) = "followed")
           /\ LookedAt(e) = "followed" =>
                 /\ e.floor # NoFloor => Is("cat") \/ e.block <= env.mark
                 /\ HearsOK(node, e, env.mark, Owed, Reached)
<1> DEFINE c == watch.cursor
<1>1. /\ BookInv /\ HearsInv /\ node \in Nodes(Known) /\ NodeOK(node) /\ node.seq \in Nat
      /\ env.log \in {"followed", "rebuilt", "outgrown"} /\ CursorOK(c) /\ env.mark \in Nat
  BY HeardFacts DEF BookInv
<1>2. /\ CursorOK(e) /\ e.block = c.block
      /\ IF node.seq >= c.seq THEN e = c ELSE e.seq = 0
  BY <1>1, CheckedIs
<1>3. LookedAt(e) # "rebuilt" /\ (env.log = "followed" => LookedAt(e) = "followed")
  BY DEF LookedAt
<1>4. ASSUME LookedAt(e) = "followed"
      PROVE  /\ e.floor # NoFloor => Is("cat") \/ e.block <= env.mark
             /\ HearsOK(node, e, env.mark, Owed, Reached)
  <2>1. CASE env.log = "followed"
    <3>1. /\ c.floor # NoFloor => Is("cat") \/ c.block <= env.mark
          /\ HearsOK(node, c, env.mark, Owed, Reached)
      BY <1>1, <2>1 DEF HearsInv
    <3>2. c.seq <= node.seq /\ c.seq \in Nat
      BY <1>1, <3>1 DEF HearsOK, CursorOK
    <3>3. e = c
      BY <1>1, <1>2, <3>2
    <3> QED BY <3>1, <3>3
  <2>2. CASE env.log = "rebuilt"
    <3>1. e.seq = 0 /\ c.block <= env.mark
      BY <1>1, <1>4, <2>2 DEF LookedAt, HearsInv
    <3>2. e.seq <= node.seq /\ e.block <= env.mark
      BY <1>1, <1>2, <3>1
    <3>3. HearsOK(node, e, env.mark, Owed, Reached)
      BY <1>1, <1>2, <3>1, <3>2, HearsAnew
    <3> QED BY <3>2, <3>3
  <2>3. env.log # "outgrown"
    BY <1>4 DEF LookedAt
  <2> QED BY <1>1, <2>1, <2>2, <2>3
<1> QED BY <1>3, <1>4

\* A read of the log.
LEMMA HeardReads ==
    ASSUME OnceInv, HeardInv, NEW got, got = Batch(watch.cursor, Since(watch.cursor.seq))
    PROVE  /\ ReadBy(Known, node, watch.cursor, got.cursor, got.news)
           /\ env.log = "followed" => ReadAt(watch.cursor.seq) = "followed"
           /\ ReadAt(watch.cursor.seq) = "rebuilt" => got.cursor.block <= env.mark
           /\ ReadAt(watch.cursor.seq) = "followed" =>
                 /\ got.cursor.floor # NoFloor =>
                       Is("cat") \/ got.cursor.block <= MarkAt(watch.cursor, node.log, node.seq, env.mark)
                 /\ HearsOK(node, got.cursor, MarkAt(watch.cursor, node.log, node.seq, env.mark),
                            Owed, Reached \cup IdsOf(got.news))
<1> DEFINE c == watch.cursor
           mark == env.mark
           W == Owed
           T == Reached
<1>1. /\ BookInv /\ HearsInv /\ node \in Nodes(Known) /\ NodeOK(node) /\ node.seq \in Nat
      /\ env.log \in {"followed", "rebuilt", "outgrown"} /\ CursorOK(c) /\ mark \in Nat
  BY HeardFacts DEF BookInv
<1>2. got = Batch(c, Unread(node.log, c.seq))
  BY DEF Since, Unread
<1> HIDE DEF c, mark, W, T
<1>3. /\ ReadBy(Known, node, c, got.cursor, got.news)
      /\ HearsOK(node, c, mark, W, T) =>
            HearsOK(node, got.cursor, MarkAt(c, node.log, node.seq, mark), W, T \cup IdsOf(got.news))
  BY <1>1, <1>2, HearsReads
<1>4. ASSUME ReadAt(c.seq) = "rebuilt" PROVE got.cursor.block <= mark
  <2>1. env.log = "rebuilt" /\ ~(node.seq > c.seq) /\ c.seq \in Nat
    BY <1>1, <1>4 DEF ReadAt, CursorOK
  <2>2. got.cursor = c
    BY <1>1, <1>3, <2>1 DEF ReadBy
  <2> QED BY <1>1, <2>1, <2>2 DEF HearsInv, c, mark
<1>5. ASSUME ReadAt(c.seq) = "followed"
      PROVE  /\ got.cursor.floor # NoFloor =>
                   Is("cat") \/ got.cursor.block <= MarkAt(c, node.log, node.seq, mark)
             /\ HearsOK(node, got.cursor, MarkAt(c, node.log, node.seq, mark), W, T \cup IdsOf(got.news))
  <2>1. env.log = "followed"
    BY <1>1, <1>5 DEF ReadAt
  <2>2. /\ c.floor # NoFloor => Is("cat") \/ c.block <= mark
        /\ HearsOK(node, c, mark, W, T)
    BY <1>1, <2>1 DEF HearsInv, c, mark, W, T
  <2>3. got.cursor.floor # NoFloor => c.floor # NoFloor /\ got.cursor.block = c.block
    BY <1>3 DEF ReadBy
  <2>4. mark <= MarkAt(c, node.log, node.seq, mark) /\ MarkAt(c, node.log, node.seq, mark) \in Nat /\ c.block \in Nat
    BY <1>1 DEF MarkAt, CursorOK
  <2> QED BY <1>1, <1>3, <2>2, <2>3, <2>4
<1>6. env.log = "followed" => ReadAt(c.seq) = "followed"
  BY DEF ReadAt
<1> QED BY <1>3, <1>4, <1>5, <1>6 DEF c, mark, W, T

\* What counts is that what is owed and was reached stays so.
LEMMA HearsOnly ==
    ASSUME NEW n, NEW c, NEW mark, NEW W, NEW T, HearsOK(n, c, mark, W, T), NEW U,
           Read(n, c.seq) \in Nat, Read(n, c.seq) <= Len(n.log), Len(n.log) \in Nat,
           DOMAIN n.log = 1..Len(n.log),
           \A j \in DOMAIN n.log : (n.log[j].ev \in W /\ n.log[j].ev.id \in T) => n.log[j].ev.id \in U
    PROVE  HearsOK(n, c, mark, W, U)
<1> DEFINE log == n.log
           d == Read(n, c.seq)
           m == MarkAt(c, log, n.seq, mark)
<1>1. Heeds(log, d, mark, W, T) /\ Awaits(c, log, d, m, W, T)
  BY DEF HearsOK, HearsFrom
<1>2. (\A j \in 1..d : j \in DOMAIN log) /\ (\A j \in d + 1..Len(log) : j \in DOMAIN log)
  <2> HIDE DEF d, log
  <2> QED BY DEF d, log
<1> HIDE DEF d, m
<1>3. Heeds(log, d, mark, W, U)
  BY <1>1, <1>2 DEF Heeds
<1>4. Awaits(c, log, d, m, W, U)
  BY <1>1, <1>2 DEF Awaits
<1> QED BY <1>3, <1>4 DEF HearsOK, HearsFrom, d, m

-----------------------------------------------------------------------------
(* The cat. *)

LEMMA HeardPoll == ASSUME OnceInv, HeardInv, Poll PROVE HeardInv'
<1> DEFINE c == watch.cursor
           e == Checked(c, node.seq)
<1>1. /\ Is("cat") /\ watch.pc = "head" /\ UNCHANGED <<setup, node, disk>>
      /\ inbox' = inbox \/ inbox' = Append(inbox, 0)
      /\ env' = [env EXCEPT !.log = LookedAt(e)]
  BY DEF Poll, TheHead
<1>2. /\ BookInv /\ SeenInv /\ SessionInv /\ node.cp \in Nat /\ node.seq \in Nat /\ inbox \in Seq(Nat)
      /\ {"events", "rebuilds", "restarts", "ran", "log", "saved", "mark", "passed"} \subseteq DOMAIN env
      /\ {"pc", "cursor", "mine", "seen", "head", "session"} \subseteq DOMAIN watch
      /\ CursorOK(c) /\ env.mark \in Nat /\ c.seq \in Nat
  BY HeardFacts DEF BookInv, CursorOK
<1>3. /\ DOMAIN watch' = DOMAIN watch /\ watch'.pc = "events" /\ watch'.cursor = e /\ watch'.mine = watch.mine
      /\ watch'.seen = (IF node.seq < c.seq THEN {} ELSE watch.seen)
      /\ watch'.head = HeadKept /\ watch'.session = [watch.session EXCEPT !.epoch = node.cp]
  BY <1>2 DEF Poll, TheHead
<1>4. /\ DOMAIN env' = DOMAIN env /\ env'.events = env.events /\ env'.ran = env.ran
      /\ env'.rebuilds = env.rebuilds /\ env'.restarts = env.restarts /\ env'.saved = env.saved
      /\ env'.mark = env.mark /\ env'.passed = env.passed /\ env'.log = LookedAt(e)
  BY <1>1, <1>2
<1>5. CursorOK(e) /\ IF node.seq >= c.seq THEN e = c ELSE e.seq = 0
  BY <1>2, CheckedIs
<1> HIDE DEF e
<1>6. /\ LookedAt(e) # "rebuilt" /\ (env.log = "followed" => LookedAt(e) = "followed")
      /\ LookedAt(e) = "followed" => HearsOK(node, e, env.mark, Owed, Reached)
  BY HeardLooks DEF e
<1>7. watch.mine = <<>>
  BY <1>1, <1>2 DEF BookInv
<1>8. SentOK(watch'.seen, watch'.mine, watch'.cursor.seq)
  <2>1. SentOK(watch.seen, watch.mine, c.seq)
    BY <1>1, <1>2 DEF SeenInv
  <2>2. CASE node.seq < c.seq
    <3>1. watch'.seen = {} /\ watch'.mine = <<>>
      BY <1>3, <1>7, <2>2
    <3> QED BY <3>1 DEF SentOK
  <2>3. CASE ~(node.seq < c.seq)
    <3>1. e = c /\ watch'.seen = watch.seen
      BY <1>2, <1>3, <1>5, <2>3
    <3> QED BY <1>3, <2>1, <3>1
  <2> QED BY <2>2, <2>3
<1>9. /\ SessionOK(disk', watch'.session, node.cp)
      /\ (env'.saved = env.rebuilds /\ disk'.epoch = node.cp) => disk'.cursor <= node.seq
  <2>1. /\ SessionOK(disk, watch.session, node.cp)
        /\ (env.saved = env.rebuilds /\ disk.epoch = node.cp) => disk.cursor <= node.seq
    BY <1>1, <1>2 DEF SessionInv
  <2>2. /\ DOMAIN watch'.session = DOMAIN watch.session /\ watch'.session.epoch = node.cp
        /\ watch'.session.cursor = watch.session.cursor
    BY <1>3, <2>1 DEF SessionOK
  <2>3. SessionOK(disk, watch'.session, node.cp)
    BY <1>2, <2>1, <2>2 DEF SessionOK
  <2> QED BY <1>1, <1>4, <2>1, <2>3
<1>10. Reached \subseteq Reached'
  <2>1. Range(inbox) \subseteq Range(inbox')
    <3>1. \A i \in DOMAIN inbox : i \in DOMAIN Append(inbox, 0) /\ Append(inbox, 0)[i] = inbox[i]
      BY <1>2
    <3>2. \A i \in DOMAIN inbox : i \in DOMAIN inbox' /\ inbox'[i] = inbox[i]
      BY <1>1, <3>1
    <3> QED BY <3>2 DEF Range
  <2> QED BY <1>3, <1>4, <2>1 DEF Reached
<1>11. ASSUME env'.log = "followed" PROVE HearsOK(node, watch'.cursor, env'.mark, Owed, Reached')
  BY <1>3, <1>4, <1>6, <1>10, <1>11, HearsTells
<1>12. ~Is("asleep") /\ HeadKept \in Nat
  BY <1>1, <1>2 DEF Is, HeadKept
<1> QED BY <1>1, <1>2, <1>3, <1>4, <1>5, <1>6, <1>7, <1>8, <1>9, <1>11, <1>12, HeardGoesOn

LEMMA HeardPollFails == ASSUME OnceInv, HeardInv, PollFails PROVE HeardInv'
<1> DEFINE c == watch.cursor
           e == Checked(c, watch.head)
<1>1. Is("cat") /\ watch.pc = "head" /\ UNCHANGED <<setup, node, inbox, disk>> /\ env' = [env EXCEPT !.missed = @ + 1]
  BY DEF PollFails
<1>2. /\ BookInv /\ SeenInv /\ SessionInv /\ HearsInv /\ node.cp \in Nat /\ node.seq \in Nat
      /\ node \in Nodes(Known) /\ NodeOK(node)
      /\ {"events", "rebuilds", "restarts", "ran", "log", "saved", "mark", "passed"} \subseteq DOMAIN env
      /\ {"pc", "cursor", "mine", "seen", "head", "session"} \subseteq DOMAIN watch
      /\ CursorOK(c) /\ env.mark \in Nat /\ c.seq \in Nat /\ watch.head \in Nat
  BY HeardFacts DEF BookInv, CursorOK
<1>3. /\ DOMAIN watch' = DOMAIN watch /\ watch'.pc = "events" /\ watch'.cursor = e /\ watch'.mine = watch.mine
      /\ watch'.seen = (IF watch.head < c.seq THEN {} ELSE watch.seen)
      /\ watch'.session = watch.session /\ watch'.head = watch.head
  BY <1>2 DEF PollFails
<1>4. /\ DOMAIN env' = DOMAIN env /\ env'.events = env.events /\ env'.ran = env.ran
      /\ env'.rebuilds = env.rebuilds /\ env'.restarts = env.restarts /\ env'.saved = env.saved
      /\ env'.mark = env.mark /\ env'.passed = env.passed /\ env'.log = env.log
  BY <1>1, <1>2
<1>5. CursorOK(e) /\ e.block = c.block /\ IF watch.head >= c.seq THEN e = c ELSE e.seq = 0
  BY <1>2, CheckedIs
<1>6. env.log = "followed" => HearsOK(node, e, env.mark, Owed, Reached)
  BY <1>2, HearsChecked DEF HearsInv
<1> HIDE DEF e
<1>7. watch.mine = <<>>
  BY <1>1, <1>2 DEF BookInv
<1>8. SentOK(watch'.seen, watch'.mine, watch'.cursor.seq)
  <2>1. SentOK(watch.seen, watch.mine, c.seq)
    BY <1>1, <1>2 DEF SeenInv
  <2>2. CASE watch.head < c.seq
    <3>1. watch'.seen = {} /\ watch'.mine = <<>>
      BY <1>3, <1>7, <2>2
    <3> QED BY <3>1 DEF SentOK
  <2>3. CASE ~(watch.head < c.seq)
    <3>1. e = c /\ watch'.seen = watch.seen
      BY <1>2, <1>3, <1>5, <2>3
    <3> QED BY <1>3, <2>1, <3>1
  <2> QED BY <2>2, <2>3
<1>9. /\ SessionOK(disk', watch'.session, node.cp)
      /\ (env'.saved = env.rebuilds /\ disk'.epoch = node.cp) => disk'.cursor <= node.seq
  BY <1>1, <1>2, <1>3, <1>4 DEF SessionInv
<1>10. Reached' = Reached
  BY <1>1, <1>3, <1>4 DEF Reached
<1>11. /\ env'.log = "followed" => HearsOK(node, watch'.cursor, env'.mark, Owed, Reached')
       /\ env'.log = "rebuilt" => watch'.cursor.block <= env'.mark
  BY <1>2, <1>3, <1>4, <1>5, <1>6, <1>10 DEF HearsInv
<1>12. ~Is("asleep")
  BY <1>1 DEF Is
<1> QED BY <1>1, <1>2, <1>3, <1>4, <1>5, <1>7, <1>8, <1>9, <1>11, <1>12, HeardGoesOn

\* What a read brings of what is owed to a cat is passed over, or about to be sent.
LEMMA NewsAreReached ==
    ASSUME LogIs(Known, node), Numbered(Known), Is("cat"), watch.mine = <<>>,
           NEW news \in Seq(Entry(Known)), \A i \in DOMAIN news : \E k \in DOMAIN node.log : news[i] = node.log[k],
           inbox' = inbox, watch'.mine = Newest(news),
           env'.passed = env.passed \cup {x.ev.id : x \in {y \in Range(news) : WakesMe(y.ev)} \ Range(Newest(news))},
           NEW j \in DOMAIN node.log, node.log[j].ev \in Owed, node.log[j].ev.id \in Reached \cup IdsOf(news)
    PROVE  node.log[j].ev.id \in Reached'
<1> DEFINE log == node.log
           m == Newest(news)
           id == log[j].ev.id
<1>1. CASE id \in Reached
  <2>1. Range(watch.mine) = {}
    BY DEF Range
  <2>2. Reached = Range(inbox) \cup env.passed
    BY <2>1 DEF Reached
  <2> HIDE DEF id, m
  <2> QED BY <1>1, <2>2 DEF Reached, id, m
<1>2. CASE id \in IdsOf(news)
  <2>1. PICK x \in Range(news) : x.ev.id = id
    BY <1>2 DEF IdsOf
  <2>2. PICK k \in DOMAIN log : x = log[k]
    BY <2>1 DEF Range
  <2>3. log \in Seq(Entry(Known)) /\ Grows(log) /\ DOMAIN log = 1..Len(log) /\ Len(log) \in Nat
    BY DEF LogIs
  <2> HIDE DEF log, m
  <2>4. log[j].ev.id \in Nat /\ j \in DOMAIN log
    <3>1. log[j] \in Entry(Known)
      BY <2>3 DEF log
    <3> QED BY <3>1 DEF Entry, Known, log
  <2>5. k = j
    <3>1. ~(k < j) /\ ~(j < k)
      BY <2>1, <2>2, <2>3, <2>4 DEF Grows
    <3> QED BY <2>2, <2>3, <2>4, <3>1
  <2>6. x.ev \in Owed
    BY <2>2, <2>5 DEF log
  <2>7. WakesMe(x.ev) /\ Prompts(x.ev)
    <3>1. Concerns(x.ev)
      BY <2>6 DEF Owed
    <3>2. ~Is("asleep")
      BY DEF Is
    <3> QED BY <3>1, <3>2 DEF Concerns
  <2> HIDE DEF id
  <2>8. /\ env'.passed \subseteq Reached'
        /\ \A y \in Range(watch'.mine) : Prompts(y.ev) => y.ev.id \in Reached'
    BY DEF Reached
  <2>9. CASE x \in Range(m)
    <3>1. x \in Range(watch'.mine)
      BY <2>9 DEF m
    <3> QED BY <2>1, <2>7, <2>8, <3>1 DEF id, log
  <2>10. CASE x \notin Range(m)
    <3>1. x \in {y \in Range(news) : WakesMe(y.ev)} \ Range(m)
      BY <2>1, <2>7, <2>10
    <3>2. x.ev.id \in env'.passed
      BY <3>1 DEF m
    <3> QED BY <2>1, <2>8, <3>2 DEF id, log
  <2> QED BY <2>9, <2>10
<1> QED BY <1>1, <1>2

LEMMA HeardFetch == ASSUME OnceInv, HeardInv, Fetch PROVE HeardInv'
<1> DEFINE c == watch.cursor
           got == Batch(c, Since(c.seq))
           e == got.cursor
           news == got.news
           m == Newest(news)
           mark == MarkAt(c, node.log, node.seq, env.mark)
<1>1. /\ Is("cat") /\ watch.pc = "events" /\ UNCHANGED <<setup, node, inbox, disk>>
      /\ watch' = [watch EXCEPT !.pc = "send", !.cursor = e, !.question = Asked(@, news), !.mine = m]
      /\ env' = [env EXCEPT !.log = ReadAt(c.seq),
                !.mark = IF SkipsMore(c) THEN c.block ELSE @,
                !.passed = @ \cup {x.ev.id : x \in {y \in Range(news) : WakesMe(y.ev)} \ Range(m)}]
  BY DEF Fetch
<1>2. /\ BookInv /\ SeenInv /\ SessionInv /\ HearsInv /\ node.cp \in Nat /\ node.seq \in Nat
      /\ node \in Nodes(Known) /\ LogIs(Known, node) /\ Numbered(Known)
      /\ {"events", "rebuilds", "restarts", "ran", "log", "saved", "mark", "passed"} \subseteq DOMAIN env
      /\ {"pc", "cursor", "mine", "seen", "head", "session"} \subseteq DOMAIN watch
      /\ CursorOK(c) /\ env.mark \in Nat /\ c.seq \in Nat /\ c.block \in Nat /\ watch.head \in Nat
  BY HeardFacts DEF BookInv, CursorOK
<1>3. /\ ReadBy(Known, node, c, e, news)
      /\ env.log = "followed" => ReadAt(c.seq) = "followed"
      /\ ReadAt(c.seq) = "rebuilt" => e.block <= env.mark
      /\ ReadAt(c.seq) = "followed" => HearsOK(node, e, mark, Owed, Reached \cup IdsOf(news))
  BY HeardReads
<1> HIDE DEF e, news
<1>4. /\ DOMAIN watch' = DOMAIN watch /\ watch'.pc = "send" /\ watch'.cursor = e /\ watch'.mine = m
      /\ watch'.seen = watch.seen /\ watch'.head = watch.head /\ watch'.session = watch.session
  <2> HIDE DEF m
  <2> QED BY <1>1, <1>2
<1>5. /\ DOMAIN env' = DOMAIN env /\ env'.events = env.events /\ env'.ran = env.ran
      /\ env'.rebuilds = env.rebuilds /\ env'.restarts = env.restarts /\ env'.saved = env.saved
      /\ env'.log = ReadAt(c.seq) /\ env'.mark = (IF SkipsMore(c) THEN c.block ELSE env.mark)
      /\ env'.passed =
            env.passed \cup {x.ev.id : x \in {y \in Range(news) : WakesMe(y.ev)} \ Range(m)}
  <2> HIDE DEF m
  <2> QED BY <1>1, <1>2
<1>6. env'.mark = mark /\ mark \in Nat /\ env.mark <= mark
  BY <1>2, <1>5 DEF SkipsMore, MarkAt
<1> HIDE DEF mark
<1>7. watch.mine = <<>>
  BY <1>1, <1>2 DEF BookInv
<1>8. /\ CursorOK(e) /\ c.seq <= e.seq /\ (c.seq <= node.seq => e.seq <= node.seq) /\ e.seq \in Nat
      /\ news \in Seq(Entry(Known))
      /\ \A i, j \in DOMAIN news : i < j => news[i].seq < news[j].seq
      /\ \A i \in DOMAIN news : /\ c.seq < news[i].seq /\ news[i].seq <= e.seq
                                /\ \E k \in DOMAIN node.log : news[i] = node.log[k]
  BY <1>3 DEF ReadBy, CursorOK
<1>9. SentOK(watch'.seen, m, e.seq)
  <2> DEFINE S == {x \in Range(news) :
                     /\ WakesMe(x.ev)
                     /\ \A y \in Range(news) : y.ev.kind = x.ev.kind => y.seq <= x.seq}
             P == Positions(news, S)
             X == Entry(Known)
  <2>1. m = Only(news, S)
    BY DEF Newest
  <2> HIDE DEF S, X
  <2>2. news \in Seq(X)
    BY <1>8 DEF X
  <2>3. /\ DOMAIN m = 1..Cardinality(P)
        /\ \A k \in 1..Cardinality(P) : Nth(P, k) \in P /\ m[k] = news[Nth(P, k)]
    <3> HIDE DEF m
    <3> QED BY <2>1, <2>2, OnlyIsASequence
  <2>4. Len(news) \in Nat /\ P \in SUBSET (1..Len(news)) /\ DOMAIN news = 1..Len(news)
    BY <2>2, PositionsAreInDomain
  <2> HIDE DEF P, m
  <2>5. \A k \in DOMAIN m : Nth(P, k) \in DOMAIN news /\ m[k] = news[Nth(P, k)]
    BY <2>3, <2>4
  <2>6. ASSUME NEW i \in DOMAIN m, NEW j \in DOMAIN m, i < j PROVE m[i].seq < m[j].seq
    <3>1. Nth(P, i) < Nth(P, j)
      BY <2>3, <2>4, <2>6, NthGrows
    <3> QED BY <1>8, <2>5, <3>1
  <2>7. \A s \in watch.seen : s <= c.seq
    BY <1>1, <1>2 DEF SeenInv, SentOK
  <2>8. \A i \in DOMAIN m : c.seq < m[i].seq /\ m[i].seq <= e.seq /\ m[i].seq \in Nat
    <3> SUFFICES ASSUME NEW i \in DOMAIN m PROVE c.seq < m[i].seq /\ m[i].seq <= e.seq /\ m[i].seq \in Nat
      OBVIOUS
    <3>1. Nth(P, i) \in DOMAIN news /\ m[i] = news[Nth(P, i)]
      BY <2>5
    <3>2. news[Nth(P, i)] \in Entry(Known)
      BY <1>8, <3>1
    <3> QED BY <1>8, <3>1, <3>2 DEF Entry
  <2>9. watch.seen \subseteq Nat
    BY <1>1, <1>2 DEF SeenInv, SentOK
  <2>10. \A s \in watch.seen : s <= e.seq
    BY <1>2, <1>8, <2>7, <2>9
  <2>11. \A i \in DOMAIN m : m[i].seq \notin watch.seen
    BY <1>2, <2>7, <2>8
  <2> QED BY <1>4, <2>6, <2>8, <2>9, <2>10, <2>11 DEF SentOK
<1>10. /\ SessionOK(disk', watch'.session, node.cp)
       /\ (env'.saved = env.rebuilds /\ disk'.epoch = node.cp) => disk'.cursor <= node.seq
  BY <1>1, <1>2, <1>4, <1>5 DEF SessionInv
<1>11. ASSUME env'.log = "followed" PROVE HearsOK(node, e, mark, Owed, Reached')
  <2> DEFINE T == Reached \cup IdsOf(news)
             U == Reached'
  <2>1. HearsOK(node, e, mark, Owed, T)
    BY <1>3, <1>5, <1>11
  <2>2. \A j \in DOMAIN node.log : (node.log[j].ev \in Owed /\ node.log[j].ev.id \in T) => node.log[j].ev.id \in U
    BY <1>1, <1>2, <1>4, <1>5, <1>7, <1>8, NewsAreReached DEF m
  <2>3. e.seq <= node.seq /\ node.seq \in Nat /\ Len(node.log) \in Nat /\ Len(node.log) <= node.seq
        /\ DOMAIN node.log = 1..Len(node.log)
    BY <1>2, <2>1 DEF HearsOK, LogIs
  <2>4. Read(node, e.seq) \in Nat /\ Read(node, e.seq) <= Len(node.log)
    <3> DEFINE l == Len(node.log)
               s == e.seq
               q == node.seq
    <3>1. l \in Nat /\ q \in Nat /\ s \in Nat /\ s <= q /\ l <= q
      BY <1>8, <2>3
    <3>2. Read(node, s) = IF s <= q - l THEN 0 ELSE s - (q - l)
      BY DEF Read
    <3> HIDE DEF l, s, q
    <3> QED BY <3>1, <3>2 DEF l, s
  <2> HIDE DEF T, U
  <2> QED BY <2>1, <2>2, <2>3, <2>4, HearsOnly DEF U
<1>12. ~Is("asleep")
  BY <1>1 DEF Is
<1>13. env'.log = "rebuilt" => e.block <= env'.mark
  <2>1. e.block \in Nat
    BY <1>8 DEF CursorOK
  <2> QED BY <1>2, <1>3, <1>5, <1>6, <2>1
<1> HIDE DEF m
<1> QED BY <1>1, <1>2, <1>3, <1>4, <1>5, <1>6, <1>8, <1>9, <1>10, <1>11, <1>12, <1>13, HeardGoesOn

LEMMA HeardSend == ASSUME OnceInv, HeardInv, Send PROVE HeardInv'
<1> DEFINE x == Head(watch.mine)
           m == Tail(watch.mine)
           c == watch.cursor
<1>1. /\ watch.pc = "send" /\ UNCHANGED <<setup, node, disk, env>> /\ watch.mine # <<>>
      /\ watch' = [watch EXCEPT !.mine = Tail(@), !.seen = @ \cup {x.seq}]
      /\ inbox' = IF x.seq \in watch.seen \/ ~Prompts(x.ev) THEN inbox ELSE Append(inbox, x.ev.id)
  BY DEF Send
<1>2. /\ BookInv /\ SeenInv /\ SessionInv /\ HearsInv /\ inbox \in Seq(Nat)
      /\ {"pc", "cursor", "mine", "seen", "head", "session"} \subseteq DOMAIN watch
      /\ watch.mine \in Seq(Entry(Known)) /\ CursorOK(c) /\ watch.head \in Nat /\ env.mark \in Nat
  BY HeardFacts DEF BookInv
<1>3. /\ DOMAIN watch' = DOMAIN watch /\ watch'.pc = "send" /\ watch'.cursor = c /\ watch'.mine = m
      /\ watch'.seen = watch.seen \cup {x.seq} /\ watch'.head = watch.head /\ watch'.session = watch.session
  BY <1>1, <1>2
<1>4. Is("cat") /\ ~Is("asleep")
  BY <1>1, <1>2 DEF BookInv, Is
<1>5. /\ Len(watch.mine) \in Nat \ {0} /\ DOMAIN watch.mine = 1..Len(watch.mine)
      /\ x = watch.mine[1] /\ 1 \in DOMAIN watch.mine /\ x \in Entry(Known)
      /\ DOMAIN m = 1..Len(watch.mine) - 1 /\ \A i \in 1..Len(watch.mine) - 1 : m[i] = watch.mine[i + 1]
  BY <1>1, <1>2
<1>6. /\ watch.seen \subseteq Nat /\ \A s \in watch.seen : s <= c.seq
      /\ \A i \in DOMAIN watch.mine : watch.mine[i].seq \notin watch.seen /\ watch.mine[i].seq <= c.seq
      /\ \A i, j \in DOMAIN watch.mine : i < j => watch.mine[i].seq < watch.mine[j].seq
  BY <1>2, <1>4 DEF SeenInv, SentOK
<1>7. x.seq \in Nat /\ x.seq \notin watch.seen /\ x.seq <= c.seq
  BY <1>5, <1>6 DEF Entry
<1> HIDE DEF m, x
<1>8. SentOK(watch'.seen, m, c.seq)
  <2> DEFINE l == Len(watch.mine)
  <2>1. l \in Nat \ {0} /\ DOMAIN watch.mine = 1..l /\ DOMAIN m = 1..l - 1
    BY <1>5
  <2>2. \A i \in 1..l - 1 : m[i] = watch.mine[i + 1]
    BY <1>5
  <2> HIDE DEF l
  <2>3. \A i \in 1..l - 1 : i + 1 \in 1..l /\ 1 \in 1..l /\ 1 < i + 1
    BY <2>1
  <2>4. ASSUME NEW i \in 1..l - 1 PROVE m[i].seq \notin watch.seen \cup {x.seq} /\ m[i].seq <= c.seq
    <3>1. x.seq < m[i].seq
      BY <1>5, <1>6, <2>1, <2>2, <2>3
    <3>2. m[i].seq \notin watch.seen /\ m[i].seq <= c.seq
      BY <1>6, <2>1, <2>2, <2>3
    <3> QED BY <1>7, <3>1, <3>2
  <2>5. ASSUME NEW i \in 1..l - 1, NEW j \in 1..l - 1, i < j PROVE m[i].seq < m[j].seq
    <3>1. i + 1 < j + 1
      BY <2>5
    <3>2. watch.mine[i + 1].seq < watch.mine[j + 1].seq
      BY <1>6, <2>1, <2>3, <3>1
    <3> QED BY <2>2, <3>2
  <2>6. watch'.seen \subseteq Nat /\ \A s \in watch'.seen : s <= c.seq
    BY <1>3, <1>6, <1>7
  <2>7. \A i \in DOMAIN m : m[i].seq \notin watch'.seen /\ m[i].seq <= c.seq
    BY <1>3, <2>1, <2>4
  <2>8. \A i, j \in DOMAIN m : i < j => m[i].seq < m[j].seq
    BY <2>1, <2>5
  <2> QED BY <2>6, <2>7, <2>8 DEF SentOK
<1>9. Reached \subseteq Reached'
  <2>1. Range(inbox) \subseteq Range(inbox') /\ (Prompts(x.ev) => x.ev.id \in Range(inbox'))
    <3> DEFINE id == x.ev.id
    <3>1. CASE ~Prompts(x.ev)
      BY <1>1, <3>1 DEF x
    <3>2. CASE Prompts(x.ev)
      <4>1. inbox' = Append(inbox, id)
        BY <1>1, <1>7, <3>2 DEF x
      <4> HIDE DEF id
      <4>2. /\ \A i \in DOMAIN inbox : i \in DOMAIN Append(inbox, id) /\ Append(inbox, id)[i] = inbox[i]
            /\ Len(inbox) + 1 \in DOMAIN Append(inbox, id) /\ Append(inbox, id)[Len(inbox) + 1] = id
        BY <1>2
      <4> QED BY <4>1, <4>2 DEF Range, id
    <3> QED BY <3>1, <3>2
  <2>2. ASSUME NEW y \in Range(watch.mine), Prompts(y.ev)
        PROVE  y = x \/ y \in Range(m)
    <3>1. PICK i \in DOMAIN watch.mine : y = watch.mine[i]
      BY DEF Range
    <3>2. CASE i = 1
      BY <1>5, <3>1, <3>2
    <3>3. CASE i # 1
      <4> DEFINE l == Len(watch.mine)
      <4>1. l \in Nat \ {0} /\ i \in 1..l
        BY <1>5
      <4> HIDE DEF l
      <4>2. i - 1 \in 1..l - 1 /\ (i - 1) + 1 = i
        BY <3>3, <4>1
      <4>3. DOMAIN m = 1..l - 1 /\ \A k \in 1..l - 1 : m[k] = watch.mine[k + 1]
        BY <1>5 DEF l
      <4>4. m[i - 1] = y
        BY <3>1, <4>2, <4>3
      <4> QED BY <4>2, <4>3, <4>4 DEF Range
    <3> QED BY <3>2, <3>3
  <2>3. Reached' = Range(inbox') \cup env.passed \cup {y.ev.id : y \in {z \in Range(m) : Prompts(z.ev)}}
    BY <1>1, <1>3 DEF Reached
  <2>4. \A y \in Range(m) : Prompts(y.ev) => y.ev.id \in Reached'
    BY <2>3
  <2>5. ASSUME NEW y \in Range(watch.mine), Prompts(y.ev) PROVE y.ev.id \in Reached'
    BY <2>1, <2>2, <2>3, <2>4, <2>5
  <2> QED BY <2>1, <2>3, <2>5 DEF Reached
<1>10. /\ SessionOK(disk', watch'.session, node.cp)
       /\ (env'.saved = env.rebuilds /\ disk'.epoch = node.cp) => disk'.cursor <= node.seq
  BY <1>1, <1>2, <1>3, <1>4 DEF SessionInv
<1>11. env'.log = "followed" => HearsOK(node, c, env'.mark, Owed, Reached')
  <2> SUFFICES ASSUME env.log = "followed" PROVE HearsOK(node, c, env.mark, Owed, Reached')
    BY <1>1
  <2>1. HearsOK(node, c, env.mark, Owed, Reached)
    BY <1>2 DEF HearsInv
  <2> QED BY <1>9, <2>1, HearsTells
<1>12. env'.log = "rebuilt" => c.block <= env'.mark
  BY <1>1, <1>2 DEF HearsInv
<1> QED BY <1>1, <1>2, <1>3, <1>4, <1>8, <1>10, <1>11, <1>12, HeardGoesOn

LEMMA HeardSave == ASSUME OnceInv, HeardInv, Save PROVE HeardInv'
<1> DEFINE c == watch.cursor
           s == [watch.session EXCEPT !.cursor = c.seq, !.question = watch.question]
<1>1. /\ watch.pc = "send" /\ watch.mine = <<>> /\ UNCHANGED <<setup, node, inbox>>
      /\ watch' = [watch EXCEPT !.pc = "head", !.session = s]
      /\ disk' = IF s = watch.session THEN disk ELSE s
      /\ env' = [env EXCEPT !.saved = IF env.log = "followed" THEN env.rebuilds ELSE @]
  BY DEF Save
<1>2. /\ BookInv /\ SeenInv /\ SessionInv /\ HearsInv /\ node.cp \in Nat /\ node.seq \in Nat
      /\ {"pc", "cursor", "mine", "seen", "head", "session"} \subseteq DOMAIN watch
      /\ {"events", "rebuilds", "restarts", "ran", "log", "saved", "mark", "passed"} \subseteq DOMAIN env
      /\ CursorOK(c) /\ watch.head \in Nat /\ env.mark \in Nat /\ c.seq \in Nat
  BY HeardFacts DEF BookInv, CursorOK
<1>3. Is("cat") /\ ~Is("asleep")
  BY <1>1, <1>2 DEF BookInv, Is
<1>4. /\ SessionOK(disk, watch.session, node.cp)
      /\ (env.saved = env.rebuilds /\ disk.epoch = node.cp) => disk.cursor <= node.seq
  BY <1>2, <1>3 DEF SessionInv
<1>5. /\ DOMAIN s = DOMAIN watch.session /\ s.epoch = watch.session.epoch /\ s.cursor = c.seq
  BY <1>4 DEF SessionOK
<1> HIDE DEF s
<1>6. /\ DOMAIN watch' = DOMAIN watch /\ watch'.pc = "head" /\ watch'.cursor = c /\ watch'.mine = watch.mine
      /\ watch'.seen = watch.seen /\ watch'.head = watch.head /\ watch'.session = s
  BY <1>1, <1>2
<1>7. /\ DOMAIN env' = DOMAIN env /\ env'.events = env.events /\ env'.ran = env.ran
      /\ env'.rebuilds = env.rebuilds /\ env'.restarts = env.restarts
      /\ env'.mark = env.mark /\ env'.passed = env.passed /\ env'.log = env.log
      /\ env'.saved = (IF env.log = "followed" THEN env.rebuilds ELSE env.saved)
  BY <1>1, <1>2
<1>8. Reached' = Reached
  BY <1>1, <1>6, <1>7 DEF Reached
<1>9. env.log = "followed" => c.seq <= node.seq /\ HearsOK(node, c, env.mark, Owed, Reached)
  BY <1>2 DEF HearsInv, HearsOK
<1>10. SessionOK(disk', s, node.cp)
  <2>1. CASE s = watch.session
    BY <1>1, <1>4, <2>1
  <2>2. CASE s # watch.session
    <3>1. disk' = s
      BY <1>1, <2>2
    <3>2. s.epoch \in Nat /\ s.epoch <= node.cp /\ s.cursor \in Nat
      BY <1>2, <1>4, <1>5 DEF SessionOK
    <3> QED BY <1>4, <1>5, <3>1, <3>2 DEF SessionOK
  <2> QED BY <2>1, <2>2
<1>11. (env'.saved = env.rebuilds /\ disk'.epoch = node.cp) => disk'.cursor <= node.seq
  <2> SUFFICES ASSUME env'.saved = env.rebuilds, disk'.epoch = node.cp PROVE disk'.cursor <= node.seq
    OBVIOUS
  <2>1. env.log = "followed"
    BY <1>2, <1>7 DEF BookInv
  <2>2. c.seq <= node.seq
    BY <1>9, <2>1
  <2>3. CASE s = watch.session
    <3>1. disk' = disk /\ watch.session.cursor = c.seq
      BY <1>1, <1>5, <2>3
    <3>2. disk.epoch = watch.session.epoch
      BY <1>2, <1>4, <3>1 DEF SessionOK
    <3> QED BY <1>4, <2>2, <3>1, <3>2 DEF SessionOK
  <2>4. CASE s # watch.session
    BY <1>1, <1>5, <2>2, <2>4
  <2> QED BY <2>3, <2>4
<1>12. env'.log = "followed" => HearsOK(node, c, env'.mark, Owed, Reached')
  BY <1>7, <1>8, <1>9
<1>13. (env'.log = "rebuilt" => c.block <= env'.mark) /\ SentOK(watch'.seen, watch'.mine, c.seq)
  BY <1>2, <1>3, <1>6, <1>7 DEF HearsInv, SeenInv
<1> QED BY <1>1, <1>2, <1>3, <1>6, <1>7, <1>10, <1>11, <1>12, <1>13, HeardGoesOn

\* A reader starts again: of what is in the log, nothing is owed any more.
LEMMA HeardRestarts ==
    ASSUME OnceInv, HeardInv, UNCHANGED <<setup, node, disk>>,
           NEW h \in {"followed", "rebuilt"}, env' = Restarted(h), env.saved = env.rebuilds => h = "followed",
           "session" \in DOMAIN watch', watch'.head \in Nat, watch'.pc \in {"head", "events"}, watch'.mine = <<>>,
           NEW s \in Nat, h = "followed" => s <= node.seq, watch'.cursor = NewCursor(s),
           Is("cat") => /\ watch'.seen = {} /\ SessionOK(disk, watch'.session, node.cp)
    PROVE  HeardInv'
<1> DEFINE c == NewCursor(s)
<1>1. /\ BookInv /\ SessionInv /\ node \in Nodes(Known) /\ NodeOK(node) /\ node \in Nodes(Aged) /\ Era \in Nat
      /\ env.rebuilds \in Nat /\ env.restarts \in Nat
      /\ {"events", "rebuilds", "restarts", "ran", "log", "saved", "mark", "passed"} \subseteq DOMAIN env
  BY HeardFacts
<1>2. /\ DOMAIN env' = DOMAIN env /\ env'.events = env.events /\ env'.ran = env.ran
      /\ env'.rebuilds = env.rebuilds /\ env'.restarts = env.restarts + 1 /\ env'.saved = env.saved
      /\ env'.mark = 0 /\ env'.log = h
  BY <1>1 DEF Restarted
<1>3. /\ c.seq = s /\ c.block = 0 /\ c.floor = NoFloor /\ CursorOK(c)
  BY DEF NewCursor, CursorOK, NoFloor
<1> HIDE DEF c
<1>4. \A r : Is(r)' <=> Is(r)
  BY DEF Is
<1>5. EraInv'
  BY <1>2, EraStays
<1>6. BookInv'
  <2>1. watch'.cursor = c
    BY DEF c
  <2>2. watch'.pc # "send"
    OBVIOUS
  <2> QED BY <1>1, <1>2, <1>3, <1>4, <2>1, <2>2 DEF BookInv
<1>7. SeenInv'
  <2> SUFFICES ASSUME Is("cat") PROVE SentOK(watch'.seen, watch'.mine, watch'.cursor.seq)
    BY <1>4 DEF SeenInv
  <2> QED BY DEF SentOK
<1>8. SessionInv'
  BY <1>1, <1>2, <1>4 DEF SessionInv
<1>9. HearsInv'
  <2>1. \A j \in DOMAIN node.log : node.log[j].ev \notin Owed'
    <3>1. Era' = Era + 1
      BY <1>1, <1>2 DEF Era
    <3> QED BY <1>1, <3>1, OldIsNotOwed
  <2>2. ASSUME env'.log = "followed" PROVE HearsOK(node, c, 0, Owed', Reached')
    <3>1. c.seq <= node.seq /\ c.block <= 0
      BY <1>2, <1>3, <2>2
    <3> QED BY <1>1, <1>3, <2>1, <3>1, HearsAnew
  <2> QED BY <1>2, <1>3, <2>2 DEF HearsInv, c
<1> QED BY <1>5, <1>6, <1>7, <1>8, <1>9 DEF HeardInv

LEMMA HeardCat ==
    ASSUME OnceInv, HeardInv, TheCat
    PROVE  HeardInv'
<1>1. /\ BookInv /\ SessionInv /\ env.restarts \in Nat /\ node.seq \in Nat /\ node.cp \in Nat
      /\ {"pc", "cursor", "mine", "seen", "head", "session"} \subseteq DOMAIN watch
      /\ {"events", "rebuilds", "restarts", "ran", "log", "saved", "mark", "passed"} \subseteq DOMAIN env
  BY HeardFacts
<1>2. CASE FetchFails
  <2>1. /\ Is("cat") /\ watch.pc = "events" /\ UNCHANGED <<setup, node, inbox, disk, env>>
        /\ DOMAIN watch' = DOMAIN watch /\ watch'.cursor = watch.cursor /\ watch'.mine = watch.mine
        /\ watch'.seen = watch.seen /\ watch'.session = watch.session /\ watch'.head = watch.head
        /\ watch'.pc = "send"
    BY <1>1, <1>2 DEF FetchFails
  <2> QED BY <2>1, HeardIdles
<1>3. CASE CallLocalTask
  <2>1. /\ UNCHANGED <<setup, node, inbox, disk, watch>> /\ env' = [env EXCEPT !.calls = @ + 1]
    BY <1>3 DEF CallLocalTask
  <2>2. /\ DOMAIN env' = DOMAIN env /\ env'.events = env.events /\ env'.ran = env.ran
        /\ env'.rebuilds = env.rebuilds /\ env'.restarts = env.restarts /\ env'.log = env.log
        /\ env'.saved = env.saved /\ env'.mark = env.mark /\ env'.passed = env.passed
    BY <1>1, <2>1
  <2>3. /\ watch.pc \in {"head", "events", "send"} /\ (watch.pc = "send" => Is("cat"))
        /\ watch.pc # "send" => watch.mine = <<>>
    BY <1>1 DEF BookInv
  <2> QED BY <2>1, <2>2, <2>3, HeardIdles
<1>4. ASSUME NEW torn \in BOOLEAN, Restart(torn) PROVE HeardInv'
  <2> DEFINE session == Session(disk, node.cp)
             s == session.cursor
  <2> DEFINE h == IF env.saved = env.rebuilds THEN "followed" ELSE "rebuilt"
  <2>1. /\ UNCHANGED <<setup, node, disk>> /\ env' = Restarted(h) /\ Is("cat")
        /\ watch' = Watching(session, HeadKept)
    BY <1>4 DEF Restart
  <2>2. /\ SessionOK(disk, watch.session, node.cp)
        /\ (env.saved = env.rebuilds /\ disk.epoch = node.cp) => disk.cursor <= node.seq
    BY <1>1, <2>1 DEF SessionInv
  <2>3. SessionOK(disk, session, node.cp) /\ s \in Nat /\ (env.saved = env.rebuilds => s <= node.seq)
    <3>1. CASE disk.epoch = node.cp
      <4>1. session = disk
        BY <3>1 DEF Session
      <4> QED BY <1>1, <2>2, <3>1, <4>1 DEF SessionOK
    <3>2. CASE disk.epoch # node.cp
      <4>1. session = [epoch |-> node.cp, cursor |-> 0, question |-> 0]
        BY <3>2 DEF Session
      <4>2. /\ DOMAIN session = {"epoch", "cursor", "question"} /\ session.epoch = node.cp /\ session.cursor = 0
        BY <4>1
      <4> HIDE DEF session
      <4>3. disk.epoch <= node.cp
        BY <1>1, <2>2 DEF SessionOK
      <4> QED BY <1>1, <2>2, <3>2, <4>2, <4>3 DEF SessionOK
    <3> QED BY <3>1, <3>2
  <2> HIDE DEF session
  <2>4. /\ watch'.mine = <<>> /\ "session" \in DOMAIN watch' /\ watch'.seen = {}
        /\ watch'.session = [session EXCEPT !.question = 0]
        /\ watch'.head = HeadKept /\ watch'.pc = "head" /\ watch'.cursor = NewCursor(s)
    BY <2>1 DEF Watching
  <2>6. SessionOK(disk, watch'.session, node.cp)
    BY <2>3, <2>4 DEF SessionOK
  <2>5. HeadKept \in Nat
    BY <1>1 DEF HeadKept
  <2> HIDE DEF s
  <2> QED BY <2>1, <2>3, <2>4, <2>5, <2>6, HeardRestarts
<1> QED BY <1>2, <1>3, <1>4, HeardPoll, HeardPollFails, HeardFetch, HeardSend, HeardSave DEF TheCat

-----------------------------------------------------------------------------
(* Who is shown it. *)

LEMMA HeardShowHead == ASSUME OnceInv, HeardInv, ShowHead PROVE HeardInv'
<1> DEFINE c == watch.cursor
           e == Checked(c, node.seq)
<1>1. /\ ~Is("asleep") /\ ~Is("cat") /\ watch.pc = "head" /\ UNCHANGED <<setup, node, inbox, disk>>
      /\ watch' = [watch EXCEPT !.pc = "events", !.cursor = e]
      /\ env' = [env EXCEPT !.log = LookedAt(e)]
  BY DEF ShowHead, Shows, Is, TheHead
<1>2. /\ BookInv /\ CursorOK(c) /\ env.mark \in Nat /\ watch.head \in Nat
      /\ {"pc", "cursor", "mine", "seen", "head", "session"} \subseteq DOMAIN watch
      /\ {"events", "rebuilds", "restarts", "ran", "log", "saved", "mark", "passed"} \subseteq DOMAIN env
  BY HeardFacts DEF BookInv
<1>3. CursorOK(e)
  BY <1>2, CheckedIs
<1> HIDE DEF e
<1>4. /\ DOMAIN watch' = DOMAIN watch /\ watch'.pc = "events" /\ watch'.cursor = e /\ watch'.mine = watch.mine
      /\ watch'.head = watch.head
  BY <1>1, <1>2
<1>5. /\ DOMAIN env' = DOMAIN env /\ env'.events = env.events /\ env'.ran = env.ran
      /\ env'.rebuilds = env.rebuilds /\ env'.restarts = env.restarts /\ env'.saved = env.saved
      /\ env'.mark = env.mark /\ env'.passed = env.passed /\ env'.log = LookedAt(e)
  BY <1>1, <1>2
<1>6. /\ LookedAt(e) # "rebuilt" /\ (env.log = "followed" => LookedAt(e) = "followed")
      /\ LookedAt(e) = "followed" =>
            /\ e.floor # NoFloor => Is("cat") \/ e.block <= env.mark
            /\ HearsOK(node, e, env.mark, Owed, Reached)
  BY HeardLooks DEF e
<1>7. watch.mine = <<>>
  BY <1>1, <1>2 DEF BookInv
<1>8. Reached' = Reached
  BY <1>1, <1>4, <1>5 DEF Reached
<1> QED BY <1>1, <1>2, <1>3, <1>4, <1>5, <1>6, <1>7, <1>8, HeardGoesOn

LEMMA HeardShow == ASSUME OnceInv, HeardInv, Show PROVE HeardInv'
<1> DEFINE c == watch.cursor
           got == Batch(c, Since(c.seq))
           e == got.cursor
           news == got.news
           ids == Ids(news)
           mark == MarkAt(c, node.log, node.seq, env.mark)
<1>1. /\ ~Is("asleep") /\ ~Is("cat") /\ watch.pc = "events" /\ UNCHANGED <<setup, node, disk>>
      /\ inbox' = inbox \o ids
      /\ watch' = [watch EXCEPT !.pc = "head", !.cursor = e]
      /\ env' = [env EXCEPT !.log = ReadAt(c.seq), !.sealing = Shown(@, news)]
  BY DEF Show, Shows, Is
<1>2. /\ BookInv /\ HearsInv /\ CursorOK(c) /\ env.mark \in Nat /\ watch.head \in Nat /\ inbox \in Seq(Nat)
      /\ c.block \in Nat /\ env.log \in {"followed", "rebuilt", "outgrown"} /\ Numbered(Known)
      /\ {"pc", "cursor", "mine", "seen", "head", "session"} \subseteq DOMAIN watch
      /\ {"events", "rebuilds", "restarts", "ran", "log", "saved", "mark", "passed"} \subseteq DOMAIN env
  BY HeardFacts DEF BookInv, CursorOK
<1>3. /\ ReadBy(Known, node, c, e, news)
      /\ env.log = "followed" => ReadAt(c.seq) = "followed"
      /\ ReadAt(c.seq) = "rebuilt" => e.block <= env.mark
      /\ ReadAt(c.seq) = "followed" =>
            /\ e.floor # NoFloor => Is("cat") \/ e.block <= mark
            /\ HearsOK(node, e, mark, Owed, Reached \cup IdsOf(news))
  BY HeardReads
<1> HIDE DEF e, news, ids
<1>4. /\ DOMAIN watch' = DOMAIN watch /\ watch'.pc = "head" /\ watch'.cursor = e /\ watch'.mine = watch.mine
      /\ watch'.head = watch.head
  BY <1>1, <1>2
<1>5. /\ DOMAIN env' = DOMAIN env /\ env'.events = env.events /\ env'.ran = env.ran
      /\ env'.rebuilds = env.rebuilds /\ env'.restarts = env.restarts /\ env'.saved = env.saved
      /\ env'.mark = env.mark /\ env'.passed = env.passed /\ env'.log = ReadAt(c.seq)
  BY <1>1, <1>2
<1>6. ReadAt(c.seq) = "followed" => mark = env.mark
  <2> SUFFICES ASSUME ReadAt(c.seq) = "followed" PROVE mark = env.mark
    OBVIOUS
  <2>1. env.log = "followed"
    BY <1>2 DEF ReadAt
  <2>2. c.floor # NoFloor => c.block <= env.mark
    BY <1>1, <1>2, <2>1 DEF HearsInv
  <2> QED BY <1>2, <2>2 DEF MarkAt
<1>7. CursorOK(e) /\ news \in Seq(Entry(Known))
  BY <1>3 DEF ReadBy
<1>8. watch.mine = <<>>
  BY <1>1, <1>2 DEF BookInv
<1>9. Reached \cup IdsOf(news) \subseteq Reached'
  <2>1. Range(inbox \o Ids(news)) = Range(inbox) \cup IdsOf(news)
    BY <1>2, <1>7, ToldMore
  <2>2. Range(inbox') = Range(inbox) \cup IdsOf(news)
    BY <1>1, <2>1 DEF ids
  <2> QED BY <1>4, <1>5, <2>2 DEF Reached
<1>10. env'.log = "followed" => HearsOK(node, e, env'.mark, Owed, Reached')
  <2> SUFFICES ASSUME ReadAt(c.seq) = "followed" PROVE HearsOK(node, e, env.mark, Owed, Reached')
    BY <1>5
  <2> DEFINE T == Reached \cup IdsOf(news)
             U == Reached'
  <2>1. HearsOK(node, e, env.mark, Owed, T) /\ T \subseteq U
    BY <1>3, <1>6, <1>9
  <2> HIDE DEF T, U
  <2>2. HearsOK(node, e, env.mark, Owed, U)
    BY <2>1, HearsTells
  <2> QED BY <2>2 DEF U
<1>11. env'.log = "followed" => (e.floor # NoFloor => Is("cat") \/ e.block <= env'.mark)
  BY <1>3, <1>5, <1>6
<1>12. env'.log = "rebuilt" => e.block <= env'.mark
  BY <1>3, <1>5
<1> HIDE DEF mark
<1> QED BY <1>1, <1>2, <1>3, <1>4, <1>5, <1>7, <1>8, <1>10, <1>11, <1>12, HeardGoesOn

LEMMA HeardTerminal ==
    ASSUME OnceInv, OnceInv', HeardInv, TheTerminal
    PROVE  HeardInv'
<1>1. /\ BookInv /\ EnvOK
      /\ {"pc", "cursor", "mine", "seen", "head", "session"} \subseteq DOMAIN watch
      /\ {"events", "rebuilds", "restarts", "ran", "log", "saved", "mark", "passed"} \subseteq DOMAIN env
      /\ {"sending", "sealing", "givenUp"} \subseteq DOMAIN env
  BY HeardFacts DEF EnvOK
<1>2. /\ watch.pc \in {"head", "events", "send"} /\ (watch.pc = "send" => Is("cat"))
      /\ watch.pc # "send" => watch.mine = <<>>
  BY <1>1 DEF BookInv
<1>3. CASE ShowMisses
  <2>1. /\ ~Is("cat") /\ UNCHANGED <<setup, node, inbox, disk, env>>
        /\ DOMAIN watch' = DOMAIN watch /\ watch'.cursor = watch.cursor /\ watch'.mine = watch.mine
        /\ watch'.seen = watch.seen /\ watch'.session = watch.session /\ watch'.head = watch.head
        /\ watch'.pc \in {"head", "events"}
    BY <1>1, <1>3 DEF ShowMisses, Shows, Is
  <2> QED BY <1>2, <2>1, HeardIdles
<1>4. CASE TypeLine \/ LineRefused \/ LineGivenUp
  <2>1. /\ UNCHANGED <<setup, node, watch, inbox, disk>>
        /\ DOMAIN env' = DOMAIN env /\ env'.events = env.events /\ env'.ran = env.ran
        /\ env'.rebuilds = env.rebuilds /\ env'.restarts = env.restarts /\ env'.log = env.log
        /\ env'.saved = env.saved /\ env'.mark = env.mark /\ env'.passed = env.passed
    BY <1>1, <1>4 DEF TypeLine, LineRefused, LineGivenUp
  <2> QED BY <1>2, <2>1, HeardIdles
<1>5. CASE LineRuns
  <2> DEFINE e == NextEvent("mine")
  <2>1. /\ Emits(e) /\ UNCHANGED <<setup, watch, inbox, disk>>
        /\ env' = [env EXCEPT !.events = @ + 1, !.sending = @ - 1, !.ran = @ \cup {e.id}]
    BY <1>5 DEF LineRuns
  <2>2. e.id = env.events + 1 /\ "mine" \in Kinds
    BY DEF NextEvent, Kinds
  <2> HIDE DEF e
  <2>3. /\ DOMAIN env' = DOMAIN env /\ env'.events = env.events + 1
        /\ env'.ran = env.ran \cup {env.events + 1}
        /\ env'.rebuilds = env.rebuilds /\ env'.restarts = env.restarts /\ env'.log = env.log
        /\ env'.saved = env.saved /\ env'.mark = env.mark /\ env'.passed = env.passed
    BY <1>1, <2>1, <2>2
  <2> QED BY <2>1, <2>2, <2>3, HeardEmits DEF e
<1> QED BY <1>3, <1>4, <1>5, HeardShowHead, HeardShow DEF TheTerminal

-----------------------------------------------------------------------------
(* The sleeper, and the whole. *)

\* A step of the sleeper moves the number of its cursor only.
LEMMA HeardAsleep ==
    ASSUME OnceInv, HeardInv, Is("asleep"), UNCHANGED <<setup, node, disk>>,
           DOMAIN env' = DOMAIN env, env'.events = env.events, env'.ran = env.ran,
           env'.rebuilds = env.rebuilds, env'.restarts = env.restarts,
           env'.saved = env.saved, env'.mark = env.mark, env.log = "followed" => env'.log = "followed",
           DOMAIN watch' = DOMAIN watch, watch'.mine = watch.mine, watch'.head = watch.head,
           watch'.pc \in {"head", "events"},
           NEW s \in Nat, watch'.cursor = [watch.cursor EXCEPT !.seq = s],
           env'.log = "followed" => HearsOK(node, watch'.cursor, env.mark, Owed, Reached')
    PROVE  HeardInv'
<1> DEFINE c == watch.cursor
           e == [c EXCEPT !.seq = s]
<1>1. /\ BookInv /\ CursorOK(c) /\ env.mark \in Nat /\ watch.head \in Nat /\ ~Is("cat")
      /\ "session" \in DOMAIN watch
      /\ c.block = 0 /\ c.floor = NoFloor
      /\ watch.mine = <<>>
  BY HeardFacts DEF BookInv, Is
<1>2. CursorOK(e) /\ e.block = 0 /\ e.floor = NoFloor /\ watch'.cursor = e
  BY <1>1 DEF CursorOK
<1> HIDE DEF e
<1>3. e.block <= env.mark
  BY <1>1, <1>2
<1> QED BY <1>1, <1>2, <1>3, HeardGoesOn

LEMMA HeardAsleepReads == ASSUME OnceInv, HeardInv, AsleepReads PROVE HeardInv'
<1> DEFINE c == watch.cursor
           s == c.seq
           log == node.log
           l == Len(log)
           d == Read(node, s)
           xs == Since(s)
           S == {x \in Range(xs) : Owes(x.ev)}
           own == Only(xs, S)
           T == Reached
<1>1. Is("asleep") /\ UNCHANGED <<setup, node, disk>> /\ watch.pc = "events"
  BY DEF AsleepReads
<1>2. /\ BookInv /\ HearsInv /\ CursorOK(c) /\ s \in Nat /\ env.mark \in Nat /\ watch.mine = <<>>
      /\ LogIs(Known, node) /\ Numbered(Known) /\ inbox \in Seq(Nat)
      /\ {"pc", "cursor", "mine", "seen", "head", "session"} \subseteq DOMAIN watch
      /\ c.block = 0 /\ c.floor = NoFloor
  BY <1>1, HeardFacts DEF BookInv, CursorOK
<1>3. CASE xs = <<>>
  <2>1. watch' = [watch EXCEPT !.pc = "head"] /\ inbox' = inbox /\ env' = env
    BY <1>3 DEF AsleepReads
  <2>2. /\ DOMAIN watch' = DOMAIN watch /\ watch'.cursor = watch.cursor /\ watch'.mine = watch.mine
        /\ watch'.seen = watch.seen /\ watch'.session = watch.session /\ watch'.head = watch.head
        /\ watch'.pc = "head"
    BY <1>2, <2>1
  <2> QED BY <1>1, <1>2, <2>1, <2>2, HeardIdles
<1>4. CASE xs # <<>>
  <2>1. /\ watch' = [watch EXCEPT !.cursor.seq = xs[Len(xs)].seq]
        /\ inbox' = inbox \o Ids(own) /\ env' = [env EXCEPT !.log = ReadAt(s)]
    BY <1>4 DEF AsleepReads
  <2>16. /\ DOMAIN env' = DOMAIN env /\ env'.events = env.events /\ env'.ran = env.ran
         /\ env'.rebuilds = env.rebuilds /\ env'.restarts = env.restarts /\ env'.passed = env.passed
         /\ env'.saved = env.saved /\ env'.mark = env.mark
         /\ env'.log = "followed" <=> env.log = "followed"
    BY <2>1, HeardFacts DEF ReadAt
  <2>2. /\ DOMAIN watch' = DOMAIN watch /\ watch'.cursor = [watch.cursor EXCEPT !.seq = xs[Len(xs)].seq]
        /\ watch'.mine = watch.mine /\ watch'.head = watch.head /\ watch'.pc = watch.pc
    BY <1>2, <2>1
  <2>3. /\ log \in Seq(Entry(Known)) /\ node.seq \in Nat /\ l \in Nat /\ l <= node.seq /\ DOMAIN log = 1..l
        /\ LogOK(log, node.seq)
    BY <1>2 DEF LogIs
  <2>4. xs = Unread(log, s)
    BY DEF Unread, Since
  <2>5. PICK k \in Nat : k <= l /\ \A j \in 1..l : (node.seq - l) + j > s <=> j > k
    <3> DEFINE k == IF s <= node.seq - l THEN 0 ELSE IF s > node.seq THEN l ELSE s - (node.seq - l)
    <3> HIDE DEF log, l, s
    <3>1. k \in Nat /\ k <= l /\ \A j \in 1..l : (node.seq - l) + j > s <=> j > k
      BY <1>2, <2>3
    <3> QED BY <3>1
  <2>6. Len(xs) = l - k /\ \A i \in 1..Len(xs) : xs[i] = log[k + i]
    <3>1. /\ Len(Unread(log, s)) = l - k
          /\ \A i \in 1..Len(Unread(log, s)) : Unread(log, s)[i] = log[k + i]
      <4>1. /\ log \in Seq(Entry(Known)) /\ node.seq \in Nat /\ LogOK(log, node.seq) /\ s \in Nat /\ k \in Nat
            /\ k <= Len(log) /\ \A j \in 1..Len(log) : (node.seq - Len(log)) + j > s <=> j > k
        BY <1>2, <2>3, <2>5
      <4> HIDE DEF s, log
      <4> QED BY <4>1, UnreadIs
    <3> HIDE DEF xs
    <3> QED BY <2>4, <3>1
  <2>7. xs \in Seq(Entry(Known))
    BY <2>3, OnlyIsIn DEF Since
  <2>8. own \in Seq(Entry(Known)) /\ Range(own) = S
    <3>1. own \in Seq(Entry(Known)) /\ Range(own) = Range(xs) \cap S
      BY <2>7, OnlyIsIn
    <3> QED BY <3>1
  <2> HIDE DEF own, xs
  <2>9. Len(xs) \in Nat \ {0} /\ DOMAIN xs = 1..Len(xs) /\ l = k + Len(xs)
    BY <1>4, <2>3, <2>6, <2>7
  <2>10. xs[Len(xs)].seq = node.seq
    <3>1. xs[Len(xs)] = log[l] /\ l \in 1..l
      BY <2>3, <2>6, <2>9
    <3>2. log[l].seq = (node.seq - l) + l
      BY <2>3, <3>1 DEF LogOK
    <3> QED BY <2>3, <3>1, <3>2
  <2>11. watch'.cursor = [watch.cursor EXCEPT !.seq = node.seq]
    BY <2>2, <2>10
  <2>12. Reached' = T \cup IdsOf(own)
    <3>1. Range(inbox') = Range(inbox) \cup IdsOf(own)
      BY <1>2, <2>1, <2>8, ToldMore
    <3> QED BY <2>2, <2>16, <3>1 DEF Reached
  <2> DEFINE e == [c EXCEPT !.seq = node.seq]
             U == T \cup IdsOf(own)
             W == Owed
  <2>13. ASSUME env.log = "followed" PROVE HearsOK(node, e, env.mark, W, U)
    <3>1. s <= node.seq /\ Heeds(log, d, env.mark, W, T)
      BY <1>2, <2>13 DEF HearsInv, HearsOK, HearsFrom
    <3>2. CursorOK(e) /\ e.seq = node.seq /\ e.block = 0
      BY <1>2, <2>3 DEF CursorOK
    <3>3. Read(node, node.seq) = l
      <4> HIDE DEF log
      <4>1. node.seq - l \in Nat /\ node.seq - (node.seq - l) = l /\ (node.seq <= node.seq - l => l = 0)
        BY <2>3
      <4> QED BY <4>1 DEF Read, log
    <3>4. \A j \in 1..l : j \in 1..d \/ (j > k /\ j - k \in 1..Len(xs) /\ k + (j - k) = j)
      <4>1. d = IF s <= node.seq - l THEN 0 ELSE s - (node.seq - l)
        BY DEF Read
      <4> HIDE DEF d, s, l, log
      <4> SUFFICES ASSUME NEW j \in 1..l, j \notin 1..d PROVE j > k /\ j - k \in 1..Len(xs) /\ k + (j - k) = j
        OBVIOUS
      <4>2. (node.seq - l) + j > s
        BY <1>2, <2>3, <3>1, <4>1
      <4>3. j > k
        BY <2>5, <4>2
      <4> QED BY <2>3, <2>5, <2>9, <4>3
    <3>5. Heeds(log, l, env.mark, W, U)
      <4> SUFFICES ASSUME NEW j \in 1..l, log[j].ev \in W, env.mark < log[j].block PROVE log[j].ev.id \in U
        BY DEF Heeds
      <4>1. CASE j \in 1..d
        <5> HIDE DEF d
        <5> QED BY <3>1, <4>1 DEF Heeds
      <4>2. CASE j > k /\ j - k \in 1..Len(xs) /\ k + (j - k) = j
        <5>1. log[j] = xs[j - k] /\ xs[j - k] \in Range(xs)
          BY <2>6, <2>9, <4>2 DEF Range
        <5>2. Owes(log[j].ev)
          BY <1>1 DEF Owed, Concerns, Is
        <5>3. xs[j - k] \in S
          BY <5>1, <5>2
        <5>4. xs[j - k] \in Range(own)
          BY <2>8, <5>3
        <5> QED BY <5>1, <5>4 DEF IdsOf
      <4> QED BY <3>4, <4>1, <4>2
    <3> HIDE DEF e, U, W, log, l
    <3>6. e.block <= env.mark /\ ~(env.mark < e.block)
      BY <1>2, <3>2
    <3>7. HearsFrom(e, log, node.seq, l, env.mark, W, U)
      BY <1>2, <2>3, <3>2, <3>5, <3>6, HearsBelow DEF l
    <3>8. node.seq <= node.seq
      BY <2>3
    <3> QED BY <3>2, <3>3, <3>6, <3>7, <3>8 DEF HearsOK, log
  <2>14. env.log = "followed" => HearsOK(node, watch'.cursor, env.mark, Owed, Reached')
    BY <2>11, <2>12, <2>13
  <2>15. watch'.pc \in {"head", "events"}
    BY <1>1, <2>2
  <2> QED BY <1>1, <2>2, <2>3, <2>11, <2>14, <2>15, <2>16, HeardAsleep
<1> QED BY <1>3, <1>4

LEMMA HeardSleeper ==
    ASSUME OnceInv, HeardInv, TheSleeper
    PROVE  HeardInv'
<1> DEFINE c == watch.cursor
<1>1. Is("asleep") /\ ~Is("cat") /\ UNCHANGED <<setup, node, disk>>
  BY DEF TheSleeper, AsleepReads, AsleepChecks, AsleepMisses, AsleepRestart, Is
<1>2. /\ BookInv /\ HearsInv /\ CursorOK(c) /\ c.seq \in Nat /\ node.seq \in Nat /\ watch.mine = <<>>
      /\ watch.pc \in {"head", "events"} /\ watch.head \in Nat
      /\ {"pc", "cursor", "mine", "seen", "head", "session"} \subseteq DOMAIN watch
  BY <1>1, HeardFacts DEF BookInv, CursorOK
<1>3. CASE AsleepChecks
  <2> DEFINE s == IF node.seq < c.seq THEN node.seq ELSE c.seq
  <2>1. /\ inbox' = inbox
        /\ watch' = [watch EXCEPT !.pc = "events",
                       !.cursor.seq = IF node.seq < @ THEN node.seq ELSE @]
        /\ env' = IF node.seq < c.seq
                  THEN [env EXCEPT !.log = "followed", !.passed = @ \cup Range(Ids(node.log))]
                  ELSE [env EXCEPT !.log = LookedAt(c)]
    BY <1>3 DEF AsleepChecks, TheHead
  <2>2. /\ DOMAIN watch' = DOMAIN watch /\ watch'.mine = watch.mine /\ watch'.head = watch.head
        /\ watch'.pc = "events"
        /\ watch'.cursor = [watch.cursor EXCEPT !.seq = s]
    BY <1>2, <2>1
  <2>3. s \in Nat
    BY <1>2
  <2>4. /\ DOMAIN env' = DOMAIN env /\ env'.events = env.events /\ env'.ran = env.ran
        /\ env'.rebuilds = env.rebuilds /\ env'.restarts = env.restarts
        /\ env'.saved = env.saved /\ env'.mark = env.mark
        /\ env.log = "followed" => env'.log = "followed"
        /\ ~(node.seq < c.seq) => env'.passed = env.passed /\ env'.log = LookedAt(c)
        /\ node.seq < c.seq => env'.passed = env.passed \cup Range(Ids(node.log))
    BY <2>1, HeardFacts DEF LookedAt
  <2> DEFINE e == [c EXCEPT !.seq = s]
             T == Reached'
             W == Owed
  <2>5. CursorOK(e) /\ e.block = 0 /\ e.seq = s /\ e.floor = NoFloor /\ e = watch'.cursor
    BY <1>1, <1>2, <2>2, <2>3 DEF CursorOK, BookInv
  <2>6. /\ node \in Nodes(Known) /\ NodeOK(node) /\ env.mark \in Nat /\ e.block <= env.mark /\ s <= node.seq
        /\ node.log \in Seq(Entry(Known)) /\ Len(node.log) \in Nat /\ Len(node.log) <= node.seq
    BY <1>2, <2>5, HeardFacts DEF BookInv, LogIs
  <2>7. ASSUME env'.log = "followed" PROVE HearsOK(node, e, env.mark, W, T)
    <3>1. CASE node.seq < c.seq
      <4>1. \A j \in DOMAIN node.log : node.log[j].ev.id \in Range(Ids(node.log))
        BY DEF Ids, Range
      <4>2. \A j \in DOMAIN node.log : node.log[j].ev.id \in T
        BY <2>4, <3>1, <4>1 DEF Reached
      <4> HIDE DEF e, s, T, W
      <4> QED BY <2>5, <2>6, <4>2, HearsAnew
    <3>2. CASE ~(node.seq < c.seq) /\ env.log = "followed"
      <4> DEFINE d == Read(node, c.seq)
      <4>1. HearsOK(node, c, env.mark, W, Reached) /\ T = Reached /\ s = c.seq
        BY <1>2, <2>1, <2>2, <2>4, <3>2 DEF HearsInv, Reached
      <4>2. Heeds(node.log, d, env.mark, W, T)
        BY <4>1 DEF HearsOK, HearsFrom
      <4>3. d \in Nat /\ d <= Len(node.log)
        BY <1>2, <2>6, <4>1 DEF Read
      <4> HIDE DEF e, d, s, T, W
      <4>4. HearsFrom(e, node.log, node.seq, d, env.mark, W, T)
        BY <2>5, <2>6, <4>2, <4>3, HearsBelow
      <4> QED BY <2>5, <2>6, <4>1, <4>4 DEF HearsOK, d
    <3>3. CASE ~(node.seq < c.seq) /\ env.log # "followed"
      <4>1. s = 0
        BY <2>4, <2>7, <3>3 DEF LookedAt
      <4> HIDE DEF e, s, T, W
      <4> QED BY <2>5, <2>6, <4>1, HearsAnew
    <3> QED BY <3>1, <3>2, <3>3
  <2> HIDE DEF s
  <2> QED BY <1>1, <2>2, <2>3, <2>4, <2>5, <2>7, HeardAsleep
<1>4. CASE AsleepMisses
  <2>1. /\ UNCHANGED <<inbox, env>>
        /\ DOMAIN watch' = DOMAIN watch /\ watch'.cursor = watch.cursor /\ watch'.mine = watch.mine
        /\ watch'.seen = watch.seen /\ watch'.session = watch.session /\ watch'.head = watch.head
        /\ watch'.pc \in {"head", "events"}
    BY <1>2, <1>4 DEF AsleepMisses
  <2> QED BY <1>1, <1>2, <2>1, HeardIdles
<1>5. CASE AsleepRestart
  <2>1. /\ env' = Restarted("followed")
        /\ watch' = [watch EXCEPT !.pc = "events", !.cursor = NewCursor(node.seq)]
    BY <1>5 DEF AsleepRestart, TheHead
  <2>2. /\ DOMAIN watch' = DOMAIN watch /\ watch'.mine = <<>> /\ watch'.head = watch.head
        /\ watch'.pc = "events" /\ watch'.cursor = NewCursor(node.seq)
    BY <1>2, <2>1
  <2>3. node.seq <= node.seq
    BY <1>2
  <2> QED BY <1>1, <1>2, <2>1, <2>2, <2>3, HeardRestarts
<1> QED BY <1>3, <1>4, <1>5, HeardAsleepReads DEF TheSleeper

LEMMA HeardInit == Init => HeardInv
<1> SUFFICES ASSUME Init PROVE HeardInv
  OBVIOUS
<1>1. /\ disk = [epoch |-> 0, cursor |-> 0, question |-> 0]
      /\ node = Reloaded(<<>>, 0)
      /\ watch = [Watching(Session(disk, 0), 0) EXCEPT !.pc = IF Is("cat") THEN "head" ELSE "events"]
      /\ env = [events |-> 0, rebuilds |-> 0, restarts |-> 0, missed |-> 0,
                epochs |-> 0, calls |-> 0,
                lines |-> 0, sending |-> 0, sealing |-> 0, ran |-> {}, givenUp |-> FALSE,
                log |-> "followed", mark |-> 0, saved |-> 0, passed |-> {}]
  BY DEF Init
<1>2. /\ {"saved", "mark", "passed"} \subseteq DOMAIN env
      /\ env.mark = 0 /\ env.saved = 0 /\ env.rebuilds = 0 /\ env.log = "followed"
  BY <1>1
<1>3. Session(disk, 0) = disk /\ disk.epoch = 0 /\ disk.cursor = 0
      /\ {"epoch", "cursor", "question"} \subseteq DOMAIN disk
  BY <1>1 DEF Session
<1>4. /\ "session" \in DOMAIN watch /\ watch.head = 0 /\ watch.cursor = NewCursor(0) /\ watch.mine = <<>>
      /\ watch.pc \in {"head", "events"} /\ watch.seen = {} /\ watch.session = disk
  <2> DEFINE w == Watching(disk, 0)
  <2>3. [disk EXCEPT !.question = 0] = disk
    BY <1>1
  <2>1. /\ DOMAIN w = {"pc", "head", "cursor", "session", "question", "seen", "mine"}
        /\ w.head = 0 /\ w.cursor = NewCursor(0) /\ w.mine = <<>> /\ w.seen = {} /\ w.session = disk
    BY <1>3, <2>3 DEF Watching
  <2>2. watch = [w EXCEPT !.pc = IF Is("cat") THEN "head" ELSE "events"]
    BY <1>1, <1>3
  <2> HIDE DEF w
  <2> QED BY <2>1, <2>2
<1>5. CursorOK(watch.cursor) /\ watch.cursor.seq = 0 /\ watch.cursor.block = 0 /\ watch.cursor.floor = NoFloor
  BY <1>4 DEF CursorOK, NewCursor, NoFloor
<1>6. OnceInv
  BY OnceInit
<1>7. node \in Nodes(Known) /\ NodeOK(node) /\ node.seq \in Nat
  BY <1>6, OnceFacts DEF Nodes
<1>8. EraInv
  <2> DEFINE none == <<>>
  <2>1. none \in Seq(Seq(Aged)) /\ 0 \in Nat /\ 0 <= Len(none)
    OBVIOUS
  <2>2. node = Reloaded(none, 0)
    BY <1>1
  <2> HIDE DEF none
  <2>3. node \in Nodes(Aged)
    BY <2>1, <2>2, ReloadedHas
  <2> QED BY <2>3 DEF EraInv
<1>9. BookInv
  BY <1>2, <1>4, <1>5 DEF BookInv
<1>10. SeenInv
  BY <1>4 DEF SeenInv, SentOK
<1>11. SessionInv
  <2>1. node.cp \in Nat
    BY <1>7 DEF Nodes
  <2> QED BY <1>3, <1>4, <1>7, <2>1 DEF SessionInv, SessionOK
<1>12. HearsInv
  <2> DEFINE e == watch.cursor
  <2>1. e.seq <= node.seq /\ e.block <= env.mark /\ env.mark \in Nat
    BY <1>2, <1>5, <1>7
  <2>2. HearsOK(node, e, env.mark, Owed, Reached)
    BY <1>5, <1>7, <2>1, HearsAnew
  <2> QED BY <1>2, <1>5, <2>2 DEF HearsInv
<1> QED BY <1>8, <1>9, <1>10, <1>11, <1>12 DEF HeardInv

LEMMA HeardStep == OnceInv /\ OnceInv' /\ HeardInv /\ [Next]_vars => HeardInv'
<1> SUFFICES ASSUME OnceInv, OnceInv', HeardInv, [Next]_vars PROVE HeardInv'
  OBVIOUS
<1>1. CASE UNCHANGED vars
  <2>1. /\ EraInv /\ BookInv /\ SeenInv /\ SessionInv /\ HearsInv
        /\ UNCHANGED <<setup, node, watch, inbox, disk, env>>
    BY <1>1 DEF HeardInv, vars
  <2>2. (\A r : Is(r)' <=> Is(r)) /\ Known' = Known /\ Era' = Era /\ Owed' = Owed /\ Reached' = Reached
    BY <2>1, OwedSame DEF Is, Known, Era, Reached
  <2>3. EraInv' /\ BookInv' /\ SeenInv'
    BY <2>1, <2>2 DEF EraInv, Aged, BookInv, SeenInv
  <2>4. SessionInv' /\ HearsInv'
    BY <2>1, <2>2 DEF SessionInv, HearsInv
  <2> QED BY <2>3, <2>4 DEF HeardInv
<1>2. CASE Next
  BY <1>2, HeardNode, HeardCat, HeardSleeper, HeardTerminal DEF Next
<1> QED BY <1>1, <1>2

\* What concerns a reader is heard, once its loop has read the log to its end
\* (agent.rs: watch_chain, run_asleep; client.rs: tail_events, log; common.rs:
\* check_head, accept_at), under the conditions Heard states: for any LOG_CAP, any
\* number of events, rebuilds, rewinds, adopted checkpoints, restarts of the reader
\* and unanswered calls.
THEOREM WhatConcernsIsHeard == Spec => []Heard
<1>1. Spec => [](OnceInv /\ HeardInv)
  <2>1. Init => OnceInv /\ HeardInv
    BY OnceInit, HeardInit
  <2>2. (OnceInv /\ HeardInv) /\ [Next]_vars => (OnceInv /\ HeardInv)'
    BY OnceStep, HeardStep
  <2> QED BY <2>1, <2>2, PTL DEF Spec
<1>2. OnceInv /\ HeardInv => Heard
  <2> SUFFICES ASSUME OnceInv, HeardInv, CaughtUp, NEW x \in Range(node.log),
                      Concerns(x.ev), x.ev.era = env.rebuilds + env.restarts, x.block > env.mark
               PROVE  x.ev.id \in Acted \cup env.passed
    BY DEF Heard
  <2> DEFINE log == node.log
             l == Len(log)
             c == watch.cursor
  <2>1. /\ BookInv /\ HearsInv /\ LogIs(Known, node) /\ node.seq \in Nat /\ Numbered(Known) /\ env.mark \in Nat
    BY HeardFacts DEF BookInv
  <2>2. log \in Seq(Entry(Known)) /\ l \in Nat /\ l <= node.seq /\ DOMAIN log = 1..l
    BY <2>1 DEF LogIs
  <2>3. PICK j \in 1..l : x = log[j]
    BY <2>2 DEF Range
  <2>4. c.seq = node.seq /\ env.log = "followed" /\ watch.mine = <<>>
    BY <2>1 DEF CaughtUp, BookInv, Is
  <2>5. Heeds(log, Read(node, c.seq), env.mark, Owed, Reached)
    BY <2>1, <2>4 DEF HearsInv, HearsOK, HearsFrom
  <2>6. Read(node, c.seq) = l
    <3> HIDE DEF log
    <3>1. node.seq - (node.seq - l) = l /\ (node.seq <= node.seq - l => l = 0)
      BY <2>1, <2>2
    <3> QED BY <2>4, <3>1 DEF Read, log
  <2>7. x \in Entry(Known)
    BY <2>2, <2>3
  <2>8. x.ev \in Known /\ x.block \in Nat /\ x.ev.id # 0
    BY <2>1, <2>7 DEF Entry, Numbered
  <2>9. x.ev \in Owed
    BY <2>8 DEF Owed, Known, Era
  <2>10. env.mark < x.block
    BY <2>1, <2>8
  <2>11. x.ev.id \in Reached
    <3> HIDE DEF log, l
    <3> QED BY <2>3, <2>5, <2>6, <2>9, <2>10 DEF Heeds
  <2>12. Reached = Range(inbox) \cup env.passed
    BY <2>4 DEF Reached, Range
  <2> QED BY <2>8, <2>11, <2>12 DEF Acted
<1> QED BY <1>1, <1>2, PTL

=============================================================================
