----------------------------- MODULE LocalTasks ------------------------------
(***************************************************************************)
(* A cat's own to-do list (kot, local_tasks.rs), as operators on it: what a *)
(* LocalTask call makes of the list, what is loaded from its file, what a   *)
(* moved checkpoint leaves.  Rows are numbered as their ids are; texts and  *)
(* notes are left out.                                                      *)
(***************************************************************************)
EXTENDS Functions, Subsequences

CONSTANTS
    MaxOpen,        \* MAX_OPEN
    MaxClosed       \* MAX_CLOSED

ASSUME ListAssumption == {MaxOpen, MaxClosed} \subseteq Nat

\* The empty list of an epoch: ids start over with it.
EmptyList(epoch) == [epoch |-> epoch, next |-> 1, tasks |-> <<>>]

IsOpen(t) == t.status \in {"todo", "doing"}

\* The rows, by position.
OpenRows(l) == {i \in DOMAIN l.tasks : IsOpen(l.tasks[i])}
ClosedRows(l) == {i \in DOMAIN l.tasks : ~IsOpen(l.tasks[i])}

\* Mutant: the file is taken whatever its epoch.
LoadAny(file, epoch) == IF file = {} THEN EmptyList(epoch) ELSE CHOOSE l \in file : TRUE

\* load: the file's list, if there is one that can be read and is of this
\* epoch.
Load(file, epoch) ==
    IF \E l \in file : l.epoch = epoch THEN CHOOSE l \in file : TRUE ELSE EmptyList(epoch)

\* reset: another epoch, an empty list.
ResetTo(l, epoch) == IF epoch # l.epoch THEN EmptyList(epoch) ELSE l

\* trim_closed: of the closed rows, those first in the list go.
Trimmed(l) ==
    LET excess == Cardinality(ClosedRows(l)) - MaxClosed
        kept == {i \in DOMAIN l.tasks : i \in ClosedRows(l) => Rank(ClosedRows(l), i) > excess}
    IN [l EXCEPT !.tasks = [k \in 1..Cardinality(kept) |-> @[Nth(kept, k)]]]

Marks == [start |-> "doing", done |-> "done", failed |-> "failed", drop |-> "dropped"]

\* apply, of a call that changes the list: a row is added while there is room;
\* any row, a closed one too, is marked.
CanAdd(l) == Cardinality(OpenRows(l)) < MaxOpen

Added(l) == Trimmed([l EXCEPT !.next = @ + 1,
                              !.tasks = Append(@, [id |-> l.next, status |-> "todo"])])

Marked(l, id, action) ==
    Trimmed([l EXCEPT !.tasks = [i \in DOMAIN @ |->
                IF @[i].id = id THEN [@[i] EXCEPT !.status = Marks[action]] ELSE @[i]]])

\* The lists one call can make of l.
Applied(l) ==
    (IF CanAdd(l) THEN {Added(l)} ELSE {})
        \cup {Marked(l, t.id, action) : t \in Range(l.tasks), action \in DOMAIN Marks}

=============================================================================
