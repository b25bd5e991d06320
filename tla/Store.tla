------------------------------- MODULE Store --------------------------------
(***************************************************************************)
(* The block log of crates/miot-store, as functions of its content.        *)
(*                                                                         *)
(* A block is known by its height and the term it was produced in: bodies  *)
(* carry their effects and the time they were sealed, so two producers     *)
(* never make the same one.  `log` is the history the store stands for,    *)
(* one term per height; `cp` is the last compaction.  Blocks up to `cp`    *)
(* are pruned and only their outcome is left, the state recorded there.    *)
(* The state after a history stands for the history itself: folding is     *)
(* deterministic.  Every operation is one commit of the database.          *)
(***************************************************************************)
EXTENDS Integers, FiniteSetsExt, SequencesExt

CONSTANT None

EmptyStore == [log |-> <<>>, cp |-> 0]

HeadOf(st) == Len(st.log)

\* The block at a height, if the store still has it.
Block(st, h) ==
    IF h \in (st.cp + 1)..HeadOf(st) THEN [height |-> h, term |-> st.log[h]]
    ELSE None

\* Up to `limit` blocks from a height on, as `/chain/blocks` serves them:
\* heights that are pruned are skipped.
Page(st, from, limit) ==
    LET first == Max({from, st.cp + 1})
        last == Min({HeadOf(st), first + limit - 1})
    IN  [i \in 1..(last - first + 1) |-> Block(st, first + i - 1)]

\* `append` takes only the next height.
Fits(st, b) == b.height = HeadOf(st) + 1

AppendBlock(st, b) == [st EXCEPT !.log = Append(@, b.term)]

\* `compact` at the head, where the node does it.
Compact(st) == [st EXCEPT !.cp = HeadOf(st)]

\* The checkpoint `/chain/checkpoint` serves: the state at the last
\* compaction, if there is one.
Checkpoint(st) == IF st.cp = 0 THEN None ELSE SubSeq(st.log, 1, st.cp)

AdoptCheckpoint(st, state) == [log |-> state, cp |-> Len(state)]

\* Leader wins, back to the last compaction at or below the fork, or to
\* genesis.
RewindForFork(st, fork) ==
    LET land == IF fork >= st.cp THEN st.cp ELSE 0
    IN  [log |-> SubSeq(st.log, 1, land), cp |-> land]

\* Mutant: the first block that differs counts as agreed.
ForkPointOffByOne(st, from, theirs) ==
    from - 1 + Max({k \in 0..Len(theirs) :
                      \A i \in 1..(k - 1) : Block(st, from + i - 1) = theirs[i]})

\* The last height up to which the store agrees with blocks `theirs`, which
\* start at `from`.
ForkPoint(st, from, theirs) ==
    from - 1 + Max({k \in 0..Len(theirs) :
                      \A i \in 1..k : Block(st, from + i - 1) = theirs[i]})

=============================================================================
