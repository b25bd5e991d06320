--------------------------- MODULE MCReplication ----------------------------
(* `Replication` on small meshes. *)
EXTENDS Replication

CONSTANTS n1, n2, n3

Everyone == [n \in Nodes |-> Nodes \ {n}]

\* Node n3 can be called, but cannot call: it votes, and pulls from nobody.
FromOutside == [n \in Nodes |-> IF n = n3 THEN {} ELSE Nodes \ {n}]

New == [store |-> EmptyStore, term |-> 0, headTerm |-> 0]

\* After a first term that n1 led, and in which n2 kept up and n3 did not.
OneBehind ==
    {[n \in Nodes |-> IF n = n3 THEN [New EXCEPT !.term = 1]
                      ELSE [store |-> [log |-> <<1, 1>>, cp |-> 0],
                            term |-> 1, headTerm |-> 1]]}

\* After a first term that n1 led, and whose one block nobody pulled.
Forking ==
    {[n \in Nodes |-> IF n = n1 THEN [store |-> [log |-> <<1>>, cp |-> 0],
                                     term |-> 1, headTerm |-> 1]
                      ELSE [New EXCEPT !.term = 1]]}

\* After a first term without a block.
NothingYet == {[n \in Nodes |-> [New EXCEPT !.term = 1]]}

\* After three terms: n2 led the first, and n1 pulled its block and checkpoint;
\* n1 led the second and made a block, and may have compacted at it; n2 led the
\* third, and may have made a block and compacted.  Nobody pulled either of these.
Apart ==
    LET Had(log, cp) == [store |-> [log |-> log, cp |-> cp], term |-> 3,
                         headTerm |-> log[Len(log)]]
    IN  {[n \in Nodes |-> CASE n = n1 -> Had(<<1, 2>>, cp)
                            [] n = n2 -> own
                            [] OTHER -> [New EXCEPT !.term = 3]] :
            cp \in {1, 2}, own \in {Had(<<1>>, 1), Had(<<1, 3>>, 2)}}

=============================================================================
