------------------------------ MODULE MCSigner ------------------------------
(* An instance of Signer for TLC.                                          *)
EXTENDS Signer

CONSTANTS a1, a2, a3

MCActs == {a1, a2, a3}

Kind(x, y, z) == [a \in MCActs |-> CASE a = a1 -> x [] a = a2 -> y [] a = a3 -> z]

\* A cat's vote, and the comment that waits for it, beside a request its node
\* carries; a cat's act after two at once; a vote the chain refuses, and a call
\* with bad arguments; a client's lines.
MCPlans ==
    {[kind |-> Kind("cat", "cat", "carry"), bad |-> {}, malformed |-> {}, after |-> {<<a2, a1>>}],
     [kind |-> Kind("cat", "cat", "cat"), bad |-> {}, malformed |-> {},
      after |-> {<<a3, a1>>, <<a3, a2>>}],
     [kind |-> Kind("cat", "cat", "cat"), bad |-> {a1}, malformed |-> {a3}, after |-> {<<a2, a1>>}],
     [kind |-> Kind("line", "line", "line"), bad |-> {}, malformed |-> {}, after |-> {}]}

=============================================================================
