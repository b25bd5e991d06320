-------------------------------- MODULE MCCat --------------------------------
(* An instance of Cat: each reader with the events that concern it.        *)
EXTENDS Cat

Setup(reader, kinds, calls, lines, quiet) ==
    [reader |-> reader, kinds |-> kinds, calls |-> calls, lines |-> lines, quiet |-> quiet]

MCSetups ==
    {Setup("cat", {"message", "rootsWord"}, 0, 0, 0),
     Setup("cat", {"rootsWord", "opened"}, 0, 0, 0),
     Setup("cat", {"elected"}, 0, 0, 1),
     Setup("cat", {}, 4, 0, 0),
     Setup("asleep", {"message", "opened"}, 0, 0, 1),
     Setup("terminal", {"mine"}, 0, 2, 0),
     Setup("log", {"message", "rootsWord"}, 0, 0, 1)}

=============================================================================
