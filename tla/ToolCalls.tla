------------------------------ MODULE ToolCalls ------------------------------
(***************************************************************************)
(* What the agent state machine promises about the queries a model starts: *)
(* the result of each is told to the model at most once, in a turn, and is *)
(* lost only together with everything else that was outstanding (the       *)
(* conversation was reset, the process went down) or with a turn that      *)
(* failed.  No other event touches a single result.                        *)
(***************************************************************************)
CONSTANT Calls

VARIABLE phase

Phases == {"new", "out", "waiting", "told", "gone"}

In(p) == {c \in Calls : phase[c] = p}

Move(S, p) == [c \in Calls |-> IF c \in S THEN p ELSE phase[c]]

Init == phase = [c \in Calls |-> "new"]

\* A turn tells the model some waiting results and starts new calls.
Turn == \E told \in SUBSET In("waiting"), started \in SUBSET In("new") :
            phase' = [c \in Calls |-> IF c \in told THEN "told"
                                      ELSE IF c \in started THEN "out"
                                      ELSE phase[c]]

Land == \E S \in SUBSET In("out") : phase' = Move(S, "waiting")

\* A turn that failed takes the results it was fed with it.
Lose == \E S \in SUBSET In("waiting") : phase' = Move(S, "gone")

\* A reset, a crash: nothing outstanding survives it.
Forget == phase' = Move(In("out") \cup In("waiting"), "gone")

Next == Turn \/ Land \/ Lose \/ Forget

Spec == Init /\ [][Next]_phase

=============================================================================
