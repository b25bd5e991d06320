\* Four plans of three acts each.
CONSTANTS
    a1 = a1
    a2 = a2
    a3 = a3
    Acts <- MCActs
    Plans <- MCPlans
    MaxRounds = 2
    MaxFaults = 2

SPECIFICATION Spec
\* The system stops once every act is answered.
CHECK_DEADLOCK FALSE
INVARIANTS ToldTheTruth NobodyGivesUp
