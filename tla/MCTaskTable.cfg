SPECIFICATION MCSpec
CONSTANTS
    None = None
    Accounts = {root, mimi, tama}
    Root = root
    GenesisLeader = None
    ClaimWindow = 1
    Lease = 2
    WorkNag = 1
    DirectiveNag = 1
    MaxNudges = 1
    MaxReoffers = 1
    MaxDirectiveNudges = 1
    MaxSubtasks = 2
    MaxTasks = 4
    GcKeepFor = 2
    MaxParents = 2
    MaxNotes = 1
    MaxBlock = 7
    SecondFrom = 7
SYMMETRY Workers
INVARIANTS TypeOK RowsCoherent BudgetsRespected PlanWhole ArtifactSound SilenceSettles
PROPERTIES EndsForGood LeaseHolds TimeKeepsResults
