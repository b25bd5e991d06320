SPECIFICATION Spec
CONSTANTS
    None = None
    Nodes = {a, b, c}
    Learners = {}
    Peers <- MixedPeers
    Boot <- AfterPartition
    Late <- OldLeadersWord
    Old = a
    New = b
    DiskFails = FALSE
    Restless = {a, b, c}
    MaxTerm = 3
    MaxHead = 2
    MaxCut = 0
INVARIANTS TypeOK ElectionSafety FollowsALeader
PROPERTIES VotesStand WinnerUpToDate
