SPECIFICATION FairSpec
CONSTANTS
    None = None
    Nodes = {a, b, c, z}
    Learners = {z}
    Peers <- AllAsPeers
    Boot <- FirstBoot
    Late = {}
    Old = None
    New = None
    DiskFails = FALSE
    Restless = {a, z}
    MaxTerm = 1
    MaxHead = 0
    MaxCut = 1
INVARIANT LearnersOnlyFollow
PROPERTIES CutOffKeepsTerm CutOffLeaderRetires
