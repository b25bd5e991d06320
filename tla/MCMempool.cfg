SPECIFICATION Spec
CONSTANTS
    home = home
    east = east
    west = west
    NoNode = NoNode
    Nodes = {home, east}
    Reach <- OneWay
    Txs = {0, 1}
    MempoolCap = 1
    CarriedKeep = 1
    CarryPerPoll = 1
    MaxSubmits = 2
    MaxRequests = 2
    MaxTrouble = 2
    MaxBlocks = 2
INVARIANTS QueueSound OncePerReign MarkedIsElsewhere
