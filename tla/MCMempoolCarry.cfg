SPECIFICATION Spec
CONSTANTS
    home = home
    east = east
    west = west
    NoNode = NoNode
    Nodes = {home, east, west}
    Reach <- TwoPollers
    Txs = {0}
    MempoolCap = 1
    CarriedKeep = 1
    CarryPerPoll = 1
    MaxSubmits = 1
    MaxRequests = 2
    MaxTrouble = 0
    MaxBlocks = 1
INVARIANTS SomeoneDelivers
