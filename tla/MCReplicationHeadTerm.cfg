SPECIFICATION Spec
CONSTANTS
    n1 = n1
    n2 = n2
    n3 = n3
    None = None
    Nodes = {n1, n2, n3}
    Routes <- Everyone
    Boots <- OneBehind
    SyncPage = 1
    Restless = {n2, n3}
    Pullers = {n3}
    Pushed = {}
    ClearTerms = {}
    MaxTerm = 3
    MaxHead = 2
    MaxSent = 0
PROPERTY MajorityKept
