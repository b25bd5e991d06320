SPECIFICATION Spec
CONSTANTS
    n1 = n1
    n2 = n2
    n3 = n3
    None = None
    Nodes = {n1, n2, n3}
    Routes <- FromOutside
    Boots <- NothingYet
    SyncPage = 1
    Restless = {n1, n2}
    Pullers = {n1}
    Pushed = {}
    ClearTerms = {2, 3}
    MaxTerm = 3
    MaxHead = 1
    MaxSent = 0
INVARIANT ReconciledIsPrefix
