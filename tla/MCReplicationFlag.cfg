SPECIFICATION Spec
CONSTANTS
    n1 = n1
    n2 = n2
    n3 = n3
    None = None
    Nodes = {n1, n2, n3}
    Routes <- FromOutside
    Boots <- Forking
    SyncPage = 1
    Restless = {n2}
    Pullers = {n1}
    Pushed = {}
    ClearTerms = {}
    MaxTerm = 2
    MaxHead = 2
    MaxSent = 0
INVARIANT ReconciledIsPrefix
