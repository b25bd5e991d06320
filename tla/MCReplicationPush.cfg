SPECIFICATION Spec
CONSTANTS
    n1 = n1
    n2 = n2
    n3 = n3
    None = None
    Nodes = {n1, n2, n3}
    Routes <- FromOutside
    Boots <- Apart
    SyncPage = 1
    Restless = {n2}
    Pullers = {n1}
    Pushed = {n1}
    ClearTerms = {}
    MaxTerm = 4
    MaxHead = 3
    MaxSent = 1
PROPERTY TailsThePrimary
