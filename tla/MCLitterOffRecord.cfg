\* Two members, two strangers who may both want the one free name, an artifact
\* whose thread keeps two comments.
CONSTANTS
    Root = root
    Members = {root, momo}
    Strangers = {ada, bo}
    Names = {n1, n2, n3}
    Taken = {n3}
    Artifacts = {art}
    CommentKeep = 2
    MaxRequests = 1
    MaxHeight = 2
    Budgets <- MCBudgets

SYMMETRY Alike
SPECIFICATION Spec
INVARIANT OffRecordStaysOut
