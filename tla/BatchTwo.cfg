SPECIFICATION Spec
CONSTANTS
    Job = {a, b}
    N = 2
    ChunkSize = 1
    MaxWait = 4
    Grace = 1
    PollInterval = 2
    RerunMax = 1
    WaitBudget = 4
    Floor = 1
    SpendLimit = 2
    MayRaise = TRUE
SYMMETRY Interchangeable
INVARIANTS BudgetsHold
