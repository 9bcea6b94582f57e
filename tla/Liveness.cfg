SPECIFICATION LiveSpec
CONSTANTS
    Job = {a}
    N = 4
    ChunkSize = 2
    MaxWait = 5
    Grace = 2
    PollInterval = 2
    RerunMax = 1
    WaitBudget = 6
    Floor = 2
    SpendLimit = 3
    MayRaise = TRUE
    Worker = {w1, w2, w3}
    Shape = {small, big}
INVARIANTS
    PaidTextInPlace BilledOnce
PROPERTIES EveryCallEnds AllEnd
