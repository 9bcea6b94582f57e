SPECIFICATION Spec
CONSTANTS
    Worker = {w1, w2, w3}
    AdHoc = {}
    Expected = 2
    Shape = {small, big}
    MaxGroup = 2
    MaxCalls = 2
    Slots = 2
    Cancellable = {w1, w2, w3}
    Losable = {w1, w2, w3}
SYMMETRY Interchangeable
INVARIANTS AlignedResults
PROPERTIES WaveIsWhole SettledOnce ImplementsBarrier
CHECK_DEADLOCK FALSE
