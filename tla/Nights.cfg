SPECIFICATION NightsSpec
CONSTANTS
    Claim = {a, b, c, d}
    Entry = {e, f}
    Cap = 1
    MaxNights = 3
    MaxMoves = 2
    MaxFresh = 3
    Belief = {1, 2, 3}
    Confidence = {0, 1}
    Use = {0, 1, 2}
    Grid <- ThreeLifts
    HeadSize = {1, 2}
    MinCohort = 1
    Capture = 75
    EntryShare = 25
    OwnerShare = 50
    MonitorNights = 2
    MaxMerged = 2
SYMMETRY Interchangeable
CHECK_DEADLOCK FALSE
INVARIANTS
    DisclosedWhileReal VerdictsAreTrue
PROPERTIES JudgedStaysShut
