SPECIFICATION Spec
CONSTANTS
    Claim = {a, b, c, d}
    Record = {r, s}
    NoClaim = NoClaim
    MaxMembers = 3
SYMMETRY Interchangeable
INVARIANTS HeldIsOnRecord
PROPERTIES LegalTransitions KeptIsActive LosersLeave
CHECK_DEADLOCK FALSE
