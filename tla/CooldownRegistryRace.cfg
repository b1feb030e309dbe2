CONSTANTS
    GuessedCooldown = 1
    FailureWindow = 2
    MaxCooldownHint = 2
    CountCap = 3
    Account = {a1}
    Model = {m1}
    Caller = {c1, c2}
    Report <- MCReport
    Horizon = 3
SPECIFICATION Spec
SYMMETRY MCSymmetry
INVARIANTS
    
    RowsRestorable
    CooldownBounded

    
