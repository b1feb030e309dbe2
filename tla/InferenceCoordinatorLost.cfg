SPECIFICATION Spec
CONSTANTS
    NoAccount = NoAccount
    agy = agy
    other = other
    Route = {agy, other}
    Agy = {agy}
    AttemptLimit = 2
    a = a
    b = b
    c = c
    Account = {a, b}
    Plan <- MCAgyPlan
INVARIANTS FailureReported
