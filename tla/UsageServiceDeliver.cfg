SPECIFICATION Spec
CONSTANTS
    a = a
    m = m
    w = w
    Caller = {a}
    Writer = {w}
    Mutator = {m}
    Refreshable = TRUE
    MaxVersion = 2
    MaxKept = 1
INVARIANTS SnapshotHasAccount

