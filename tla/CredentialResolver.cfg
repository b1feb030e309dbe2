SPECIFICATION FairSpec
CONSTANTS
    NoOne = NoOne
    Caller = {a, b}
    a = a
    b = b
    MaxVersion = 3
    MaxToken = 3
INVARIANTS SpentOnce RestsItsOwn
PROPERTIES RowSpec ResolvesReturn
CHECK_DEADLOCK FALSE
