SPECIFICATION FairSpec
CONSTANTS
    a = a
    b = b
    m = m
    n = n
    Caller = {a, b}
    Writer <- MCNone
    Mutator = {m}
    Refreshable = TRUE
    MaxVersion = 2
    MaxKept = 1
INVARIANTS OneRefresh StoredOfPrincipal ProjectedOfPrincipal FreshRefreshSurvives AnswerOfPrincipal
PROPERTIES CallsReturn
