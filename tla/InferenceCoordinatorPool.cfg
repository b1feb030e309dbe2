SPECIFICATION FairSpec
CONSTANTS
    NoAccount = NoAccount
    agy = agy
    other = other
    Route = {agy, other}
    Agy = {agy}
    AttemptLimit = 2
    a = a
    b = b
    c = c
    Account = {a, b}
    Plan <- MCPlan
INVARIANTS RetriesUnseen BlameIsEarned ExhaustedMeansTried EncryptedStaysHome
PROPERTIES OncePerSession AnswersOnce RequestsReturn
