SPECIFICATION Spec
CONSTANTS
    s = s
    u = u
    x = x
    q = q
    t = t
    d = d
    v = v
    b = b
    l = l
    m = m
    p = p
    w = w
    None = None
    Command = {s, x, q, t}
    Request <- MCRequest
    Boundary = {b}
    MaxRun = 2
    MaxMailbox = 1
    MaxEvent = 5
    MaxCrash = 1
    HooksFail = TRUE
INVARIANTS RunsEndOnce ItemsInHand PausedUnlessCompleted
PROPERTIES FollowsCompletion SteersItsRun QueueSpec
CHECK_DEADLOCK FALSE
