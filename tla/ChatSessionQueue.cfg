SPECIFICATION FairSpec
CONSTANTS
    s = s
    u = u
    x = x
    q = q
    t = t
    d = d
    v = v
    b = b
    l = l
    m = m
    p = p
    w = w
    None = None
    Command = {l, x, q, t, w, d, v, m}
    Request <- MCRequest
    Boundary = {b}
    MaxRun = 2
    MaxMailbox = 1
    MaxEvent = 3
    MaxCrash = 1
    HooksFail = FALSE
INVARIANTS BoundaryOnce
PROPERTIES CommandsSettle RunsEnd
CHECK_DEADLOCK FALSE
