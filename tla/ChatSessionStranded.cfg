SPECIFICATION Spec
CONSTANTS
    s = s
    u = u
    x = x
    q = q
    t = t
    d = d
    v = v
    b = b
    l = l
    m = m
    p = p
    w = w
    None = None
    Command = {s, q, p, v}
    Request <- MCRequest
    Boundary = {b}
    MaxRun = 2
    MaxMailbox = 1
    MaxEvent = 4
    MaxCrash = 0
    HooksFail = FALSE
INVARIANTS NoMessageStranded
CHECK_DEADLOCK FALSE
