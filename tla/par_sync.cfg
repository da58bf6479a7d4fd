SPECIFICATION Spec
CONSTANTS
    s = s
    d1 = d1
    d2 = d2
    e = e
    c = c
    i = i
    o1 = o1
    NoFrame = NoFrame
    Frame = {s, d1, o1, e, c}
    N = 2
    Kind <- MCKind
    Own <- MCOwn
INVARIANTS TypeOK EscapesOnce StartLeads EndTrails OneRelease
CHECK_DEADLOCK FALSE
