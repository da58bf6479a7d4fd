SPECIFICATION Spec
CONSTANTS
    s = s
    d1 = d1
    k1 = k1
    i1 = i1
    c1 = c1
    r1 = r1
    q1 = q1
    p1 = p1
    b1 = b1
    u1 = u1
    w1 = w1
    NoFrame = NoFrame
    Frame = {s, d1, k1, i1, u1, b1}
    Kind <- MCKind
    HoldOnStart = FALSE
    CanCleanup = FALSE
    Target = NoFrame
INVARIANTS TypeOK OneHandler DroppedNeverBegins StartFirst
PROPERTY Delivers
CHECK_DEADLOCK FALSE
