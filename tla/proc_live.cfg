SPECIFICATION FairSpec
CONSTANTS
    s = s
    d1 = d1
    k1 = k1
    i1 = i1
    c1 = c1
    r1 = r1
    q1 = q1
    p1 = p1
    b1 = b1
    u1 = u1
    w1 = w1
    NoFrame = NoFrame
    Frame = {s, k1, i1}
    Kind <- MCKind
    HoldOnStart = TRUE
    CanCleanup = TRUE
    Target = NoFrame
INVARIANT CleanupIsFinal
PROPERTIES StartsEventually InterruptionReturns UninterruptibleHandled
CHECK_DEADLOCK FALSE
