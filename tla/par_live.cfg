SPECIFICATION FairSpec
CONSTANTS
    s = s
    d1 = d1
    d2 = d2
    e = e
    c = c
    i = i
    o1 = o1
    NoFrame = NoFrame
    Frame = {s, e, c, i}
    N = 2
    Kind <- MCKind
    Own <- MCOwn
PROPERTIES LifecycleLeaves
CHECK_DEADLOCK FALSE
