SPECIFICATION FairSpec
CONSTANTS
    a1 = a1
    k1 = k1
    t1 = t1
    e = e
    i1 = i1
    c1 = c1
    NoFrame = NoFrame
    Frame = {a1, k1, t1, e, i1, c1}
    Kind <- MCKind
    Size <- MCSize
    ChunkSize = 2
    CanCleanup = TRUE
INVARIANTS TypeOK FloorTold DrainCovers StoppedSilent
PROPERTIES FloorGivenUp EndLeaves
CHECK_DEADLOCK FALSE
