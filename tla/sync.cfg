SPECIFICATION FairSpec
CONSTANTS
    s = s
    d1 = d1
    i1 = i1
    e = e
    m1 = m1
    NoFrame = NoFrame
    SyncFrame = SyncFrame
    Frame = {s, d1, i1, e, m1, SyncFrame}
    N = 2
    Kind <- MCKind
    Output <- MCOutput
INVARIANT TypeOK
PROPERTIES WholeRounds CanceledRoundEnds
CHECK_DEADLOCK FALSE
