SPECIFICATION FairSpec
CONSTANTS
    r1 = r1
    r2 = r2
    c1 = c1
    Worker <- TwoRoots
    Child = {}
    Parent <- NoChild
    Early = {r1, r2}
    Asks = {}
    MaxAsks = 0
    Self = "runner"
PROPERTY AutoEnds
CHECK_DEADLOCK FALSE
