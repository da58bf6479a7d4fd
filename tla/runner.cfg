SPECIFICATION FairSpec
CONSTANTS
    r1 = r1
    r2 = r2
    c1 = c1
    Worker <- TwoRootsAndAChild
    Child = {c1}
    Parent <- ChildOfTheFirst
    Early = {r1}
    Asks = {"end", "cancel", "signal", "contextEnd"}
    MaxAsks = 1
    Self = "runner"
INVARIANTS TypeOK NoneLeft
PROPERTY ShutdownReturns
CHECK_DEADLOCK FALSE
