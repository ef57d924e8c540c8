SPECIFICATION Spec
CONSTANTS
    Goroutine = {g1, g2, g3}
    ConfNum = 2
    Ops = {"rebuild", "report", "auto", "chtype"}
    Recur = TRUE
    None = None
SYMMETRY Symmetry
\* A sender that holds the lock over a full channel can block everybody.
CHECK_DEADLOCK FALSE
INVARIANTS
    TypeOK
    ProfilesAccounted
    BlockedLockNeedsOvershoot
    OvershootBounded
