SPECIFICATION Spec
SYMMETRY Alike
CONSTANTS
    Reporter = {g1, g2}
    Switcher = {s1}
    Tell = 0
    Alarm = 0
    Leave = 1
    RouteLeave = 0
    MaxId = 2
    MaxCopies = 2
    MaxErrors = 2
    MaxRoute = 1
\* A client whose last route was left stops.
CHECK_DEADLOCK FALSE
INVARIANTS
    TypeOK
    HuntFinds
    MarkNeedsReport
    NegativeNeedsDrift
