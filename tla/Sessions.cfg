SPECIFICATION Spec
CONSTANTS
    r1 = r1
    r2 = r2
    o1 = o1
    o2 = o2
    Request = {r1, r2}
    Other = {o1, o2}
    ClientNum = 2
    MaxStarts = 2
    MaxSession = 3
    MaxRoute = 1
SYMMETRY Alike
CONSTRAINT TwoIfCrowded
\* A request is served once; a panic ends the client.
CHECK_DEADLOCK FALSE
INVARIANTS
    TypeOK
    DroppedIsClosed
    CrashNeedsRace
    ListedIsOfRoute
    FailNeedsTwoDead
