SPECIFICATION Spec
CONSTANTS
    Starter = main
    Logins = {l1}
    Switches = {s1}
    Nexts = {}
    None = None
\* Requests are served once; a loop without connections waits.
CHECK_DEADLOCK FALSE
INVARIANTS
    TypeOK
    RefusedOnlyIfBroken
    SomebodyServes
