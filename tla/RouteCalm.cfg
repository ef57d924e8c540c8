SPECIFICATION FairSpec
CONSTANTS
    Starter = main
    Logins = {l1}
    Switches = {s1, s2}
    Nexts = {n1}
    None = None
\* Requests are served once; a loop without connections waits.
CHECK_DEADLOCK FALSE
\* crowded never falls, the invariants hold where it is raised by their
\* statement, and ChangesEnd says nothing of behaviours where it rises.
CONSTRAINT NotCrowded
INVARIANTS
    ServingIsOpen
    RouteIsLastAsked
    CloseIsHeard
PROPERTIES
    ChangesEnd
