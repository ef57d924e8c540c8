SPECIFICATION Spec
CONSTANTS
    Types = {"domain"}
    Lens = {249, 250, 251}
\* A connection is served once and is then over.
CHECK_DEADLOCK FALSE
INVARIANT TakesAnyName
