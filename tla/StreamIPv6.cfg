SPECIFICATION Spec
CONSTANTS
    Types = {"ipv4", "ipv6", "domain"}
    Lens = {4}
\* A connection is served once and is then over.
CHECK_DEADLOCK FALSE
INVARIANT WaitsForTheRequest
