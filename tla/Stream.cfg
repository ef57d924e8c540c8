SPECIFICATION FairSpec
CONSTANTS
    Types = {"ipv4", "ipv6", "domain", "change", "other"}
    Lens = {0, 3, 4, 5, 6, 250, 251, 255, 256, 263}
\* A connection is served once and is then over.
CHECK_DEADLOCK FALSE
INVARIANTS
    TypeOK
    ForwardsTheRequest
    DialsWhatWasAsked
    ToldOnlyIfDialed
PROPERTIES
    ExchangeSpec
    HandlerEnds
    StreamReleased
