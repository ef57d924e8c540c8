SPECIFICATION FairSpec
CONSTANTS
    Request = {r1, r2}
    Server = {s1, s2}
    Tunnel = {t1, t2}
    Port = {p1, p2}
    Kinds = {"get", "typed", "err", "new", "del", "all", "update"}
    Wanted = {"kcp", "socks"}
    None = None
\* A request is served once; a handler that panics keeps the lock.
CHECK_DEADLOCK FALSE
INVARIANTS
    TypeOK
    PanicNeedsDeletion
    CountsAtMostRemovals
    OffWhileServingNeedsTwoStarts
    ServingIsReachable
    AnsweredWasStarted
PROPERTIES
    BookSpec
    RequestsEnd
    EndedIsUnlisted
