SPECIFICATION FairSpec
CONSTANTS
    Asker = {h1, h2}
    Keeper = k
    Nobody = nobody
    MaxAsks = 3
    MaxFaults = 1
INVARIANTS
    TypeOK
    ModeHolds
PROPERTIES
    NotCutOff
