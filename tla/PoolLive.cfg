SPECIFICATION FairSpec
CONSTANTS
    Goroutine = {g1, g2, g3, g4}
    ConfNum = 4
    Ops = {"rebuild"}
    Recur = FALSE
    None = None
\* Every goroutine runs once and stops.
CHECK_DEADLOCK FALSE
PROPERTY RebuildsEnd
