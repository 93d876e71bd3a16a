\* Three ticks of metrics and two events in pages of one, with a failure or a restart;
\* or four towers in pages of three, collected two at a time; or three traps of two
\* problems of a site, to one listener or two, one of them lost or swapped, or a tower
\* changed.
SPECIFICATION FeedsSpec
CONSTANTS
    PageSize = 1
    EventLimit = 1
    Second = 2
    Lookback = 1
    Events = {1, 2}
    Down = {2}
    MaxTime = 3
    MaxFaults = 1
    Towers = {t1, t2, t3, t4}
    BatchSize = 3
    Concurrency = 2
    Faults = {"list", "stop"}
    Listeners = {l1, l2}
    Problems = {q1, q2}
    NEIDs = {s1}
    TowerLimit = 1
    MaxTraps = 3
    MaxMishaps = 1
    None = None
INVARIANTS FeedInv CycleInv TrapsInv
PROPERTIES CatchesUp EveryTowerIsCollectedAgain
CHECK_DEADLOCK FALSE
