\* Two requests on two devices that a scanner finds, statements fail.  Or two
\* processes read two of three generators in three cycles, with two failures.
\* Or a tower's device is polled three times, with one failure.
SPECIFICATION DevicesSpec
CONSTANTS
    Scanners = {s1}
    Requests = {r1, r2}
    Addresses = {a1, a2}
    TowerIds = {t1, t2, t3}
    Faults = {"db"}
    Endpoints <- Order
    Batch = 2
    MaxTime = 1
    MaxCycles = 3
    MaxFaults = 2
    MaxPolls = 3
    None = None
SYMMETRY Symmetry
INVARIANTS TypeOK PromotedNamesItsTower OneTowerPerDevice GeneratorsInv RulesInv
PROPERTIES TriageIsNeverReopened
