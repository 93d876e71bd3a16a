\* Two pollers and a trap handler, tiered rules, every failure.
SPECIFICATION Spec
CONSTANTS
    Pollers = {p1, p2}
    TrapHandlers = {h1}
    Towers = {t1}
    Rules <- TieredRules
    TrapKeys = {"neteco"}
    Values <- TieredValues
    EventIds = {e1, e2, e3}
    Faults = {"crash", "db"}
    MaxInputs = 3
    None = None
SYMMETRY SymmetryPollers
INVARIANTS TypeOK OneOpenPerAlarm OneTicketPerEvent NoLateTouch
PROPERTIES ResolvedIsFinal ImplementsBoard
