\* The tiered rules of the Eltek and Enetek profiles, one poller, nothing fails.
SPECIFICATION Spec
CONSTANTS
    Pollers = {p1}
    TrapHandlers = {}
    Towers = {t1}
    Rules <- TieredRules
    TrapKeys = {"neteco"}
    Values <- TieredValues
    EventIds = {e1, e2}
    Faults = {}
    MaxInputs = 0
    None = None
PROPERTIES PersistentAlarmKeepsEvent
