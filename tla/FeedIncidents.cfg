\* One site-down event and nothing else: the second cycle records it again.
SPECIFICATION Spec
CONSTANTS
    PageSize = 1
    EventLimit = 1
    Second = 2
    Lookback = 1
    Events = {1}
    Down = {1}
    MaxTime = 0
    MaxFaults = 0
INVARIANT OneIncidentPerEvent
CHECK_DEADLOCK FALSE
