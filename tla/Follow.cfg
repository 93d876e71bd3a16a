\* Two pollers and a trap handler on one rule; or one SNMP collector and an operator
\* who configures the tower twice; nothing fails in these two.  Or two copies of the
\* API and one of the collector, started twice in all, with crashes and failures; or a
\* network link with one poller and a failure, or two pollers; or the NetEco poll
\* of one process, with a failure.
SPECIFICATION FollowSpec
CONSTANTS
    Pollers = {p1, p2}
    TrapHandlers = {h1}
    Towers = {t1}
    Rules <- OneRules
    TrapKeys = {"neteco"}
    Values <- OneValues
    EventIds = {1, 2, 3, 4}
    MaxInputs = 2
    None = None
    Collectors = {c1}
    Operators = {o1}
    Jobs <- SnmpCycles
    Conditions = {"answers", "silent", "unroutable"}
    MaxSettings = 2
    Apis = {a1, a2}
    Requests = {q1}
    MaxStarts = 2
    LastScript = 2
    LifeWorkers = {"comap", "neteco", "traps"}
    LifeFaults = {"crash", "db", "listen"}
    EnvValues <- SomeEnvValues
    Second = 100
    Half = 8000
    Faults = {}
    Links = {l1}
    Capacity = 1
    ErrorCounts = {100, 1000}
    MaxTime = 2
    MaxFaults = 1
    Clients = {n1}
    Texts = {"Not disconnected", "Disconnected", "0"}
    MaxChanges = 1
INVARIANTS EveryEventTicketed LifeInv StatusInv
PROPERTIES PersistentAlarmKeepsEvent BoardFollowsReading RowFollowsDevice SignalEndsProcess RowFollowsSite
CHECK_DEADLOCK FALSE
