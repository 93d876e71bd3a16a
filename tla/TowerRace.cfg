\* Two collectors and an operator race on a row; statements fail and collections are
\* cut short.  Or three readings of a tower arrive, in two batches or beside a client
\* that reads pages (senders stop when they have sent what the bounds allow).
\* Or one process polls NetEco of a site that changes, or two with one account, with two
\* failures.
SPECIFICATION TablesSpec
CONSTANTS
    Collectors = {c1, c2}
    Operators = {o1}
    Jobs <- UnlikeCycles
    Conditions = {"answers", "unroutable"}
    MaxSettings = 1
    Faults = {"db", "stop"}
    Tags = {if0, if1}
    If0 = if0
    MaxClock = 1
    MaxBatches = 3
    MaxReadings = 3
    PageSize = 1
    StatusRows = 2
    None = None
    Clients = {n1, n2}
    Texts = {"Not disconnected", "Disconnected", "0"}
    MaxChanges = 1
    MaxFaults = 2
SYMMETRY Symmetry
INVARIANTS TypeOK RowIsCoherent TablesInv
CHECK_DEADLOCK FALSE
