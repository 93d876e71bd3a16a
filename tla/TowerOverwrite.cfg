\* A NetEco poll races with an SNMP cycle.
SPECIFICATION Spec
CONSTANTS
    Collectors = {c1, c2}
    Operators = {}
    Jobs <- AllCycles
    Conditions = {"answers", "unroutable"}
    MaxSettings = 0
    Faults = {}
PROPERTIES NetEcoKeepsDegraded
