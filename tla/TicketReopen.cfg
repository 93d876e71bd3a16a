\* An acknowledgement races a close.
SPECIFICATION Spec
CONSTANTS
    Requests = {r1, r2}
    Tickets = {k1}
    Faults = {}
PROPERTIES ClosedIsFinal
