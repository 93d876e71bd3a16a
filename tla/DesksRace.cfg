\* Three requests on two tickets; or two clients with five requests of two users
\* (which stop when they have made them); or two clients with three requests to two
\* processes within two minutes, one of them per minute and route; or requests for the availability of the
\* last three of four hours, with two failure events.  Statements fail.
SPECIFICATION DesksSpec
CONSTANTS
    Clients = {c1, c2}
    Tickets = {k1, k2}
    Requests = {r1, r2, r3}
    MaxFailedLogins = 2
    MaxPasswords = 2
    MaxRequests = 5
    Limit = 1
    TTL = 1
    MaxTime = 1
    MaxCalls = 3
    Births = {0}
    Window = 3
    Stale = 1
    FirstHour = 2
    LastHour = 4
    MaxEvents = 2
    Faults = {"db"}
    None = None
SYMMETRY Symmetry
INVARIANTS DesksInv AccessInv AvailabilityInv StampsMatchStatus AuditTellsTruth
PROPERTIES SettledIsFinal
CHECK_DEADLOCK FALSE
