----------------------------- MODULE LinkStatus -----------------------------
(***************************************************************************)
(* The state of the network links: LinkPoller reads every link's interface *)
(* (IF-MIB over SNMP), LinkStatusService compares the reading with the     *)
(* last snapshot, stores it, and opens, touches and resolves the events of *)
(* three rules.  Each of these is one or two statements, nothing is locked,*)
(* and several processes may run a poller.  The Zabbix sync (LinkSync)     *)
(* stores snapshots of the same links.  No program builds a LinkPoller yet: *)
(* a comment on its Run says that one has to be started by cmd/scheduler.  *)
(*                                                                         *)
(* Abstracted: one direction stands for in and out; snapshots that are not *)
(* the latest of their link, which nothing reads, and resolved events.     *)
(*                                                                         *)
(* Definitions that no other definition uses, each just before the one it  *)
(* resembles, are plausible bugs that the properties are tested with.      *)
(***************************************************************************)
EXTENDS Integers, FiniteSets, FiniteSetsExt

CONSTANTS
    Pollers,      \* one LinkPoller in each process
    Links,        \* the rows of network_links, at most the 500 that pollAll lists
    Capacity,     \* nominal_capacity_mb, in units of the octet counter per tick; 0: unknown
    ErrorCounts,  \* values of the error counters
    MaxTime,      \* bound: ticks
    MaxFaults,    \* bound: failures of statements and of SNMP
    None

Slots == 1 .. 2  \* bound: two open rows of a key are as good as more
LinkRules == {"down", "high_utilization", "high_errors"}  \* the prefixes of AlarmKey
HighUtilizationThresholdPercent == 85
ErrorRateWarningThreshold == 100
ErrorRateCriticalThreshold == 1000

\* What the proofs assume of the constants.
Parameters ==
    /\ IsFiniteSet(Pollers)
    /\ Capacity \in Nat /\ ErrorCounts \subseteq Nat
    /\ MaxTime \in Nat /\ MaxFaults \in Nat
    /\ None \notin {"warning", "critical"}

VARIABLES
    crew,       \* the pollers that run
    now,
    router,     \* of each link: ifOperStatus, the octets and the errors since its boot
    carried,    \* the octets each link has really carried
    snapshots,  \* the latest rows of link_metric_snapshots of each link
    events,     \* the open rows of link_events of each link and rule: the severity, or None
    poll,       \* where each poller is
    shown,      \* the reading that was last evaluated without a failure, or None
    faults

vars == <<crew, now, router, carried, snapshots, events, poll, shown, faults>>

Idle == [step |-> "idle", todo |-> {}, link |-> None, previous |-> None, current |-> None,
         insert |-> FALSE, clean |-> TRUE]

Init ==
    /\ crew \in (SUBSET Pollers) \ {{}}
    /\ now = 0
    /\ router = [l \in Links |-> [oper |-> "up", octets |-> 0, errors |-> 0]]
    /\ carried = [l \in Links |-> 0]
    /\ snapshots = [l \in Links |-> {}]
    /\ events = [l \in Links |-> [r \in LinkRules |-> [k \in Slots |-> None]]]
    /\ poll = [p \in Pollers |-> Idle]
    /\ shown = [l \in Links |-> None]
    /\ faults = 0

world == <<now, router, carried>>
tables == <<snapshots, events>>

Fault == faults < MaxFaults /\ faults' = faults + 1

-----------------------------------------------------------------------------
(* The routers.                                                             *)

Tick ==
    /\ now < MaxTime
    /\ now' = now + 1
    /\ \E busy \in SUBSET Links :
        /\ router' = [l \in Links |-> IF l \in busy THEN [router[l] EXCEPT !.octets = @ + 1]
                                      ELSE router[l]]
        /\ carried' = [l \in Links |-> IF l \in busy THEN carried[l] + 1 ELSE carried[l]]
    /\ UNCHANGED <<crew, tables, poll, shown, faults>>

\* A change takes a tick, so that there are finitely many.
Change(l) ==
    /\ now < MaxTime /\ now' = now + 1
    /\ \/ \E o \in {"up", "lower_layer_down"} \ {router[l].oper} :
            router' = [router EXCEPT ![l].oper = o]
       \/ \E n \in ErrorCounts :
            n > router[l].errors /\ router' = [router EXCEPT ![l].errors = n]
       \/ router' = [router EXCEPT ![l] = [oper |-> "up", octets |-> 0, errors |-> 0]]
    /\ UNCHANGED <<crew, carried, tables, poll, shown, faults>>

\* ORDER BY collected_at DESC LIMIT 1: of the latest, any.
Store(l, s) ==
    LET all == snapshots[l] \cup {s}
    IN snapshots' = [snapshots EXCEPT ![l] = {x \in all : \A y \in all : y.clock <= x.clock}]

\* syncGroup gives all values the clock of one item: the counter may be older.
SyncSnapshot(l) ==
    /\ faults < MaxFaults /\ faults' = faults + 1
    /\ \E n \in 0 .. router[l].octets :
        Store(l, [clock |-> now, octets |-> n, carried |-> carried[l],
                  sound |-> n = router[l].octets])
    /\ UNCHANGED <<crew, world, events, poll, shown>>

-----------------------------------------------------------------------------
(* A poll of all links, one after the other.                                *)

At(p, step) == p \in crew /\ poll[p].step = step /\ ~poll[p].insert
Inserting(p, rule) == poll[p].step = rule /\ poll[p].insert

Goto(p, step) == poll' = [poll EXCEPT ![p].step = step, ![p].insert = FALSE]

pollAll(p) ==
    /\ At(p, "idle")
    /\ \E l \in Links :
        poll' = [poll EXCEPT ![p].todo = Links \ {l}, ![p].link = l, ![p].step = "last"]
    /\ UNCHANGED <<crew, world, tables, shown, faults>>

\* The next link, or the end of the round.
Skip(p) ==
    \/ /\ poll[p].todo = {}
       /\ poll' = [poll EXCEPT ![p] = Idle]
    \/ \E l \in poll[p].todo :
        poll' = [poll EXCEPT ![p] = [Idle EXCEPT !.todo = poll[p].todo \ {l}, !.link = l,
                                                 !.step = "last"]]

\* An error is taken for "no snapshot yet".
GetLastSnapshot(p) ==
    /\ At(p, "last")
    /\ LET rows == snapshots[poll[p].link]
           with(previous) == poll' = [poll EXCEPT ![p].previous = previous, ![p].step = "metrics"]
       IN \/ /\ IF rows = {} THEN with(None) ELSE \E s \in rows : with(s)
             /\ UNCHANGED faults
          \/ Fault /\ with(None)
    /\ UNCHANGED <<crew, world, tables, shown>>

HighThroughRestart(current, previous) ==
    LET elapsed == current.clock - previous.clock
    IN /\ elapsed > 0 /\ Capacity > 0
       /\ 100 * ((current.octets - previous.octets) % 1024)
            >= HighUtilizationThresholdPercent * Capacity * elapsed

\* calculateUtilization: nothing when the counter started again or no time has passed.
High(current, previous) ==
    LET elapsed == current.clock - previous.clock
    IN /\ elapsed > 0 /\ Capacity > 0
       /\ current.octets >= previous.octets
       /\ 100 * (current.octets - previous.octets)
            >= HighUtilizationThresholdPercent * Capacity * elapsed

\* GetInterfaceMetrics: an OID the router does not answer leaves a counter at 0 and the
\* status unknown.
GetInterfaceMetrics(p) ==
    /\ At(p, "metrics")
    /\ LET l == poll[p].link
           old == poll[p].previous
           read(oper, octets, errors) ==
               LET s == [clock |-> now, octets |-> octets, carried |-> carried[l],
                         sound |-> octets = router[l].octets]
               IN poll' = [poll EXCEPT ![p].step = "save",
                              ![p].current = [snapshot |-> s, oper |-> oper, errors |-> errors,
                                              high |-> old # None /\ High(s, old)]]
       IN \/ read(router[l].oper, router[l].octets, router[l].errors) /\ UNCHANGED faults
          \/ /\ Fault
             /\ \E oper \in {router[l].oper, "unknown"}, octets \in {router[l].octets, 0},
                  errors \in {router[l].errors, 0} : read(oper, octets, errors)
          \/ Fault /\ Skip(p)
    /\ UNCHANGED <<crew, world, tables, shown>>

SaveMetricSnapshot(p) ==
    /\ At(p, "save")
    /\ \/ /\ Store(poll[p].link, poll[p].current.snapshot)
          /\ poll' = [poll EXCEPT ![p].step = "down", ![p].previous = None,
                                  ![p].current = [@ EXCEPT !.snapshot = None]]
          /\ UNCHANGED faults
       \/ Fault /\ Skip(p) /\ UNCHANGED snapshots
    /\ UNCHANGED <<crew, world, events, shown>>

-----------------------------------------------------------------------------
(* evaluateEvents: three rules in turn.                                     *)

\* The counters since the router's boot.
TotalErrors(p) == poll[p].current.errors

SeverityMajor == "major"

HighUtilizationSeverity == "warning"

\* The severity of the rule's event, or None for no event.
Wanted(p, rule) ==
    CASE rule = "down" -> IF poll[p].current.oper \in {"down", "lower_layer_down"}
                          THEN "critical" ELSE None
      [] rule = "high_utilization" -> IF poll[p].current.high THEN HighUtilizationSeverity ELSE None
      [] rule = "high_errors" -> IF TotalErrors(p) >= ErrorRateCriticalThreshold THEN "critical"
                                 ELSE IF TotalErrors(p) >= ErrorRateWarningThreshold THEN "warning"
                                 ELSE None

After(rule) == CASE rule = "down" -> "high_utilization"
                 [] rule = "high_utilization" -> "high_errors"
                 [] rule = "high_errors" -> "evaluated"

OpenIn(l, rule) == {k \in Slots : events[l][rule][k] # None}

Set(l, rule, rows, severity) ==
    events' = [events EXCEPT ![l][rule] =
                  [k \in Slots |-> IF k \in rows THEN severity ELSE @[k]]]

TouchNone(p, rule) ==
    /\ At(p, rule) /\ Wanted(p, rule) # None
    /\ poll' = [poll EXCEPT ![p].insert = TRUE]
    /\ UNCHANGED <<crew, world, tables, shown, faults>>

\* CreateOrTouch: UPDATE the open rows of the key ...
Touch(p, rule) ==
    /\ At(p, rule) /\ Wanted(p, rule) # None
    /\ LET l == poll[p].link
       IN IF OpenIn(l, rule) = {} THEN poll' = [poll EXCEPT ![p].insert = TRUE] /\ UNCHANGED events
          ELSE Set(l, rule, OpenIn(l, rule), Wanted(p, rule)) /\ Goto(p, After(rule))
    /\ UNCHANGED <<crew, world, snapshots, shown, faults>>

\* ... or INSERT one; no index keeps a second open row of the key out.
Insert(p, rule) ==
    /\ Inserting(p, rule)
    /\ LET free == Slots \ OpenIn(poll[p].link, rule)
       IN Set(poll[p].link, rule, IF free = {} THEN {} ELSE {Min(free)}, Wanted(p, rule))
    /\ Goto(p, After(rule))
    /\ UNCHANGED <<crew, world, snapshots, shown, faults>>

\* An error of CreateOrTouch ends the evaluation: the later rules are not looked at.
TouchFails(p, rule) ==
    /\ \/ At(p, rule) /\ Wanted(p, rule) # None
       \/ Inserting(p, rule)
    /\ Fault /\ Skip(p)
    /\ shown' = [shown EXCEPT ![poll[p].link] = None]
    /\ UNCHANGED <<crew, world, tables>>

ResolveAll(p, rule) ==
    /\ At(p, rule) /\ Wanted(p, rule) = None
    /\ Set(poll[p].link, rule, Slots, None)
    /\ Goto(p, After(rule))
    /\ UNCHANGED <<crew, world, snapshots, shown, faults>>

\* All open rows get the time of the transaction, and UNIQUE (alarm_key, resolved_at)
\* refuses two of them: the error is logged.
Resolve(p, rule) ==
    /\ At(p, rule) /\ Wanted(p, rule) = None
    /\ IF Cardinality(OpenIn(poll[p].link, rule)) > 1 THEN UNCHANGED events
       ELSE Set(poll[p].link, rule, Slots, None)
    /\ Goto(p, After(rule))
    /\ UNCHANGED <<crew, world, snapshots, shown, faults>>

ResolveFails(p, rule) ==
    /\ At(p, rule) /\ Wanted(p, rule) = None
    /\ Fault
    /\ poll' = [poll EXCEPT ![p].step = After(rule), ![p].clean = FALSE]
    /\ UNCHANGED <<crew, world, tables, shown>>

Evaluated(p) ==
    /\ At(p, "evaluated")
    /\ shown' = [shown EXCEPT ![poll[p].link] = IF poll[p].clean THEN poll[p].current ELSE None]
    /\ Skip(p)
    /\ UNCHANGED <<crew, world, tables, faults>>

Step(p) ==
    \/ GetLastSnapshot(p) \/ GetInterfaceMetrics(p) \/ SaveMetricSnapshot(p)
    \/ \E rule \in LinkRules : \/ Touch(p, rule) \/ Insert(p, rule) \/ TouchFails(p, rule)
                           \/ Resolve(p, rule) \/ ResolveFails(p, rule)
    \/ Evaluated(p)

Next ==
    \/ Tick
    \/ \E l \in Links : Change(l) \/ SyncSnapshot(l)
    \/ \E p \in Pollers : pollAll(p) \/ Step(p)

Spec == Init /\ [][Next]_vars

-----------------------------------------------------------------------------
TypeOK ==
    /\ crew \in (SUBSET Pollers) \ {{}}
    /\ now \in 0 .. MaxTime /\ faults \in 0 .. MaxFaults
    /\ \A l \in Links : router[l].octets <= carried[l]
    /\ \A l \in Links, r \in LinkRules : events[l][r] \in [Slots -> {None, "warning", "critical"}]
    /\ \A p \in Pollers : poll[p].todo \subseteq Links /\ poll[p].link \in Links \cup {None}

Solo == Cardinality(crew) = 1

\* With one poller a link has at most one open event of each rule (CreateOrTouch); with
\* two it may have two, which are never resolved: each Resolve of the pair breaks
\* UNIQUE (alarm_key, resolved_at), and its error is only logged.
OnePollerOneEvent == Solo => \A l \in Links, r \in LinkRules : Cardinality(OpenIn(l, r)) <= 1

\* The open events of a link are those of the reading evaluated last, if that went well:
\* down and high utilisation exactly, and of errors none but for that many errors.
EventsShowTheLastReading ==
    Solo => \A l \in Links : (shown[l] # None /\ \A p \in crew : poll[p].link # l) =>
        /\ OpenIn(l, "down") # {} <=> shown[l].oper = "lower_layer_down"
        /\ OpenIn(l, "high_utilization") # {} <=> shown[l].high
        /\ \A k \in OpenIn(l, "high_errors") :
            shown[l].errors >= IF events[l]["high_errors"][k] = "critical" THEN 1000 ELSE 100

\* A reading is of high utilisation only if the link really carried that much since the
\* last snapshot, through restarts of the counter and whoever polls at once
\* (calculateUtilization), provided both counters are those of their times.
NoFalseUtilization ==
    \A p \in Pollers :
        LET c == poll[p].current
            old == poll[p].previous
        IN old # None /\ c # None /\ c.high /\ c.snapshot.sound /\ old.sound =>
               100 * (c.snapshot.carried - old.carried) >=
                   HighUtilizationThresholdPercent * Capacity * (c.snapshot.clock - old.clock)

\* The invariants of the poller together.
StatusInv == TypeOK /\ OnePollerOneEvent /\ EventsShowTheLastReading /\ NoFalseUtilization
=============================================================================
