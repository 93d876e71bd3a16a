----------------------------- MODULE MetricFeed -----------------------------
(***************************************************************************)
(* The ingestion cycle of the analytics platform (Collect) over the tables *)
(* of towercore: metrics are read from a marker kept in memory, newest     *)
(* first and page by page, stored in chunks and compared with the alert    *)
(* rules; then the marker moves to the moment the cycle began.  Events are *)
(* read without a marker, the newest EventLimit of them in every cycle,    *)
(* stored, and an incident is recorded for each one that is a site down.   *)
(* Neither ai_features, ai_events nor site_incident_causes has a unique    *)
(* key, so what is read twice is stored twice.                             *)
(*                                                                         *)
(* A metric is identified with its collected_at, an event with its place   *)
(* in the order of occurred_at.  Metrics are stamped and then committed.   *)
(*                                                                         *)
(* Definitions that no other definition uses, each just before the one it  *)
(* resembles, are plausible bugs that the properties are tested with.      *)
(***************************************************************************)
EXTENDS Naturals, FiniteSets

CONSTANTS
    PageSize,    \* metrics per page
    EventLimit,  \* events in the answer of GET /events
    Second,      \* clock ticks in a second: `from' has no fraction
    Lookback,    \* initialLookback
    Events, Down,  \* events, and those that are a site down
    MaxTime,     \* bound on the clock
    MaxFaults    \* bound on the statements that fail and the restarts

ASSUME FeedAssumption ==
    /\ {PageSize, EventLimit, Second} \subseteq Nat \ {0}
    /\ {Lookback, MaxTime, MaxFaults} \subseteq Nat
    /\ Events \subseteq Nat /\ IsFiniteSet(Events)
    /\ Down \subseteq Events

VARIABLES
    clock,
    stamped,    \* metrics collected and not yet in the table
    metrics,    \* the metrics table of towercore
    events,     \* its events table
    pc,         \* what Collect does next
    since,      \* lastMetricsSince
    start,      \* cycleStart
    offset,     \* of the next page
    got,        \* how many times each metric is in hand
    unsaved,    \* the metrics in hand that are still to be stored
    listed,     \* the events in hand
    features,   \* how many times each metric is in ai_features (2: more than once)
    evaluated,  \* metrics the alert rules were applied to
    ai_events,  \* the events in ai_events
    incidents,  \* the site_incident_causes of each event, pending and decided (the first two)
    faults,     \* statements failed and restarts so far
    late,       \* metrics of before this cycle, committed since it began
    excused,    \* metrics that came too late for the marker, or before a restart
    again       \* metrics that a later cycle had cause to read again

towercore == <<clock, stamped, metrics, events>>
cycle == <<pc, since, start, offset, got, unsaved, listed>>
tables == <<features, evaluated, ai_events, incidents>>
ghosts == <<late, excused, again>>
vars == <<towercore, cycle, tables, faults, ghosts>>

Time == 0..MaxTime
Nothing == [m \in Time |-> 0]
Upto2(n) == IF n < 2 THEN n ELSE 2

Init ==
    /\ clock = 0
    /\ stamped = {} /\ metrics = {} /\ events = {}
    /\ pc = "idle"
    /\ since = 0 /\ start = 0 /\ offset = 0
    /\ got = Nothing /\ unsaved = {} /\ listed = {}
    /\ features = Nothing /\ evaluated = {}
    /\ ai_events = {}
    /\ incidents = [e \in Events |-> [pending |-> 0, decided |-> 0]]
    /\ faults = 0
    /\ late = {} /\ excused = {} /\ again = {}

-----------------------------------------------------------------------------
(* Towercore.                                                              *)

\* A metric is collected at every tick; one that is never committed might as
\* well not have been.
Tick ==
    /\ clock < MaxTime
    /\ clock' = clock + 1
    /\ stamped' = stamped \cup {clock'}
    /\ UNCHANGED <<metrics, events, cycle, tables, faults, ghosts>>

CommitMetric(m) ==
    /\ m \in stamped
    /\ stamped' = stamped \ {m}
    /\ metrics' = metrics \cup {m}
    /\ excused' = IF m < since THEN excused \cup {m} ELSE excused
    /\ late' = IF m < start THEN late \cup {m} ELSE late
    /\ UNCHANGED <<clock, events, cycle, tables, faults, again>>

CommitEvent(e) ==
    /\ e \notin events
    /\ events' = events \cup {e}
    /\ UNCHANGED <<clock, stamped, metrics, cycle, tables, faults, ghosts>>

-----------------------------------------------------------------------------
(* Collect: the metrics.                                                   *)

\* The answer of GET /towers only refreshes a copy of the list of towers.
Begin ==
    /\ pc = "idle"
    /\ pc' = "page"
    /\ start' = clock
    /\ UNCHANGED <<towercore, since, offset, got, unsaved, listed, tables, faults, ghosts>>

\* ORDER BY .. DESC LIMIT n OFFSET from.
Newest(S, n, from) ==
    {x \in S : LET newer == Cardinality({y \in S : y > x})
               IN from =< newer /\ newer < from + n}

From(t) == t - (t % Second)
Page == Newest({m \in metrics : m >= From(since)}, PageSize, offset)

\* A page that is full is taken not to be the last.
AfterFirstPage == "save"

AfterPage == IF Cardinality(Page) < PageSize THEN "save" ELSE "page"

GetPage ==
    /\ pc = "page"
    /\ pc' = AfterPage
    /\ offset' = offset + PageSize
    /\ got' = [m \in Time |-> IF m \in Page THEN got[m] + 1 ELSE got[m]]
    /\ unsaved' = {m \in Time : got'[m] > 0}
    /\ again' = again \cup {m \in Page : got[m] > 0 \/ m >= From(start)}
    /\ UNCHANGED <<towercore, since, start, listed, tables, faults, late, excused>>

\* A chunk is one INSERT; the batch is in the order the pages came.
Chunks == {S \in (SUBSET unsaved) \ {{}} : \A m \in S, n \in unsaved \ S : m > n}

Stored(S) ==
    [m \in Time |-> IF m \in S THEN Upto2(features[m] + got[m]) ELSE features[m]]

SaveChunk(S) ==
    /\ pc = "save"
    /\ features' = Stored(S)
    /\ unsaved' = unsaved \ S
    /\ UNCHANGED <<towercore, pc, since, start, offset, got, listed, evaluated, ai_events,
                   incidents, faults, ghosts>>

\* The marker is moved when everything has been stored and evaluated.
MarkerAtEnd == clock
MarkerKept == since

Marker == start

Evaluate ==
    /\ pc = "save" /\ unsaved = {}
    /\ pc' = "events"
    /\ got' = Nothing /\ offset' = 0
    /\ evaluated' = evaluated \cup {m \in Time : got[m] > 0}
    /\ since' = Marker
    /\ excused' = excused \cup late
    /\ UNCHANGED <<towercore, start, unsaved, listed, features, ai_events, incidents,
                   faults, late, again>>

-----------------------------------------------------------------------------
(* Collect: the events.                                                    *)

GetEvents ==
    /\ pc = "events"
    /\ pc' = "save events"
    /\ listed' = Newest(events, EventLimit, 0)
    /\ UNCHANGED <<towercore, since, start, offset, got, unsaved, tables, faults, ghosts>>

SaveEventsIgnoringErrors ==
    /\ pc = "save events"
    /\ pc' = "incidents"
    /\ ai_events' \in {ai_events, ai_events \cup listed}
    /\ UNCHANGED <<towercore, since, start, offset, got, unsaved, listed, features, evaluated,
                   incidents, faults, ghosts>>

SaveEvents ==
    /\ pc = "save events"
    /\ pc' = "incidents"
    /\ ai_events' = ai_events \cup listed
    /\ UNCHANGED <<towercore, since, start, offset, got, unsaved, listed, features, evaluated,
                   incidents, faults, ghosts>>

Incidents(e) == incidents[e].pending + incidents[e].decided

\* CreateFromPrediction, for the events that are a site down.
CreateIncident(e) ==
    /\ pc = "incidents"
    /\ e \in listed
    /\ listed' = listed \ {e}
    /\ incidents' = IF e \in Down /\ Incidents(e) < 2
                    THEN [incidents EXCEPT ![e].pending = @ + 1] ELSE incidents
    /\ UNCHANGED <<towercore, pc, since, start, offset, got, unsaved, features, evaluated,
                   ai_events, faults, ghosts>>

\* An error is logged and the loop goes on.
IncidentFails(e) ==
    /\ pc = "incidents"
    /\ faults < MaxFaults
    /\ faults' = faults + 1
    /\ e \in listed \cap Down
    /\ listed' = listed \ {e}
    /\ UNCHANGED <<towercore, pc, since, start, offset, got, unsaved, tables, ghosts>>

\* The variables of Collect are gone when it returns.
Return ==
    /\ pc' = "idle"
    /\ start' = 0 /\ offset' = 0
    /\ got' = Nothing /\ unsaved' = {} /\ listed' = {}
    /\ late' = {}

Finish ==
    /\ pc = "incidents" /\ listed = {}
    /\ Return
    /\ UNCHANGED <<towercore, since, tables, faults, excused, again>>

\* O&M confirms or corrects the cause of an incident.
Confirm(e) ==
    /\ incidents[e].pending > 0
    /\ incidents' = [incidents EXCEPT ![e] = [pending |-> @.pending - 1, decided |-> @.decided + 1]]
    /\ UNCHANGED <<towercore, cycle, features, evaluated, ai_events, faults, ghosts>>

-----------------------------------------------------------------------------
(* Failures.                                                               *)

\* A call fails, or the two minutes of the cycle are over: the cycle ends.  A
\* chunk may have been stored though its answer was lost.
Abandon ==
    /\ Return
    /\ again' = again \cup {m \in metrics : features'[m] > 0 /\ m >= From(since')}

Fail ==
    /\ pc \in {"page", "save", "events", "save events"}
    /\ faults < MaxFaults
    /\ faults' = faults + 1
    /\ \/ UNCHANGED features
       \/ pc = "save" /\ \E S \in Chunks : features' = Stored(S)
    /\ UNCHANGED <<towercore, since, evaluated, ai_events, incidents, excused>>
    /\ Abandon

\* The process is restarted: the marker starts again a fixed time ago.
FirstMarkerAhead == clock + Lookback

FirstMarker == IF clock > Lookback THEN clock - Lookback ELSE 0

Restart ==
    /\ faults < MaxFaults
    /\ faults' = faults + 1
    /\ since' = FirstMarker
    /\ excused' = excused \cup {m \in metrics : m < since'}
    /\ UNCHANGED <<towercore, tables>>
    /\ Abandon

Collect ==
    \/ Begin \/ GetPage \/ Evaluate \/ GetEvents \/ SaveEvents \/ Finish
    \/ \E S \in Chunks : SaveChunk(S)
    \/ \E e \in listed : CreateIncident(e)

Next ==
    \/ Tick
    \/ \E m \in stamped : CommitMetric(m)
    \/ \E e \in Events : CommitEvent(e)
    \/ Collect
    \/ \E e \in listed : IncidentFails(e)
    \/ \E e \in Events : Confirm(e)
    \/ Fail \/ Restart

Spec == Init /\ [][Next]_vars

\* The ticker starts the next cycle, and every call of a cycle has a timeout.
FairSpec == Spec /\ WF_vars(Collect)

-----------------------------------------------------------------------------
TypeOK ==
    /\ clock \in Time
    /\ stamped \subseteq 1..clock /\ metrics \subseteq 1..clock
    /\ events \subseteq Events /\ listed \subseteq events
    /\ pc \in {"idle", "page", "save", "events", "save events", "incidents"}
    /\ since \in 0..clock /\ start \in 0..clock /\ offset \in Nat
    /\ got \in [Time -> Nat] /\ features \in [Time -> 0..2]
    /\ unsaved \subseteq metrics /\ evaluated \subseteq metrics
    /\ ai_events \subseteq Events
    /\ incidents \in [Events -> [pending : 0..2, decided : 0..2]]
    /\ faults \in 0..MaxFaults

\* The marker passes no metric that was not stored and compared with the alert
\* rules, whatever fails: only one that was committed after the cycle that
\* passed it began, or that a restart left behind, is missed (Collect: "o
\* proximo tenta outra vez a partir do mesmo ponto").
PassedIsStored ==
    \A m \in metrics \ excused : m < since => features[m] > 0 /\ m \in evaluated

\* A metric is stored twice only if a cycle was abandoned, or if it was read
\* twice by one cycle, or was no older than the second in which the cycle that
\* stored it began: the pages of a growing table repeat rows (GetMetrics).
StoredAgainHasCause == \A m \in Time : features[m] > 1 => m \in again

\* An incident is recorded of stored site-down events only, though the two
\* tables are written one after the other (saveEvents, detectIncidents).
IncidentsAreOfStoredEvents ==
    \A e \in Events : Incidents(e) > 0 => e \in Down \cap ai_events

\* The invariants of the feed together.
FeedInv == TypeOK /\ PassedIsStored /\ StoredAgainHasCause /\ IncidentsAreOfStoredEvents

\* detectIncidents: "cria um registo em site_incident_causes para cada evento
\* de queda".
OneIncidentPerEvent ==
    \A e \in Events : Incidents(e) =< 1

\* Once metrics and events stop coming the platform has them all, however long
\* its cycles failed: those that were not too late for the marker, and those
\* that are among the newest ones (Collect, GetEvents).
CatchesUp ==
    <>[](/\ \A m \in metrics \ excused : features[m] > 0
         /\ \A e \in Newest(events, EventLimit, 0) : e \in ai_events)
=============================================================================
