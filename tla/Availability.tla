---------------------------- MODULE Availability ----------------------------
(***************************************************************************)
(* The availability of a tower: AvailabilityService.Calculate reads the    *)
(* tower, its failure events and its last metric in three statements while *)
(* others write, and takes the longer of two downtimes.                    *)
(*                                                                         *)
(* Only events of type failure count.  The SNMP and NetEco collectors make *)
(* none (theirs are alarms): clients post them, at any time and for good,  *)
(* and the two Nagios schedulers (of the API and of the scheduler) make    *)
(* and resolve them under one key.  No query reads nagios_enabled, so that *)
(* today they find no tower to ask for: the steps of Nagios are those of   *)
(* its service, not of a tower that is polled now.                         *)
(*                                                                         *)
(* Time is counted in hours; hour h runs from h to h + 1.                  *)
(* Definitions that no other definition uses, each just before the one it  *)
(* resembles, are plausible bugs that the properties are tested with.      *)
(***************************************************************************)
EXTENDS Integers, Sequences, FiniteSets

CONSTANTS
    Births,     \* when the tower may have been created: hour 0 or 1
    Window,     \* length of the window
    Stale,      \* staleThreshold
    FirstHour,  \* the time at first
    MaxTime,    \* bound: the last hour
    MaxEvents,  \* bound: events of the tower
    None

Parameters ==
    /\ Window \in Nat /\ Stale \in Nat /\ MaxEvents \in Nat
    /\ MaxTime \in Nat /\ FirstHour \in 1 .. MaxTime
    /\ Births \subseteq {0, 1}
    /\ None \notin Nat

VARIABLES
    now,
    created,    \* when the tower was created
    events,     \* its failure events
    lastMetric, \* MAX(collected_at) of its metrics
    pc,         \* the statement the request runs next
    window,     \* the window it calculates for
    down,       \* the failure downtime it has read
    atEnd       \* the downtime as it was when the window ended, None once news of the
                \* window has been stored

vars == <<now, created, events, lastMetric, pc, window, down, atEnd>>

Time == 0 .. MaxTime

\* An event has the key nagios_host_status, or none.
Event == [keyed : BOOLEAN, occurred_at : Time, resolved_at : Time \cup {None}]

NoWindow == [start |-> 0, end |-> 0]

Init ==
    /\ now = FirstHour
    /\ created \in Births
    /\ events = << >>
    /\ lastMetric \in {None, 1}
    /\ pc = "idle"
    /\ window = NoWindow
    /\ down = 0
    /\ atEnd = None

Least(a, b) == IF a < b THEN a ELSE b
Greatest(a, b) == IF a < b THEN b ELSE a

-----------------------------------------------------------------------------
(* SumFailureDowntime and the rule of silence.                              *)

Until(e, w) == IF e.resolved_at = None THEN w.end ELSE e.resolved_at

\* The events whose interval meets the window.
Meeting(list, w) ==
    {i \in DOMAIN list : list[i].occurred_at < w.end /\ Until(list[i], w) > w.start}

\* What such an event shares with the window.
Share(e, w) == Least(Until(e, w), w.end) - Greatest(e.occurred_at, w.start)

Total(hours) ==
    LET sum[n \in 0 .. Len(hours)] == IF n = 0 THEN 0 ELSE sum[n - 1] + hours[n]
    IN  sum[Len(hours)]

\* Events that began before the window are left out.
SumOfBegun(list, w) ==
    Total([i \in DOMAIN list |->
        IF i \in Meeting(list, w) /\ list[i].occurred_at >= w.start THEN Share(list[i], w) ELSE 0])

SumFailureDowntime(list, w) ==
    Total([i \in DOMAIN list |-> IF i \in Meeting(list, w) THEN Share(list[i], w) ELSE 0])

SilenceDowntime(last, w) ==
    CASE last = None -> w.end - w.start
      [] last # None /\ last < w.end - Stale -> w.end - Greatest(last, w.start)
      [] OTHER -> 0

Capped(failed, silent, w) == Greatest(Least(Greatest(failed, silent), w.end - w.start), 0)

Downtime(list, last, w) == Capped(SumFailureDowntime(list, w), SilenceDowntime(last, w), w)

-----------------------------------------------------------------------------
(* A request.                                                               *)

\* The window ends when the tower has been read; one without length has no downtime,
\* and nothing more is read for it.
GetByID ==
    /\ pc = "idle"
    /\ LET w == [start |-> Greatest(created, now - Window), end |-> now]
       IN /\ w.start < w.end
          /\ window' = w
          /\ atEnd' = Downtime(events, lastMetric, w)
    /\ pc' = "SumFailureDowntime"
    /\ UNCHANGED <<now, created, events, lastMetric, down>>

ReadFailures ==
    /\ pc = "SumFailureDowntime"
    /\ down' = SumFailureDowntime(events, window)
    /\ pc' = "LastCollectedAt"
    /\ UNCHANGED <<now, created, events, lastMetric, window, atEnd>>

\* What it answers with when LastCollectedAt has read the last metric.
Answer == Capped(down, SilenceDowntime(lastMetric, window), window)

\* The answer is given and nothing of it is kept; the handler shows the column of the
\* tower instead when a statement failed.
Returns ==
    /\ pc' = "idle"
    /\ window' = NoWindow
    /\ down' = 0
    /\ atEnd' = None
    /\ UNCHANGED <<now, created, events, lastMetric>>
ReadLastMetric == pc = "LastCollectedAt" /\ Returns
Fail == pc = "SumFailureDowntime" /\ Returns

-----------------------------------------------------------------------------
(* The writers meanwhile.                                                   *)

Asking == pc \in {"SumFailureDowntime", "LastCollectedAt"}
Unasked == UNCHANGED <<pc, window, down>>
Heard(news) == atEnd' = IF Asking /\ news THEN None ELSE atEnd

Insert(keyed, at) ==
    /\ Len(events) < MaxEvents
    /\ events' = Append(events, [keyed |-> keyed, occurred_at |-> at, resolved_at |-> None])
    /\ Heard(at < window.end)
    /\ UNCHANGED <<now, created, lastMetric>>
    /\ Unasked

\* A posted event says itself when it occurred, or is to.
Post == \E at \in Time : Insert(FALSE, at)

Open == {i \in DOMAIN events : events[i].keyed /\ events[i].resolved_at = None}

\* Of a host that is down the event occurred at its last change of state; an open event
\* is only touched, and the index refuses a second one.
CreateOrTouch == Open = {} /\ \E at \in 0 .. now : Insert(TRUE, at)

ResolvedAt(at) ==
    [i \in DOMAIN events |->
        IF i \in Open THEN [events[i] EXCEPT !.resolved_at = at] ELSE events[i]]

\* Of a host that is up: the instant was taken before, and anything may have happened
\* until the UPDATE runs (or never does).
Resolve ==
    /\ Open # {}
    /\ \E at \in 0 .. now : events' = ResolvedAt(at) /\ Heard(at < window.end)
    /\ UNCHANGED <<now, created, lastMetric>>
    /\ Unasked

\* The metric that becomes the last, collected or posted; an older one changes no MAX.
Collect ==
    /\ lastMetric' \in {at \in Time : lastMetric = None \/ lastMetric < at}
    /\ Heard(SilenceDowntime(lastMetric, window) > 0)
    /\ UNCHANGED <<now, created, events>>
    /\ Unasked

Tick ==
    /\ now < MaxTime
    /\ now' = now + 1
    /\ UNCHANGED <<created, events, lastMetric, atEnd>>
    /\ Unasked

Next ==
    \/ GetByID \/ ReadFailures \/ ReadLastMetric \/ Fail
    \/ Post \/ CreateOrTouch \/ Resolve \/ Collect \/ Tick

Spec == Init /\ [][Next]_vars

-----------------------------------------------------------------------------
TypeOK ==
    /\ now \in 1 .. MaxTime
    /\ created \in {0, 1}
    /\ events \in Seq(Event)
    /\ lastMetric \in Time \cup {None}
    /\ pc \in {"idle", "SumFailureDowntime", "LastCollectedAt"}
    /\ down \in Int
    /\ atEnd \in (0 .. Window) \cup {None}

\* The hours of the window in which some failure was open, and those without a metric.
Hours(w) == w.start .. w.end - 1
FailedHours(list, w) ==
    {h \in Hours(w) : \E i \in DOMAIN list :
        list[i].occurred_at <= h /\ Until(list[i], w) > h}
SilentHours(last, w) ==
    IF last = None THEN Hours(w)
    ELSE IF last < w.end - Stale THEN {h \in Hours(w) : h >= last} ELSE {}

Overlap(list, w) ==
    \E i, j \in Meeting(list, w) :
        i # j /\ FailedHours(<<list[i]>>, w) \cap FailedHours(<<list[j]>>, w) # {}

\* Resolved before it occurred: its share is negative.
Inverted(list, w) == \E i \in Meeting(list, w) : Until(list[i], w) < list[i].occurred_at

\* The formula against the hours it stands for, in every state: never less than the
\* silence, never more than the window; never less than the failures unless one of them
\* was resolved with an instant from before it occurred; and without such a one exactly
\* the longer of failures and silence, unless failures overlap, whose hours count twice
\* (SumFailureDowntime, Calculate: "não soma, para não duplicar").
CountsTheHours ==
    LET w == [start |-> Greatest(created, now - Window), end |-> now]
        failed == Cardinality(FailedHours(events, w))
        silent == Cardinality(SilentHours(lastMetric, w))
        counted == Downtime(events, lastMetric, w)
    IN /\ silent <= counted /\ counted <= w.end - w.start
       /\ ~Inverted(events, w) =>
             /\ failed <= counted
             /\ ~Overlap(events, w) => counted = Greatest(failed, silent)

\* An answer is that of the moment at which its window ended, although the events and
\* the metric are read later, unless news of the window was stored in between: a metric
\* that broke a silence, an event that had occurred, or a resolution whose instant was
\* taken before the end and whose UPDATE came after it (Calculate, EventService.Resolve).
AnswerIsOfItsInstant ==
    pc = "LastCollectedAt" => atEnd \in {Answer, None}

AvailabilityInv == TypeOK /\ CountsTheHours /\ AnswerIsOfItsInstant
=============================================================================
