---------------------------- MODULE VendorAlarms ----------------------------
(***************************************************************************)
(* What one poller makes of a tower's readings with the alarm rules of its *)
(* vendor's profile (VendorProfiles): GoSNMPCollector.Collect, Ingest, and *)
(* the two ways in which collectTower records that a poll failed.          *)
(*                                                                         *)
(* Abstracted: a poll is one step (AlarmLifecycle interleaves its          *)
(* statements with those of others), and two metrics of the profile are    *)
(* looked at.                                                              *)
(* Definitions that no other definition uses, each just before the one it  *)
(* resembles, are plausible bugs that the properties are tested with.      *)
(***************************************************************************)
EXTENDS Integers, Sequences, FiniteSetsExt

CONSTANTS
    Profiles,   \* of each vendor: a sequence of alarm rules
    Rules,      \* of each vendor's metrics: the places of their rules in it
    Values,     \* of each vendor's metrics: what they may read
    Ignored,    \* of each vendor's metrics: the values that mean an empty slot
    MaxPolls,   \* bound: polls of the tower
    MaxFaults,  \* bound: polls in which a statement fails
    None

VARIABLES
    vendor,
    watched,  \* the two metrics that are looked at
    last,     \* their values in the last ingest, and whether it went well
    status,   \* the tower's
    event,    \* the severity of the open event of each
    polls,
    faults,
    made,     \* how many events were made of each, each with its ticket
    alarm     \* whether a rule of each fired when it last answered, and how often the
              \* alarm began, or went on while another rule of it was quiet

vars == <<vendor, watched, last, status, event, polls, faults, made, alarm>>

Alarms == Profiles[vendor]
RulesOf(k) == Rules[vendor][k]

Rule == [key : STRING, severity : {"warning", "critical"}, cond : {"gt", "lt", "eq"},
         threshold : Int, ignoreZero : BOOLEAN]

\* The first fires whenever the second does; or the two never fire together.
Covers(first, second) ==
    /\ first.cond = second.cond
    /\ first.ignoreZero => second.ignoreZero
    /\ first.cond \in {"gt", "eq"} => first.threshold <= second.threshold
    /\ first.cond \in {"lt", "eq"} => first.threshold >= second.threshold
Exclude(first, second) ==
    /\ first.cond = "gt" /\ second.cond = "lt"
    /\ second.threshold <= first.threshold + 1

\* Some rules of a metric exclude each other, or its first rule covers the others.
WellOrdered(rules, profile) ==
    \/ \E i, j \in rules : Exclude(profile[i], profile[j])
    \/ \E i \in rules : \A j \in rules : i <= j /\ Covers(profile[i], profile[j])

Parameters ==
    /\ MaxPolls \in Nat
    /\ None \notin Int \cup {"warning", "critical"}
    /\ \A v \in DOMAIN Profiles : \A k \in DOMAIN Rules[v] :
          /\ Rules[v][k] \subseteq Nat
          /\ \A i \in Rules[v][k] : Profiles[v][i] \in Rule
          /\ Values[v][k] \subseteq Int
          /\ WellOrdered(Rules[v][k], Profiles[v])

-----------------------------------------------------------------------------
(* Ingest.                                                                  *)

\* No rule of a profile uses the other three conditions.
MatchCondition(value, cond, threshold) ==
    \/ cond = "gt" /\ value > threshold
    \/ cond = "lt" /\ value < threshold
    \/ cond = "eq" /\ value = threshold

NormalizeSamples(samples) ==
    [k \in watched |-> IF samples[k] \in Ignored[vendor][k] THEN None ELSE samples[k]]

Evaluated(values, k) == {i \in RulesOf(k) : values[k] # None}
Fires(rule, value) ==
    /\ ~(rule.ignoreZero /\ value = 0)
    /\ MatchCondition(value, rule.cond, rule.threshold)
Firing(values, k) == {i \in Evaluated(values, k) : Fires(Alarms[i], values[k])}
Quiet(values, k) == Evaluated(values, k) \ Firing(values, k)

NewStatus(values) ==
    IF \E k \in watched : Firing(values, k) # {} THEN "degraded" ELSE "online"

Resolve(events, values, failed) ==
    [k \in watched |-> IF Quiet(values, k) # {} /\ k \notin failed THEN None ELSE events[k]]

\* The first rule that fires makes the event, the others touch it.
CreateOrTouch(events, values, failed) ==
    [k \in watched |->
        IF Firing(values, k) # {} /\ k \notin failed /\ events[k] = None
        THEN Alarms[Min(Firing(values, k))].severity
        ELSE events[k]]

RaisedThenResolved(events, values, unresolved, unraised) ==
    Resolve(CreateOrTouch(events, values, unraised), values, unresolved)
AfterAlarms(events, values, unresolved, unraised) ==
    CreateOrTouch(Resolve(events, values, unresolved), values, unraised)

-----------------------------------------------------------------------------
(* A poll of the tower.                                                     *)

Init ==
    /\ vendor \in DOMAIN Profiles
    /\ watched \in kSubset(2, DOMAIN Rules[vendor])
    /\ last = [values |-> [k \in watched |-> None], clean |-> TRUE]
    /\ status = "no_data"
    /\ event = [k \in watched |-> None]
    /\ polls = 0
    /\ faults = 0
    /\ made = [k \in watched |-> 0]
    /\ alarm = [k \in watched |-> [on |-> FALSE, times |-> 0]]

PollOnce ==
    /\ polls < MaxPolls
    /\ polls' = polls + 1
    /\ UNCHANGED <<vendor, watched>>
Fault == faults < MaxFaults /\ faults' = faults + 1
Alone == UNCHANGED <<last, event, made, alarm>>

\* What a GET may answer: a value that is no number is left out.
Answers ==
    {s \in [watched -> (UNION {Values[vendor][k] : k \in watched}) \cup {None}] :
        \A k \in watched : s[k] \in Values[vendor][k] \cup {None}}

Remember(values, unresolved) ==
    /\ made' = [k \in watched |->
            IF Resolve(event, values, unresolved)[k] = None /\ event'[k] # None
            THEN made[k] + 1 ELSE made[k]]
    /\ alarm' = [k \in watched |->
            IF values[k] = None THEN alarm[k]
            ELSE IF Firing(values, k) = {} THEN [alarm[k] EXCEPT !.on = FALSE]
            ELSE IF alarm[k].on /\ Quiet(values, k) = {} THEN alarm[k]
            ELSE [on |-> TRUE, times |-> alarm[k].times + 1]]

Ingest(samples, unresolved, unraised) ==
    LET values == NormalizeSamples(samples)
    IN /\ status' = NewStatus(values)
       /\ event' = AfterAlarms(event, values, unresolved, unraised)
       /\ last' = [values |-> values, clean |-> unresolved \cup unraised = {}]
       /\ Remember(values, unresolved)

Collected == \E s \in Answers : PollOnce /\ Ingest(s, {}, {}) /\ UNCHANGED faults

\* A failed resolve or raise is logged, and the rest goes on (those of one key fail together).
CollectedInPart ==
    \E s \in Answers, k \in watched :
        /\ PollOnce /\ Fault
        /\ Ingest(s, {k}, {}) \/ Ingest(s, {}, {k})

\* The tower has its status, but the success cannot be recorded: no alarm is looked at.
MarkCollectionSuccessFails ==
    \E s \in Answers :
        /\ PollOnce /\ Fault
        /\ status' = NewStatus(NormalizeSamples(s))
        /\ last' = [last EXCEPT !.clean = FALSE]
        /\ UNCHANGED <<event, made, alarm>>

\* The network, the settings of the tower, or the GET.
MarkUnreachable ==
    /\ PollOnce
    /\ status' = "offline"
    /\ UNCHANGED faults
    /\ Alone

\* Nothing in the answer is a number of the profile, or the metric or the status
\* cannot be stored: the status stays.
MarkIngestConfigError ==
    /\ PollOnce
    /\ UNCHANGED <<status, faults>>
    /\ Alone

Next ==
    \/ Collected \/ CollectedInPart \/ MarkCollectionSuccessFails
    \/ MarkUnreachable \/ MarkIngestConfigError

Spec == Init /\ [][Next]_vars

-----------------------------------------------------------------------------
TypeOK ==
    /\ vendor \in DOMAIN Profiles
    /\ watched \subseteq DOMAIN Rules[vendor]
    /\ status \in {"no_data", "online", "degraded", "offline"}
    /\ event \in [watched -> {None, "warning", "critical"}]
    /\ made \in [watched -> 0 .. MaxPolls]
    /\ alarm \in [watched -> [on : BOOLEAN, times : 0 .. MaxPolls]]

\* After an ingest that went well an alarm has an open event exactly if one of its rules
\* fired, however many others did not: resolving comes before raising (Ingest). A metric
\* that was not answered keeps its event.
EventsShowTheReading ==
    last.clean => \A k \in watched :
        last.values[k] # None => (event[k] # None <=> Firing(last.values, k) # {})

\* A tower that is shown online has open events only of metrics it no longer answers,
\* and one that is degraded has an open event (NewStatus, before the alarms).
StatusTellsTheEvents ==
    last.clean =>
        /\ status = "online" => \A k \in watched : event[k] # None => last.values[k] = None
        /\ status = "degraded" => \E k \in watched : event[k] # None

\* An alarm that goes on keeps one event and ticket, but gets a new one in every ingest
\* in which one of its rules fires and another does not (alarm keys are shared by rules).
\* A failed statement makes fewer, never more.
OneEventUnlessTiersDiffer ==
    \A k \in watched :
        /\ made[k] <= alarm[k].times
        /\ faults = 0 => made[k] = alarm[k].times

\* The severity of an open event is that of a rule that fires at the last answer, though
\* an open event keeps the severity it was made with and the tiers of an alarm share one
\* key: when a tier goes quiet its event is resolved and made anew (Ingest).
SeverityIsOfAFiringRule ==
    \A k \in watched :
        faults = 0 /\ event[k] # None /\ last.values[k] # None =>
            \E i \in Firing(last.values, k) : event[k] = Alarms[i].severity

\* The invariants of the rules together.
RulesInv ==
    TypeOK /\ EventsShowTheReading /\ StatusTellsTheEvents /\ OneEventUnlessTiersDiffer
    /\ SeverityIsOfAFiringRule
=============================================================================
