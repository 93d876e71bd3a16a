--------------------------- MODULE AlarmLifecycle ---------------------------
(***************************************************************************)
(* From a reading to an event to a ticket: SNMPIngestService.Ingest and    *)
(* NetEcoAlarmService.HandleTrap over EventService.CreateOrTouch / Resolve *)
(* and TicketService.Create.                                               *)
(*                                                                         *)
(* A worker is one goroutine that runs Ingest (a poller: the API process   *)
(* and the scheduler process both poll the same towers against the same    *)
(* database) or HandleTrap (a trap handler).  Every SQL statement is one   *)
(* step: no transaction spans two of them.  The slices toResolve and       *)
(* triggered of Ingest are the sets resolve and trigger, whose items carry *)
(* the position of their rule in the profile and are taken in that order.  *)
(*                                                                         *)
(* Definitions that no other definition uses, each just before the one it  *)
(* resembles, are plausible bugs that the properties are tested with.      *)
(***************************************************************************)
EXTENDS Integers, Sequences

CONSTANTS
    Pollers,       \* workers that run Ingest
    TrapHandlers,  \* workers that run HandleTrap
    Towers,
    Rules,         \* profile.Alarms: a sequence of [key, cond, threshold, ignoreZero]
    TrapKeys,      \* alarm keys built from NetEco traps
    Values,        \* readings a metric may take
    EventIds,
    Faults,        \* which of "crash" and "db" may happen
    MaxInputs,     \* bound on changes of the readings and traps received
    None           \* no row, no reading

Workers == Pollers \cup TrapHandlers
RuleKeys == {Rules[i].key : i \in DOMAIN Rules}
Keys == RuleKeys \cup TrapKeys

ASSUME AlarmAssumption ==
    /\ DOMAIN Rules \subseteq Int
    /\ None \notin EventIds
    /\ None \notin [tower : Towers, key : Keys,
                    status : {"open", "resolved"}, late : BOOLEAN]

VARIABLES
    reading,   \* reading[t][k]: what tower t would answer for metric k
    inputs,    \* readings changed and traps received so far
    event,     \* the events table
    tickets,   \* the tickets table: how many tickets name each event
    pc,        \* the statement each worker runs next
    tower,     \* the tower each worker is working for
    resolve,   \* alarms each worker still has to resolve
    trigger,   \* alarms each worker still has to create or touch
    at         \* the event row FindOpen returned, or Create wrote

vars == <<reading, inputs, event, tickets, pc, tower, resolve, trigger, at>>
tables == <<event, tickets>>
world == <<reading, inputs>>

Item == [rank : Int, key : Keys]
Row == [tower : Towers, key : Keys, status : {"open", "resolved"}, late : BOOLEAN]

-----------------------------------------------------------------------------
(* Evaluating the rules of a profile.                                      *)

MatchCondition(value, cond, threshold) ==
    \/ cond = "gt"  /\ value > threshold
    \/ cond = "gte" /\ value >= threshold
    \/ cond = "lt"  /\ value < threshold
    \/ cond = "lte" /\ value =< threshold
    \/ cond = "eq"  /\ value = threshold
    \/ cond = "ne"  /\ value # threshold

Fires(rule, value) ==
    /\ ~(rule.ignoreZero /\ value = 0)
    /\ MatchCondition(value, rule.cond, rule.threshold)

Evaluated(t) == {i \in DOMAIN Rules : reading[t][Rules[i].key] # None}
Firing(t) == {i \in Evaluated(t) : Fires(Rules[i], reading[t][Rules[i].key])}

\* A zero that the rule ignores resolves the alarm as any quiet value does.
ToResolveUnlessZero(t) ==
    {i \in Evaluated(t) \ Firing(t) : ~(Rules[i].ignoreZero /\ reading[t][Rules[i].key] = 0)}
ToResolveAll(t) == Evaluated(t)
ToResolve(t) == Evaluated(t) \ Firing(t)

Items(ranks) == {[rank |-> i, key |-> Rules[i].key] : i \in ranks}

IsFirst(w, items) == w \in items /\ \A v \in items : w.rank =< v.rank

-----------------------------------------------------------------------------
(* The tables.                                                             *)

Stored(e) == event[e] # None
IsOpen(e) == Stored(e) /\ event[e].status = "open"
OpenRows(t, k) == {e \in EventIds : IsOpen(e) /\ event[e].tower = t /\ event[e].key = k}

FindAny(t, k) == {e \in EventIds : Stored(e) /\ event[e].tower = t /\ event[e].key = k}
FindOpen(t, k) == OpenRows(t, k)

RowWithoutStatus(t, k) == [tower |-> t, key |-> k, status |-> "", late |-> FALSE]
NewRow(t, k) == [tower |-> t, key |-> k, status |-> "open", late |-> FALSE]

Resolved(t, k) ==
    [e \in EventIds |-> IF e \in OpenRows(t, k)
                        THEN [event[e] EXCEPT !.status = "resolved"]
                        ELSE event[e]]

ReopenedRow(e) == [event[e] EXCEPT !.status = "open"]
TouchedRow(e) == [event[e] EXCEPT !.late = (@ \/ event[e].status = "resolved")]

\* The partial unique index on (tower_id, alarm_key) where status = 'open'.
NoUniqueIndex(t, k) == FALSE
ViolatesOpenUnique(t, k) == OpenRows(t, k) # {}

-----------------------------------------------------------------------------
Idle(p) == pc[p] = "next" /\ resolve[p] = {} /\ trigger[p] = {}

Init ==
    /\ reading \in [Towers -> [RuleKeys -> Values \cup {None}]]
    /\ inputs = 0
    /\ event = [e \in EventIds |-> None]
    /\ tickets = [e \in EventIds |-> 0]
    /\ pc = [p \in Workers |-> "next"]
    /\ tower \in [Workers -> Towers]
    /\ resolve = [p \in Workers |-> {}]
    /\ trigger = [p \in Workers |-> {}]
    /\ at = [p \in Workers |-> None]

\* The equipment changes state.
ChangeReading(t, k, v) ==
    /\ inputs < MaxInputs
    /\ reading[t][k] # v
    /\ inputs' = inputs + 1
    /\ reading' = [reading EXCEPT ![t][k] = v]
    /\ UNCHANGED <<tables, pc, tower, resolve, trigger, at>>

\* A poller has collected tower t, stored the metric and updated the tower
\* row; what is left of Ingest is the list of alarms to resolve and to raise.
StartIngest(p, t) ==
    /\ Idle(p)
    /\ tower' = [tower EXCEPT ![p] = t]
    /\ resolve' = [resolve EXCEPT ![p] = Items(ToResolve(t))]
    /\ trigger' = [trigger EXCEPT ![p] = Items(Firing(t))]
    /\ UNCHANGED <<world, tables, pc, at>>

\* A trap for tower t: a clear resolves its key, a warning or critical
\* alarm raises it.  Traps come in any order, any number of times.
StartTrap(h, t, k) ==
    /\ Idle(h)
    /\ inputs < MaxInputs
    /\ inputs' = inputs + 1
    /\ tower' = [tower EXCEPT ![h] = t]
    /\ \/ /\ resolve' = [resolve EXCEPT ![h] = {[rank |-> 0, key |-> k]}]
          /\ UNCHANGED trigger
       \/ /\ trigger' = [trigger EXCEPT ![h] = {[rank |-> 0, key |-> k]}]
          /\ UNCHANGED resolve
    /\ UNCHANGED <<reading, tables, pc, at>>

ResolveItem(p, w) ==
    /\ pc[p] = "next"
    /\ IsFirst(w, resolve[p])
    /\ event' = Resolved(tower[p], w.key)
    /\ resolve' = [resolve EXCEPT ![p] = @ \ {w}]
    /\ UNCHANGED <<world, tickets, pc, tower, trigger, at>>

FindItem(p, w) ==
    /\ pc[p] = "next"
    /\ resolve[p] = {}
    /\ IsFirst(w, trigger[p])
    /\ \/ \E e \in FindOpen(tower[p], w.key) :
             /\ at' = [at EXCEPT ![p] = e]
             /\ pc' = [pc EXCEPT ![p] = "touch"]
       \/ /\ FindOpen(tower[p], w.key) = {}
          /\ pc' = [pc EXCEPT ![p] = "insert"]
          /\ UNCHANGED at
    /\ UNCHANGED <<world, tables, tower, resolve, trigger>>

\* The item is done: the loop goes on with the next triggered alarm.
DoneItem(p, w) ==
    /\ pc' = [pc EXCEPT ![p] = "next"]
    /\ trigger' = [trigger EXCEPT ![p] = @ \ {w}]
    /\ at' = [at EXCEPT ![p] = None]

TouchThenTicket(p, w) ==
    /\ pc[p] = "touch"
    /\ IsFirst(w, trigger[p])
    /\ event' = [event EXCEPT ![at[p]] = TouchedRow(at[p])]
    /\ pc' = [pc EXCEPT ![p] = "ticket"]
    /\ UNCHANGED <<world, tickets, tower, resolve, trigger, at>>

TouchItem(p, w) ==
    /\ pc[p] = "touch"
    /\ IsFirst(w, trigger[p])
    /\ event' = [event EXCEPT ![at[p]] = TouchedRow(at[p])]
    /\ DoneItem(p, w)
    /\ UNCHANGED <<world, tickets, tower, resolve>>

InsertItem(p, w, e) ==
    /\ pc[p] = "insert"
    /\ IsFirst(w, trigger[p])
    /\ ~Stored(e)
    /\ ~ViolatesOpenUnique(tower[p], w.key)
    /\ event' = [event EXCEPT ![e] = NewRow(tower[p], w.key)]
    /\ pc' = [pc EXCEPT ![p] = "ticket"]
    /\ at' = [at EXCEPT ![p] = e]
    /\ UNCHANGED <<world, tickets, tower, resolve, trigger>>

\* Another worker inserted first: the index refuses the row, the error is
\* logged and the loop goes on.
InsertRefused(p, w) ==
    /\ pc[p] = "insert"
    /\ IsFirst(w, trigger[p])
    /\ ViolatesOpenUnique(tower[p], w.key)
    /\ DoneItem(p, w)
    /\ UNCHANGED <<world, tables, tower, resolve>>

TicketIfStillOpen(p, w) ==
    /\ pc[p] = "ticket"
    /\ IsFirst(w, trigger[p])
    /\ tickets' = IF IsOpen(at[p]) THEN [tickets EXCEPT ![at[p]] = @ + 1] ELSE tickets
    /\ DoneItem(p, w)
    /\ UNCHANGED <<world, event, tower, resolve>>

CreateTicket(p, w) ==
    /\ pc[p] = "ticket"
    /\ IsFirst(w, trigger[p])
    /\ tickets' = [tickets EXCEPT ![at[p]] = @ + 1]
    /\ DoneItem(p, w)
    /\ UNCHANGED <<world, event, tower, resolve>>

-----------------------------------------------------------------------------
(* Failures.                                                               *)

\* A statement fails (or times out) without effect; the error is logged.
ResolveFails(p, w) ==
    /\ "db" \in Faults
    /\ pc[p] = "next"
    /\ IsFirst(w, resolve[p])
    /\ resolve' = [resolve EXCEPT ![p] = @ \ {w}]
    /\ UNCHANGED <<world, tables, pc, tower, trigger, at>>

RaiseFails(p, w) ==
    /\ "db" \in Faults
    /\ resolve[p] = {}
    /\ IsFirst(w, trigger[p])
    /\ DoneItem(p, w)
    /\ UNCHANGED <<world, tables, tower, resolve>>

\* The row is committed but the answer is lost: Create returns an error.
InsertUnanswered(p, w, e) ==
    /\ "db" \in Faults
    /\ pc[p] = "insert"
    /\ IsFirst(w, trigger[p])
    /\ ~Stored(e)
    /\ ~ViolatesOpenUnique(tower[p], w.key)
    /\ event' = [event EXCEPT ![e] = NewRow(tower[p], w.key)]
    /\ DoneItem(p, w)
    /\ UNCHANGED <<world, tickets, tower, resolve>>

\* The process stops and is started again: the rest of the work is lost.
Crash(p) ==
    /\ "crash" \in Faults
    /\ ~Idle(p)
    /\ pc' = [pc EXCEPT ![p] = "next"]
    /\ resolve' = [resolve EXCEPT ![p] = {}]
    /\ trigger' = [trigger EXCEPT ![p] = {}]
    /\ at' = [at EXCEPT ![p] = None]
    /\ UNCHANGED <<world, tables, tower>>

-----------------------------------------------------------------------------
Raising(p, w) ==
    \/ FindItem(p, w)
    \/ TouchItem(p, w)
    \/ \E e \in EventIds : InsertItem(p, w, e)
    \/ InsertRefused(p, w)
    \/ CreateTicket(p, w)

Step(p) ==
    \/ \E w \in resolve[p] : ResolveItem(p, w)
    \/ \E w \in trigger[p] : Raising(p, w)

Failure(p) ==
    \/ \E w \in resolve[p] : ResolveFails(p, w)
    \/ \E w \in trigger[p] :
          \/ RaiseFails(p, w)
          \/ \E e \in EventIds : InsertUnanswered(p, w, e)
    \/ Crash(p)

Next ==
    \/ \E t \in Towers, k \in RuleKeys, v \in Values \cup {None} : ChangeReading(t, k, v)
    \/ \E p \in Pollers, t \in Towers : StartIngest(p, t)
    \/ \E h \in TrapHandlers, t \in Towers, k \in TrapKeys : StartTrap(h, t, k)
    \/ \E p \in Workers : Step(p) \/ Failure(p)

Spec == Init /\ [][Next]_vars

\* Every cycle of the scheduler collects every tower, and a worker that has
\* started goes on to the end of its list.
Fairness ==
    /\ \A p \in Pollers, t \in Towers : SF_vars(StartIngest(p, t))
    /\ \A p \in Workers : WF_vars(Step(p))

FairSpec == Spec /\ Fairness

-----------------------------------------------------------------------------
(* Properties.                                                             *)

TypeOK ==
    /\ reading \in [Towers -> [RuleKeys -> Values \cup {None}]]
    /\ inputs \in Nat
    /\ event \in [EventIds -> Row \cup {None}]
    /\ tickets \in [EventIds -> Nat]
    /\ pc \in [Workers -> {"next", "touch", "insert", "ticket"}]
    /\ tower \in [Workers -> Towers]
    /\ resolve \in [Workers -> SUBSET Item]
    /\ trigger \in [Workers -> SUBSET Item]
    /\ at \in [Workers -> EventIds \cup {None}]

\* Whatever workers race on an alarm, at most one of its events is open at a
\* time (migration 00005, EventService.CreateOrTouch).
OneOpenPerAlarm ==
    \A e, f \in EventIds :
        IsOpen(e) /\ IsOpen(f) /\ event[e].tower = event[f].tower /\ event[e].key = event[f].key
            => e = f

\* An event is never given two tickets, though several workers see it and
\* each of them touches it again every cycle (TicketService.Create).
OneTicketPerEvent == \A e \in EventIds : tickets[e] =< 1

\* A resolved event stays resolved: an alarm that comes back gets an event of
\* its own, so no later cycle can reopen or move a row that was closed.
ResolvedIsFinal ==
    [][\A e \in EventIds :
          Stored(e) => /\ Stored(e)'
                       /\ event'[e].tower = event[e].tower
                       /\ event'[e].key = event[e].key
                       /\ event[e].status = "resolved" => event'[e].status = "resolved"]_vars

\* When nothing fails, an event that was stored has its ticket, or the worker
\* that stored it is about to create one: no interleaving leaves an event
\* without (Ingest, HandleTrap: ticket only when isNew).
EveryEventTicketed ==
    \A e \in EventIds : Stored(e) =>
        \/ tickets[e] > 0
        \/ \E p \in Workers : pc[p] = "ticket" /\ at[p] = e

\* last_seen_at never moves past resolved_at, whatever fails, where one worker
\* raises and resolves the alarm: TouchLastSeen does not check that the event is
\* still open.  The trap listener is one goroutine; two pollers share an alarm.
NoLateTouch ==
    \A e \in EventIds : Stored(e) =>
        \/ ~event[e].late
        \/ \E p, q \in Pollers : p # q /\ event[e].key \in RuleKeys

\* An ingest never closes the event of an alarm that fires in the very same
\* reading: a persistent alarm keeps its event and its ticket.
PersistentAlarmKeepsEvent ==
    [][\A p \in Workers, e \in EventIds :
          (IsOpen(e) /\ ~IsOpen(e)' /\ resolve'[p] # resolve[p])
              => ~\E w \in trigger[p] : w.key = event[e].key]_vars

Alarming(t, k) == \E i \in Firing(t) : Rules[i].key = k
Quiet(t, k) == \E i \in Evaluated(t) : Rules[i].key = k /\ i \notin Firing(t)

\* Once a reading settles, the board follows it, whatever stale work was under
\* way: an alarm that fires for good has an open event for good, and one that
\* stopped firing for good has none.
BoardFollowsReading ==
    \A t \in Towers, k \in RuleKeys :
        /\ <>[]Alarming(t, k) => <>[](OpenRows(t, k) # {})
        /\ <>[](Quiet(t, k) /\ ~Alarming(t, k)) => <>[](OpenRows(t, k) = {})

-----------------------------------------------------------------------------
(* The pipeline implements the alarm board.                                *)

CurrentOf(t, k) ==
    IF OpenRows(t, k) = {} THEN None ELSE CHOOSE e \in OpenRows(t, k) : TRUE

Current == [a \in Towers \X Keys |-> CurrentOf(a[1], a[2])]

Board == INSTANCE AlarmBoard WITH
            Alarms <- Towers \X Keys, Episodes <- EventIds,
            current <- Current, raised <- {e \in EventIds : Stored(e)}

ImplementsBoard == Board!Spec
=============================================================================
