------------------------ MODULE AlarmLifecycleProofs ------------------------
(***************************************************************************)
(* Proofs about the alarm pipeline for any number of workers, towers,      *)
(* rules and rows, with every failure allowed.                             *)
(***************************************************************************)
EXTENDS AlarmLifecycle, TLAPS

(* A worker about to touch or to open a ticket holds a stored row, and the *)
(* row a worker is about to open a ticket for has none and is its alone.   *)
HeldRows ==
    /\ \A p \in Workers : pc[p] \in {"touch", "ticket"} => at[p] \in EventIds /\ Stored(at[p])
    /\ \A p \in Workers : pc[p] = "ticket" => tickets[at[p]] = 0
    /\ \A p, q \in Workers :
          pc[p] = "ticket" /\ pc[q] = "ticket" /\ at[p] = at[q] => p = q
    /\ \A e \in EventIds : tickets[e] # 0 => Stored(e)

IInv == TypeOK /\ OneOpenPerAlarm /\ OneTicketPerEvent /\ HeldRows

-----------------------------------------------------------------------------
(* What evaluating the rules yields. *)
LEMMA ItemsType ==
    ASSUME NEW S \in SUBSET DOMAIN Rules
    PROVE  Items(S) \in SUBSET Item
BY AlarmAssumption DEF Items, Item, Keys, RuleKeys

LEMMA RuleSets ==
    ASSUME NEW t \in Towers
    PROVE  ToResolve(t) \in SUBSET DOMAIN Rules /\ Firing(t) \in SUBSET DOMAIN Rules
BY DEF ToResolve, Firing, Evaluated

(* Closing the open rows of an alarm keeps the table well typed, and only  *)
(* closes rows.                                                            *)
LEMMA ResolvedType ==
    ASSUME TypeOK, NEW t \in Towers, NEW k \in Keys
    PROVE  /\ Resolved(t, k) \in [EventIds -> Row \cup {None}]
           /\ \A e \in EventIds :
                 /\ Resolved(t, k)[e] = None <=> event[e] = None
                 /\ e \notin OpenRows(t, k) => Resolved(t, k)[e] = event[e]
                 /\ e \in OpenRows(t, k) =>
                       /\ Resolved(t, k)[e].status = "resolved"
                       /\ Resolved(t, k)[e].tower = event[e].tower
                       /\ Resolved(t, k)[e].key = event[e].key
BY AlarmAssumption DEF TypeOK, Resolved, Row, OpenRows, IsOpen, Stored

-----------------------------------------------------------------------------
(* No step takes the pipeline outside its types. *)
LEMMA TypeInit == Init => TypeOK
BY DEF Init, TypeOK, Workers

LEMMA WorkerTypes ==
    ASSUME TypeOK, NEW p \in Workers, NEW w \in trigger[p]
    PROVE  tower[p] \in Towers /\ w \in Item /\ w.key \in Keys
BY DEF TypeOK, Item

LEMMA NewRowType ==
    ASSUME NEW t \in Towers, NEW k \in Keys
    PROVE  NewRow(t, k) \in Row
BY DEF NewRow, Row

LEMMA TypeStep ==
    ASSUME TypeOK, HeldRows, [Next]_vars
    PROVE  TypeOK'
<1>1. ASSUME NEW t \in Towers, NEW k \in RuleKeys, NEW v \in Values \cup {None},
             ChangeReading(t, k, v)
      PROVE  TypeOK'
  BY <1>1 DEF TypeOK, ChangeReading, tables
<1>2. ASSUME NEW p \in Pollers, NEW t \in Towers, StartIngest(p, t)
      PROVE  TypeOK'
  <2>1. Items(ToResolve(t)) \in SUBSET Item /\ Items(Firing(t)) \in SUBSET Item
    BY ItemsType, RuleSets
  <2>2. QED
    BY <1>2, <2>1 DEF TypeOK, StartIngest, world, tables, Workers
<1>3. ASSUME NEW h \in TrapHandlers, NEW t \in Towers, NEW k \in TrapKeys, StartTrap(h, t, k)
      PROVE  TypeOK'
  <2>1. {[rank |-> 0, key |-> k]} \in SUBSET Item
    BY DEF Item, Keys
  <2>2. h \in Workers
    BY DEF Workers
  <2>3. resolve' \in [Workers -> SUBSET Item] /\ trigger' \in [Workers -> SUBSET Item]
    BY <1>3, <2>1, <2>2 DEF TypeOK, StartTrap
  <2>4. inputs' \in Nat /\ tower' \in [Workers -> Towers]
    BY <1>3, <2>2 DEF TypeOK, StartTrap
  <2>5. QED
    BY <1>3, <2>3, <2>4 DEF TypeOK, StartTrap, tables
<1>4. ASSUME NEW p \in Workers, NEW w \in resolve[p], ResolveItem(p, w)
      PROVE  TypeOK'
  <2>1. tower[p] \in Towers /\ w.key \in Keys
    BY DEF TypeOK, Item
  <2>2. Resolved(tower[p], w.key) \in [EventIds -> Row \cup {None}]
    BY <2>1, ResolvedType
  <2>3. QED
    BY <1>4, <2>2 DEF TypeOK, ResolveItem, world
<1>5. ASSUME NEW p \in Workers, NEW w \in trigger[p], Raising(p, w)
      PROVE  TypeOK'
  <2>1. CASE FindItem(p, w)
    BY <2>1 DEF TypeOK, FindItem, FindOpen, OpenRows, world, tables
  <2>2. CASE TouchItem(p, w)
    <3>1. ASSUME NEW e \in EventIds, event[e] \in Row PROVE TouchedRow(e) \in Row
      BY <3>1 DEF TouchedRow, Row
    <3>2. at[p] \in EventIds /\ event[at[p]] \in Row
      BY <2>2 DEF TypeOK, HeldRows, TouchItem, Stored
    <3>3. event' \in [EventIds -> Row \cup {None}]
      BY <2>2, <3>1, <3>2 DEF TypeOK, TouchItem
    <3>4. QED
      BY <2>2, <3>3 DEF TypeOK, TouchItem, DoneItem, world
  <2>3. CASE \E e \in EventIds : InsertItem(p, w, e)
    BY <2>3, WorkerTypes, NewRowType DEF TypeOK, InsertItem, world
  <2>4. CASE InsertRefused(p, w)
    BY <2>4 DEF TypeOK, InsertRefused, DoneItem, world, tables
  <2>5. CASE CreateTicket(p, w)
    <3>1. at[p] \in EventIds
      BY <2>5 DEF HeldRows, CreateTicket
    <3>2. tickets[at[p]] + 1 \in Nat
      BY <3>1 DEF TypeOK
    <3>3. tickets' \in [EventIds -> Nat]
      BY <2>5, <3>2 DEF TypeOK, CreateTicket
    <3>4. QED
      BY <2>5, <3>3 DEF TypeOK, CreateTicket, DoneItem, world
  <2>6. QED
    BY <1>5, <2>1, <2>2, <2>3, <2>4, <2>5 DEF Raising
<1>6. ASSUME NEW p \in Workers, Failure(p)
      PROVE  TypeOK'
  <2>1. ASSUME NEW w \in resolve[p], ResolveFails(p, w)
        PROVE  TypeOK'
    BY <2>1 DEF TypeOK, ResolveFails, world, tables
  <2>2. ASSUME NEW w \in trigger[p], RaiseFails(p, w)
        PROVE  TypeOK'
    BY <2>2 DEF TypeOK, RaiseFails, DoneItem, world, tables
  <2>3. ASSUME NEW w \in trigger[p], NEW e \in EventIds, InsertUnanswered(p, w, e)
        PROVE  TypeOK'
    BY <2>3, WorkerTypes, NewRowType DEF TypeOK, InsertUnanswered, DoneItem, world
  <2>4. CASE Crash(p)
    BY <2>4 DEF TypeOK, Crash, world, tables
  <2>5. QED
    BY <1>6, <2>1, <2>2, <2>3, <2>4 DEF Failure
<1>7. CASE UNCHANGED vars
  BY <1>7 DEF TypeOK, vars
<1>8. QED
  BY <1>1, <1>2, <1>3, <1>4, <1>5, <1>6, <1>7 DEF Next, Step

(***************************************************************************)
(* What a step may do to the tables.  Every proof about them goes through  *)
(* these three cases and the case in which they do not change.             *)
(***************************************************************************)
Closes(t, k) == event' = Resolved(t, k)

Touches(e) == Stored(e) /\ event' = [event EXCEPT ![e] = TouchedRow(e)]

Inserts(t, k, e) ==
    /\ ~Stored(e)
    /\ OpenRows(t, k) = {}
    /\ event' = [event EXCEPT ![e] = NewRow(t, k)]

LEMMA EventSteps ==
    ASSUME TypeOK, HeldRows, [Next]_vars
    PROVE  \/ \E t \in Towers, k \in Keys : Closes(t, k) /\ UNCHANGED tickets
           \/ \E e \in EventIds : Touches(e) /\ UNCHANGED tickets
           \/ \E t \in Towers, k \in Keys, e \in EventIds : Inserts(t, k, e) /\ UNCHANGED tickets
           \/ UNCHANGED event
<1>1. ASSUME NEW p \in Workers, NEW w \in resolve[p], ResolveItem(p, w)
      PROVE  \E t \in Towers, k \in Keys : Closes(t, k) /\ UNCHANGED tickets
  BY <1>1 DEF TypeOK, ResolveItem, Closes, Item
<1>2. ASSUME NEW p \in Workers, NEW w \in trigger[p], TouchItem(p, w)
      PROVE  \E e \in EventIds : Touches(e) /\ UNCHANGED tickets
  BY <1>2 DEF HeldRows, TouchItem, Touches
<1>3. ASSUME NEW p \in Workers, NEW w \in trigger[p], NEW e \in EventIds,
             InsertItem(p, w, e) \/ InsertUnanswered(p, w, e)
      PROVE  \E t \in Towers, k \in Keys : Inserts(t, k, e) /\ UNCHANGED tickets
  BY <1>3, WorkerTypes DEF InsertItem, InsertUnanswered, Inserts, ViolatesOpenUnique
<1>4. QED
  BY <1>1, <1>2, <1>3
  DEF Next, Step, Raising, Failure, ChangeReading, StartIngest, StartTrap, FindItem,
      InsertRefused, CreateTicket, ResolveFails, RaiseFails, Crash, vars, tables

LEMMA TouchKeepsRow ==
    ASSUME NEW e \in EventIds, event[e] \in Row
    PROVE  /\ TouchedRow(e) \in Row
           /\ TouchedRow(e).tower = event[e].tower
           /\ TouchedRow(e).key = event[e].key
           /\ TouchedRow(e).status = event[e].status
BY DEF TouchedRow, Row

(* Rows appear and change; they neither vanish, move nor reopen, and a row  *)
(* that becomes open is new and the only open one of its alarm.            *)
LEMMA RowsOnlyClose ==
    ASSUME TypeOK, HeldRows, [Next]_vars, NEW e \in EventIds, Stored(e)
    PROVE  /\ Stored(e)'
           /\ event'[e].tower = event[e].tower
           /\ event'[e].key = event[e].key
           /\ event'[e].status = "open" => event[e].status = "open"
<1>0. event[e] \in Row
  BY DEF TypeOK, Stored
<1>1. CASE \E t \in Towers, k \in Keys : Closes(t, k)
  BY <1>1, <1>0, ResolvedType DEF Closes, Stored, OpenRows, IsOpen
<1>2. CASE \E f \in EventIds : Touches(f)
  <2>1. PICK f \in EventIds : Touches(f)
    BY <1>2
  <2>2. CASE e = f
    BY <2>1, <2>2, <1>0, TouchKeepsRow, AlarmAssumption DEF Touches, Stored, TypeOK, Row
  <2>3. CASE e # f
    BY <2>1, <2>3 DEF Touches, Stored, TypeOK
  <2>4. QED
    BY <2>2, <2>3
<1>3. CASE \E t \in Towers, k \in Keys, f \in EventIds : Inserts(t, k, f)
  BY <1>3 DEF Inserts, Stored, TypeOK
<1>4. CASE UNCHANGED event
  BY <1>4 DEF Stored
<1>5. QED
  BY <1>1, <1>2, <1>3, <1>4, EventSteps

LEMMA OpenRowsAreNew ==
    ASSUME TypeOK, HeldRows, [Next]_vars, NEW e \in EventIds, ~Stored(e), Stored(e)'
    PROVE  /\ OpenRows(event'[e].tower, event'[e].key) = {}
           /\ \A f \in EventIds \ {e} : event'[f] = event[f]
<1>1. PICK t \in Towers, k \in Keys, f \in EventIds : Inserts(t, k, f)
  <2>1. CASE \E t \in Towers, k \in Keys : Closes(t, k)
    BY <2>1, ResolvedType DEF Closes, Stored
  <2>2. CASE \E f \in EventIds : Touches(f)
    BY <2>2 DEF Touches, Stored, TypeOK
  <2>3. CASE UNCHANGED event
    BY <2>3 DEF Stored
  <2>4. QED
    BY <2>1, <2>2, <2>3, EventSteps
<1>2. f = e
  BY <1>1 DEF Inserts, Stored, TypeOK
<1>3. event'[e] = NewRow(t, k)
  BY <1>1, <1>2 DEF Inserts, TypeOK
<1>4. QED
  BY <1>1, <1>2, <1>3 DEF Inserts, NewRow, TypeOK

LEMMA OneOpenStep ==
    ASSUME TypeOK, HeldRows, OneOpenPerAlarm, [Next]_vars
    PROVE  OneOpenPerAlarm'
<1> SUFFICES ASSUME NEW e \in EventIds, NEW f \in EventIds, IsOpen(e)', IsOpen(f)',
                    event'[e].tower = event'[f].tower, event'[e].key = event'[f].key
             PROVE  e = f
  BY DEF OneOpenPerAlarm
<1>1. CASE Stored(e) /\ Stored(f)
  BY <1>1, RowsOnlyClose DEF OneOpenPerAlarm, IsOpen
<1>2. ASSUME NEW a \in EventIds, NEW b \in EventIds, a # b, ~Stored(a), IsOpen(a)', IsOpen(b)',
             event'[a].tower = event'[b].tower, event'[a].key = event'[b].key
      PROVE  FALSE
  <2>1. OpenRows(event'[a].tower, event'[a].key) = {} /\ event'[b] = event[b]
    BY <1>2, OpenRowsAreNew DEF IsOpen
  <2>2. b \in OpenRows(event'[a].tower, event'[a].key)
    BY <1>2, <2>1 DEF OpenRows, IsOpen, Stored
  <2>3. QED
    BY <2>1, <2>2
<1>3. QED
  BY <1>1, <1>2

(* A ticket is opened for a row that had none, so never a second time. *)
LEMMA TicketStep ==
    ASSUME IInv, [Next]_vars
    PROVE  OneTicketPerEvent'
<1> USE DEF IInv
<1>1. ASSUME NEW p \in Workers, NEW w \in trigger[p], CreateTicket(p, w)
      PROVE  OneTicketPerEvent'
  <2>1. at[p] \in EventIds /\ tickets[at[p]] = 0
    BY <1>1 DEF HeldRows, CreateTicket
  <2>2. QED
    BY <1>1, <2>1 DEF CreateTicket, OneTicketPerEvent, TypeOK
<1>2. CASE UNCHANGED tickets
  BY <1>2 DEF OneTicketPerEvent
<1>3. QED
  BY <1>1, <1>2
  DEF Next, Step, Raising, Failure, ChangeReading, StartIngest, StartTrap, ResolveItem, FindItem,
      TouchItem, InsertItem, InsertRefused, InsertUnanswered, ResolveFails, RaiseFails, Crash,
      vars, tables

(* How a step may change what a worker holds: it drops the row it held, it  *)
(* found an open row, or it inserted a fresh row to open a ticket for.     *)
LEMMA HoldingSteps ==
    ASSUME TypeOK, HeldRows, [Next]_vars, NEW q \in Workers, pc'[q] \in {"touch", "ticket"}
    PROVE  \/ pc'[q] = pc[q] /\ at'[q] = at[q]
           \/ pc'[q] = "touch" /\ at'[q] \in EventIds /\ Stored(at'[q])
           \/ /\ pc'[q] = "ticket"
              /\ at'[q] \in EventIds
              /\ ~Stored(at'[q])
              /\ event'[at'[q]] # None
              /\ tickets' = tickets
              /\ \A r \in Workers \ {q} : pc'[r] = pc[r] /\ at'[r] = at[r]
<1>1. ASSUME NEW p \in Workers, NEW w \in trigger[p], FindItem(p, w)
      PROVE  \/ pc'[q] = pc[q] /\ at'[q] = at[q]
             \/ pc'[q] = "touch" /\ at'[q] \in EventIds /\ Stored(at'[q])
  BY <1>1 DEF TypeOK, FindItem, FindOpen, OpenRows, IsOpen
<1>2. ASSUME NEW p \in Workers, NEW w \in trigger[p], NEW e \in EventIds, InsertItem(p, w, e)
      PROVE  \/ pc'[q] = pc[q] /\ at'[q] = at[q]
             \/ /\ pc'[q] = "ticket"
                /\ at'[q] \in EventIds
                /\ ~Stored(at'[q])
                /\ event'[at'[q]] # None
                /\ tickets' = tickets
                /\ \A r \in Workers \ {q} : pc'[r] = pc[r] /\ at'[r] = at[r]
  <2>1. NewRow(tower[p], w.key) # None
    BY WorkerTypes, NewRowType, AlarmAssumption DEF Row
  <2>2. event'[e] = NewRow(tower[p], w.key)
    BY <1>2 DEF TypeOK, InsertItem
  <2>3. Stored(e)' /\ ~Stored(e)
    BY <1>2, <2>1, <2>2 DEF Stored, InsertItem
  <2>4. CASE p = q
    BY <1>2, <2>3, <2>4 DEF TypeOK, InsertItem, Stored
  <2>5. CASE p # q
    BY <1>2, <2>5 DEF TypeOK, InsertItem
  <2>6. QED
    BY <2>4, <2>5
<1>3. ASSUME NEW p \in Workers, NEW w, DoneItem(p, w)
      PROVE  pc'[q] = pc[q] /\ at'[q] = at[q]
  BY <1>3 DEF TypeOK, DoneItem
<1>4. ASSUME NEW p \in Workers, Crash(p)
      PROVE  pc'[q] = pc[q] /\ at'[q] = at[q]
  BY <1>4 DEF TypeOK, Crash
<1>5. CASE UNCHANGED <<pc, at>>
  BY <1>5
<1>6. ASSUME NEW p \in Workers, Step(p) \/ Failure(p)
      PROVE  \/ UNCHANGED <<pc, at>>
             \/ \E w \in trigger[p] : FindItem(p, w)
             \/ \E w \in trigger[p] : \E e \in EventIds : InsertItem(p, w, e)
             \/ \E w \in trigger[p] : DoneItem(p, w)
             \/ Crash(p)
  <2>1. ASSUME NEW w \in resolve[p], ResolveItem(p, w) \/ ResolveFails(p, w)
        PROVE  UNCHANGED <<pc, at>>
    BY <2>1 DEF ResolveItem, ResolveFails
  <2>2. ASSUME NEW w \in trigger[p], NEW e \in EventIds,
               \/ TouchItem(p, w) \/ InsertRefused(p, w) \/ CreateTicket(p, w)
               \/ RaiseFails(p, w) \/ InsertUnanswered(p, w, e)
        PROVE  DoneItem(p, w)
    BY <2>2 DEF TouchItem, InsertRefused, CreateTicket, RaiseFails, InsertUnanswered
  <2>3. QED
    BY <1>6, <2>1, <2>2 DEF Step, Raising, Failure, TouchItem, InsertRefused, CreateTicket,
       RaiseFails
<1>7. ASSUME NEW p \in Workers, Step(p) \/ Failure(p)
      PROVE  \/ pc'[q] = pc[q] /\ at'[q] = at[q]
             \/ \E w \in trigger[p] : FindItem(p, w)
             \/ \E w \in trigger[p] : \E e \in EventIds : InsertItem(p, w, e)
  BY <1>3, <1>4, <1>5, <1>6, <1>7
<1>8. ASSUME ~\E p \in Workers : Step(p) \/ Failure(p)
      PROVE  UNCHANGED <<pc, at>>
  BY <1>8 DEF Next, ChangeReading, StartIngest, StartTrap, vars
<1>9. QED
  BY <1>1, <1>2, <1>5, <1>7, <1>8

(* Tickets are only ever added for the row held at pc "ticket". *)
LEMMA TicketSteps ==
    ASSUME TypeOK, HeldRows, [Next]_vars
    PROVE  \/ UNCHANGED tickets
           \/ \E p \in Workers : /\ pc[p] = "ticket"
                                 /\ pc'[p] = "next"
                                 /\ tickets' = [tickets EXCEPT ![at[p]] = @ + 1]
                                 /\ UNCHANGED event
                                 /\ \A r \in Workers \ {p} : pc'[r] = pc[r] /\ at'[r] = at[r]
<1>1. ASSUME NEW p \in Workers, NEW w \in trigger[p], CreateTicket(p, w)
      PROVE  /\ pc[p] = "ticket"
             /\ pc'[p] = "next"
             /\ tickets' = [tickets EXCEPT ![at[p]] = @ + 1]
             /\ UNCHANGED event
             /\ \A r \in Workers \ {p} : pc'[r] = pc[r] /\ at'[r] = at[r]
  BY <1>1 DEF TypeOK, CreateTicket, DoneItem
<1>2. QED
  BY <1>1
  DEF Next, Step, Raising, Failure, ChangeReading, StartIngest, StartTrap, ResolveItem, FindItem,
      TouchItem, InsertItem, InsertRefused, InsertUnanswered, ResolveFails, RaiseFails, Crash,
      vars, tables

LEMMA HeldStep ==
    ASSUME IInv, [Next]_vars
    PROVE  HeldRows'
<1> USE DEF IInv
<1>1. ASSUME NEW q \in Workers, pc'[q] \in {"touch", "ticket"}
      PROVE  at'[q] \in EventIds /\ event'[at'[q]] # None
  <2>1. CASE pc'[q] = pc[q] /\ at'[q] = at[q]
    BY <1>1, <2>1, RowsOnlyClose DEF HeldRows, Stored
  <2>2. CASE pc'[q] = "touch" /\ at'[q] \in EventIds /\ Stored(at'[q])
    BY <2>2, RowsOnlyClose DEF Stored
  <2>3. QED
    BY <1>1, <2>1, <2>2, HoldingSteps
<1>2. ASSUME NEW q \in Workers, pc'[q] = "ticket"
      PROVE  /\ tickets'[at'[q]] = 0
             /\ \A r \in Workers : pc'[r] = "ticket" /\ at'[r] = at'[q] => r = q
  <2>1. CASE pc'[q] = pc[q] /\ at'[q] = at[q]
    <3>1. tickets'[at'[q]] = 0
      <4>1. tickets[at[q]] = 0 /\ at[q] \in EventIds
        BY <1>2, <2>1 DEF HeldRows
      <4>2. ASSUME NEW p \in Workers, pc[p] = "ticket", pc'[p] = "next",
                   tickets' = [tickets EXCEPT ![at[p]] = @ + 1]
            PROVE  tickets'[at[q]] = 0
        <5>1. p # q
          BY <1>2, <4>2
        <5>2. at[p] # at[q]
          BY <1>2, <2>1, <4>2, <5>1 DEF HeldRows
        <5>3. QED
          BY <4>1, <4>2, <5>2 DEF TypeOK
      <4>3. QED
        BY <2>1, <4>1, <4>2, TicketSteps
    <3>2. ASSUME NEW r \in Workers, pc'[r] = "ticket", at'[r] = at'[q], r # q
          PROVE  FALSE
      <4>1. CASE pc'[r] = pc[r] /\ at'[r] = at[r]
        BY <1>2, <2>1, <3>2, <4>1 DEF HeldRows
      <4>2. CASE ~Stored(at'[r])
        BY <1>2, <2>1, <3>2, <4>2 DEF HeldRows
      <4>3. QED
        BY <3>2, <4>1, <4>2, HoldingSteps
    <3>3. QED
      BY <3>1, <3>2
  <2>2. CASE /\ at'[q] \in EventIds
             /\ ~Stored(at'[q])
             /\ tickets' = tickets
             /\ \A r \in Workers \ {q} : pc'[r] = pc[r] /\ at'[r] = at[r]
    <3>1. tickets[at'[q]] = 0
      BY <2>2 DEF HeldRows
    <3>2. QED
      BY <2>2, <3>1 DEF HeldRows
  <2>3. QED
    BY <1>2, <2>1, <2>2, HoldingSteps
<1>3. ASSUME NEW e \in EventIds, tickets'[e] # 0
      PROVE  event'[e] # None
  <2>1. CASE tickets[e] # 0
    BY <2>1, RowsOnlyClose DEF HeldRows, Stored
  <2>2. CASE tickets[e] = 0
    <3>1. PICK p \in Workers : pc[p] = "ticket" /\ tickets' = [tickets EXCEPT ![at[p]] = @ + 1]
      BY <1>3, <2>2, TicketSteps
    <3>2. e = at[p]
      BY <1>3, <2>2, <3>1 DEF TypeOK
    <3>3. QED
      BY <3>1, <3>2, RowsOnlyClose DEF HeldRows, Stored
  <2>3. QED
    BY <2>1, <2>2
<1>4. QED
  BY <1>1, <1>2, <1>3 DEF HeldRows, Stored

LEMMA InvInit == Init => IInv
<1> SUFFICES ASSUME Init PROVE IInv
  OBVIOUS
<1>1. TypeOK
  BY TypeInit
<1>2. OneOpenPerAlarm
  BY DEF Init, OneOpenPerAlarm, IsOpen, Stored
<1>3. OneTicketPerEvent
  BY DEF Init, OneTicketPerEvent
<1>4. HeldRows
  BY DEF Init, HeldRows
<1>5. QED
  BY <1>1, <1>2, <1>3, <1>4 DEF IInv

(* The inductive invariant of the pipeline. *)
THEOREM Invariance == Spec => []IInv
<1>1. IInv /\ [Next]_vars => IInv'
  <2> SUFFICES ASSUME IInv, [Next]_vars PROVE IInv'
    OBVIOUS
  <2>1. TypeOK' /\ OneOpenPerAlarm'
    BY TypeStep, OneOpenStep DEF IInv
  <2>2. QED
    BY <2>1, TicketStep, HeldStep DEF IInv
<1>2. QED
  BY InvInit, <1>1, PTL DEF Spec

(* EventService, TicketService: the tables stay well formed. *)
THEOREM TypeCorrect == Spec => []TypeOK
<1>1. IInv => TypeOK
  BY DEF IInv
<1>2. QED
  BY <1>1, Invariance, PTL

(* Migration 00005, EventService.CreateOrTouch: however many workers race,  *)
(* an alarm never has two open events.                                     *)
THEOREM AlarmsOpenOnce == Spec => []OneOpenPerAlarm
<1>1. IInv => OneOpenPerAlarm
  BY DEF IInv
<1>2. QED
  BY <1>1, Invariance, PTL

(* TicketService.Create is called once per event at most. *)
THEOREM TicketsOpenOnce == Spec => []OneTicketPerEvent
<1>1. IInv => OneTicketPerEvent
  BY DEF IInv
<1>2. QED
  BY <1>1, Invariance, PTL

(* EventRepository.ResolveOpenByTowerAndAlarmKey and TouchLastSeen: no step  *)
(* reopens, moves or removes an event.                                     *)
THEOREM EventsOnlyClose == Spec => ResolvedIsFinal
<1>1. IInv /\ [Next]_vars =>
        [\A e \in EventIds :
          Stored(e) => /\ Stored(e)'
                       /\ event'[e].tower = event[e].tower
                       /\ event'[e].key = event[e].key
                       /\ event[e].status = "resolved" => event'[e].status = "resolved"]_vars
  <2> SUFFICES ASSUME IInv, [Next]_vars, NEW e \in EventIds, Stored(e)
               PROVE  /\ Stored(e)'
                      /\ event'[e].tower = event[e].tower
                      /\ event'[e].key = event[e].key
                      /\ event[e].status = "resolved" => event'[e].status = "resolved"
    OBVIOUS
  <2>1. TypeOK /\ HeldRows /\ TypeOK'
    BY TypeStep DEF IInv
  <2>2. event'[e] \in Row
    BY <2>1, RowsOnlyClose DEF TypeOK, Stored
  <2>3. QED
    BY <2>1, <2>2, RowsOnlyClose DEF Row
<1>2. QED
  BY <1>1, Invariance, PTL DEF Spec, ResolvedIsFinal

-----------------------------------------------------------------------------
(* A row is closed by a worker that resolves its alarm.                     *)
LEMMA CloseSteps ==
    ASSUME TypeOK, HeldRows, [Next]_vars, NEW e \in EventIds, IsOpen(e), ~IsOpen(e)'
    PROVE  \E p \in Workers : \E w \in resolve[p] : ResolveItem(p, w) /\ event[e].key = w.key
<1>1. ASSUME NEW p \in Workers, NEW w \in resolve[p], ResolveItem(p, w)
      PROVE  event[e].key = w.key
  <2>1. tower[p] \in Towers /\ w.key \in Keys
    BY DEF TypeOK, Item
  <2>2. e \in OpenRows(tower[p], w.key)
    BY <1>1, <2>1, ResolvedType DEF ResolveItem, IsOpen, Stored
  <2>3. QED
    BY <2>2 DEF OpenRows
<1>2. ASSUME NEW f \in EventIds, Touches(f)
      PROVE  IsOpen(e)'
  <2>1. CASE f = e
    BY <1>2, <2>1, TouchKeepsRow, AlarmAssumption DEF Touches, TypeOK, IsOpen, Stored, Row
  <2>2. CASE f # e
    BY <1>2, <2>2 DEF Touches, TypeOK, IsOpen, Stored
  <2>3. QED
    BY <2>1, <2>2
<1>3. ASSUME NEW t \in Towers, NEW k \in Keys, NEW f \in EventIds, Inserts(t, k, f)
      PROVE  IsOpen(e)'
  BY <1>3 DEF Inserts, TypeOK, IsOpen, Stored
<1>4. ASSUME NEW p \in Workers, NEW w \in trigger[p], TouchItem(p, w)
      PROVE  \E f \in EventIds : Touches(f)
  BY <1>4 DEF HeldRows, TouchItem, Touches
<1>5. ASSUME NEW p \in Workers, NEW w \in trigger[p], NEW f \in EventIds,
             InsertItem(p, w, f) \/ InsertUnanswered(p, w, f)
      PROVE  \E t \in Towers, k \in Keys : Inserts(t, k, f)
  BY <1>5, WorkerTypes DEF InsertItem, InsertUnanswered, Inserts, ViolatesOpenUnique
<1>6. ~UNCHANGED event
  BY DEF IsOpen, Stored
<1>7. QED
  BY <1>1, <1>2, <1>3, <1>4, <1>5, <1>6
  DEF Next, Step, Raising, Failure, ChangeReading, StartIngest, StartTrap, FindItem,
      InsertRefused, CreateTicket, ResolveFails, RaiseFails, Crash, vars, tables

-----------------------------------------------------------------------------
(***************************************************************************)
(* Late touches.  A row that a worker has found can be closed before it is *)
(* touched, but only by another worker that handles the same alarm: when   *)
(* the traps have one listener and keys of their own, two pollers.         *)
(***************************************************************************)
OneListener ==
    /\ \A g, h \in TrapHandlers : g = h
    /\ Pollers \cap TrapHandlers = {}
    /\ RuleKeys \cap TrapKeys = {}

Shared(e) == \E p, q \in Pollers : p # q /\ event[e].key \in RuleKeys
OwnKeys(p) == IF p \in Pollers THEN RuleKeys ELSE TrapKeys

WorkIsOwn == \A p \in Workers : \A w \in resolve[p] \cup trigger[p] : w.key \in OwnKeys(p)

(* What a worker is about to touch is open, or shared with another poller.  *)
FoundIsOpen ==
    \A p \in Workers : pc[p] = "touch" =>
        /\ event[at[p]].key \in OwnKeys(p)
        /\ IsOpen(at[p]) \/ Shared(at[p])

LInv == WorkIsOwn /\ FoundIsOpen /\ NoLateTouch

LEMMA ItemKeys ==
    ASSUME NEW S \in SUBSET DOMAIN Rules, NEW w \in Items(S)
    PROVE  w.key \in RuleKeys
BY DEF Items, RuleKeys

LEMMA WorkIsOwnStep ==
    ASSUME TypeOK, OneListener, WorkIsOwn, [Next]_vars
    PROVE  WorkIsOwn'
<1> SUFFICES ASSUME NEW q \in Workers, NEW v \in resolve'[q] \cup trigger'[q]
             PROVE  v.key \in OwnKeys(q)
  BY DEF WorkIsOwn, OwnKeys
<1>0. ASSUME v \in resolve[q] \cup trigger[q]
      PROVE  v.key \in OwnKeys(q)
  BY <1>0 DEF WorkIsOwn
<1>1. ASSUME NEW p \in Pollers, NEW t \in Towers, StartIngest(p, t)
      PROVE  v.key \in OwnKeys(q)
  <2>1. CASE p = q
    <3>1. v \in Items(ToResolve(t)) \cup Items(Firing(t))
      BY <1>1, <2>1 DEF TypeOK, StartIngest
    <3>2. QED
      BY <2>1, <3>1, ItemKeys, RuleSets DEF OwnKeys
  <2>2. CASE p # q
    BY <1>0, <1>1, <2>2 DEF TypeOK, StartIngest
  <2>3. QED
    BY <2>1, <2>2
<1>2. ASSUME NEW h \in TrapHandlers, NEW t \in Towers, NEW k \in TrapKeys, StartTrap(h, t, k)
      PROVE  v.key \in OwnKeys(q)
  <2>1. CASE h = q
    <3>1. v = [rank |-> 0, key |-> k] \/ v \in resolve[q] \cup trigger[q]
      BY <1>2, <2>1 DEF TypeOK, StartTrap
    <3>2. QED
      BY <1>0, <2>1, <3>1 DEF OwnKeys, OneListener
  <2>2. CASE h # q
    BY <1>0, <1>2, <2>2 DEF TypeOK, StartTrap
  <2>3. QED
    BY <2>1, <2>2
<1>3. ASSUME NEW p \in Workers, Step(p) \/ Failure(p)
      PROVE  v.key \in OwnKeys(q)
  BY <1>0, <1>3
  DEF TypeOK, Step, Raising, Failure, ResolveItem, FindItem, TouchItem, InsertItem, InsertRefused,
      CreateTicket, ResolveFails, RaiseFails, InsertUnanswered, Crash, DoneItem
<1>4. CASE UNCHANGED <<resolve, trigger>>
  BY <1>0, <1>4
<1>5. QED
  BY <1>1, <1>2, <1>3, <1>4 DEF Next, ChangeReading, vars

(* A worker that is about to touch has just found an open row of an alarm   *)
(* it handles, or was about to touch the same row before.                   *)
LEMMA FindSteps ==
    ASSUME TypeOK, WorkIsOwn, [Next]_vars, NEW q \in Workers, pc'[q] = "touch"
    PROVE  \/ pc[q] = "touch" /\ at'[q] = at[q]
           \/ /\ UNCHANGED event
              /\ at'[q] \in EventIds /\ IsOpen(at'[q])
              /\ event[at'[q]].key \in OwnKeys(q)
<1> DEFINE Goal == \/ pc[q] = "touch" /\ at'[q] = at[q]
                   \/ /\ UNCHANGED event
                      /\ at'[q] \in EventIds /\ IsOpen(at'[q])
                      /\ event[at'[q]].key \in OwnKeys(q)
<1>1. ASSUME NEW p \in Workers, NEW w \in trigger[p], FindItem(p, w)
      PROVE  Goal
  <2>1. w.key \in OwnKeys(p)
    BY DEF WorkIsOwn
  <2>2. CASE p = q
    BY <1>1, <2>1, <2>2 DEF TypeOK, FindItem, FindOpen, OpenRows, tables
  <2>3. CASE p # q
    BY <1>1, <2>3 DEF TypeOK, FindItem
  <2>4. QED
    BY <2>2, <2>3
<1>2. ASSUME NEW p \in Workers, NEW w, DoneItem(p, w)
      PROVE  Goal
  BY <1>2 DEF TypeOK, DoneItem
<1>3. ASSUME NEW p \in Workers, NEW w \in trigger[p], NEW e \in EventIds, InsertItem(p, w, e)
      PROVE  Goal
  BY <1>3 DEF TypeOK, InsertItem
<1>4. ASSUME NEW p \in Workers, Crash(p)
      PROVE  Goal
  BY <1>4 DEF TypeOK, Crash
<1>5. CASE UNCHANGED <<pc, at>>
  BY <1>5
<1>6. ASSUME NEW p \in Workers, Step(p)
      PROVE  Goal
  BY <1>1, <1>2, <1>3, <1>5, <1>6
  DEF Step, Raising, ResolveItem, TouchItem, InsertRefused, CreateTicket
<1>7. ASSUME NEW p \in Workers, Failure(p)
      PROVE  Goal
  BY <1>2, <1>4, <1>5, <1>7 DEF Failure, ResolveFails, RaiseFails, InsertUnanswered
<1>8. QED
  BY <1>5, <1>6, <1>7 DEF Next, ChangeReading, StartIngest, StartTrap, vars

(* A row becomes late when it is touched after it was closed.               *)
LEMMA LateSteps ==
    ASSUME TypeOK, HeldRows, [Next]_vars, NEW e \in EventIds, Stored(e)', event'[e].late
    PROVE  \/ Stored(e) /\ event[e].late
           \/ /\ Stored(e) /\ ~IsOpen(e)
              /\ \E p \in Workers : pc[p] = "touch" /\ at[p] = e
<1> DEFINE Goal == \/ Stored(e) /\ event[e].late
                   \/ /\ Stored(e) /\ ~IsOpen(e)
                      /\ \E p \in Workers : pc[p] = "touch" /\ at[p] = e
<1>1. ASSUME NEW t \in Towers, NEW k \in Keys, Closes(t, k)
      PROVE  Goal
  <2>1. Stored(e)
    BY <1>1, ResolvedType DEF Closes, Stored
  <2>2. event'[e].late = event[e].late
    BY <1>1, <2>1 DEF Closes, Resolved, TypeOK, Stored, Row
  <2>3. QED
    BY <2>1, <2>2
<1>2. ASSUME NEW p \in Workers, NEW w \in trigger[p], TouchItem(p, w)
      PROVE  Goal
  <2>1. at[p] \in EventIds /\ Stored(at[p]) /\ event[at[p]] \in Row
    BY <1>2 DEF HeldRows, TouchItem, TypeOK, Stored
  <2>2. CASE at[p] = e
    <3>1. event'[e].late = (event[e].late \/ event[e].status = "resolved")
      BY <1>2, <2>1, <2>2 DEF TouchItem, TouchedRow, TypeOK, Row
    <3>2. QED
      BY <1>2, <2>1, <2>2, <3>1 DEF TouchItem, IsOpen, Row
  <2>3. CASE at[p] # e
    BY <1>2, <2>1, <2>3 DEF TouchItem, TypeOK, Stored
  <2>4. QED
    BY <2>2, <2>3
<1>3. ASSUME NEW t \in Towers, NEW k \in Keys, NEW f \in EventIds, Inserts(t, k, f)
      PROVE  Goal
  BY <1>3 DEF Inserts, TypeOK, Stored, NewRow
<1>4. CASE UNCHANGED event
  BY <1>4 DEF Stored
<1>5. ASSUME NEW p \in Workers, NEW w \in resolve[p], ResolveItem(p, w)
      PROVE  \E t \in Towers, k \in Keys : Closes(t, k)
  BY <1>5 DEF TypeOK, ResolveItem, Closes, Item
<1>6. ASSUME NEW p \in Workers, NEW w \in trigger[p], NEW f \in EventIds,
             InsertItem(p, w, f) \/ InsertUnanswered(p, w, f)
      PROVE  \E t \in Towers, k \in Keys : Inserts(t, k, f)
  BY <1>6, WorkerTypes DEF InsertItem, InsertUnanswered, Inserts, ViolatesOpenUnique
<1>7. QED
  BY <1>1, <1>2, <1>3, <1>4, <1>5, <1>6
  DEF Next, Step, Raising, Failure, ChangeReading, StartIngest, StartTrap, FindItem,
      InsertRefused, CreateTicket, ResolveFails, RaiseFails, Crash, vars, tables

LEMMA LateInvStep ==
    ASSUME OneListener, IInv, LInv, [Next]_vars
    PROVE  LInv'
<1>0. TypeOK /\ HeldRows /\ WorkIsOwn /\ FoundIsOpen /\ NoLateTouch
  BY DEF IInv, LInv
<1>1. WorkIsOwn'
  BY <1>0, WorkIsOwnStep
<1>2. ASSUME NEW e \in EventIds, Stored(e), Shared(e)
      PROVE  Shared(e)'
  BY <1>0, <1>2, RowsOnlyClose DEF Shared
<1>3. FoundIsOpen'
  <2> SUFFICES ASSUME NEW q \in Workers, pc'[q] = "touch", NEW e, e = at'[q]
               PROVE  /\ event'[e].key \in OwnKeys(q)
                      /\ (event'[e] # None /\ event'[e].status = "open") \/ Shared(e)'
    BY DEF FoundIsOpen, OwnKeys, IsOpen, Stored, Shared
  <2>1. CASE pc[q] = "touch" /\ at'[q] = at[q]
    <3>1. /\ e \in EventIds /\ Stored(e)
          /\ event[e].key \in OwnKeys(q)
          /\ IsOpen(e) \/ Shared(e)
      BY <1>0, <2>1 DEF HeldRows, FoundIsOpen
    <3>2. event'[e].key = event[e].key
      BY <1>0, <3>1, RowsOnlyClose
    <3>3. ASSUME IsOpen(e), ~IsOpen(e)'
          PROVE  Shared(e)
      <4>1. PICK p \in Workers : pc[p] = "next" /\ event[e].key \in OwnKeys(p)
        BY <1>0, <3>1, <3>3, CloseSteps DEF ResolveItem, WorkIsOwn
      <4>2. p # q
        BY <2>1, <4>1
      <4>3. CASE q \in Pollers
        BY <3>1, <4>1, <4>2, <4>3 DEF OwnKeys, OneListener, Workers, Shared
      <4>4. CASE q \notin Pollers
        BY <3>1, <4>1, <4>2, <4>4 DEF OwnKeys, OneListener, Workers
      <4>5. QED
        BY <4>3, <4>4
    <3>4. IsOpen(e)' \/ Shared(e)'
      BY <1>2, <3>1, <3>3
    <3>5. QED
      BY <3>1, <3>2, <3>4 DEF IsOpen, Stored
  <2>2. CASE /\ UNCHANGED event
             /\ at'[q] \in EventIds /\ IsOpen(at'[q])
             /\ event[at'[q]].key \in OwnKeys(q)
    BY <2>2 DEF IsOpen, Stored
  <2>3. QED
    BY <1>0, <2>1, <2>2, FindSteps
<1>4. NoLateTouch'
  <2> SUFFICES ASSUME NEW e \in EventIds, Stored(e)', event'[e].late
               PROVE  Shared(e)'
    BY DEF NoLateTouch, Shared, Stored
  <2>1. Stored(e) /\ Shared(e)
    <3>1. CASE Stored(e) /\ event[e].late
      BY <1>0, <3>1 DEF NoLateTouch, Shared
    <3>2. CASE Stored(e) /\ ~IsOpen(e) /\ \E p \in Workers : pc[p] = "touch" /\ at[p] = e
      BY <1>0, <3>2 DEF FoundIsOpen
    <3>3. QED
      BY <1>0, <3>1, <3>2, LateSteps
  <2>2. QED
    BY <1>2, <2>1
<1>5. QED
  BY <1>1, <1>3, <1>4 DEF LInv

(* TouchLastSeen: with one trap listener, whose keys no profile uses, an     *)
(* event is touched after it was closed only if two pollers share its alarm. *)
THEOREM TouchesAreTimely ==
    ASSUME OneListener
    PROVE  Spec => []NoLateTouch
<1>1. Init => LInv
  BY DEF Init, LInv, WorkIsOwn, FoundIsOpen, NoLateTouch, Stored
<1>2. IInv /\ LInv /\ [Next]_vars => LInv'
  BY LateInvStep
<1>3. LInv => NoLateTouch
  BY DEF LInv
<1>4. QED
  BY <1>1, <1>2, <1>3, Invariance, PTL DEF Spec

-----------------------------------------------------------------------------
(***************************************************************************)
(* Tickets.  When nothing fails, the worker that stored an event is the    *)
(* one that opens its ticket, and nothing comes between.                   *)
(***************************************************************************)
LEMMA TicketedStep ==
    ASSUME Faults = {}, TypeOK, HeldRows, EveryEventTicketed, [Next]_vars
    PROVE  EveryEventTicketed'
<1> SUFFICES ASSUME NEW e \in EventIds, Stored(e)'
             PROVE  tickets'[e] > 0 \/ \E p \in Workers : pc'[p] = "ticket" /\ at'[p] = e
  BY DEF EveryEventTicketed
<1> DEFINE Before == tickets[e] > 0 \/ \E p \in Workers : pc[p] = "ticket" /\ at[p] = e
           After == tickets'[e] > 0 \/ \E p \in Workers : pc'[p] = "ticket" /\ at'[p] = e
<1>0. Stored(e) => Before
  BY DEF EveryEventTicketed
<1>1. ASSUME NEW p \in Workers, NEW w \in trigger[p], NEW f \in EventIds, InsertItem(p, w, f)
      PROVE  After
  <2>1. CASE f = e
    BY <1>1, <2>1 DEF InsertItem, TypeOK
  <2>2. CASE f # e
    BY <1>0, <1>1, <2>2 DEF InsertItem, TypeOK, Stored
  <2>3. QED
    BY <2>1, <2>2
<1>2. ASSUME NEW p \in Workers, NEW w \in trigger[p], CreateTicket(p, w)
      PROVE  After
  <2>1. at[p] \in EventIds /\ tickets[at[p]] \in Nat /\ tickets[e] \in Nat
    BY <1>2 DEF HeldRows, CreateTicket, TypeOK
  <2>2. CASE at[p] = e
    BY <1>2, <2>1, <2>2 DEF CreateTicket, TypeOK
  <2>3. CASE at[p] # e
    BY <1>0, <1>2, <2>1, <2>3 DEF CreateTicket, DoneItem, TypeOK, Stored
  <2>4. QED
    BY <2>2, <2>3
<1>3. ASSUME NEW p \in Workers, NEW w \in trigger[p], TouchItem(p, w)
      PROVE  After
  <2>1. Stored(e)
    <3>1. at[p] \in EventIds /\ Stored(at[p])
      BY <1>3 DEF HeldRows, TouchItem
    <3>2. QED
      BY <1>3, <3>1 DEF TouchItem, TypeOK, Stored
  <2>2. QED
    BY <1>0, <1>3, <2>1 DEF TouchItem, DoneItem, TypeOK
<1>4. ASSUME NEW p \in Workers, NEW w \in trigger[p], FindItem(p, w)
      PROVE  After
  BY <1>0, <1>4 DEF FindItem, tables, TypeOK, Stored
<1>5. ASSUME NEW p \in Workers, NEW w \in trigger[p], InsertRefused(p, w)
      PROVE  After
  BY <1>0, <1>5 DEF InsertRefused, DoneItem, tables, TypeOK, Stored
<1>6. ASSUME NEW p \in Workers, NEW w \in resolve[p], ResolveItem(p, w)
      PROVE  After
  <2>1. tower[p] \in Towers /\ w.key \in Keys
    BY DEF TypeOK, Item
  <2>2. Stored(e)
    BY <1>6, <2>1, ResolvedType DEF ResolveItem, Stored
  <2>3. QED
    BY <1>0, <1>6, <2>2 DEF ResolveItem
<1>7. CASE UNCHANGED <<event, tickets, pc, at>>
  BY <1>0, <1>7 DEF Stored
<1>8. QED
  BY <1>1, <1>2, <1>3, <1>4, <1>5, <1>6, <1>7
  DEF Next, Step, Raising, Failure, ChangeReading, StartIngest, StartTrap, ResolveFails, RaiseFails,
      InsertUnanswered, Crash, vars, tables

(* Ingest, HandleTrap (ticket only when isNew): without failures, every      *)
(* stored event has its ticket or a worker that is about to open it.         *)
THEOREM EventsGetTickets ==
    ASSUME Faults = {}
    PROVE  Spec => []EveryEventTicketed
<1>1. Init => EveryEventTicketed
  BY DEF Init, EveryEventTicketed, Stored
<1>2. IInv /\ EveryEventTicketed /\ [Next]_vars => EveryEventTicketed'
  BY TicketedStep DEF IInv
<1>3. QED
  BY <1>1, <1>2, Invariance, PTL DEF Spec

-----------------------------------------------------------------------------
(***************************************************************************)
(* Persistent alarms.  An ingest does not resolve what it raises as long   *)
(* as no alarm key has two rules; the tiered profiles break this.          *)
(***************************************************************************)
OneRulePerKey == \A i, j \in DOMAIN Rules : Rules[i].key = Rules[j].key => i = j

WorkIsApart == \A p \in Workers : \A v \in resolve[p], w \in trigger[p] : v.key # w.key

LEMMA WorkIsApartStep ==
    ASSUME OneRulePerKey, TypeOK, WorkIsApart, [Next]_vars
    PROVE  WorkIsApart'
<1> SUFFICES ASSUME NEW q \in Workers, NEW v \in resolve'[q], NEW w \in trigger'[q]
             PROVE  v.key # w.key
  BY DEF WorkIsApart
<1>0. CASE v \in resolve[q] /\ w \in trigger[q]
  BY <1>0 DEF WorkIsApart
<1>1. ASSUME NEW p \in Pollers, NEW t \in Towers, StartIngest(p, t)
      PROVE  v.key # w.key
  <2>1. CASE p = q
    <3>1. v \in Items(ToResolve(t)) /\ w \in Items(Firing(t))
      BY <1>1, <2>1 DEF TypeOK, StartIngest
    <3>2. PICK i \in ToResolve(t), j \in Firing(t) : v.key = Rules[i].key /\ w.key = Rules[j].key
      BY <3>1 DEF Items
    <3>3. i # j /\ i \in DOMAIN Rules /\ j \in DOMAIN Rules
      BY <3>2, RuleSets DEF ToResolve
    <3>4. QED
      BY <3>2, <3>3 DEF OneRulePerKey
  <2>2. CASE p # q
    BY <1>0, <1>1, <2>2 DEF TypeOK, StartIngest
  <2>3. QED
    BY <2>1, <2>2
<1>2. ASSUME NEW h \in TrapHandlers, NEW t \in Towers, NEW k \in TrapKeys, StartTrap(h, t, k)
      PROVE  v.key # w.key
  <2>1. CASE h = q
    BY <1>2, <2>1 DEF TypeOK, StartTrap, Idle
  <2>2. CASE h # q
    BY <1>0, <1>2, <2>2 DEF TypeOK, StartTrap
  <2>3. QED
    BY <2>1, <2>2
<1>3. ASSUME NEW p \in Workers, Step(p) \/ Failure(p)
      PROVE  v.key # w.key
  BY <1>0, <1>3
  DEF TypeOK, Step, Raising, Failure, ResolveItem, FindItem, TouchItem, InsertItem, InsertRefused,
      CreateTicket, ResolveFails, RaiseFails, InsertUnanswered, Crash, DoneItem
<1>4. CASE UNCHANGED <<resolve, trigger>>
  BY <1>0, <1>4
<1>5. QED
  BY <1>1, <1>2, <1>3, <1>4 DEF Next, ChangeReading, vars

(* Ingest (migration 00005): with one rule per alarm key, no worker closes   *)
(* the event of an alarm that its own reading raises.                        *)
THEOREM PersistentAlarmsKeepEvents ==
    ASSUME OneRulePerKey
    PROVE  Spec => PersistentAlarmKeepsEvent
<1>1. Init => WorkIsApart
  BY DEF Init, WorkIsApart
<1>2. IInv /\ WorkIsApart /\ [Next]_vars => WorkIsApart'
  BY WorkIsApartStep DEF IInv
<1>3. ASSUME IInv, WorkIsApart, [Next]_vars
      PROVE  [\A p \in Workers, e \in EventIds :
                 (IsOpen(e) /\ ~IsOpen(e)' /\ resolve'[p] # resolve[p])
                     => ~\E w \in trigger[p] : w.key = event[e].key]_vars
  <2> SUFFICES ASSUME NEW p \in Workers, NEW e \in EventIds,
                      IsOpen(e), ~IsOpen(e)', resolve'[p] # resolve[p],
                      NEW w \in trigger[p], w.key = event[e].key
               PROVE  FALSE
    OBVIOUS
  <2>1. PICK q \in Workers : \E v \in resolve[q] : ResolveItem(q, v) /\ event[e].key = v.key
    BY <1>3, CloseSteps DEF IInv
  <2>2. q = p
    BY <1>3, <2>1 DEF ResolveItem, IInv, TypeOK
  <2>3. QED
    BY <1>3, <2>1, <2>2 DEF WorkIsApart
<1>4. QED
  BY <1>1, <1>2, <1>3, Invariance, PTL DEF Spec, PersistentAlarmKeepsEvent
-----------------------------------------------------------------------------
(* The alarm pipeline implements the alarm board: every step of a worker    *)
(* raises an alarm, clears one, opens the one ticket of an episode, or is   *)
(* invisible on the board.                                                  *)

(* The board only depends on which rows of each alarm are open. *)
LEMMA CurrentIsOpen ==
    ASSUME NEW t, NEW k
    PROVE  /\ OpenRows(t, k) = {} <=> CurrentOf(t, k) = None
           /\ CurrentOf(t, k) # None => CurrentOf(t, k) \in OpenRows(t, k)
<1>1. OpenRows(t, k) \subseteq EventIds
  BY DEF OpenRows
<1>2. CASE OpenRows(t, k) = {}
  BY <1>2 DEF CurrentOf
<1>3. CASE OpenRows(t, k) # {}
  <2>1. CurrentOf(t, k) = CHOOSE e \in OpenRows(t, k) : TRUE
    BY <1>3 DEF CurrentOf
  <2>2. CurrentOf(t, k) \in OpenRows(t, k)
    BY <1>3, <2>1
  <2>3. QED
    BY <1>1, <1>3, <2>2, AlarmAssumption
<1>4. QED
  BY <1>2, <1>3

LEMMA CurrentOfSame ==
    ASSUME NEW t, NEW k, OpenRows(t, k)' = OpenRows(t, k)
    PROVE  CurrentOf(t, k)' = CurrentOf(t, k)
BY DEF CurrentOf

LEMMA CurrentOfSingle ==
    ASSUME NEW t, NEW k, NEW e, OpenRows(t, k)' = {e}
    PROVE  CurrentOf(t, k)' = e
<1>1. CurrentOf(t, k)' = CHOOSE f \in {e} : TRUE
  BY DEF CurrentOf
<1>2. QED
  BY <1>1

LEMMA CurrentSame ==
    ASSUME \A a \in Towers \X Keys : OpenRows(a[1], a[2])' = OpenRows(a[1], a[2])
    PROVE  Current' = Current
<1>1. ASSUME NEW a \in Towers \X Keys
      PROVE  CurrentOf(a[1], a[2])' = CurrentOf(a[1], a[2])
  BY CurrentOfSame
<1>2. QED
  BY <1>1 DEF Current

LEMMA BoardInit == Init => Board!Init
<1> SUFFICES ASSUME Init PROVE Board!Init
  OBVIOUS
<1>1. \A e \in EventIds : ~Stored(e)
  BY DEF Init, Stored
<1>2. \A a \in Towers \X Keys : OpenRows(a[1], a[2]) = {}
  BY <1>1 DEF OpenRows, IsOpen
<1>3. Current = [a \in Towers \X Keys |-> None]
  BY <1>2 DEF Current, CurrentOf
<1>4. QED
  BY <1>1, <1>3 DEF Init, Board!Init

(* Resolve: the alarm goes off, or was off. *)
LEMMA BoardClear ==
    ASSUME IInv, IInv', NEW t \in Towers, NEW k \in Keys, Closes(t, k), UNCHANGED tickets
    PROVE  [Board!Next]_Board!vars
<1> DEFINE a == <<t, k>>
<1>1. a \in Towers \X Keys /\ a[1] = t /\ a[2] = k
  OBVIOUS
<1>2. {e \in EventIds : Stored(e)}' = {e \in EventIds : Stored(e)}
  BY ResolvedType DEF IInv, Closes, Stored
<1>3. OpenRows(a[1], a[2])' = {}
  BY <1>1, ResolvedType DEF IInv, Closes, OpenRows, IsOpen, Stored
<1>4. ASSUME NEW b \in Towers \X Keys, b # a
      PROVE  OpenRows(b[1], b[2])' = OpenRows(b[1], b[2])
  <2>1. b[1] # t \/ b[2] # k
    BY <1>4
  <2>2. ASSUME NEW e \in EventIds
        PROVE  e \in OpenRows(b[1], b[2])' <=> e \in OpenRows(b[1], b[2])
    <3>1. CASE e \in OpenRows(t, k)
      BY <2>1, <3>1, ResolvedType DEF IInv, Closes, OpenRows, IsOpen, Stored
    <3>2. CASE e \notin OpenRows(t, k)
      BY <3>2, ResolvedType DEF IInv, Closes, OpenRows, IsOpen, Stored
    <3>3. QED
      BY <3>1, <3>2
  <2>3. QED
    BY <2>2 DEF OpenRows
<1>5. CASE OpenRows(a[1], a[2]) = {}
  <2>1. Current' = Current
    BY <1>3, <1>4, <1>5, CurrentSame
  <2>2. QED
    BY <1>2, <2>1 DEF Board!vars
<1>6. CASE OpenRows(a[1], a[2]) # {}
  <2>1. Current[a] # None
    BY <1>1, <1>6, CurrentIsOpen DEF Current
  <2>2. Current' = [Current EXCEPT ![a] = None]
    <3>1. CurrentOf(a[1], a[2])' = None
      BY <1>3 DEF CurrentOf
    <3>2. \A b \in Towers \X Keys : b # a => CurrentOf(b[1], b[2])' = CurrentOf(b[1], b[2])
      BY <1>4, CurrentOfSame
    <3>3. QED
      BY <1>1, <3>1, <3>2 DEF Current
  <2>3. Board!Clear(a)
    BY <1>2, <2>1, <2>2 DEF Board!Clear
  <2>4. QED
    BY <1>1, <2>3 DEF Board!Next
<1>7. QED
  BY <1>5, <1>6

(* Touch: nothing shows. *)
LEMMA BoardTouch ==
    ASSUME IInv, IInv', NEW f \in EventIds, Touches(f), UNCHANGED tickets
    PROVE  UNCHANGED Board!vars
<1>1. event[f] \in Row /\ TouchedRow(f) # None
  BY TouchKeepsRow, AlarmAssumption DEF IInv, TypeOK, Touches, Stored, Row
<1>2. ASSUME NEW e \in EventIds
      PROVE  /\ Stored(e)' <=> Stored(e)
             /\ Stored(e) => /\ event'[e].tower = event[e].tower
                             /\ event'[e].key = event[e].key
                             /\ event'[e].status = event[e].status
  BY <1>1, TouchKeepsRow DEF IInv, TypeOK, Touches, Stored
<1>3. \A b \in Towers \X Keys : OpenRows(b[1], b[2])' = OpenRows(b[1], b[2])
  BY <1>2 DEF OpenRows, IsOpen
<1>4. {e \in EventIds : Stored(e)}' = {e \in EventIds : Stored(e)}
  BY <1>2
<1>5. QED
  BY <1>3, <1>4, CurrentSame DEF Board!vars

(* Insert: the alarm was off and goes on, in an episode of its own. *)
LEMMA BoardRaise ==
    ASSUME IInv, IInv', NEW t \in Towers, NEW k \in Keys, NEW e \in EventIds,
           Inserts(t, k, e), UNCHANGED tickets
    PROVE  Board!Next
<1> DEFINE a == <<t, k>>
<1>1. a \in Towers \X Keys /\ a[1] = t /\ a[2] = k
  OBVIOUS
<1>2. /\ event'[e] = NewRow(t, k)
      /\ event'[e] # None
      /\ \A f \in EventIds \ {e} : event'[f] = event[f]
  BY NewRowType, AlarmAssumption DEF Inserts, IInv, TypeOK, Row
<1>3. {f \in EventIds : Stored(f)}' = {f \in EventIds : Stored(f)} \cup {e}
  BY <1>2 DEF Stored
<1>4. OpenRows(a[1], a[2])' = {e}
  <2>1. e \in OpenRows(a[1], a[2])'
    BY <1>1, <1>2 DEF OpenRows, IsOpen, Stored, NewRow
  <2>2. ASSUME NEW f \in EventIds, f # e PROVE f \notin OpenRows(a[1], a[2])'
    BY <1>1, <1>2, <2>2 DEF Inserts, OpenRows, IsOpen, Stored
  <2>3. QED
    BY <2>1, <2>2 DEF OpenRows
<1>5. ASSUME NEW b \in Towers \X Keys, b # a
      PROVE  OpenRows(b[1], b[2])' = OpenRows(b[1], b[2])
  <2>1. b[1] # t \/ b[2] # k
    BY <1>5
  <2>2. e \notin OpenRows(b[1], b[2])' /\ e \notin OpenRows(b[1], b[2])
    BY <1>2, <2>1 DEF OpenRows, IsOpen, Stored, NewRow, Inserts
  <2>3. ASSUME NEW f \in EventIds, f # e
        PROVE  f \in OpenRows(b[1], b[2])' <=> f \in OpenRows(b[1], b[2])
    BY <1>2, <2>3 DEF OpenRows, IsOpen, Stored
  <2>4. QED
    BY <2>2, <2>3 DEF OpenRows
<1>6. Current[a] = None
  BY <1>1, CurrentIsOpen DEF Inserts, Current
<1>7. Current' = [Current EXCEPT ![a] = e]
  <2>1. CurrentOf(a[1], a[2])' = e
    BY <1>4, CurrentOfSingle
  <2>2. \A b \in Towers \X Keys : b # a => CurrentOf(b[1], b[2])' = CurrentOf(b[1], b[2])
    BY <1>5, CurrentOfSame
  <2>3. QED
    BY <1>1, <2>1, <2>2 DEF Current
<1>8. Board!Raise(a, e)
  BY <1>3, <1>6, <1>7 DEF Board!Raise, Inserts
<1>9. QED
  BY <1>1, <1>8 DEF Board!Next

(* CreateTicket: the one ticket of an episode. *)
LEMMA BoardTicket ==
    ASSUME IInv, IInv', [Next]_vars, UNCHANGED event
    PROVE  [Board!Next]_Board!vars
<1>1. \A a \in Towers \X Keys : OpenRows(a[1], a[2])' = OpenRows(a[1], a[2])
  BY DEF OpenRows, IsOpen, Stored
<1>2. Current' = Current
  BY <1>1, CurrentSame
<1>3. {f \in EventIds : Stored(f)}' = {f \in EventIds : Stored(f)}
  BY DEF Stored
<1>4. CASE UNCHANGED tickets
  BY <1>2, <1>3, <1>4 DEF Board!vars
<1>5. ASSUME NEW p \in Workers, pc[p] = "ticket", tickets' = [tickets EXCEPT ![at[p]] = @ + 1]
      PROVE  Board!Next
  <2>1. at[p] \in EventIds /\ Stored(at[p]) /\ tickets[at[p]] = 0
    BY <1>5 DEF IInv, HeldRows
  <2>2. tickets' = [tickets EXCEPT ![at[p]] = 1]
    BY <1>5, <2>1
  <2>3. Board!OpenTicket(at[p])
    BY <1>2, <1>3, <2>1, <2>2 DEF Board!OpenTicket
  <2>4. QED
    BY <2>1, <2>3 DEF Board!Next
<1>6. QED
  BY <1>4, <1>5, TicketSteps DEF IInv

(* Whatever workers interleave, fail or crash, what an operator sees is the *)
(* alarm board: SNMPIngestService.Ingest and NetEcoAlarmService.HandleTrap  *)
(* over one events table.                                                  *)
THEOREM PipelineImplementsBoard == Spec => ImplementsBoard
<1>1. IInv /\ IInv' /\ [Next]_vars => [Board!Next]_Board!vars
  <2> SUFFICES ASSUME IInv, IInv', [Next]_vars PROVE [Board!Next]_Board!vars
    OBVIOUS
  <2>1. CASE \E t \in Towers, k \in Keys : Closes(t, k) /\ UNCHANGED tickets
    BY <2>1, BoardClear
  <2>2. CASE \E e \in EventIds : Touches(e) /\ UNCHANGED tickets
    BY <2>2, BoardTouch
  <2>3. CASE \E t \in Towers, k \in Keys, e \in EventIds : Inserts(t, k, e) /\ UNCHANGED tickets
    BY <2>3, BoardRaise
  <2>4. CASE UNCHANGED event
    BY <2>4, BoardTicket
  <2>5. QED
    BY <2>1, <2>2, <2>3, <2>4, EventSteps DEF IInv
<1>2. QED
  BY BoardInit, Invariance, <1>1, PTL DEF Spec, ImplementsBoard, Board!Spec
=============================================================================
