----------------------------- MODULE NetEcoTraps -----------------------------
(***************************************************************************)
(* The alarms NetEco sends as SNMP traps, over UDP and with a new AlarmNo  *)
(* for every trap of a problem: ParseTrap picks the fields and refuses what *)
(* is no alarm, HandleTrap finds the tower by its NEID and opens, touches  *)
(* or resolves the event of the alarm key.  Every process with a listener  *)
(* may be sent the traps; a listener handles one after the other.          *)
(*                                                                         *)
(* Abstracted: the statements of a trap are one step here; AlarmLifecycle  *)
(* interleaves them.  Texts and numbers stand for what alarmTypeKey makes  *)
(* of them.                                                                *)
(*                                                                         *)
(* Definitions that no other definition uses, each just before the one it  *)
(* resembles, are plausible bugs that the properties are tested with.      *)
(***************************************************************************)
EXTENDS Integers, Sequences, FiniteSets

CONSTANTS
    Listeners,    \* the processes that may be sent the traps
    Problems,     \* what may go wrong at the sites
    Kinds,        \* what a problem may be: site, severity and text, "" and "sem descricao" too
    NEIDs,        \* the sites
    TowerLimit,   \* 500, the towers that resolveTowerID lists
    MaxTraps,     \* bound: traps sent
    MaxMishaps,   \* bound: traps lost, traps swapped, changes of a tower
    None

Parameters ==
    /\ IsFiniteSet(Problems)
    /\ None \notin NEIDs
    /\ {TowerLimit, MaxTraps, MaxMishaps} \subseteq Nat

VARIABLES
    crew,      \* the listeners that are sent the traps
    problem,   \* of each problem, its site, its severity and its text
    active,    \* the AlarmNo of each problem that persists, or 0
    number,    \* the last AlarmNo
    wire,      \* the traps each listener is to receive
    towers,    \* the NEIDs of the towers with neteco_enabled, as listed; None: disabled
    open,      \* the open events: tower and alarm key
    spare,     \* of each site, how often a fault began, less the tickets opened for it
    mishaps,   \* what happened to traps and towers
    count      \* how much of it

vars == <<crew, problem, active, number, wire, towers, open, spare, mishaps, count>>

Init ==
    /\ crew \in (SUBSET Listeners) \ {{}}
    /\ problem \in [Problems -> Kinds]
    /\ active = [p \in Problems |-> 0]
    /\ number = 0
    /\ wire = [l \in Listeners |-> <<>>]
    /\ towers \in [1 .. 2 -> NEIDs \cup {None}]
    /\ open = {}
    /\ spare = [n \in NEIDs |-> 0]
    /\ mishaps = {} /\ count = 0

-----------------------------------------------------------------------------
(* What sends the traps and carries them.                                   *)

IsFault(p) == problem[p].text \in {"fault", "FAULT!"}

Send(t) == wire' = [l \in Listeners |-> IF l \in crew THEN Append(wire[l], t) ELSE wire[l]]

Trap(p, type, no) ==
    [agent |-> FALSE, EventType |-> type, NEID |-> problem[p].neid, AlarmNo |-> no,
     Severity |-> problem[p].severity, Description |-> problem[p].text]

\* A problem begins, or is reported again.
Raise(p) ==
    /\ number < MaxTraps /\ number' = number + 1
    /\ active' = [active EXCEPT ![p] = number + 1]
    /\ spare' = [spare EXCEPT ![problem[p].neid] = IF IsFault(p) /\ active[p] = 0 THEN @ + 1 ELSE @]
    /\ Send(Trap(p, 1, number + 1))
    /\ UNCHANGED <<crew, problem, towers, open, mishaps, count>>

Clear(p) ==
    /\ active[p] # 0 /\ number < MaxTraps /\ number' = number + 1
    /\ active' = [active EXCEPT ![p] = 0]
    /\ Send(Trap(p, 2, active[p]))
    /\ UNCHANGED <<crew, problem, towers, open, spare, mishaps, count>>

\* The heartbeat of the SNMP agent, and a trap of another kind.
Chatter ==
    /\ number < MaxTraps /\ number' = number + 1
    /\ \E t \in {[agent |-> TRUE, EventType |-> 0, NEID |-> None, AlarmNo |-> 0],
                 [agent |-> FALSE, EventType |-> 0, NEID |-> None, AlarmNo |-> number + 1]} : Send(t)
    /\ UNCHANGED <<crew, problem, active, towers, open, spare, mishaps, count>>

Mishap(what) == count < MaxMishaps /\ count' = count + 1 /\ mishaps' = mishaps \cup {what}

Lose(l) ==
    /\ wire[l] # <<>> /\ Mishap("lost")
    /\ wire' = [wire EXCEPT ![l] = Tail(@)]
    /\ UNCHANGED <<crew, problem, active, number, towers, open, spare>>

Swap(l) ==
    /\ Len(wire[l]) > 1 /\ Mishap("swapped")
    /\ wire' = [wire EXCEPT ![l] = <<@[2], @[1]>> \o SubSeq(@, 3, Len(@))]
    /\ UNCHANGED <<crew, problem, active, number, towers, open, spare>>

\* An operator disables NetEco for a tower, or gives it a NEID.
Configure(i) ==
    /\ Mishap("moved")
    /\ \E n \in NEIDs \cup {None} : n # towers[i] /\ towers' = [towers EXCEPT ![i] = n]
    /\ UNCHANGED <<crew, problem, active, number, wire, open, spare>>

-----------------------------------------------------------------------------
(* The listener.                                                            *)

isHeartbeat(t) == t.agent
ParseTrap(t) == ~isHeartbeat(t) /\ t.NEID # None /\ t.AlarmNo # 0

\* resolveTowerID: the first tower of the page with the NEID.
resolveTowerID(n) ==
    LET found == {i \in DOMAIN towers : i <= TowerLimit /\ towers[i] = n}
    IN IF found = {} THEN 0 ELSE CHOOSE i \in found : \A j \in found : i <= j

\* Upper and lower case, accents and signs make no difference; a trap without a text is
\* known by its number.
alarmTypeKeyByNumber(text, no) == <<text, no>>

alarmTypeKey(text, no) == IF text \in {"fault", "FAULT!"} THEN <<"fault", 0>> ELSE <<text, no>>

buildNetEcoAlarmKey(t) == <<t.NEID, alarmTypeKey(t.Description, t.AlarmNo)>>

mapSeverityCriticalOnly(s) == CASE s \in {1, 2} -> "critical" [] OTHER -> "info"

mapSeverity(s) == CASE s \in {1, 2} -> "critical" [] s \in {3, 4} -> "warning" [] OTHER -> "info"

\* A trap that is neither noise nor a clear.
NoisyOpens(t) == t.EventType # 2 /\ mapSeverity(t.Severity) # "info"

Opens(t) ==
    /\ t.EventType # 2
    /\ mapSeverity(t.Severity) # "info" /\ t.Description # "sem descricao"

\* HandleTrap: Resolve, or CreateOrTouch with a ticket for a new event.
HandleTrap(t) ==
    LET tower == resolveTowerID(t.NEID)
        event == <<tower, buildNetEcoAlarmKey(t)>>
    IN  /\ open' = IF tower = 0 THEN open
                   ELSE IF t.EventType = 2 THEN open \ {event}
                   ELSE IF Opens(t) THEN open \cup {event} ELSE open
        /\ spare' = [spare EXCEPT ![t.NEID] =
                        IF event \in open' \ open /\ event[2][2][1] = "fault" THEN @ - 1 ELSE @]

OnNewTrap(l) ==
    /\ wire[l] # <<>>
    /\ wire' = [wire EXCEPT ![l] = Tail(@)]
    /\ IF ParseTrap(Head(wire[l])) THEN HandleTrap(Head(wire[l])) ELSE UNCHANGED <<open, spare>>
    /\ UNCHANGED <<crew, problem, active, number, towers, mishaps, count>>

Next ==
    \/ \E p \in Problems : Raise(p) \/ Clear(p)
    \/ Chatter
    \/ \E l \in crew : Lose(l) \/ Swap(l) \/ OnNewTrap(l)
    \/ \E i \in DOMAIN towers : Configure(i)

Spec == Init /\ [][Next]_vars

-----------------------------------------------------------------------------
(* Properties.                                                              *)

\* An event is of a tower and names the site of its alarm.
TypeOK ==
    /\ active \in [Problems -> 0 .. MaxTraps]
    /\ \A e \in open : e[1] \in DOMAIN towers /\ e[2][1] \in NEIDs
    /\ spare \in [NEIDs -> Int]

\* A fault opens one ticket each time it begins, however often it is reported and under
\* however many numbers (alarmTypeKey: 73 events of one compressor fault), unless two
\* listeners are sent it, a trap overtakes another or the tower is changed.
OneTicketPerFault ==
    (\A l, k \in crew : l = k) /\ mishaps \subseteq {"lost"} => \A n \in NEIDs : spare[n] >= 0

Quiet == mishaps = {} /\ \A l \in crew : wire[l] = <<>>

\* When all traps have been handled, an event that is still open is of a fault that
\* persists, or of alarms without a text, whose repetitions open events that nothing
\* resolves.
OpenEventHasCause ==
    Quiet => \A e \in open :
        \E p \in Problems :
            /\ problem[p].neid = e[2][1]
            /\ IF e[2][2][1] = "fault" THEN IsFault(p) /\ active[p] # 0 ELSE problem[p].text = ""

\* And every alarm that persists has an event, unless it is noise, its tower is not among
\* those listed, or another alarm of the same key was cleared.
ActiveAlarmIsOpen ==
    Quiet => \A p \in Problems :
        /\ active[p] # 0 /\ resolveTowerID(problem[p].neid) # 0
        /\ problem[p].severity \in 1 .. 4 /\ problem[p].text # "sem descricao"
        /\ \A q \in Problems \ {p} : problem[q].neid # problem[p].neid \/ ~IsFault(q)
        => \E e \in open : e[2] = buildNetEcoAlarmKey(Trap(p, 1, active[p]))

\* The invariants of the traps together.
TrapsInv == TypeOK /\ OneTicketPerFault /\ OpenEventHasCause /\ ActiveAlarmIsOpen
=============================================================================
