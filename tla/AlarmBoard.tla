----------------------------- MODULE AlarmBoard -----------------------------
(***************************************************************************)
(* What the alarm pipeline promises, whoever raises the alarms and however *)
(* its steps interleave.  An alarm is a (tower, alarm key) pair.  It is on *)
(* or off; every time it goes on a fresh episode begins, which ends when   *)
(* the alarm goes off and never comes back; an episode is given at most    *)
(* one ticket, possibly after it has ended.                                *)
(***************************************************************************)
EXTENDS Naturals

CONSTANTS Alarms, Episodes, None

VARIABLES
    current,   \* current[a]: the episode alarm a is in, None when it is off
    raised,    \* the episodes that have begun
    tickets    \* tickets[e]: the tickets opened for episode e

vars == <<current, raised, tickets>>

Init ==
    /\ current = [a \in Alarms |-> None]
    /\ raised = {}
    /\ tickets = [e \in Episodes |-> 0]

Raise(a, e) ==
    /\ current[a] = None
    /\ e \notin raised
    /\ current' = [current EXCEPT ![a] = e]
    /\ raised' = raised \cup {e}
    /\ UNCHANGED tickets

Clear(a) ==
    /\ current[a] # None
    /\ current' = [current EXCEPT ![a] = None]
    /\ UNCHANGED <<raised, tickets>>

OpenTicket(e) ==
    /\ e \in raised
    /\ tickets[e] = 0
    /\ tickets' = [tickets EXCEPT ![e] = 1]
    /\ UNCHANGED <<current, raised>>

Next ==
    \/ \E a \in Alarms, e \in Episodes : Raise(a, e)
    \/ \E a \in Alarms : Clear(a)
    \/ \E e \in Episodes : OpenTicket(e)

Spec == Init /\ [][Next]_vars
=============================================================================
