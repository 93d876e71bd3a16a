------------------------------- MODULE MCDesks -------------------------------
(***************************************************************************)
(* Four parts in which requests read, check and write rows in separate     *)
(* statements, side by side for TLC: the tickets of towercore              *)
(* (TicketDesk), its users (Access), the availability of its towers        *)
(* (Availability) and the sessions of the analytics platform (Sessions).   *)
(* They share no state, so a behaviour runs one of them, chosen at the     *)
(* start.                                                                  *)
(***************************************************************************)
EXTENDS TicketDesk, TLC

CONSTANTS Clients, MaxFailedLogins, MaxPasswords, MaxRequests, None,
          Limit, TTL, MaxTime, MaxCalls, Births, Window, Stale,
          FirstHour, LastHour, MaxEvents

VARIABLES
    runs,  \* which of the four runs
    received, users, tokens, s_pc, s_job, proof, shared, excused, founders, raced,
    now, calls, phase, rows, bearers, windows, served, a_pc, a_job, late, overwritten, wronged,
    hour, created, events, lastMetric, v_pc, window, down, atEnd

sessionVars ==
    <<received, users, tokens, s_pc, s_job, proof, shared, excused, founders, raced>>
accessVars == <<now, calls, phase, rows, bearers, windows, served, a_pc, a_job,
                late, overwritten, wronged>>
hourVars ==
    <<hour, created, events, lastMetric, v_pc, window, down, atEnd>>
all == <<runs, vars, sessionVars, accessVars, hourVars>>

\* Users, tokens and processes borrow the names of tickets and of the requests on
\* them, so that TLC has few permutations to try.
S == INSTANCE Sessions WITH
        Users <- Tickets, Tokens <- Requests, pc <- s_pc, job <- s_job
A == INSTANCE Access WITH
        Processes <- Tickets, Users <- Requests, MaxRequests <- MaxCalls,
        received <- calls, tokens <- bearers, pc <- a_pc, job <- a_job
V == INSTANCE Availability WITH
        MaxTime <- LastHour, now <- hour, pc <- v_pc

ASSUME AccessParameters == A!Parameters
ASSUME SessionParameters == S!Parameters
ASSUME HourParameters == V!Parameters

Symmetry == Permutations(Clients) \cup Permutations(Tickets) \cup Permutations(Requests)

Runs(which) == runs = which /\ UNCHANGED runs

DesksInit ==
    /\ runs \in {"tickets", "sessions", "access", "availability"}
    /\ S!Init
    /\ A!Init
    /\ V!Init
    /\ runs # "availability" => lastMetric = 1
    /\ \/ runs = "tickets" /\ Init
       \/ /\ runs # "tickets"
          /\ ticket = [k \in Tickets |->
                [status |-> "none", acknowledged_at |-> FALSE, closed_at |-> FALSE]]
          /\ pc = [r \in Requests |-> "idle"]
          /\ job = [r \in Requests |-> None]
          /\ audit = {}

DesksNext ==
    \/ Runs("tickets") /\ Next /\ UNCHANGED <<sessionVars, accessVars, hourVars>>
    \/ Runs("sessions") /\ S!Next /\ UNCHANGED <<vars, accessVars, hourVars>>
    \/ Runs("access") /\ A!Next /\ UNCHANGED <<vars, sessionVars, hourVars>>
    \/ Runs("availability") /\ V!Next /\ UNCHANGED <<vars, sessionVars, accessVars>>

DesksSpec == DesksInit /\ [][DesksNext]_all

\* The types of the tickets, and what holds of the users, the sessions and the refresh
\* tokens of the analytics platform.
DesksInv ==
    /\ runs = "tickets" => TypeOK
    /\ runs = "sessions" => S!SessionsInv

\* The invariants of towercore's users, their tokens and the limiter.
AccessInv == runs = "access" => A!AccessInv

\* The availability counts the hours that were down, and is that of its instant.
AvailabilityInv == runs = "availability" => V!AvailabilityInv
=============================================================================
