------------------------------ MODULE MCFollow ------------------------------
(***************************************************************************)
(* What comes about under fairness, side by side for TLC: the events of    *)
(* the alarms (AlarmLifecycle) and the row of a tower (TowerRow) come to   *)
(* follow the equipment when nothing fails, the row of a site of NetEco    *)
(* (NetEcoSession) after something failed, and the processes come to their *)
(* end (ServiceLife), with everything that may fail.  Beside them the      *)
(* events of a network link (LinkStatus), of which only safety is asked.   *)
(* They share no state, so each behaviour runs one of them, chosen at the  *)
(* start; the others stay in one of their initial states.                  *)
(***************************************************************************)
EXTENDS MCAlarmLifecycle

CONSTANTS Collectors, Operators, Jobs, Conditions, MaxSettings,
          Apis, Requests, MaxStarts, LastScript, LifeWorkers, LifeFaults, EnvValues, Second, Half,
          Links, Capacity, ErrorCounts, MaxTime, MaxFaults, Clients, Texts, MaxChanges

VARIABLES
    runs,
    row, device, todo, copy, want, asked,
    recorded, effects, stage, script, signalled, work, request, starts, culprit,
    crew, now, router, carried, snapshots, events, poll, shown, faults,
    processes, up, exclusive, site, session, loggedIn, loop, energy, losses

towerVars == <<row, device, todo, copy, want, asked>>
lifeVars == <<recorded, effects, stage, script, signalled, work, request, starts, culprit>>
linkVars == <<crew, now, router, carried, snapshots, events, poll, shown, faults>>
sessionVars == <<processes, up, exclusive, site, session, loggedIn, loop, energy, losses>>
all == <<runs, vars, towerVars, lifeVars, linkVars, sessionVars>>

R == INSTANCE TowerRow

SomeEnvValues == {None, 0 - 1, 0, 2, 80, 170}
L == INSTANCE ServiceLife WITH Workers <- LifeWorkers, Faults <- LifeFaults

K == INSTANCE LinkStatus

N == INSTANCE NetEcoSession WITH
        MaxFaults <- 1, crew <- processes, poll <- loop, row <- energy, faults <- losses

\* The assumptions of the two modules the proofs are about.
ASSUME LifeParameters == L!Parameters
ASSUME StatusParameters == K!Parameters

SnmpCycles == {"snmp_online", "snmp_degraded", "snmp_unreachable"}

Runs(which) == runs = which /\ UNCHANGED runs
OfAlarms(A) == Runs("alarms") /\ A /\ UNCHANGED <<towerVars, lifeVars, linkVars, sessionVars>>
OfRow(A) == Runs("row") /\ A /\ UNCHANGED <<vars, lifeVars, linkVars, sessionVars>>
OfLife(A) == Runs("life") /\ A /\ UNCHANGED <<vars, towerVars, linkVars, sessionVars>>
\* Things fail for a single poller.
OfLink(A) ==
    /\ Runs("link") /\ A /\ (K!Solo \/ faults' = faults)
    /\ UNCHANGED <<vars, towerVars, lifeVars, sessionVars>>
OfSession(A) == Runs("neteco") /\ A /\ UNCHANGED <<vars, towerVars, lifeVars, linkVars>>

FollowInit ==
    /\ runs \in {"alarms", "row", "life", "link", "neteco"}
    /\ Init /\ R!Init /\ L!Init /\ K!Init /\ N!Init
    /\ runs # "alarms" => reading = [t \in Towers |-> [k \in RuleKeys |-> None]]
    /\ runs # "row" => row.status = "no_data" /\ ~row.snmp_enabled /\ device = "silent"
    /\ runs # "link" => crew = Pollers
    /\ site.lacks = {} /\ site.dc = N!DcDevices /\ ~exclusive
    /\ runs # "neteco" => energy.status = "no_data" /\ site.connect = "0"

FollowNext == OfAlarms(Next) \/ OfRow(R!Next) \/ OfLife(L!Next) \/ OfLink(K!Next) \/ OfSession(N!Next)

\* The fairness of each module's FairSpec.  Actions of different parts share a conjunct:
\* only those of the part that runs are ever enabled.
FollowFairness ==
    /\ \A p \in Pollers, t \in Towers : SF_all(OfAlarms(StartIngest(p, t)))
    /\ \A p \in Pollers : WF_all(OfAlarms(Step(p)))
    /\ \A h \in TrapHandlers : WF_all(OfAlarms(Step(h)) \/ OfSession(N!Return))
    /\ \A c \in Collectors : WF_all(OfRow(\E job \in Jobs : R!Collect(c, job)) \/ OfLife(L!Main(c)))
    /\ \A c \in Collectors, n \in Clients :
          WF_all(OfRow(R!Read(c) \/ R!Write(c)) \/ OfSession(N!Loop(n)))
    /\ \A o \in Operators : WF_all(OfRow(R!Read(o) \/ R!Write(o)))
    /\ \A p \in Apis : WF_all(OfLife(L!Main(p)))

FollowSpec == FollowInit /\ [][FollowNext]_all /\ FollowFairness

\* The row comes to show the device and stays so, with collectors and operators
\* overwriting each other (TowerRow); it is asked of the behaviours that run the row.
RowFollowsDevice == runs = "row" => R!RowFollowsDevice

LifeInv == L!LifeInv
SignalEndsProcess == L!SignalEndsProcess
StatusInv == K!StatusInv
RowFollowsSite == runs = "neteco" => N!RowFollowsSite
=============================================================================
