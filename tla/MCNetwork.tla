----------------------------- MODULE MCNetwork -----------------------------
(***************************************************************************)
(* What is read in one statement and written in another, side by side for  *)
(* TLC: the cache of towers (TowerCache) and the network links copied from *)
(* Zabbix (LinkSync), once with all who sync and once with who reads pages *)
(* beside the scheduler.  A behaviour runs one of them, chosen at the      *)
(* start; the other stays in an initial state.                             *)
(***************************************************************************)
EXTENDS MCTowerCache

CONSTANTS
    Scheduler, Requests, Pages, Hosts, IfIndexes, Address, DefaultSearch, Blank, Speeds,
    MaxPolls, MaxFaults, None

VARIABLES
    runs,
    zabbix, session, links, snapshots, sync, page, asked, faults

syncVars == <<zabbix, session, links, snapshots, sync, page, asked, faults>>
all == <<runs, vars, syncVars>>

L == INSTANCE LinkSync WITH Readers <- Pages, MaxClock <- MaxPolls

\* Router h has address h.
OwnAddress == [h \in Hosts |-> h]

ASSUME SyncParameters == L!Parameters

Runs(which) == runs = which /\ UNCHANGED runs
OfCache(A) == Runs("cache") /\ A /\ UNCHANGED syncVars
OfSync(A) == Runs("sync") /\ UNCHANGED page /\ A /\ UNCHANGED vars
OfPages(A) == Runs("pages") /\ A /\ UNCHANGED vars

NetworkInit ==
    /\ runs \in {"cache", "sync", "pages"}
    /\ Init /\ L!Init
    /\ runs = "cache" => session = "none"

\* Pages are read beside the scheduler alone.
NetworkNext ==
    \/ OfCache(Next)
    \/ OfSync(L!Next)
    \/ OfPages(L!Next /\ \A q \in Requests : sync'[q] = sync[q])

\* The fairness of each module's FairSpec.
NetworkFairness ==
    /\ \A r \in Readers : WF_all(OfCache(Read(r)))
    /\ \A w \in Writers : WF_all(OfCache(Invalidate(w)))
    /\ \A t \in Towers : WF_all(OfCache(ExpireTower(t)))
    /\ \A k \in Statuses \cup {Every} : WF_all(OfCache(ExpireList(k)))
    /\ WF_all(OfSync(L!runOnce))
    /\ \A s \in L!Syncers : WF_all(OfSync(L!Step(s)))

NetworkSpec == NetworkInit /\ [][NetworkNext]_all /\ NetworkFairness

SyncInv == L!SyncInv
NamesAreKept == L!NamesAreKept
LinksFollowZabbix == runs = "sync" => L!LinksFollowZabbix
=============================================================================
