------------------------------- MODULE MCFeeds -------------------------------
(***************************************************************************)
(* Three ways in which data reaches the platforms, side by side for TLC:   *)
(* the ingestion cycle of the analytics platform (MetricFeed), the         *)
(* collection cycle of towercore's schedulers (CollectionCycle), which     *)
(* page through a growing table, and NetEco's traps (NetEcoTraps).  They   *)
(* share no state, so each behaviour runs one of them, chosen at the start.*)
(***************************************************************************)
EXTENDS MetricFeed, TLC

CONSTANTS Towers, BatchSize, Concurrency, Faults,
          Listeners, Problems, NEIDs, TowerLimit, MaxTraps, MaxMishaps, None

VARIABLES
    runs,  \* which of the three runs
    c_stamped, committed, c_pc, c_offset, total, page, running, counted, started, atStart,
    crew, problem, active, number, wire, towers, open, spare, mishaps, count

collection ==
    <<c_stamped, committed, c_pc, c_offset, total, page, running, counted, started, atStart>>
trapVars == <<crew, problem, active, number, wire, towers, open, spare, mishaps, count>>
all == <<runs, vars, collection, trapVars>>

C == INSTANCE CollectionCycle WITH stamped <- c_stamped, pc <- c_pc, offset <- c_offset

TrapKinds ==
    [neid : NEIDs, severity : {4}, text : {"fault", "FAULT!", ""}] \cup
    [neid : NEIDs, severity : {6}, text : {"fault"}] \cup
    [neid : NEIDs, severity : {2}, text : {"sem descricao"}]
T == INSTANCE NetEcoTraps WITH Kinds <- TrapKinds

ASSUME CycleParameters == C!Parameters
ASSUME TrapParameters == T!Parameters

Runs(which) == runs = which /\ UNCHANGED runs
Feeds(A) == Runs("feed") /\ A /\ UNCHANGED <<collection, trapVars>>
Collects(A) == Runs("collection") /\ A /\ UNCHANGED <<vars, trapVars>>
OfTraps(A) == Runs("traps") /\ A /\ UNCHANGED <<vars, collection>>

FeedsInit ==
    /\ runs \in {"feed", "collection", "traps"}
    /\ Init /\ C!Init /\ T!Init
    /\ towers[1] # None
    /\ runs # "traps" =>
          /\ towers[2] = None
          /\ crew = Listeners
          /\ problem \in [Problems -> {k \in TrapKinds : k.severity = 6}]

FeedsNext == Feeds(Next) \/ Collects(C!Next) \/ OfTraps(T!Next)

\* The fairness of each module's FairSpec.
FeedsFairness ==
    /\ WF_all(Feeds(Collect))
    /\ WF_all(Collects(C!Cycle))
    /\ \A t \in Towers : WF_all(Collects(C!Collect(t)))

FeedsSpec == FeedsInit /\ [][FeedsNext]_all /\ FeedsFairness

CycleInv == C!CycleInv
TrapsInv == runs = "traps" => T!TrapsInv
EveryTowerIsCollectedAgain == C!EveryTowerIsCollectedAgain
=============================================================================
