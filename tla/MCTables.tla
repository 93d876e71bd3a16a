------------------------------ MODULE MCTables ------------------------------
(***************************************************************************)
(* What writers store of one tower, side by side for TLC: its row          *)
(* (TowerRow); its tables of readings (Readings), once with all that stores *)
(* readings, one sender less, and once with a client that reads pages      *)
(* beside single readings;                                                 *)
(* what the polls of NetEco read and write (NetEcoSession).  A behaviour   *)
(* runs one of them, chosen at the start; the others stay in an initial    *)
(* state.                                                                  *)
(***************************************************************************)
EXTENDS MCTowerRow, Integers

CONSTANTS Tags, If0, MaxClock, MaxBatches, MaxReadings, PageSize, StatusRows, None,
          Clients, Texts, MaxChanges, MaxFaults

VARIABLES
    runs,
    clock, sent, rows, purged, page,
    processes, up, exclusive, site, session, loggedIn, loop, energy, losses

readingVars == <<clock, sent, rows, purged, page>>
sessionVars == <<processes, up, exclusive, site, session, loggedIn, loop, energy, losses>>
all == <<runs, vars, readingVars, sessionVars>>

R == INSTANCE Readings

N == INSTANCE NetEcoSession WITH
        crew <- processes, poll <- loop, row <- energy, faults <- losses

\* The assumptions of the two modules, for the proofs.
ASSUME ReadingParameters == R!Parameters
ASSUME NetEcoParameters == N!Parameters

\* Two processes share one account, of a site that does not change; what a site may
\* look like is shown to a single one.
Shared == processes = Clients
PlainSites == {s \in N!Sites : s.connect = "0" /\ s.dc = N!DcDevices /\ s.lacks = {}}

Runs(which) == runs = which /\ UNCHANGED runs

TablesInit ==
    /\ runs \in {"row", "batches", "pages", "neteco"}
    /\ Init /\ R!Init /\ N!Init
    /\ runs # "row" => row.status = "no_data" /\ ~row.snmp_enabled /\ device = "answers"
    /\ runs # "neteco" => Shared /\ ~exclusive
    /\ IF Shared THEN site \in PlainSites /\ energy.status = "no_data"
       ELSE ~exclusive /\ (site.lacks = {} \/ site.dc = N!DcDevices)

TablesNext ==
    \/ Runs("row") /\ UNCHANGED <<readingVars, sessionVars>> /\ Next
    \/ /\ Runs("batches") /\ UNCHANGED <<vars, page, sessionVars>>
       /\ (Len(sent) + 1 < MaxBatches /\ R!Send) \/ R!Proceed
    \/ /\ Runs("pages") /\ UNCHANGED <<vars, sessionVars>> /\ R!Next
       /\ \A b \in DOMAIN sent' : sent'[b].how = "one" /\ sent'[b].answer = "ok"
    \/ /\ Runs("neteco") /\ UNCHANGED <<vars, readingVars>> /\ N!Next
       /\ Shared => site' = site

TablesSpec == TablesInit /\ [][TablesNext]_all

TablesInv ==
    /\ runs \in {"batches", "pages"} => R!ReadingsInv
    /\ runs = "neteco" => N!SessionInv
=============================================================================
