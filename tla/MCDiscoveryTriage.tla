------------------------- MODULE MCDiscoveryTriage -------------------------
(***************************************************************************)
(* Devices that are looked for and devices that are polled, side by side   *)
(* for TLC: discovery and triage (DiscoveryTriage), the controllers of     *)
(* generators (Generators), and the alarms of what a tower's device        *)
(* answers (VendorAlarms).  A behaviour runs one of them, chosen at the    *)
(* start; the others stay in an initial state.                             *)
(***************************************************************************)
EXTENDS DiscoveryTriage, VendorProfiles, TLC

CONSTANTS Endpoints, Batch, MaxTime, MaxCycles, MaxFaults, MaxPolls

VARIABLES
    runs,
    now, endpoints, readings, status, step, todo, reading, cycles, faults,
    latest, promised, together, unmarked,
    vendor, watched, last, shown, event, polls, failed, made, alarm

generatorVars == <<now, endpoints, readings, status, step, todo, reading, cycles,
                   faults, latest, promised, together, unmarked>>
alarmVars == <<vendor, watched, last, shown, event, polls, failed, made, alarm>>
all == <<runs, vars, generatorVars, alarmVars>>

Symmetry ==
    Permutations(Requests) \cup Permutations(Addresses) \cup Permutations(TowerIds)

\* The two processes borrow the names of requests.
Order == <<"first", "second", "third">>
G == INSTANCE Generators WITH Processes <- Requests, pc <- step

A == INSTANCE VendorAlarms WITH MaxFaults <- 1, status <- shown, faults <- failed

ASSUME GeneratorParameters == G!Parameters
ASSUME ProfileParameters == A!Parameters

\* Metrics whose rules are those of another metric of the profile.
Alike == {"mains_voltage_l2_v", "mains_voltage_l3_v", "system_temperature_2_c",
          "ac1_voltage_phase_b_v", "ac1_voltage_phase_c_v"}

Runs(which) == runs = which /\ UNCHANGED runs

\* An endpoint beyond the page is in order.
Plain(t) == endpoints[t] = [addressed |-> TRUE, decrypts |-> TRUE]

DevicesInit ==
    /\ runs \in {"generators", "triage", "alarms"}
    /\ G!Init
    /\ \A i \in DOMAIN Endpoints : i > Batch => Plain(Endpoints[i])
    /\ A!Init
    /\ watched \cap Alike = {}
    /\ Init
    /\ runs # "alarms" => vendor = "huawei" /\ "alarm_level" \notin watched
    /\ runs # "triage" =>
          \E j \in Job : j.op = "ignore" /\ j.vendor = "" /\ \A r \in Requests : job[r] = j
    /\ runs # "generators" => \A t \in G!Towers : Plain(t)

\* The bounds on cycles and polls are no deadlock.
Over ==
    /\ \/ runs = "generators" /\ cycles = MaxCycles /\ \A p \in Requests : todo[p] = {}
       \/ runs = "alarms" /\ polls = MaxPolls
    /\ UNCHANGED all

DevicesNext ==
    \/ Runs("triage") /\ UNCHANGED <<generatorVars, alarmVars>> /\ Next
    \/ Runs("generators") /\ UNCHANGED <<vars, alarmVars>> /\ G!Next
    \/ Runs("alarms") /\ UNCHANGED <<vars, generatorVars>> /\ A!Next
    \/ Over

DevicesSpec == DevicesInit /\ [][DevicesNext]_all

GeneratorsInv == runs = "generators" => G!GeneratorsInv
RulesInv == runs = "alarms" => A!RulesInv
=============================================================================
