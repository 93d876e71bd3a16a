-------------------------- MODULE DiscoveryTriage --------------------------
(***************************************************************************)
(* Devices that answer a scan are kept for triage in discovered_devices;   *)
(* an operator promotes one to a tower or ignores it.  DiscoveryService    *)
(* scans in each process; Promote reads the device, saves a new tower and  *)
(* marks the device, in three statements; Ignore marks it in one and reads *)
(* nothing.                                                                *)
(*                                                                         *)
(* Definitions that no other definition uses, each just before the one it  *)
(* resembles, are plausible bugs that the properties are tested with.      *)
(***************************************************************************)

CONSTANTS
    Scanners,   \* processes that run ScanCIDR
    Requests,   \* HTTP requests that promote or ignore
    Addresses,  \* the addresses of the CIDR, which also identify the devices
    TowerIds,
    Faults,     \* "db": a statement fails, or its answer is lost
    None        \* no device, no tower

ASSUME TriageAssumption == None \notin Addresses \cup TowerIds

VARIABLES
    found,    \* found[s]: answers that scanner s has yet to record
    device,   \* discovered_devices, by ip_address
    towers,   \* snmp_target of the towers that promotions saved
    pc,       \* the statement each request runs next
    job,      \* what each request asks for
    saved,    \* the tower a promotion has saved and is to name
    excused   \* devices whose promotion may have been, or may be, repeated

vars == <<found, device, towers, pc, job, saved, excused>>

Vendors == {"", "huawei"}
Answer == Addresses \X Vendors
Statuses == {"pending", "promoted", "ignored"}
Device ==
    [status : Statuses, detected_vendor : Vendors, promoted_tower_id : TowerIds \cup {None}]
Job == [op : {"promote", "ignore"}, id : Addresses, vendor : Vendors]

ASSUME DeviceAssumption == None \notin Device

Init ==
    /\ found = [s \in Scanners |-> {}]
    /\ device = [a \in Addresses |-> None]
    /\ towers = [t \in TowerIds |-> None]
    /\ pc = [r \in Requests |-> "idle"]
    /\ job \in [Requests -> Job]
    /\ saved = [r \in Requests |-> None]
    /\ excused = {}

Known(a) == device[a] # None

-----------------------------------------------------------------------------
(* ScanCIDR: a goroutine for each address, one recordDevice at a time.      *)

Probe(s, a, vendor) ==
    /\ ~\E x \in found[s] : x[1] = a
    /\ found' = [found EXCEPT ![s] = @ \cup {<<a, vendor>>}]
    /\ UNCHANGED <<device, towers, pc, job, saved, excused>>

\* ON CONFLICT leaves the status and the tower alone.
SeenAgain(a, vendor) ==
    [status |-> "pending", detected_vendor |-> vendor,
     promoted_tower_id |-> IF Known(a) THEN device[a].promoted_tower_id ELSE None]

Seen(a, vendor) ==
    IF Known(a) THEN [device[a] EXCEPT !.detected_vendor = vendor]
    ELSE [status |-> "pending", detected_vendor |-> vendor, promoted_tower_id |-> None]

UpsertSeen(s, x) ==
    /\ x \in found[s]
    /\ found' = [found EXCEPT ![s] = @ \ {x}]
    /\ device' = [device EXCEPT ![x[1]] = Seen(x[1], x[2])]
    /\ UNCHANGED <<towers, pc, job, saved, excused>>

\* The error is logged, or the scan is cancelled: the next scan finds the device.
UpsertFails(s, x) ==
    /\ "db" \in Faults
    /\ x \in found[s]
    /\ found' = [found EXCEPT ![s] = @ \ {x}]
    /\ UNCHANGED <<device, towers, pc, job, saved, excused>>

-----------------------------------------------------------------------------
(* Promote and Ignore.                                                      *)

Promotes(r) == job[r].op = "promote"

\* r has found its device fit for promotion and has not marked it yet.
InHand(r, a) == Promotes(r) /\ job[r].id = a /\ pc[r] \in {"save", "mark"}

Receive(r, j) ==
    /\ pc[r] = "idle"
    /\ Known(j.id)
    /\ job' = [job EXCEPT ![r] = j]
    /\ pc' = [pc EXCEPT ![r] = IF j.op = "promote" THEN "get" ELSE "mark"]
    /\ UNCHANGED <<found, device, towers, saved, excused>>

\* A promoted device is refused, and one whose vendor nobody knows.
UncheckedFit(r) == job[r].vendor # "" \/ device[job[r].id].detected_vendor # ""

Fit(r) ==
    /\ device[job[r].id].status # "promoted"
    /\ job[r].vendor # "" \/ device[job[r].id].detected_vendor # ""

GetByID(r) ==
    /\ pc[r] = "get"
    /\ \/ /\ ~Fit(r)
          /\ pc' = [pc EXCEPT ![r] = "idle"]
          /\ UNCHANGED excused
       \/ /\ Fit(r)
          /\ pc' = [pc EXCEPT ![r] = "save"]
          /\ excused' = excused \cup {a \in {job[r].id} : \E q \in Requests : InHand(q, a)}
    /\ UNCHANGED <<found, device, towers, job, saved>>

Save(r, t) ==
    /\ pc[r] = "save"
    /\ towers[t] = None
    /\ towers' = [towers EXCEPT ![t] = job[r].id]
    /\ saved' = [saved EXCEPT ![r] = t]
    /\ pc' = [pc EXCEPT ![r] = "mark"]
    /\ UNCHANGED <<found, device, job, excused>>

\* The device as UpdateStatus leaves it; ignoring passes no tower.
OpAsStatus(r, row) ==
    [row EXCEPT !.status = job[r].op, !.promoted_tower_id = saved[r]]

MarkedKeepingTower(r, row) ==
    [row EXCEPT !.status = IF Promotes(r) THEN "promoted" ELSE "ignored",
                !.promoted_tower_id = IF Promotes(r) THEN saved[r] ELSE @]

Marked(r, row) ==
    [row EXCEPT !.status = IF Promotes(r) THEN "promoted" ELSE "ignored",
                !.promoted_tower_id = saved[r]]

\* Nothing keeps an operator from ignoring a promoted device.
UpdateStatus(r) ==
    /\ pc[r] = "mark"
    /\ device' = [device EXCEPT ![job[r].id] = Marked(r, @)]
    /\ excused' = excused \cup
          {a \in {job[r].id} : ~Promotes(r) /\ device[a].promoted_tower_id # None}
    /\ pc' = [pc EXCEPT ![r] = "idle"]
    /\ saved' = [saved EXCEPT ![r] = None]
    /\ UNCHANGED <<found, towers, job>>

\* A statement fails or the process stops: the rest of the request is not run,
\* and a tower that was saved stays.
Abort(r) ==
    /\ "db" \in Faults
    /\ pc[r] # "idle"
    /\ pc' = [pc EXCEPT ![r] = "idle"]
    /\ saved' = [saved EXCEPT ![r] = None]
    /\ excused' = excused \cup {a \in {job[r].id} : saved[r] # None}
    /\ UNCHANGED <<found, device, towers, job>>

\* The tower is saved but the answer is lost.
SaveUnanswered(r, t) ==
    /\ "db" \in Faults
    /\ pc[r] = "save"
    /\ towers[t] = None
    /\ towers' = [towers EXCEPT ![t] = job[r].id]
    /\ pc' = [pc EXCEPT ![r] = "idle"]
    /\ excused' = excused \cup {job[r].id}
    /\ UNCHANGED <<found, device, job, saved>>

Scan(s) ==
    \/ \E a \in Addresses, vendor \in Vendors : Probe(s, a, vendor)
    \/ \E x \in found[s] : UpsertSeen(s, x) \/ UpsertFails(s, x)

Request(r) ==
    \/ \E j \in Job : Receive(r, j)
    \/ GetByID(r)
    \/ \E t \in TowerIds : Save(r, t) \/ SaveUnanswered(r, t)
    \/ UpdateStatus(r)
    \/ Abort(r)

Next == (\E s \in Scanners : Scan(s)) \/ (\E r \in Requests : Request(r))

Spec == Init /\ [][Next]_vars

-----------------------------------------------------------------------------
TypeOK ==
    /\ found \in [Scanners -> SUBSET Answer]
    /\ device \in [Addresses -> Device \cup {None}]
    /\ towers \in [TowerIds -> Addresses \cup {None}]
    /\ pc \in [Requests -> {"idle", "get", "save", "mark"}]
    /\ job \in [Requests -> Job]
    /\ saved \in [Requests -> TowerIds \cup {None}]
    /\ excused \subseteq Addresses

\* However scans and requests interleave, a device that was promoted or ignored
\* never comes back as pending (UpsertSeen: "sem nunca sobrescrever Status").
TriageIsNeverReopened ==
    [][\A a \in Addresses :
          Known(a) => /\ Known(a)'
                      /\ device[a].status # "pending" => device'[a].status # "pending"]_vars

\* A device names a tower exactly when it is promoted, and that tower was saved
\* for its address, whoever promoted or ignored it meanwhile (UpdateStatus).
PromotedNamesItsTower ==
    \A a \in Addresses : Known(a) =>
        LET t == device[a].promoted_tower_id
        IN IF device[a].status = "promoted" THEN t # None /\ towers[t] = a ELSE t = None

\* A device is given a second tower only when two promotions of it overlapped,
\* one failed after its tower was saved, or it was ignored after it was
\* promoted (Promote: "já foi promovido").
OneTowerPerDevice ==
    \A t, u \in TowerIds :
        towers[t] # None /\ towers[t] = towers[u] /\ towers[t] \notin excused => t = u
=============================================================================
