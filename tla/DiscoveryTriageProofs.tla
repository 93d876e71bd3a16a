----------------------- MODULE DiscoveryTriageProofs -----------------------
(***************************************************************************)
(* Proofs about discovery and triage for any number of scanners, requests, *)
(* devices and towers; and about the two parts that MCDiscoveryTriage puts *)
(* beside them: the cycles over the controllers of generators (Generators) *)
(* and the alarm rules (VendorAlarms).                                     *)
(***************************************************************************)
EXTENDS MCDiscoveryTriage, WellFoundedInduction, TLAPS

(* Requests run on devices that are known; only a promotion reads and saves. *)
JobIsKnown ==
    \A r \in Requests :
        /\ pc[r] # "idle" => Known(job[r].id)
        /\ pc[r] \in {"get", "save"} => Promotes(r)

(* A promotion that is to mark its device has saved a tower for it, and no *)
(* other request holds one.                                                *)
SavedForItsDevice ==
    \A r \in Requests :
        IF Promotes(r) /\ pc[r] = "mark"
        THEN saved[r] \in TowerIds /\ towers[saved[r]] = job[r].id
        ELSE saved[r] = None

(* Unless it is excused, a device has one promotion in hand, and names no  *)
(* tower while it has.                                                     *)
OneInHand ==
    \A a \in Addresses, q, r \in Requests :
        a \notin excused /\ InHand(q, a) /\ InHand(r, a) => q = r

InHandIsUnnamed ==
    \A a \in Addresses, r \in Requests :
        a \notin excused /\ InHand(r, a) => device[a].promoted_tower_id = None

(* Every tower of a device that is not excused is named by it or about to be. *)
TowerIsNamed ==
    \A t \in TowerIds :
        towers[t] # None /\ towers[t] \notin excused =>
            \/ Known(towers[t]) /\ device[towers[t]].promoted_tower_id = t
            \/ \E r \in Requests : saved[r] = t

IInv ==
    /\ TypeOK
    /\ PromotedNamesItsTower
    /\ JobIsKnown
    /\ SavedForItsDevice
    /\ OneInHand
    /\ InHandIsUnnamed
    /\ TowerIsNamed

-----------------------------------------------------------------------------
(* What a scan leaves of a device: its status and its tower.               *)
LEMMA SeenKeepsTriage ==
    ASSUME TypeOK, NEW a \in Addresses, NEW v \in Vendors
    PROVE  /\ Seen(a, v) \in Device
           /\ Known(a) => /\ Seen(a, v).status = device[a].status
                          /\ Seen(a, v).promoted_tower_id = device[a].promoted_tower_id
           /\ ~Known(a) => /\ Seen(a, v).status = "pending"
                           /\ Seen(a, v).promoted_tower_id = None
<1>1. CASE Known(a)
  <2>1. device[a] \in Device
    BY <1>1 DEF TypeOK, Known
  <2>2. Seen(a, v) = [device[a] EXCEPT !.detected_vendor = v]
    BY <1>1 DEF Seen
  <2>3. QED
    BY <1>1, <2>1, <2>2 DEF Device
<1>2. CASE ~Known(a)
  BY <1>2 DEF Seen, Device, Statuses
<1>3. QED
  BY <1>1, <1>2

(* What a request leaves of its device. *)
LEMMA MarkedByRequest ==
    ASSUME TypeOK, NEW r \in Requests, Known(job[r].id)
    PROVE  /\ Marked(r, device[job[r].id]) \in Device
           /\ Marked(r, device[job[r].id]).promoted_tower_id = saved[r]
           /\ Marked(r, device[job[r].id]).status
                = IF Promotes(r) THEN "promoted" ELSE "ignored"
<1>1. device[job[r].id] \in Device /\ saved[r] \in TowerIds \cup {None}
  BY DEF TypeOK, Known, Job
<1>2. QED
  BY <1>1 DEF Marked, Device, Statuses

LEMMA InitInv == Init => IInv
BY TriageAssumption DEF Init, IInv, TypeOK, PromotedNamesItsTower, JobIsKnown,
   SavedForItsDevice, OneInHand, InHandIsUnnamed, TowerIsNamed, Known, InHand, Job

(* A recorded answer. *)
LEMMA UpsertInv ==
    ASSUME IInv, NEW s \in Scanners, NEW x, UpsertSeen(s, x)
    PROVE  IInv'
<1> DEFINE a == x[1]
<1>1. /\ x \in found[s] /\ a \in Addresses /\ x[2] \in Vendors
      /\ found' = [found EXCEPT ![s] = @ \ {x}]
      /\ device' = [device EXCEPT ![a] = Seen(a, x[2])]
      /\ UNCHANGED <<towers, pc, job, saved, excused>>
  BY DEF IInv, TypeOK, Answer, UpsertSeen
<1>2. /\ device'[a] \in Device
      /\ \A b \in Addresses : b # a => device'[b] = device[b]
      /\ Known(a) => /\ device'[a].status = device[a].status
                     /\ device'[a].promoted_tower_id = device[a].promoted_tower_id
      /\ ~Known(a) => /\ device'[a].status = "pending"
                      /\ device'[a].promoted_tower_id = None
  BY <1>1, SeenKeepsTriage DEF IInv, TypeOK
<1>3. TypeOK'
  BY <1>1, <1>2 DEF IInv, TypeOK
<1>4. device'[a] # None
  BY <1>2, DeviceAssumption
<1>5. PromotedNamesItsTower'
  BY <1>1, <1>2 DEF IInv, PromotedNamesItsTower, Known
<1>6. JobIsKnown'
  BY <1>1, <1>2, <1>4 DEF IInv, TypeOK, Job, JobIsKnown, Known, Promotes
<1>7. SavedForItsDevice' /\ OneInHand'
  BY <1>1 DEF IInv, SavedForItsDevice, OneInHand, InHand, Promotes
<1>8. InHandIsUnnamed'
  BY <1>1, <1>2 DEF IInv, JobIsKnown, InHandIsUnnamed, InHand, Promotes, Known
<1>9. TowerIsNamed'
  BY <1>1, <1>2, <1>4 DEF IInv, TypeOK, TowerIsNamed, Known
<1>10. QED
  BY <1>3, <1>5, <1>6, <1>7, <1>8, <1>9 DEF IInv

(* A request that is received, or whose device is read. *)
LEMMA ReadInv ==
    ASSUME IInv, NEW r \in Requests,
           GetByID(r) \/ \E j \in Job : Receive(r, j)
    PROVE  IInv'
<1>1. CASE GetByID(r)
  <2>1. TypeOK'
    BY <1>1 DEF IInv, TypeOK, GetByID, Job
  <2>2. PromotedNamesItsTower' /\ JobIsKnown'
    BY <1>1 DEF IInv, TypeOK, GetByID, PromotedNamesItsTower, JobIsKnown, Known, Promotes
  <2>3. SavedForItsDevice'
    BY <1>1 DEF IInv, TypeOK, GetByID, SavedForItsDevice, Promotes
  <2>4. ASSUME NEW b \in Addresses, b \notin excused'
        PROVE  b \notin excused /\ (pc'[r] = "save" /\ job[r].id = b =>
                                        ~\E q \in Requests : InHand(q, b))
    BY <1>1, <2>4 DEF IInv, TypeOK, GetByID
  <2>5. \A q \in Requests, b \in Addresses :
            InHand(q, b)' => InHand(q, b) \/ (q = r /\ pc'[r] = "save" /\ job[r].id = b)
    BY <1>1 DEF IInv, TypeOK, GetByID, InHand, Promotes
  <2>6. OneInHand'
    BY <2>4, <2>5 DEF IInv, OneInHand
  <2>7. pc'[r] = "save" => device[job[r].id].promoted_tower_id = None
    <3>1. Known(job[r].id) /\ job[r].id \in Addresses
      BY <1>1 DEF IInv, TypeOK, Job, JobIsKnown, GetByID
    <3>2. QED
      BY <1>1, <3>1 DEF IInv, TypeOK, GetByID, Fit, PromotedNamesItsTower
  <2>8. InHandIsUnnamed'
    BY <1>1, <2>4, <2>5, <2>7 DEF IInv, InHandIsUnnamed, GetByID
  <2>9. TowerIsNamed'
    BY <1>1 DEF IInv, TowerIsNamed, GetByID, Known
  <2>10. QED
    BY <2>1, <2>2, <2>3, <2>6, <2>8, <2>9 DEF IInv
<1>2. ASSUME NEW j \in Job, Receive(r, j)
      PROVE  IInv'
  <2>1. TypeOK'
    BY <1>2 DEF IInv, TypeOK, Receive, Job
  <2>2. PromotedNamesItsTower' /\ JobIsKnown'
    BY <1>2 DEF IInv, TypeOK, Receive, PromotedNamesItsTower, JobIsKnown, Known, Promotes
  <2>3. SavedForItsDevice'
    BY <1>2 DEF IInv, TypeOK, Receive, SavedForItsDevice, Promotes, Job
  <2>4. \A q \in Requests, b \in Addresses : InHand(q, b)' => InHand(q, b)
    BY <1>2 DEF IInv, TypeOK, Receive, InHand, Promotes, Job
  <2>5. OneInHand' /\ InHandIsUnnamed'
    BY <1>2, <2>4 DEF IInv, OneInHand, InHandIsUnnamed, Receive
  <2>6. TowerIsNamed'
    BY <1>2 DEF IInv, TowerIsNamed, Receive, Known
  <2>7. QED
    BY <2>1, <2>2, <2>3, <2>5, <2>6 DEF IInv
<1>3. QED
  BY <1>1, <1>2

(* A tower that is saved, whether the answer comes or not. *)
LEMMA SaveInv ==
    ASSUME IInv, NEW r \in Requests, NEW t \in TowerIds,
           Save(r, t) \/ SaveUnanswered(r, t)
    PROVE  IInv'
<1>1. /\ pc[r] = "save" /\ towers[t] = None
      /\ towers' = [towers EXCEPT ![t] = job[r].id]
      /\ job[r].id \in Addresses
      /\ UNCHANGED <<found, device, job>>
      /\ excused \subseteq excused'
  BY DEF IInv, TypeOK, Job, Save, SaveUnanswered
<1>2. TypeOK'
  BY <1>1 DEF IInv, TypeOK, Save, SaveUnanswered
<1>3. PromotedNamesItsTower'
  <2>1. \A u \in TowerIds : towers[u] # None => towers'[u] = towers[u]
    BY <1>1 DEF IInv, TypeOK
  <2>2. ASSUME NEW a \in Addresses, Known(a)
        PROVE  device[a].promoted_tower_id \in TowerIds \cup {None}
    BY <2>2 DEF IInv, TypeOK, Known, Device
  <2>3. QED
    BY <1>1, <2>1, <2>2, TriageAssumption DEF IInv, PromotedNamesItsTower, Known
<1>4. JobIsKnown'
  BY <1>1 DEF IInv, TypeOK, JobIsKnown, Known, Promotes, Save, SaveUnanswered
<1>5. SavedForItsDevice'
  <2>1. \A u \in TowerIds : towers[u] \in Addresses => towers'[u] = towers[u]
    BY <1>1, TriageAssumption DEF IInv, TypeOK
  <2>2. \A q \in Requests : job[q].id \in Addresses
    BY DEF IInv, TypeOK, Job
  <2>3. ASSUME NEW q \in Requests, q # r
        PROVE  saved'[q] = saved[q] /\ pc'[q] = pc[q] /\ job'[q] = job[q]
    BY <1>1, <2>3 DEF IInv, TypeOK, Save, SaveUnanswered
  <2>4. saved[r] = None
    BY <1>1 DEF IInv, SavedForItsDevice
  <2>5. \/ pc'[r] = "mark" /\ saved'[r] = t
        \/ pc'[r] = "idle" /\ saved'[r] = None
    BY <2>4 DEF IInv, TypeOK, Save, SaveUnanswered
  <2>6. pc'[r] = "mark" => Promotes(r)
    BY <1>1 DEF IInv, JobIsKnown
  <2>7. ASSUME NEW q \in Requests, q # r
        PROVE  IF Promotes(q)' /\ pc'[q] = "mark"
               THEN saved'[q] \in TowerIds /\ towers'[saved'[q]] = job'[q].id
               ELSE saved'[q] = None
    BY <2>1, <2>2, <2>3, <2>7 DEF IInv, SavedForItsDevice, Promotes
  <2>8. IF Promotes(r)' /\ pc'[r] = "mark"
        THEN saved'[r] \in TowerIds /\ towers'[saved'[r]] = job'[r].id
        ELSE saved'[r] = None
    BY <1>1, <2>5, <2>6 DEF IInv, TypeOK, Promotes
  <2>9. QED
    BY <2>7, <2>8 DEF SavedForItsDevice
<1>6. \A q \in Requests, b \in Addresses : InHand(q, b)' => InHand(q, b)
  BY <1>1 DEF IInv, TypeOK, Save, SaveUnanswered, InHand, Promotes
<1>7. OneInHand' /\ InHandIsUnnamed'
  BY <1>1, <1>6 DEF IInv, OneInHand, InHandIsUnnamed
<1>8. TowerIsNamed'
  <2>1. saved[r] = None
    BY <1>1 DEF IInv, SavedForItsDevice
  <2>2. \A u \in TowerIds, q \in Requests : saved[q] = u => saved'[q] = u
    BY <2>1, TriageAssumption DEF IInv, TypeOK, Save, SaveUnanswered
  <2>3. (\E q \in Requests : saved'[q] = t) \/ job[r].id \in excused'
    BY DEF IInv, TypeOK, Save, SaveUnanswered
  <2>4. QED
    BY <1>1, <2>2, <2>3 DEF IInv, TypeOK, TowerIsNamed, Known
<1>9. QED
  BY <1>2, <1>3, <1>4, <1>5, <1>7, <1>8 DEF IInv

(* A device that is promoted or ignored. *)
LEMMA UpdateInv ==
    ASSUME IInv, NEW r \in Requests, UpdateStatus(r)
    PROVE  IInv'
<1> DEFINE a == job[r].id
<1>1. /\ pc[r] = "mark" /\ a \in Addresses /\ Known(a)
      /\ device' = [device EXCEPT ![a] = Marked(r, device[a])]
      /\ pc' = [pc EXCEPT ![r] = "idle"]
      /\ saved' = [saved EXCEPT ![r] = None]
      /\ excused \subseteq excused'
      /\ UNCHANGED <<found, towers, job>>
  BY DEF IInv, TypeOK, Job, JobIsKnown, UpdateStatus
<1>2. /\ device'[a] \in Device
      /\ device'[a].promoted_tower_id = saved[r]
      /\ device'[a].status = IF Promotes(r) THEN "promoted" ELSE "ignored"
      /\ \A b \in Addresses : b # a => device'[b] = device[b]
  BY <1>1, MarkedByRequest DEF IInv, TypeOK
<1>3. IF Promotes(r) THEN saved[r] \in TowerIds /\ towers[saved[r]] = a ELSE saved[r] = None
  BY <1>1 DEF IInv, SavedForItsDevice
<1>4. TypeOK'
  BY <1>1, <1>2 DEF IInv, TypeOK, UpdateStatus
<1>5. device'[a] # None
  BY <1>2, DeviceAssumption
<1>6. PromotedNamesItsTower'
  BY <1>1, <1>2, <1>3, TriageAssumption DEF IInv, PromotedNamesItsTower, Known
<1>7. JobIsKnown'
  BY <1>1, <1>2, <1>5 DEF IInv, TypeOK, Job, JobIsKnown, Known, Promotes
<1>8. SavedForItsDevice'
  BY <1>1 DEF IInv, TypeOK, SavedForItsDevice, Promotes
<1>9. \A q \in Requests, b \in Addresses : InHand(q, b)' => q # r /\ InHand(q, b)
  BY <1>1 DEF IInv, TypeOK, InHand, Promotes
<1>10. OneInHand'
  BY <1>1, <1>9 DEF IInv, OneInHand
<1>11. InHandIsUnnamed'
  <2>1. ASSUME NEW b \in Addresses, NEW q \in Requests, b \notin excused', InHand(q, b)'
        PROVE  device'[b].promoted_tower_id = None
    <3>1. b \notin excused /\ q # r /\ InHand(q, b)
      BY <1>1, <1>9, <2>1
    <3>2. CASE b # a
      BY <1>2, <3>1, <3>2 DEF IInv, InHandIsUnnamed
    <3>3. CASE b = a
      <4>1. ~Promotes(r)
        BY <1>1, <3>1, <3>3 DEF IInv, OneInHand, InHand
      <4>2. QED
        BY <1>2, <1>3, <3>3, <4>1
    <3>4. QED
      BY <3>2, <3>3
  <2>2. QED
    BY <2>1 DEF InHandIsUnnamed
<1>12. TowerIsNamed'
  <2>1. ASSUME NEW t \in TowerIds, towers[t] # None, towers[t] \notin excused'
        PROVE  \/ device'[towers[t]] # None /\ device'[towers[t]].promoted_tower_id = t
               \/ \E q \in Requests : saved'[q] = t
    <3>1. towers[t] \in Addresses /\ towers[t] \notin excused
      BY <1>1, <2>1 DEF IInv, TypeOK
    <3>2. ASSUME NEW q \in Requests, saved[q] = t
          PROVE  \/ device'[towers[t]] # None /\ device'[towers[t]].promoted_tower_id = t
                 \/ \E p \in Requests : saved'[p] = t
      <4>1. CASE q # r
        BY <1>1, <3>2, <4>1 DEF IInv, TypeOK
      <4>2. CASE q = r
        BY <1>2, <1>3, <1>5, <3>2, <4>2, TriageAssumption
      <4>3. QED
        BY <4>1, <4>2
    <3>3. CASE Known(towers[t]) /\ device[towers[t]].promoted_tower_id = t
      <4>1. CASE towers[t] # a
        BY <1>2, <3>1, <3>3, <4>1 DEF Known
      <4>2. CASE towers[t] = a
        <5>1. device[a].promoted_tower_id # None
          BY <3>3, <4>2, TriageAssumption
        <5>2. Promotes(r)
          BY <1>1, <2>1, <4>2, <5>1 DEF UpdateStatus
        <5>3. FALSE
          BY <1>1, <3>1, <4>2, <5>1, <5>2 DEF IInv, InHandIsUnnamed, InHand
        <5>4. QED
          BY <5>3
      <4>3. QED
        BY <4>1, <4>2
    <3>4. QED
      BY <2>1, <3>1, <3>2, <3>3 DEF IInv, TowerIsNamed
  <2>2. QED
    BY <1>1, <2>1 DEF TowerIsNamed, Known
<1>13. QED
  BY <1>4, <1>6, <1>7, <1>8, <1>10, <1>11, <1>12 DEF IInv

(* A request that is cut short. *)
LEMMA AbortInv ==
    ASSUME IInv, NEW r \in Requests, Abort(r)
    PROVE  IInv'
<1>1. /\ pc' = [pc EXCEPT ![r] = "idle"]
      /\ saved' = [saved EXCEPT ![r] = None]
      /\ excused' = excused \cup {a \in {job[r].id} : saved[r] # None}
      /\ job[r].id \in Addresses
      /\ UNCHANGED <<found, device, towers, job>>
  BY DEF IInv, TypeOK, Job, Abort
<1>2. TypeOK'
  BY <1>1 DEF IInv, TypeOK
<1>3. PromotedNamesItsTower' /\ JobIsKnown'
  BY <1>1 DEF IInv, TypeOK, PromotedNamesItsTower, JobIsKnown, Known, Promotes
<1>4. SavedForItsDevice'
  BY <1>1 DEF IInv, TypeOK, SavedForItsDevice, Promotes
<1>5. \A q \in Requests, b \in Addresses : InHand(q, b)' => InHand(q, b)
  BY <1>1 DEF IInv, TypeOK, InHand, Promotes
<1>6. OneInHand' /\ InHandIsUnnamed'
  BY <1>1, <1>5 DEF IInv, OneInHand, InHandIsUnnamed
<1>7. ASSUME NEW t \in TowerIds, towers[t] \notin excused', saved[r] = t
      PROVE  FALSE
  <2>1. towers[t] = job[r].id
    BY <1>7, TriageAssumption DEF IInv, SavedForItsDevice
  <2>2. QED
    BY <1>1, <1>7, <2>1, TriageAssumption
<1>8. TowerIsNamed'
  BY <1>1, <1>7 DEF IInv, TypeOK, TowerIsNamed, Known
<1>9. QED
  BY <1>2, <1>3, <1>4, <1>6, <1>8 DEF IInv

(* A probe and an answer that is not recorded touch no device. *)
LEMMA ProbeInv ==
    ASSUME IInv, NEW s \in Scanners,
           \/ \E a \in Addresses, v \in Vendors : Probe(s, a, v)
           \/ \E x \in found[s] : UpsertFails(s, x)
    PROVE  IInv'
<1>1. /\ found' \in [Scanners -> SUBSET Answer]
      /\ UNCHANGED <<device, towers, pc, job, saved, excused>>
  BY DEF IInv, TypeOK, Answer, Probe, UpsertFails
<1>2. QED
  BY <1>1 DEF IInv, TypeOK, PromotedNamesItsTower, JobIsKnown, SavedForItsDevice,
     OneInHand, InHandIsUnnamed, TowerIsNamed, Known, InHand, Promotes

LEMMA NextInv == IInv /\ [Next]_vars => IInv'
<1> SUFFICES ASSUME IInv, [Next]_vars PROVE IInv'
  OBVIOUS
<1>1. ASSUME NEW s \in Scanners, Scan(s) PROVE IInv'
  BY <1>1, UpsertInv, ProbeInv DEF Scan
<1>2. ASSUME NEW r \in Requests, Request(r) PROVE IInv'
  BY <1>2, ReadInv, SaveInv, UpdateInv, AbortInv DEF Request
<1>3. CASE UNCHANGED vars
  BY <1>3 DEF vars, IInv, TypeOK, PromotedNamesItsTower, JobIsKnown, SavedForItsDevice,
     OneInHand, InHandIsUnnamed, TowerIsNamed, Known, InHand, Promotes
<1>4. QED
  BY <1>1, <1>2, <1>3 DEF Next

(* The invariant holds of every behaviour (all of TypeOK is part of it). *)
THEOREM Invariance == Spec => []IInv
BY InitInv, NextInv, PTL DEF Spec

(* Types are kept: an operator's request never gives a device another status *)
(* than the check constraint of discovered_devices admits.                   *)
THEOREM TypeCorrect == Spec => []TypeOK
<1>1. IInv => TypeOK
  BY DEF IInv
<1>2. QED
  BY <1>1, Invariance, PTL

(* A device names a tower exactly when it is promoted, and the tower is its own. *)
THEOREM PromotionNamesTower == Spec => []PromotedNamesItsTower
<1>1. IInv => PromotedNamesItsTower
  BY DEF IInv
<1>2. QED
  BY <1>1, Invariance, PTL

(* Without overlapping promotions, a failure between the tower and the mark, *)
(* or an ignore after a promotion, a device has one tower.                   *)
THEOREM DevicesPromotedOnce == Spec => []OneTowerPerDevice
<1>1. IInv => OneTowerPerDevice
  <2> SUFFICES ASSUME IInv, NEW t \in TowerIds, NEW u \in TowerIds,
                      towers[t] # None, towers[t] = towers[u], towers[t] \notin excused
               PROVE  t = u
    BY DEF OneTowerPerDevice
  <2> DEFINE a == towers[t]
  <2>1. a \in Addresses
    BY DEF IInv, TypeOK
  <2>2. ASSUME NEW r \in Requests, NEW v \in TowerIds, saved[r] = v, towers[v] = a
        PROVE  InHand(r, a) /\ device[a].promoted_tower_id = None
    BY <2>1, <2>2, TriageAssumption DEF IInv, SavedForItsDevice, InHandIsUnnamed, InHand
  <2>3. CASE \E q, r \in Requests : saved[q] = t /\ saved[r] = u
    BY <2>1, <2>2, <2>3 DEF IInv, OneInHand
  <2>4. CASE \E r \in Requests : saved[r] = t \/ saved[r] = u
    <3>1. device[a].promoted_tower_id = None
      BY <2>2, <2>4
    <3>2. device[a].promoted_tower_id # t /\ device[a].promoted_tower_id # u
      BY <3>1, TriageAssumption
    <3>3. QED
      BY <2>3, <3>2 DEF IInv, TowerIsNamed
  <2>5. CASE ~\E r \in Requests : saved[r] = t \/ saved[r] = u
    BY <2>5 DEF IInv, TowerIsNamed
  <2>6. QED
    BY <2>4, <2>5
<1>2. QED
  BY <1>1, Invariance, PTL

(* No scan and no request makes a device that was promoted or ignored pending. *)
THEOREM TriageStays == Spec => TriageIsNeverReopened
<1> DEFINE Stays ==
        \A a \in Addresses :
            Known(a) => /\ Known(a)'
                        /\ device[a].status # "pending" => device'[a].status # "pending"
<1>1. ASSUME IInv, [Next]_vars PROVE Stays
  <2>1. ASSUME NEW s \in Scanners, NEW x \in found[s], UpsertSeen(s, x) PROVE Stays
    <3>1. x[1] \in Addresses /\ x[2] \in Vendors
      BY <1>1 DEF IInv, TypeOK, Answer
    <3>2. QED
      BY <1>1, <2>1, <3>1, SeenKeepsTriage, DeviceAssumption
      DEF IInv, TypeOK, UpsertSeen, Known
  <2>2. ASSUME NEW r \in Requests, UpdateStatus(r) PROVE Stays
    <3>1. Known(job[r].id) /\ job[r].id \in Addresses
      BY <1>1, <2>2 DEF IInv, TypeOK, Job, JobIsKnown, UpdateStatus
    <3>2. QED
      BY <1>1, <2>2, <3>1, MarkedByRequest, DeviceAssumption
      DEF IInv, TypeOK, UpdateStatus, Known
  <2>3. CASE UNCHANGED device
    BY <2>3 DEF Known
  <2>4. QED
    BY <1>1, <2>1, <2>2, <2>3
    DEF Next, Scan, Request, Probe, UpsertFails, Receive, GetByID, Save, SaveUnanswered,
        Abort, vars
<1>2. QED
  BY <1>1, Invariance, PTL DEF Spec, TriageIsNeverReopened

-----------------------------------------------------------------------------
(* The generators.  A cycle is at the least place that is left to it.       *)
LEMMA LessPairs == OpToRel(<, Nat) = {p \in Nat \X Nat : p[1] < p[2]}
BY DEF OpToRel

LEMMA SmallestNumber ==
    ASSUME NEW S \in SUBSET Nat, S # {}
    PROVE  \E m \in S : \A x \in S : m <= x
<1> DEFINE Less == OpToRel(<, Nat)
<1>1. IsWellFoundedOn(Less, Nat)
  BY NatLessThanWellFounded, Zenon
<1>2. \A a, b \in Nat : a < b => <<a, b>> \in Less
  BY LessPairs, Zenon
<1> HIDE DEF Less
<1>3. PICK m \in S : \A x \in S : <<x, m>> \notin Less
  BY <1>1, WFMin
<1>4. \A x \in S : ~(x < m)
  BY <1>2, <1>3
<1>5. QED
  BY <1>4

(* What is left of a page, and the tower a cycle is at. *)
LEMMA NearestTower ==
    ASSUME NEW S \in SUBSET G!Page, S # {}
    PROVE  /\ G!Min(S) \in S
           /\ \A i \in S : G!Min(S) <= i
           /\ Endpoints[G!Min(S)] \in G!Towers
           /\ G!Nearest(S) = {Endpoints[G!Min(S)]}
<1>1. S \subseteq Nat /\ S \subseteq DOMAIN Endpoints
  BY GeneratorParameters DEF G!Parameters, G!Page
<1>2. \E m \in S : \A x \in S : m <= x
  BY <1>1, SmallestNumber
<1>3. G!Min(S) \in S /\ \A i \in S : G!Min(S) <= i
  BY <1>2 DEF G!Min
<1>4. QED
  BY <1>1, <1>3 DEF G!Towers, G!Nearest

GeneratorShapes ==
    /\ G!TypeOK
    /\ todo \in [Requests -> SUBSET G!Page]
    /\ latest \in [G!Towers -> (0 .. now) \cup {None}]
    /\ \A p \in Requests :
          /\ step[p] = "List" <=> todo[p] = {}
          /\ reading[p] # None => reading[p] <= now
          /\ step[p] \in {"UpdateStatus", "Upsert"} => reading[p] \in G!Reading

(* Only a page whose credentials all decrypt is visited. *)
OnlyDecrypted == \A p \in Requests : todo[p] # {} => G!Decrypted

(* Two cycles that are at one tower have met. *)
MeetingsAreSeen ==
    \A p, q \in Requests : \A t \in G!At(p) :
        p # q /\ t \in G!At(q) => t \in together

(* Unless cycles met, a reading in hand is no older than the row. *)
HandIsTrue ==
    \A p \in Requests : \A t \in G!At(p) : reading[p] # None =>
        t \in together \/ latest[t] = None \/ latest[t] <= reading[p]

(* A tower that was found online is owed the reading in hand, or has it. *)
PromiseIsInHand ==
    \A p \in Requests : \A t \in G!At(p) :
        step[p] = "Upsert" => t \in together \/ promised[t] = reading[p]

PromisesAreTyped == promised \in [G!Towers -> Nat \cup {None}]

Paid(t) == readings[t] # None /\ readings[t] >= promised[t]
Owed(p, t) == t \in G!At(p) /\ step[p] \in {"Upsert", "MarkUnreachable"}
OnlineIsPaid ==
    \A t \in G!Towers : status[t] = "online" =>
        \/ t \in unmarked \/ t \in together \/ Paid(t)
        \/ \E p \in Requests : Owed(p, t)

GInv ==
    /\ GeneratorShapes /\ OnlyDecrypted /\ MeetingsAreSeen /\ HandIsTrue
    /\ PromiseIsInHand /\ PromisesAreTyped /\ OnlineIsPaid
    /\ G!ReadingsGoForward /\ G!OneBadCredentialStopsAll

(* The tower of a cycle. *)
LEMMA AtATower ==
    ASSUME GeneratorShapes, NEW p \in Requests
    PROVE  /\ todo[p] = {} => G!At(p) = {}
           /\ todo[p] # {} => /\ G!At(p) = {G!Tower(p)}
                              /\ G!Tower(p) \in G!Towers
                              /\ \E i \in G!Page : Endpoints[i] = G!Tower(p)
           /\ G!At(p) \subseteq G!Towers
<1>1. todo[p] \in SUBSET G!Page
  BY DEF GeneratorShapes
<1>2. CASE todo[p] = {}
  BY <1>2 DEF G!At, G!Nearest
<1>3. CASE todo[p] # {}
  BY <1>1, <1>3, NearestTower DEF G!At, G!Tower
<1>4. QED
  BY <1>2, <1>3

LEMMA GeneratorsInit == G!Init => GInv
<1> SUFFICES ASSUME G!Init PROVE GInv
  OBVIOUS
<1>1. GeneratorShapes
  <2>1. now \in 0 .. MaxTime
    BY GeneratorParameters DEF G!Parameters, G!Init
  <2>2. QED
    BY <2>1 DEF G!Init, GeneratorShapes, G!TypeOK
<1>2. \A p \in Requests : G!At(p) = {}
  BY <1>1, AtATower DEF G!Init
<1>3. QED
  BY <1>1, <1>2
  DEF G!Init, GInv, OnlyDecrypted, MeetingsAreSeen, HandIsTrue, PromiseIsInHand,
      PromisesAreTyped, OnlineIsPaid, G!ReadingsGoForward,
      G!OneBadCredentialStopsAll

(* A step in which no cycle moves on leaves every cycle where it is. *)
LEMMA Stays ==
    ASSUME UNCHANGED todo, NEW p \in Requests
    PROVE  G!At(p)' = G!At(p) /\ G!Tower(p)' = G!Tower(p)
BY DEF G!At, G!Tower

(* What is left of a cycle that moves on, and that of the others stays. *)
GoneOn(p) ==
    /\ todo' \in [Requests -> SUBSET G!Page]
    /\ step' \in [Requests -> {"List", "Connect", "Read", "UpdateStatus", "Upsert",
                               "MarkUnreachable"}]
    /\ reading' \in [Requests -> G!Reading \cup {None}]
    /\ reading'[p] = None /\ step'[p] \in {"List", "Connect"}
    /\ step'[p] = "List" <=> todo'[p] = {}
    /\ \A q \in Requests \ {p} :
          /\ reading'[q] = reading[q] /\ step'[q] = step[q]
          /\ todo'[q] = todo[q] /\ G!At(q)' = G!At(q)
    /\ together \subseteq together' /\ together' \subseteq G!Towers

(* A cycle that moves on to other places, or ends. *)
LEMMA GoesOn ==
    ASSUME GInv, NEW p \in Requests, NEW S \in SUBSET G!Page,
           G!Goes(p, S), S # {} => G!Decrypted, UNCHANGED endpoints
    PROVE  GoneOn(p) /\ OnlyDecrypted' /\ MeetingsAreSeen'
<1>0. GeneratorShapes
  BY DEF GInv
<1>1. /\ todo' = [todo EXCEPT ![p] = S]
      /\ step' = [step EXCEPT ![p] = IF S = {} THEN "List" ELSE "Connect"]
      /\ reading' = [reading EXCEPT ![p] = None]
      /\ together' = together \cup {t \in G!Nearest(S) :
                          \E q \in Requests \ {p} : t \in G!At(q)}
  BY DEF G!Goes, G!Meets
<1>2. /\ todo' \in [Requests -> SUBSET G!Page]
      /\ todo'[p] = S
      /\ \A q \in Requests \ {p} : todo'[q] = todo[q]
  BY <1>0, <1>1 DEF GeneratorShapes
<1>3. /\ reading' \in [Requests -> G!Reading \cup {None}]
      /\ reading'[p] = None
      /\ \A q \in Requests \ {p} : reading'[q] = reading[q]
  BY <1>0, <1>1 DEF GeneratorShapes, G!TypeOK
<1>4. /\ step' \in [Requests -> {"List", "Connect", "Read", "UpdateStatus", "Upsert",
                                 "MarkUnreachable"}]
      /\ step'[p] = IF S = {} THEN "List" ELSE "Connect"
      /\ \A q \in Requests \ {p} : step'[q] = step[q]
  BY <1>0, <1>1 DEF GeneratorShapes, G!TypeOK
<1>5. G!At(p)' = G!Nearest(S)
  BY <1>2 DEF G!At, G!Nearest
<1>6. \A q \in Requests \ {p} : G!At(q)' = G!At(q)
  BY <1>2 DEF G!At
<1>7. OnlyDecrypted'
  <2>1. G!Decrypted' = G!Decrypted
    BY DEF G!Decrypted
  <2>2. QED
    BY <1>2, <2>1 DEF GInv, OnlyDecrypted
<1>8. MeetingsAreSeen'
  BY <1>1, <1>5, <1>6 DEF GInv, MeetingsAreSeen
<1>9. together' \subseteq G!Towers
  <2>1. \A q \in Requests : G!At(q) \subseteq G!Towers
    BY <1>0, AtATower
  <2>2. QED
    BY <1>0, <1>1, <2>1 DEF GeneratorShapes, G!TypeOK
<1>10. QED
  BY <1>1, <1>2, <1>3, <1>4, <1>6, <1>7, <1>8, <1>9 DEF GoneOn

(* A listed page, or one that fails. *)
LEMMA ListStep ==
    ASSUME GInv, NEW p \in Requests, G!List(p)
    PROVE  GInv'
<1>0. GeneratorShapes
  BY DEF GInv
<1>1. UNCHANGED <<now, endpoints, readings, status, latest, promised, unmarked>>
  BY DEF G!List
<1>2. CASE UNCHANGED <<step, todo, reading, together>>
  <2>1. \A q \in Requests : G!At(q)' = G!At(q)
    BY <1>2, Stays
  <2>2. GeneratorShapes'
    BY <1>0, <1>1, <1>2 DEF GeneratorShapes, G!TypeOK
  <2>3. OnlyDecrypted' /\ MeetingsAreSeen' /\ HandIsTrue' /\ PromiseIsInHand' /\ OnlineIsPaid'
    BY <1>1, <1>2, <2>1
    DEF GInv, OnlyDecrypted, G!Decrypted, MeetingsAreSeen, HandIsTrue, PromiseIsInHand,
        OnlineIsPaid, Paid, Owed
  <2>4. QED
    BY <1>1, <1>2, <2>2, <2>3
    DEF GInv, PromisesAreTyped, G!ReadingsGoForward, G!OneBadCredentialStopsAll,
        G!Decrypted
<1>3. CASE G!Decrypted /\ G!Goes(p, G!Addressed(G!Page))
  <2> DEFINE S == G!Addressed(G!Page)
  <2>1. S \in SUBSET G!Page
    BY DEF G!Addressed
  <2> HIDE DEF S
  <2>2. G!Goes(p, S)
    BY <1>3 DEF S
  <2>3. G!At(p) = {}
    BY <1>0, AtATower DEF G!List, GeneratorShapes
  <2>4. /\ GoneOn(p)
        /\ OnlyDecrypted' /\ MeetingsAreSeen'
    BY <1>1, <1>3, <2>1, <2>2, GoesOn DEF GoneOn
  <2>5. GeneratorShapes'
    BY <1>0, <1>1, <2>4 DEF GeneratorShapes, GoneOn, G!TypeOK
  <2>6. HandIsTrue' /\ PromiseIsInHand' /\ OnlineIsPaid'
    BY <1>1, <2>3, <2>4
    DEF GInv, GoneOn, HandIsTrue, PromiseIsInHand, OnlineIsPaid, Paid, Owed
  <2>7. QED
    BY <1>1, <2>4, <2>5, <2>6
    DEF GInv, GoneOn, PromisesAreTyped, G!ReadingsGoForward,
        G!OneBadCredentialStopsAll, G!Decrypted
<1>4. QED
  BY <1>2, <1>3 DEF G!List

(* A connection that is made or fails. *)
LEMMA ConnectStep ==
    ASSUME GInv, NEW p \in Requests, G!Connect(p)
    PROVE  GInv'
<1>0. GeneratorShapes
  BY DEF GInv
<1>1. /\ UNCHANGED <<now, endpoints, readings, status, reading, todo, latest, promised,
                     together, unmarked>>
      /\ step[p] = "Connect"
      /\ \E s \in {"Read", "MarkUnreachable"} : step' = [step EXCEPT ![p] = s]
  BY DEF G!Connect, G!GoTo
<1>2. /\ step' \in [Requests -> {"List", "Connect", "Read", "UpdateStatus", "Upsert",
                                 "MarkUnreachable"}]
      /\ step'[p] \in {"Read", "MarkUnreachable"}
      /\ \A q \in Requests \ {p} : step'[q] = step[q]
  BY <1>0, <1>1 DEF GeneratorShapes, G!TypeOK
<1>3. \A q \in Requests : G!At(q)' = G!At(q)
  BY <1>1, Stays
<1>4. GeneratorShapes'
  BY <1>0, <1>1, <1>2 DEF GeneratorShapes, G!TypeOK
<1>5. OnlyDecrypted' /\ MeetingsAreSeen' /\ HandIsTrue' /\ PromiseIsInHand'
  BY <1>1, <1>2, <1>3
  DEF GInv, OnlyDecrypted, G!Decrypted, MeetingsAreSeen, HandIsTrue, PromiseIsInHand
<1>6. OnlineIsPaid'
  BY <1>1, <1>2, <1>3 DEF GInv, OnlineIsPaid, Paid, Owed
<1>7. QED
  BY <1>1, <1>4, <1>5, <1>6
  DEF GInv, PromisesAreTyped, G!ReadingsGoForward,
      G!OneBadCredentialStopsAll, G!Decrypted

(* Registers that are read, or one that fails. *)
LEMMA ReadStep ==
    ASSUME GInv, NEW p \in Requests, G!Read(p)
    PROVE  GInv'
<1>0. GeneratorShapes
  BY DEF GInv
<1>1. /\ UNCHANGED <<now, endpoints, readings, status, todo, latest, promised,
                     together, unmarked>>
      /\ step[p] = "Read"
  BY DEF G!Read, G!GoTo
<1>2. todo[p] # {}
  BY <1>0, <1>1 DEF GeneratorShapes
<1>3. G!At(p) = {G!Tower(p)} /\ G!Tower(p) \in G!Towers
  BY <1>0, <1>2, AtATower
<1>4. \A q \in Requests : G!At(q)' = G!At(q)
  BY <1>1, Stays
<1> DEFINE new == now
<1>5. new \in G!Reading /\ new = now
  BY <1>0 DEF GeneratorShapes, G!TypeOK, G!Reading
<1> HIDE DEF new
<1>6. \/ /\ reading' = [reading EXCEPT ![p] = new]
         /\ step' = [step EXCEPT ![p] = "UpdateStatus"]
      \/ /\ reading' = reading
         /\ step' = [step EXCEPT ![p] = "MarkUnreachable"]
  BY DEF G!Read, G!GoTo, new
<1>7. /\ step' \in [Requests -> {"List", "Connect", "Read", "UpdateStatus", "Upsert",
                                 "MarkUnreachable"}]
      /\ step'[p] \in {"UpdateStatus", "MarkUnreachable"}
      /\ \A q \in Requests \ {p} : step'[q] = step[q]
  BY <1>0, <1>6 DEF GeneratorShapes, G!TypeOK
<1>8. /\ reading' \in [Requests -> G!Reading \cup {None}]
      /\ \A q \in Requests \ {p} : reading'[q] = reading[q]
      /\ \/ reading'[p] = new
         \/ reading'[p] = reading[p] /\ step'[p] = "MarkUnreachable"
  BY <1>0, <1>5, <1>6 DEF GeneratorShapes, G!TypeOK
<1>9. now \in Nat
  BY <1>0, GeneratorParameters DEF GeneratorShapes, G!TypeOK, G!Parameters
<1>10. GeneratorShapes'
  BY <1>0, <1>1, <1>2, <1>5, <1>7, <1>8, <1>9 DEF GeneratorShapes, G!TypeOK
<1>11. OnlyDecrypted' /\ MeetingsAreSeen'
  BY <1>1, <1>4 DEF GInv, OnlyDecrypted, G!Decrypted, MeetingsAreSeen
<1>12. HandIsTrue'
  <2>1. latest[G!Tower(p)] = None \/ latest[G!Tower(p)] <= now
    BY <1>0, <1>3, <1>9 DEF GeneratorShapes
  <2>2. QED
    BY <1>1, <1>3, <1>4, <1>5, <1>8, <2>1 DEF GInv, HandIsTrue
<1>13. PromiseIsInHand' /\ OnlineIsPaid'
  BY <1>1, <1>4, <1>7, <1>8 DEF GInv, PromiseIsInHand, OnlineIsPaid, Paid, Owed
<1>14. QED
  BY <1>1, <1>10, <1>11, <1>12, <1>13
  DEF GInv, PromisesAreTyped, G!ReadingsGoForward,
      G!OneBadCredentialStopsAll, G!Decrypted

(* A tower that is found online, or whose status cannot be written. *)
LEMMA UpdateStatusStep ==
    ASSUME GInv, NEW p \in Requests, G!UpdateStatus(p)
    PROVE  GInv'
<1>0. GeneratorShapes
  BY DEF GInv
<1>1. /\ UNCHANGED <<now, endpoints, readings, reading, todo, latest, together>>
      /\ step[p] = "UpdateStatus"
  BY DEF G!UpdateStatus, G!GoTo
<1>2. todo[p] # {} /\ reading[p] \in G!Reading /\ reading[p] # None /\ reading[p] <= now
  <2>1. reading[p] \in Nat /\ None \notin Nat
    BY <1>0, <1>1, GeneratorParameters DEF GeneratorShapes, G!Reading, G!Parameters
  <2>2. QED
    BY <1>0, <1>1, <2>1 DEF GeneratorShapes
<1>3. PICK t \in G!Towers : t = G!Tower(p) /\ G!At(p) = {t} /\ \E i \in G!Page : Endpoints[i] = t
  BY <1>0, <1>2, AtATower
<1>4. \A q \in Requests : G!At(q)' = G!At(q)
  BY <1>1, Stays
<1>5. reading[p] \in 0 .. now
  BY <1>2 DEF G!Reading
<1>6. \/ /\ status' = [status EXCEPT ![t] = "online"]
         /\ promised' = [promised EXCEPT ![t] = reading[p]]
         /\ unmarked' = unmarked \ {t}
         /\ step' = [step EXCEPT ![p] = "Upsert"]
      \/ /\ UNCHANGED <<status, promised, unmarked>>
         /\ step' = [step EXCEPT ![p] = "MarkUnreachable"]
  BY <1>3 DEF G!UpdateStatus, G!GoTo
<1>7. /\ step' \in [Requests -> {"List", "Connect", "Read", "UpdateStatus", "Upsert",
                                 "MarkUnreachable"}]
      /\ step'[p] \in {"Upsert", "MarkUnreachable"}
      /\ \A q \in Requests \ {p} : step'[q] = step[q]
  BY <1>0, <1>6 DEF GeneratorShapes, G!TypeOK
<1>8. GeneratorShapes'
  BY <1>0, <1>1, <1>2, <1>3, <1>6, <1>7 DEF GeneratorShapes, G!TypeOK
<1>9. OnlyDecrypted' /\ MeetingsAreSeen' /\ HandIsTrue'
  BY <1>1, <1>4 DEF GInv, OnlyDecrypted, G!Decrypted, MeetingsAreSeen, HandIsTrue
<1>10. PromiseIsInHand'
  <2>1. ASSUME NEW q \in Requests, NEW u \in G!At(q), step'[q] = "Upsert", u \notin together
        PROVE  promised'[u] = reading[q]
    <3>0. u \in G!Towers
      BY <1>0, AtATower
    <3>1. CASE q = p
      <4>1. u = t /\ promised' = [promised EXCEPT ![t] = reading[p]]
        BY <1>0, <1>3, <1>6, <2>1, <3>1 DEF GeneratorShapes, G!TypeOK
      <4>2. QED
        BY <1>0, <3>1, <4>1 DEF GeneratorShapes, G!TypeOK, PromisesAreTyped, GInv
    <3>2. CASE q # p
      <4>1. u # t
        BY <1>3, <2>1, <3>2 DEF GInv, MeetingsAreSeen
      <4>2. promised[u] = reading[q]
        BY <1>7, <2>1, <3>2 DEF GInv, PromiseIsInHand
      <4>3. QED
        BY <1>6, <4>1, <4>2, <3>0 DEF GInv, PromisesAreTyped
    <3>3. QED
      BY <3>1, <3>2
  <2>2. QED
    BY <1>1, <1>4, <2>1 DEF PromiseIsInHand
<1>11. OnlineIsPaid'
  <2>1. Owed(p, t)'
    BY <1>3, <1>4, <1>7 DEF Owed
  <2>2. ASSUME NEW u \in G!Towers, u # t
        PROVE  /\ status'[u] = status[u] /\ promised'[u] = promised[u]
               /\ u \in unmarked' <=> u \in unmarked
    BY <1>0, <1>6, <2>2 DEF GeneratorShapes, G!TypeOK, GInv, PromisesAreTyped
  <2>3. ASSUME NEW u \in G!Towers, u # t, NEW q \in Requests, Owed(q, u)
        PROVE  Owed(q, u)'
    BY <1>3, <1>4, <1>7, <2>3 DEF Owed
  <2>4. QED
    BY <1>1, <2>1, <2>2, <2>3 DEF GInv, OnlineIsPaid, Paid
<1>12. PromisesAreTyped'
  BY <1>1, <1>5, <1>6 DEF GInv, PromisesAreTyped
<1>13. G!OneBadCredentialStopsAll'
  BY <1>0, <1>1, <1>2, <1>3, <1>6
  DEF GInv, OnlyDecrypted, GeneratorShapes, G!TypeOK, G!OneBadCredentialStopsAll, G!Decrypted
<1>14. QED
  BY <1>1, <1>8, <1>9, <1>10, <1>11, <1>12, <1>13
  DEF GInv, G!ReadingsGoForward

(* A reading that is stored, or is not. *)
LEMMA UpsertStep ==
    ASSUME GInv, NEW p \in Requests, G!Upsert(p)
    PROVE  GInv'
<1>0. GeneratorShapes
  BY DEF GInv
<1>1. /\ UNCHANGED <<now, endpoints, status, promised, unmarked>>
      /\ step[p] = "Upsert"
  BY DEF G!Upsert, G!GoTo
<1>2. todo[p] # {} /\ reading[p] \in G!Reading /\ reading[p] # None /\ reading[p] <= now
  <2>1. reading[p] \in Nat /\ None \notin Nat
    BY <1>0, <1>1, GeneratorParameters DEF GeneratorShapes, G!Reading, G!Parameters
  <2>2. QED
    BY <1>0, <1>1, <2>1 DEF GeneratorShapes
<1>3. PICK t \in G!Towers : t = G!Tower(p) /\ G!At(p) = {t}
  BY <1>0, <1>2, AtATower
<1>4. now \in Nat /\ reading[p] \in 0 .. now /\ reading[p] \in Nat
  BY <1>0, <1>2, GeneratorParameters DEF G!Reading, GeneratorShapes, G!TypeOK, G!Parameters
<1>5. CASE /\ readings' = [readings EXCEPT ![t] = reading[p]]
           /\ latest' = [latest EXCEPT ![t] =
                  IF @ = None \/ @ < reading[p] THEN reading[p] ELSE @]
           /\ G!Proceeds(p)
  <2> DEFINE S == todo[p] \ {G!Min(todo[p])}
  <2>1. S \in SUBSET G!Page
    BY <1>0 DEF GeneratorShapes
  <2>2. G!Goes(p, S)
    BY <1>5 DEF G!Proceeds
  <2> HIDE DEF S
  <2>3. GoneOn(p) /\ OnlyDecrypted' /\ MeetingsAreSeen'
    BY <1>1, <1>2, <2>1, <2>2, GoesOn DEF GInv, OnlyDecrypted
  <2>4. /\ latest' \in [G!Towers -> (0 .. now) \cup {None}]
        /\ latest'[t] = IF latest[t] = None \/ latest[t] < reading[p]
                       THEN reading[p] ELSE latest[t]
        /\ \A u \in G!Towers \ {t} : latest'[u] = latest[u]
    BY <1>0, <1>4, <1>5 DEF GeneratorShapes
  <2>5. /\ readings' \in [G!Towers -> G!Reading \cup {None}]
        /\ readings'[t] = reading[p]
        /\ \A u \in G!Towers \ {t} : readings'[u] = readings[u]
    BY <1>0, <1>2, <1>5 DEF GeneratorShapes, G!TypeOK
  <2>6. GeneratorShapes'
    BY <1>0, <1>1, <2>3, <2>4, <2>5 DEF GeneratorShapes, GoneOn, G!TypeOK
  <2>7. /\ t \in together \/ latest[t] = None \/ latest[t] <= reading[p]
        /\ t \in together \/ promised[t] = reading[p]
    BY <1>1, <1>2, <1>3 DEF GInv, HandIsTrue, PromiseIsInHand
  <2>8. \A q \in Requests \ {p} : t \in G!At(q) => t \in together
    BY <1>3 DEF GInv, MeetingsAreSeen
  <2>9. \A q \in Requests : G!At(q) \subseteq G!Towers
    BY <1>0, AtATower
  <2>10. HandIsTrue'
    <3>1. ASSUME NEW q \in Requests, NEW u \in G!At(q)', reading'[q] # None
          PROVE  u \in together' \/ latest'[u] = None \/ latest'[u] <= reading'[q]
      <4>1. q # p /\ u \in G!At(q) /\ reading'[q] = reading[q] /\ u \in G!Towers
        BY <2>3, <2>9, <3>1 DEF GoneOn
      <4>2. u \in together \/ latest[u] = None \/ latest[u] <= reading[q]
        BY <3>1, <4>1 DEF GInv, HandIsTrue
      <4>3. CASE u = t
        BY <2>3, <2>8, <4>1, <4>2, <4>3 DEF GoneOn
      <4>4. CASE u # t
        BY <2>3, <2>4, <4>1, <4>2, <4>4 DEF GoneOn
      <4>5. QED
        BY <4>3, <4>4
    <3>2. QED
      BY <1>1, <3>1 DEF HandIsTrue
  <2>11. PromiseIsInHand'
    BY <1>1, <2>3 DEF GInv, PromiseIsInHand, GoneOn
  <2>12. G!ReadingsGoForward'
    <3>1. t \in together \/ latest'[t] = reading[p]
      <4>1. latest[t] \in (0 .. now) \cup {None}
        BY <1>0 DEF GeneratorShapes
      <4>2. QED
        BY <1>4, <2>4, <2>7, <4>1
    <3>2. QED
      BY <2>3, <2>4, <2>5, <3>1 DEF GInv, G!ReadingsGoForward, GoneOn
  <2>14. OnlineIsPaid'
    <3>1. t \in together' \/ Paid(t)'
      BY <1>1, <1>2, <1>4, <2>3, <2>5, <2>7 DEF Paid, GoneOn
    <3>2. ASSUME NEW u \in G!Towers, u # t
          PROVE  /\ Paid(u)' <=> Paid(u)
                 /\ \A q \in Requests : Owed(q, u) => Owed(q, u)'
      BY <1>1, <1>3, <2>3, <2>5, <3>2 DEF Paid, Owed, GoneOn
    <3>3. QED
      BY <1>1, <2>3, <3>1, <3>2 DEF GInv, OnlineIsPaid, GoneOn
  <2>15. QED
    BY <1>1, <2>3, <2>6, <2>10, <2>11, <2>12, <2>14
    DEF GInv, PromisesAreTyped, G!OneBadCredentialStopsAll, G!Decrypted
<1>6. CASE /\ UNCHANGED <<readings, latest, reading, together, todo>>
           /\ step' = [step EXCEPT ![p] = "MarkUnreachable"]
  <2>1. /\ step' \in [Requests -> {"List", "Connect", "Read", "UpdateStatus", "Upsert",
                                   "MarkUnreachable"}]
        /\ step'[p] = "MarkUnreachable"
        /\ \A q \in Requests \ {p} : step'[q] = step[q]
    BY <1>0, <1>6 DEF GeneratorShapes, G!TypeOK
  <2>2. \A q \in Requests : G!At(q)' = G!At(q)
    BY <1>6, Stays
  <2>3. GeneratorShapes'
    BY <1>0, <1>1, <1>2, <1>6, <2>1 DEF GeneratorShapes, G!TypeOK
  <2>4. OnlyDecrypted' /\ MeetingsAreSeen' /\ HandIsTrue' /\ PromiseIsInHand'
    BY <1>1, <1>6, <2>1, <2>2
    DEF GInv, OnlyDecrypted, G!Decrypted, MeetingsAreSeen, HandIsTrue, PromiseIsInHand
  <2>5. OnlineIsPaid'
    BY <1>1, <1>6, <2>1, <2>2 DEF GInv, OnlineIsPaid, Paid, Owed
  <2>6. QED
    BY <1>1, <1>6, <2>3, <2>4, <2>5
    DEF GInv, PromisesAreTyped, G!ReadingsGoForward,
        G!OneBadCredentialStopsAll, G!Decrypted
<1>7. QED
  BY <1>3, <1>5, <1>6 DEF G!Upsert, G!GoTo

(* A cycle that leaves its tower, marked, unmarked or cut short. *)
LEMMA LeaveStep ==
    ASSUME GInv, NEW p \in Requests, G!MarkUnreachable(p) \/ G!Stop(p)
    PROVE  GInv'
<1>0. GeneratorShapes
  BY DEF GInv
<1>1. UNCHANGED <<now, endpoints, readings, latest, promised>>
  BY DEF G!MarkUnreachable, G!Stop
<1>2. todo[p] # {}
  BY <1>0 DEF GeneratorShapes, G!MarkUnreachable, G!Stop
<1>3. PICK t \in G!Towers : /\ t = G!Tower(p) /\ G!At(p) = {t}
                           /\ \E i \in G!Page : Endpoints[i] = t
  BY <1>0, <1>2, AtATower
<1>4. \/ status' = [status EXCEPT ![t] = "offline"] /\ unmarked' = unmarked \ {t}
      \/ status' = status /\ unmarked' = unmarked \cup {t}
  BY <1>3 DEF G!MarkUnreachable, G!Stop
<1>5. PICK S \in SUBSET G!Page : G!Goes(p, S)
  BY <1>0 DEF GeneratorShapes, G!MarkUnreachable, G!Stop, G!Proceeds
<1>6. GoneOn(p) /\ OnlyDecrypted' /\ MeetingsAreSeen'
  BY <1>1, <1>2, <1>5, GoesOn DEF GInv, OnlyDecrypted
<1>7. GeneratorShapes'
  BY <1>0, <1>1, <1>4, <1>6 DEF GeneratorShapes, GoneOn, G!TypeOK
<1>8. HandIsTrue' /\ PromiseIsInHand'
  BY <1>1, <1>6 DEF GInv, HandIsTrue, PromiseIsInHand, GoneOn
<1>9. OnlineIsPaid'
  <2>1. t \in unmarked' \/ status'[t] # "online"
    BY <1>0, <1>4 DEF GeneratorShapes, G!TypeOK
  <2>2. ASSUME NEW u \in G!Towers, u # t
        PROVE  /\ status'[u] = status[u]
               /\ u \in unmarked => u \in unmarked'
               /\ Paid(u)' <=> Paid(u)
               /\ \A q \in Requests : Owed(q, u) => Owed(q, u)'
    BY <1>0, <1>1, <1>3, <1>4, <1>6, <2>2 DEF GeneratorShapes, G!TypeOK, Paid, Owed, GoneOn
  <2>3. QED
    BY <1>6, <2>1, <2>2 DEF GInv, OnlineIsPaid, GoneOn
<1>10. G!OneBadCredentialStopsAll'
  BY <1>0, <1>1, <1>2, <1>3, <1>4
  DEF GInv, OnlyDecrypted, GeneratorShapes, G!TypeOK, G!OneBadCredentialStopsAll, G!Decrypted
<1>11. QED
  BY <1>1, <1>6, <1>7, <1>8, <1>9, <1>10
  DEF GInv, PromisesAreTyped, GoneOn, G!ReadingsGoForward

LEMMA TimeStep ==
    ASSUME GInv, G!Tick
    PROVE  GInv'
<1>0. GeneratorShapes /\ now \in Nat
  BY GeneratorParameters DEF GInv, GeneratorShapes, G!TypeOK, G!Parameters
<1>1. /\ now < MaxTime /\ now' = now + 1
      /\ UNCHANGED <<endpoints, readings, status, step, todo, reading, latest, promised,
                     together, unmarked>>
  BY DEF G!Tick
<1>2. \A p \in Requests : G!At(p)' = G!At(p)
  BY <1>1, Stays
<1>3. GeneratorShapes'
  <2>1. now' \in 0 .. MaxTime /\ 0 .. now \subseteq 0 .. now'
    BY <1>0, <1>1, GeneratorParameters DEF G!Parameters
  <2>2. \A p \in Requests : reading[p] # None => reading[p] <= now'
    <3>1. ASSUME NEW p \in Requests, reading[p] # None
          PROVE  reading[p] \in Nat /\ reading[p] <= now
      BY <1>0, <3>1, GeneratorParameters DEF GeneratorShapes, G!TypeOK, G!Reading, G!Parameters
    <3>2. QED
      BY <1>0, <1>1, <3>1
  <2>3. latest \in [G!Towers -> (0 .. now') \cup {None}]
    BY <1>0, <2>1 DEF GeneratorShapes
  <2>4. QED
    BY <1>0, <1>1, <2>1, <2>2, <2>3 DEF GeneratorShapes, G!TypeOK
<1>4. QED
  BY <1>1, <1>2, <1>3
  DEF GInv, OnlyDecrypted, G!Decrypted, MeetingsAreSeen, HandIsTrue, PromiseIsInHand,
      PromisesAreTyped, OnlineIsPaid, Paid, Owed,
      G!ReadingsGoForward, G!OneBadCredentialStopsAll

LEMMA GeneratorsIdle ==
    ASSUME GInv, UNCHANGED generatorVars
    PROVE  GInv'
<1>0. /\ GeneratorShapes
      /\ UNCHANGED <<now, endpoints, readings, status, step, todo, reading, latest,
                     promised, together, unmarked>>
  BY DEF GInv, generatorVars
<1>1. \A p \in Requests : G!At(p)' = G!At(p)
  BY <1>0, Stays
<1>2. GeneratorShapes'
  BY <1>0 DEF GeneratorShapes, G!TypeOK
<1>3. QED
  BY <1>0, <1>1, <1>2
  DEF GInv, OnlyDecrypted, G!Decrypted, MeetingsAreSeen, HandIsTrue, PromiseIsInHand,
      PromisesAreTyped, OnlineIsPaid, Paid, Owed,
      G!ReadingsGoForward, G!OneBadCredentialStopsAll

LEMMA GeneratorsShown == GInv => G!GeneratorsInv
<1> SUFFICES ASSUME GInv PROVE G!GeneratorsInv
  OBVIOUS
<1>1. G!OnlineShowsItsReading
  BY DEF GInv, OnlineIsPaid, Owed, Paid, G!OnlineShowsItsReading
<1>2. QED
  BY <1>1 DEF GInv, GeneratorShapes, G!GeneratorsInv

(* Rows go back only where two cycles met at the tower; a tower that is shown online *)
(* has the reading that found it so, unless the cycles met, the process stopped or   *)
(* the failure could not be written; and one credential that does not decrypt keeps  *)
(* the whole page from being visited (CollectOnce, Ingest, List).                    *)
THEOREM GeneratorsAreShown == DevicesSpec => []GeneratorsInv
<1>1. DevicesInit => GInv
  BY GeneratorsInit DEF DevicesInit
<1>2. GInv /\ [DevicesNext]_all => GInv'
  <2> SUFFICES ASSUME GInv, [DevicesNext]_all PROVE GInv'
    OBVIOUS
  <2>1. CASE UNCHANGED generatorVars
    BY <2>1, GeneratorsIdle
  <2>2. CASE G!Next
    BY <2>2, ListStep, ConnectStep, ReadStep, UpdateStatusStep, UpsertStep, LeaveStep, TimeStep
    DEF G!Next
  <2>3. QED
    BY <2>1, <2>2 DEF DevicesNext, Over, all, Runs
<1>3. GInv => GeneratorsInv
  BY GeneratorsShown DEF GeneratorsInv
<1>4. QED
  BY <1>1, <1>2, <1>3, PTL DEF DevicesSpec

-----------------------------------------------------------------------------
(* The alarm rules.  What fires at a value, of the rules of a metric.       *)
FiringAt(k, x) == {i \in A!RulesOf(k) : A!Fires(A!Alarms[i], x)}
Raised(k, x) == A!Alarms[A!Min(FiringAt(k, x))].severity

AlarmShapes ==
    /\ vendor \in DOMAIN Profiles
    /\ watched \subseteq DOMAIN Rules[vendor]
    /\ last = [values |-> last.values, clean |-> last.clean]
    /\ last.values \in [watched -> Int \cup {None}]
    /\ shown \in {"no_data", "online", "degraded", "offline"}
    /\ event \in [watched -> {None, "warning", "critical"}]
    /\ polls \in 0 .. MaxPolls
    /\ failed \in Nat
    /\ made \in [watched -> 0 .. polls]
    /\ alarm \in [watched -> [on : BOOLEAN, times : 0 .. polls]]

(* An open event was made by the first rule that fired at some value. *)
RaisedByFirst(k) ==
    event[k] # None => \E x \in Int : FiringAt(k, x) # {} /\ event[k] = Raised(k, x)

(* An alarm that is on without an event has begun once more than it was raised. *)
Unraised(k) == alarm[k].on /\ event[k] = None
Counted(k) ==
    /\ made[k] <= alarm[k].times
    /\ Unraised(k) => made[k] + 1 <= alarm[k].times
    /\ failed = 0 => /\ made[k] = alarm[k].times
                     /\ alarm[k].on <=> event[k] # None

(* While nothing has failed an event shows the last value that was answered. *)
ShowsLast(k) ==
    failed = 0 /\ event[k] # None /\ last.values[k] # None =>
        event[k] = Raised(k, last.values[k])

AInv ==
    /\ AlarmShapes
    /\ failed = 0 => last.clean
    /\ A!EventsShowTheReading
    /\ A!StatusTellsTheEvents
    /\ \A k \in watched : RaisedByFirst(k) /\ Counted(k) /\ ShowsLast(k)

(* The rules of a metric. *)
LEMMA MetricRules ==
    ASSUME AlarmShapes, NEW k \in watched
    PROVE  /\ A!RulesOf(k) \subseteq Nat
           /\ \A i \in A!RulesOf(k) : A!Alarms[i] \in A!Rule
           /\ Values[vendor][k] \subseteq Int
           /\ A!WellOrdered(A!RulesOf(k), A!Alarms)
BY ProfileParameters DEF AlarmShapes, A!Parameters, A!RulesOf, A!Alarms

LEMMA LeastRule ==
    ASSUME NEW S \in SUBSET Nat, S # {}
    PROVE  A!Min(S) \in S /\ \A i \in S : A!Min(S) <= i
<1>1. \E m \in S : \A x \in S : m <= x
  BY SmallestNumber
<1>2. QED
  BY <1>1 DEF A!Min

LEMMA FirstFires ==
    ASSUME AlarmShapes, NEW k \in watched, NEW x \in Int, FiringAt(k, x) # {}
    PROVE  /\ A!Min(FiringAt(k, x)) \in FiringAt(k, x)
           /\ \A i \in FiringAt(k, x) : A!Min(FiringAt(k, x)) <= i
           /\ Raised(k, x) \in {"warning", "critical"}
<1>1. FiringAt(k, x) \subseteq A!RulesOf(k) /\ A!RulesOf(k) \subseteq Nat
  BY MetricRules DEF FiringAt
<1>2. A!Min(FiringAt(k, x)) \in FiringAt(k, x)
      /\ \A i \in FiringAt(k, x) : A!Min(FiringAt(k, x)) <= i
  BY <1>1, LeastRule
<1>3. A!Alarms[A!Min(FiringAt(k, x))] \in A!Rule
  BY <1>1, <1>2, MetricRules
<1>4. QED
  BY <1>2, <1>3 DEF Raised, A!Rule

(* Rules that cover others fire with them, and those that exclude others do not. *)
LEMMA CoveringFires ==
    ASSUME NEW first \in A!Rule, NEW second \in A!Rule, A!Covers(first, second),
           NEW x \in Int, A!Fires(second, x)
    PROVE  A!Fires(first, x)
BY DEF A!Rule, A!Covers, A!Fires, A!MatchCondition

LEMMA ExcludingFires ==
    ASSUME NEW first \in A!Rule, NEW second \in A!Rule, A!Exclude(first, second), NEW x \in Int
    PROVE  ~(A!Fires(first, x) /\ A!Fires(second, x))
BY DEF A!Rule, A!Exclude, A!Fires, A!MatchCondition

(* Where every rule of a metric fires, the first of them fires at every value *)
(* at which any does.                                                         *)
LEMMA AllFireAlike ==
    ASSUME AlarmShapes, NEW k \in watched, NEW x \in Int, NEW y \in Int,
           FiringAt(k, x) = A!RulesOf(k), FiringAt(k, y) # {}
    PROVE  Raised(k, x) = Raised(k, y)
<1>1. ~\E i, j \in A!RulesOf(k) : A!Exclude(A!Alarms[i], A!Alarms[j])
  BY MetricRules, ExcludingFires DEF FiringAt
<1>2. PICK i \in A!RulesOf(k) :
          \A j \in A!RulesOf(k) : i <= j /\ A!Covers(A!Alarms[i], A!Alarms[j])
  BY <1>1, MetricRules DEF A!WellOrdered
<1>3. i \in FiringAt(k, y)
  <2>1. PICK j \in A!RulesOf(k) : A!Fires(A!Alarms[j], y)
    BY DEF FiringAt
  <2>2. A!Fires(A!Alarms[i], y)
    BY <1>2, <2>1, MetricRules, CoveringFires
  <2>3. QED
    BY <2>2 DEF FiringAt
<1>4. i \in FiringAt(k, x)
  BY <1>2
<1>5. \A S \in SUBSET A!RulesOf(k) : i \in S => A!Min(S) = i
  <2>1. ASSUME NEW S \in SUBSET A!RulesOf(k), i \in S
        PROVE  A!Min(S) = i
    <3>1. A!RulesOf(k) \subseteq Nat
      BY MetricRules
    <3>2. A!Min(S) \in S /\ A!Min(S) <= i
      BY <2>1, <3>1, LeastRule
    <3>3. i <= A!Min(S)
      BY <1>2, <3>2
    <3>4. QED
      BY <3>1, <3>2, <3>3
  <2>2. QED
    BY <2>1
<1>6. A!Min(FiringAt(k, x)) = i /\ A!Min(FiringAt(k, y)) = i
  BY <1>3, <1>4, <1>5 DEF FiringAt
<1>7. QED
  BY <1>6 DEF Raised

(* An ingest sees each metric as unanswered or as an integer. *)
LEMMA IngestedValues ==
    ASSUME AlarmShapes, NEW s \in A!Answers
    PROVE  /\ A!NormalizeSamples(s) \in [watched -> Int \cup {None}]
           /\ \A k \in watched :
                 LET x == A!NormalizeSamples(s)[k]
                 IN /\ x = None => /\ A!Firing(A!NormalizeSamples(s), k) = {}
                                   /\ A!Quiet(A!NormalizeSamples(s), k) = {}
                    /\ x # None =>
                          /\ A!Firing(A!NormalizeSamples(s), k) = FiringAt(k, x)
                          /\ A!Quiet(A!NormalizeSamples(s), k)
                                = A!RulesOf(k) \ FiringAt(k, x)
<1>1. \A k \in watched : s[k] \in Int \cup {None}
  BY MetricRules DEF A!Answers
<1>2. QED
  BY <1>1 DEF A!NormalizeSamples, A!Firing, A!Quiet, A!Evaluated, FiringAt

(* What an ingest makes of one metric. *)
Fired(k, x) == IF x = None THEN {} ELSE FiringAt(k, x)
Silent(k, x) == IF x = None THEN {} ELSE A!RulesOf(k) \ FiringAt(k, x)
Left(k, x, unresolved) == IF Silent(k, x) # {} /\ k \notin unresolved THEN None ELSE event[k]
BecomesOf(k, x, unresolved, unraised) ==
    /\ event'[k] = IF Fired(k, x) # {} /\ k \notin unraised /\ Left(k, x, unresolved) = None
                   THEN Raised(k, x) ELSE Left(k, x, unresolved)
    /\ made'[k] = IF Left(k, x, unresolved) = None /\ event'[k] # None
                  THEN made[k] + 1 ELSE made[k]
    /\ alarm'[k] = IF x = None THEN alarm[k]
                   ELSE IF Fired(k, x) = {} THEN [alarm[k] EXCEPT !.on = FALSE]
                   ELSE IF alarm[k].on /\ Silent(k, x) = {} THEN alarm[k]
                   ELSE [on |-> TRUE, times |-> alarm[k].times + 1]

LEMMA IngestOfKey ==
    ASSUME AInv, NEW s \in A!Answers, NEW U \in SUBSET watched, NEW V \in SUBSET watched,
           A!Ingest(s, U, V), NEW k \in watched
    PROVE  BecomesOf(k, A!NormalizeSamples(s)[k], U, V)
<1> DEFINE values == A!NormalizeSamples(s)
           x == values[k]
<1>1. AlarmShapes
  BY DEF AInv
<1>2. A!Firing(values, k) = Fired(k, x) /\ A!Quiet(values, k) = Silent(k, x)
  BY <1>1, IngestedValues DEF Fired, Silent
<1>3. A!Resolve(event, values, U)[k] = Left(k, x, U)
  BY <1>2 DEF A!Resolve, Left
<1>4. Fired(k, x) # {} => A!Alarms[A!Min(A!Firing(values, k))].severity = Raised(k, x)
  BY <1>2 DEF Fired, Raised
<1>5. event' = A!CreateOrTouch(A!Resolve(event, values, U), values, V)
  BY DEF A!Ingest, A!AfterAlarms
<1>6. event'[k] = IF Fired(k, x) # {} /\ k \notin V /\ Left(k, x, U) = None
                  THEN Raised(k, x) ELSE Left(k, x, U)
  BY <1>2, <1>3, <1>4, <1>5 DEF A!CreateOrTouch
<1>7. A!Remember(values, U)
  BY DEF A!Ingest
<1>8. QED
  BY <1>2, <1>3, <1>6, <1>7 DEF A!Remember, BecomesOf

(* A step of one metric keeps its types and its counts. *)
LEMMA KeyStep ==
    ASSUME AInv, NEW k \in watched, NEW x \in Int \cup {None}, NEW U, NEW V,
           BecomesOf(k, x, U, V), polls' = polls + 1, UNCHANGED <<vendor, watched>>,
           \/ failed' = failed /\ U = {} /\ V = {}
           \/ failed' = failed + 1
    PROVE  /\ event'[k] \in {None, "warning", "critical"}
           /\ made'[k] \in 0 .. polls'
           /\ alarm'[k] \in [on : BOOLEAN, times : 0 .. polls']
           /\ RaisedByFirst(k)' /\ Counted(k)'
           /\ x = None => event'[k] = event[k]
           /\ U = {} /\ V = {} /\ x # None => (event'[k] # None <=> Fired(k, x) # {})
           /\ failed' = 0 /\ event'[k] # None /\ x # None => event'[k] = Raised(k, x)
<1>0. /\ AlarmShapes /\ RaisedByFirst(k) /\ Counted(k) /\ ShowsLast(k)
      /\ A!EventsShowTheReading /\ (failed = 0 => last.clean)
  BY DEF AInv
<1>1. None \notin Int /\ None # "warning" /\ None # "critical" /\ MaxPolls \in Nat
  BY ProfileParameters DEF A!Parameters
<1>2. /\ event[k] \in {None, "warning", "critical"} /\ failed \in Nat /\ polls \in Nat
      /\ made[k] \in 0 .. polls /\ alarm[k].on \in BOOLEAN /\ alarm[k].times \in 0 .. polls
      /\ alarm[k] = [on |-> alarm[k].on, times |-> alarm[k].times]
      /\ last.values[k] \in Int \cup {None}
  BY <1>0, <1>1 DEF AlarmShapes
<1>3. x # None => x \in Int
  OBVIOUS
<1>4. Fired(k, x) # {} => Raised(k, x) \in {"warning", "critical"}
  BY <1>0, <1>3, FirstFires DEF Fired
<1>5. Left(k, x, U) \in {None, event[k]}
  BY DEF Left
<1>6. /\ x = None => Fired(k, x) = {} /\ Silent(k, x) = {}
      /\ x # None => Fired(k, x) = FiringAt(k, x)
  BY DEF Fired, Silent
<1> DEFINE F == Fired(k, x) # {}
           Q == Silent(k, x) # {}
           mid == Left(k, x, U)
           on == alarm[k].on
           times == alarm[k].times
<1>7. mid = IF Q /\ k \notin U THEN None ELSE event[k]
  BY DEF Left
<1>8. event'[k] = IF F /\ k \notin V /\ mid = None THEN Raised(k, x) ELSE mid
  BY DEF BecomesOf
<1>9. made'[k] = IF mid = None /\ event'[k] # None THEN made[k] + 1 ELSE made[k]
  BY DEF BecomesOf
<1>10. /\ alarm'[k] \in [on : BOOLEAN, times : 0 .. polls']
       /\ alarm'[k].on <=> IF x = None THEN on ELSE F
       /\ alarm'[k].times = IF F /\ ~(on /\ ~Q) THEN times + 1 ELSE times
  <2>1. CASE x = None
    <3>1. alarm'[k] = alarm[k]
      BY <2>1 DEF BecomesOf
    <3>2. QED
      BY <1>2, <1>6, <2>1, <3>1
  <2>2. CASE x # None /\ ~F
    <3>1. alarm'[k] = [alarm[k] EXCEPT !.on = FALSE]
      BY <2>2 DEF BecomesOf
    <3>2. alarm'[k] = [on |-> FALSE, times |-> times]
      BY <1>2, <3>1
    <3>3. alarm'[k].on = FALSE /\ alarm'[k].times = times /\ times \in 0 .. polls'
      BY <1>2, <3>2
    <3>4. alarm'[k] \in [on : BOOLEAN, times : 0 .. polls']
      BY <3>2, <3>3
    <3>5. QED
      BY <2>2, <3>3, <3>4
  <2>3. CASE x # None /\ F /\ on /\ ~Q
    <3>1. alarm'[k] = alarm[k]
      BY <2>3 DEF BecomesOf
    <3>2. alarm'[k].on /\ alarm'[k].times = times /\ times \in 0 .. polls'
      BY <1>2, <2>3, <3>1
    <3>3. alarm'[k] \in [on : BOOLEAN, times : 0 .. polls']
      <4>1. alarm'[k] = [on |-> on, times |-> times] /\ on \in BOOLEAN
        BY <1>2, <3>1
      <4>2. QED
        BY <3>2, <4>1
    <3>4. QED
      BY <2>3, <3>2, <3>3
  <2>4. CASE x # None /\ F /\ ~(on /\ ~Q)
    <3>1. alarm'[k] = [on |-> TRUE, times |-> times + 1]
      BY <2>4 DEF BecomesOf
    <3>2. alarm'[k].on = TRUE /\ alarm'[k].times = times + 1 /\ times + 1 \in 0 .. polls'
      BY <1>2, <3>1
    <3>3. alarm'[k] \in [on : BOOLEAN, times : 0 .. polls']
      BY <3>1, <3>2
    <3>4. QED
      BY <2>4, <3>2, <3>3
  <2>5. QED
    BY <1>6, <2>1, <2>2, <2>3, <2>4
<1>11. event'[k] \in {None, "warning", "critical"}
  BY <1>2, <1>4, <1>5, <1>8
<1>12. x = None => ~F /\ ~Q
  BY <1>6
<1>13. /\ made[k] <= times
       /\ on /\ event[k] = None => made[k] + 1 <= times
       /\ failed = 0 => made[k] = times /\ (on <=> event[k] # None)
  BY <1>0 DEF Counted, Unraised
<1> HIDE DEF F, Q, mid, on, times
<1>14. F => Raised(k, x) # None
  BY <1>1, <1>4 DEF F
<1>15. /\ made'[k] \in 0 .. polls' /\ made'[k] <= alarm'[k].times
       /\ alarm'[k].on /\ event'[k] = None => made'[k] + 1 <= alarm'[k].times
  <2>1. made[k] \in Nat /\ times \in Nat /\ made[k] <= polls /\ times <= polls /\ polls \in Nat
    BY <1>2 DEF times
  <2>2. made'[k] \in {made[k], made[k] + 1} /\ alarm'[k].times \in {times, times + 1}
    BY <1>9, <1>10
  <2>3. CASE F /\ ~(on /\ ~Q)
    <3>1. alarm'[k].times = times + 1
      BY <1>10, <2>3
    <3>2. event'[k] = None => made'[k] = made[k]
      BY <1>9
    <3>3. QED
      BY <1>13, <2>1, <2>2, <3>1, <3>2
  <2>4. CASE F /\ on /\ ~Q
    <3>1. alarm'[k].times = times /\ mid = event[k] /\ alarm'[k].on
      BY <1>7, <1>10, <1>12, <2>4
    <3>2. CASE event[k] = None
      <4>1. event'[k] = None => made'[k] = made[k]
        BY <1>9
      <4>2. QED
        BY <1>13, <2>1, <2>2, <2>4, <3>1, <3>2, <4>1
    <3>3. CASE event[k] # None
      <4>1. made'[k] = made[k] /\ event'[k] = event[k]
        BY <1>8, <1>9, <3>1, <3>3
      <4>2. QED
        BY <1>13, <2>1, <3>1, <3>3, <4>1
    <3>4. QED
      BY <3>2, <3>3
  <2>5. CASE ~F
    <3>1. event'[k] = mid /\ made'[k] = made[k] /\ alarm'[k].times = times
      BY <1>8, <1>9, <1>10, <2>5
    <3>2. alarm'[k].on /\ event'[k] = None => on /\ event[k] = None
      BY <1>7, <1>10, <1>12, <2>5, <3>1
    <3>3. QED
      BY <1>13, <2>1, <3>1, <3>2
  <2>6. QED
    BY <2>3, <2>4, <2>5
<1>16. U = {} /\ V = {} /\ x # None => (event'[k] # None <=> F)
  <2> SUFFICES ASSUME U = {}, V = {}, x # None PROVE event'[k] # None <=> F
    OBVIOUS
  <2>1. CASE F
    BY <1>8, <1>14, <2>1
  <2>2. CASE ~F
    <3>1. Q
      <4>1. A!RulesOf(k) # {}
        BY <1>0, MetricRules DEF A!WellOrdered
      <4>2. FiringAt(k, x) = {}
        BY <1>6, <2>2 DEF F
      <4>3. QED
        BY <4>1, <4>2 DEF Q, Silent
    <3>2. QED
      BY <1>7, <1>8, <2>2, <3>1
  <2>3. QED
    BY <2>1, <2>2
<1>17. failed' = 0 => failed = 0 /\ U = {} /\ V = {}
  BY <1>2
<1>18. failed' = 0 => made'[k] = alarm'[k].times /\ (alarm'[k].on <=> event'[k] # None)
  <2> SUFFICES ASSUME failed' = 0
               PROVE  made'[k] = alarm'[k].times /\ (alarm'[k].on <=> event'[k] # None)
    OBVIOUS
  <2>1. failed = 0 /\ U = {} /\ V = {} /\ made[k] = times /\ (on <=> event[k] # None)
    BY <1>13, <1>17
  <2>2. alarm'[k].on <=> event'[k] # None
    BY <1>7, <1>8, <1>10, <1>12, <1>16, <2>1
  <2>3. mid = None /\ event'[k] # None <=> F /\ ~(on /\ ~Q)
    <3>1. CASE F
      BY <1>7, <1>8, <1>14, <2>1, <3>1
    <3>2. CASE ~F
      BY <1>8, <3>2
    <3>3. QED
      BY <3>1, <3>2
  <2>4. QED
    BY <1>9, <1>10, <2>1, <2>2, <2>3
<1>19. Counted(k)'
  BY <1>15, <1>18 DEF Counted, Unraised
<1>20. event'[k] # None /\ event'[k] # event[k] => F /\ event'[k] = Raised(k, x)
  BY <1>7, <1>8
<1>21. RaisedByFirst(k)'
  <2>1. \A y : FiringAt(k, y)' = FiringAt(k, y) /\ Raised(k, y)' = Raised(k, y)
    BY DEF FiringAt, Raised, A!RulesOf, A!Alarms
  <2>2. ASSUME event'[k] # None
        PROVE  \E y \in Int : FiringAt(k, y) # {} /\ event'[k] = Raised(k, y)
    <3>1. CASE event'[k] = event[k]
      BY <1>0, <2>2, <3>1 DEF RaisedByFirst
    <3>2. CASE event'[k] # event[k]
      <4>1. F /\ event'[k] = Raised(k, x)
        BY <1>20, <2>2, <3>2
      <4>2. x # None /\ FiringAt(k, x) # {}
        BY <1>6, <4>1 DEF F
      <4>3. QED
        BY <1>3, <4>1, <4>2
    <3>3. QED
      BY <3>1, <3>2
  <2>3. QED
    BY <2>1, <2>2 DEF RaisedByFirst
<1>22. failed' = 0 /\ event'[k] # None /\ x # None => event'[k] = Raised(k, x)
  <2> SUFFICES ASSUME failed' = 0, event'[k] # None, x # None
               PROVE  event'[k] = Raised(k, x)
    OBVIOUS
  <2>1. F /\ U = {} /\ V = {}
    BY <1>16, <1>17
  <2>2. CASE mid = None
    BY <1>8, <2>1, <2>2
  <2>3. CASE mid # None
    <3>1. ~Q /\ event'[k] = event[k] /\ event[k] # None
      BY <1>7, <1>8, <2>1, <2>3
    <3>2. FiringAt(k, x) = A!RulesOf(k)
      BY <3>1 DEF Q, Silent, FiringAt
    <3>3. PICK y \in Int : FiringAt(k, y) # {} /\ event[k] = Raised(k, y)
      BY <1>0, <3>1 DEF RaisedByFirst
    <3>4. QED
      BY <1>0, <1>3, <3>1, <3>2, <3>3, AllFireAlike
  <2>4. QED
    BY <2>2, <2>3
<1>23. x = None => event'[k] = event[k]
  BY <1>7, <1>8, <1>12
<1>24. QED
  BY <1>10, <1>11, <1>15, <1>16, <1>19, <1>21, <1>22, <1>23 DEF F

(* An ingest keeps the invariant. *)
LEMMA IngestStep ==
    ASSUME AInv, NEW s \in A!Answers, NEW U \in SUBSET watched, NEW V \in SUBSET watched,
           A!PollOnce, A!Ingest(s, U, V),
           \/ failed' = failed /\ U = {} /\ V = {}
           \/ failed' = failed + 1
    PROVE  AInv'
<1> DEFINE values == A!NormalizeSamples(s)
<1>0. AlarmShapes
  BY DEF AInv
<1>1. /\ polls < MaxPolls /\ polls' = polls + 1 /\ UNCHANGED <<vendor, watched>>
  BY DEF A!PollOnce
<1>2. values \in [watched -> Int \cup {None}]
  BY <1>0, IngestedValues
<1>3. /\ shown' = A!NewStatus(values)
      /\ last' = [values |-> values, clean |-> U \cup V = {}]
      /\ DOMAIN event' = watched /\ event' = [k \in watched |-> event'[k]]
      /\ made' = [k \in watched |-> made'[k]]
      /\ alarm' = [k \in watched |-> alarm'[k]]
  BY DEF A!Ingest, A!AfterAlarms, A!CreateOrTouch, A!Remember
<1>4. last'.values = values /\ (last'.clean <=> U \cup V = {})
  BY <1>3
<1>5. \A k \in watched : A!Firing(values, k) = Fired(k, values[k])
  BY <1>0, IngestedValues DEF Fired
<1>6. \A k \in watched : BecomesOf(k, values[k], U, V)
  BY IngestOfKey
<1> HIDE DEF values
<1>7. \A k \in watched :
         /\ event'[k] \in {None, "warning", "critical"}
         /\ made'[k] \in 0 .. polls'
         /\ alarm'[k] \in [on : BOOLEAN, times : 0 .. polls']
         /\ RaisedByFirst(k)' /\ Counted(k)'
         /\ values[k] = None => event'[k] = event[k]
         /\ U = {} /\ V = {} /\ values[k] # None => (event'[k] # None <=> Fired(k, values[k]) # {})
         /\ failed' = 0 /\ event'[k] # None /\ values[k] # None =>
                event'[k] = Raised(k, values[k])
  <2> SUFFICES ASSUME NEW k \in watched
               PROVE  /\ event'[k] \in {None, "warning", "critical"}
                      /\ made'[k] \in 0 .. polls'
                      /\ alarm'[k] \in [on : BOOLEAN, times : 0 .. polls']
                      /\ RaisedByFirst(k)' /\ Counted(k)'
                      /\ values[k] = None => event'[k] = event[k]
                      /\ U = {} /\ V = {} /\ values[k] # None =>
                             (event'[k] # None <=> Fired(k, values[k]) # {})
                      /\ failed' = 0 /\ event'[k] # None /\ values[k] # None =>
                             event'[k] = Raised(k, values[k])
    OBVIOUS
  <2>1. values[k] \in Int \cup {None} /\ BecomesOf(k, values[k], U, V)
    BY <1>2, <1>6
  <2>2. QED
    BY <1>1, <2>1, KeyStep
<1>8. shown' \in {"online", "degraded"}
      /\ (shown' = "degraded" <=> \E k \in watched : Fired(k, values[k]) # {})
  BY <1>3, <1>5 DEF A!NewStatus
<1>9. AlarmShapes'
  <2>1. polls' \in 0 .. MaxPolls /\ failed' \in Nat
    BY <1>0, <1>1, ProfileParameters DEF AlarmShapes, A!Parameters
  <2>2. event' \in [watched -> {None, "warning", "critical"}]
    BY <1>3, <1>7
  <2>3. made' \in [watched -> 0 .. polls']
    BY <1>3, <1>7
  <2>4. alarm' \in [watched -> [on : BOOLEAN, times : 0 .. polls']]
    BY <1>3, <1>7
  <2>5. last'.values \in [watched -> Int \cup {None}]
    BY <1>2, <1>4
  <2>6. shown' \in {"no_data", "online", "degraded", "offline"}
    BY <1>8
  <2>7. last' = [values |-> last'.values, clean |-> last'.clean]
    BY <1>3
  <2>8. QED
    BY <1>0, <1>1, <2>1, <2>2, <2>3, <2>4, <2>5, <2>6, <2>7 DEF AlarmShapes
<1>10. (failed' = 0 => last'.clean) /\ (last'.clean => U = {} /\ V = {})
  <2>1. failed' = 0 => U = {} /\ V = {}
    BY <1>0 DEF AlarmShapes
  <2>2. QED
    BY <1>4, <2>1
<1>11. \A k \in watched :
          /\ values[k] # None =>
                A!Firing(last.values, k)' = Fired(k, values[k])
          /\ \A x : Raised(k, x)' = Raised(k, x)
  <2>1. \A k, x : FiringAt(k, x)' = FiringAt(k, x) /\ Raised(k, x)' = Raised(k, x)
    BY <1>1 DEF FiringAt, Raised, A!RulesOf, A!Alarms
  <2>2. \A k \in watched : values[k] # None =>
            A!Firing(last.values, k)' = FiringAt(k, values[k])
    BY <1>1, <1>4 DEF A!Firing, A!Evaluated, FiringAt, A!RulesOf, A!Alarms
  <2>3. QED
    BY <2>1, <2>2 DEF Fired
<1>12. A!EventsShowTheReading'
  BY <1>1, <1>4, <1>7, <1>10, <1>11 DEF A!EventsShowTheReading
<1>13. A!StatusTellsTheEvents'
  <2>1. \A k \in watched : Fired(k, values[k]) # {} => values[k] # None
    BY DEF Fired
  <2>2. QED
    BY <1>1, <1>4, <1>7, <1>8, <1>10, <2>1 DEF A!StatusTellsTheEvents
<1>14. \A k \in watched : ShowsLast(k)'
  BY <1>4, <1>7, <1>11 DEF ShowsLast
<1>15. QED
  BY <1>1, <1>7, <1>9, <1>10, <1>12, <1>13, <1>14 DEF AInv

(* A poll that looks at no alarm, or that finds none to look at. *)
LEMMA AloneStep ==
    ASSUME AInv, polls' \in {polls, polls + 1}, polls' \in 0 .. MaxPolls,
           UNCHANGED <<vendor, watched, event, made, alarm>>,
           \/ last' = last /\ failed' = failed /\ shown' \in {shown, "offline"}
           \/ /\ last' = [values |-> last.values, clean |-> FALSE]
              /\ failed' = failed + 1
              /\ shown' \in {"online", "degraded"}
    PROVE  AInv'
<1>0. AlarmShapes
  BY DEF AInv
<1>1. 0 .. polls \subseteq 0 .. polls'
  BY <1>0, ProfileParameters DEF AlarmShapes, A!Parameters
<1>2. made \in [watched -> 0 .. polls'] /\ alarm \in [watched -> [on : BOOLEAN, times : 0 .. polls']]
  BY <1>0, <1>1 DEF AlarmShapes
<1>3. AlarmShapes'
  <2>1. /\ last' = [values |-> last'.values, clean |-> last'.clean]
        /\ last'.values = last.values
    BY <1>0 DEF AlarmShapes
  <2>2. failed' \in Nat /\ shown' \in {"no_data", "online", "degraded", "offline"}
    BY <1>0 DEF AlarmShapes
  <2>3. QED
    BY <1>0, <1>2, <2>1, <2>2 DEF AlarmShapes
<1>4. \A k, x : FiringAt(k, x)' = FiringAt(k, x) /\ Raised(k, x)' = Raised(k, x)
  BY DEF FiringAt, Raised, A!RulesOf, A!Alarms
<1>5. \A k \in watched : RaisedByFirst(k)'
  BY <1>4 DEF AInv, RaisedByFirst
<1>6. failed' = 0 => failed = 0 /\ last' = last
  BY <1>0 DEF AlarmShapes
<1>7. \A k \in watched : Counted(k)' /\ ShowsLast(k)'
  BY <1>4, <1>6 DEF AInv, Counted, Unraised, ShowsLast
<1>8. A!EventsShowTheReading' /\ A!StatusTellsTheEvents'
  <2>1. CASE last' = last
    BY <2>1 DEF AInv, A!EventsShowTheReading, A!StatusTellsTheEvents, A!Firing, A!Evaluated,
                A!RulesOf, A!Alarms
  <2>2. CASE last'.clean = FALSE
    BY <2>2 DEF A!EventsShowTheReading, A!StatusTellsTheEvents
  <2>3. last' = last \/ last'.clean = FALSE
    OBVIOUS
  <2>4. QED
    BY <2>1, <2>2, <2>3
<1>9. failed' = 0 => last'.clean
  BY <1>6 DEF AInv
<1>10. QED
  BY <1>3, <1>5, <1>7, <1>8, <1>9 DEF AInv

LEMMA AlarmsInit == A!Init => AInv
<1> SUFFICES ASSUME A!Init PROVE AInv
  OBVIOUS
<1>1. None # "warning" /\ None # "critical" /\ MaxPolls \in Nat
  BY ProfileParameters DEF A!Parameters
<1>2. watched \subseteq DOMAIN Rules[vendor]
  BY DEF A!Init, A!kSubset
<1>3. last.values = [k \in watched |-> None] /\ last.clean
  BY DEF A!Init
<1>4. alarm \in [watched -> [on : BOOLEAN, times : 0 .. 0]]
      /\ \A k \in watched : alarm[k].on = FALSE /\ alarm[k].times = 0
  BY DEF A!Init
<1>5. AlarmShapes
  BY <1>1, <1>2, <1>3, <1>4 DEF A!Init, AlarmShapes
<1>6. QED
  BY <1>3, <1>4, <1>5
  DEF A!Init, AInv, A!EventsShowTheReading, A!StatusTellsTheEvents, RaisedByFirst, Counted,
      Unraised, ShowsLast

LEMMA AlarmsNext ==
    ASSUME AInv, A!Next
    PROVE  AInv'
<1>0. AlarmShapes /\ MaxPolls \in Nat
  BY ProfileParameters DEF AInv, A!Parameters
<1>1. ASSUME A!PollOnce
      PROVE  polls' = polls + 1 /\ polls' \in 0 .. MaxPolls /\ UNCHANGED <<vendor, watched>>
  BY <1>0, <1>1 DEF AlarmShapes, A!PollOnce
<1>2. CASE A!Collected
  BY <1>2, IngestStep DEF A!Collected
<1>3. CASE A!CollectedInPart
  <2>1. PICK s \in A!Answers, k \in watched :
            /\ A!PollOnce /\ failed' = failed + 1
            /\ A!Ingest(s, {k}, {}) \/ A!Ingest(s, {}, {k})
    BY <1>3 DEF A!CollectedInPart, A!Fault
  <2>2. {k} \in SUBSET watched /\ {} \in SUBSET watched
    OBVIOUS
  <2>3. QED
    BY <2>1, <2>2, IngestStep
<1>4. CASE A!MarkCollectionSuccessFails
  <2>1. PICK s \in A!Answers :
            /\ A!PollOnce /\ failed' = failed + 1
            /\ shown' = A!NewStatus(A!NormalizeSamples(s))
            /\ last' = [last EXCEPT !.clean = FALSE]
            /\ UNCHANGED <<event, made, alarm>>
    BY <1>4 DEF A!MarkCollectionSuccessFails, A!Fault
  <2>2. shown' \in {"online", "degraded"}
    BY <2>1 DEF A!NewStatus
  <2>3. last' = [values |-> last.values, clean |-> FALSE]
    BY <1>0, <2>1 DEF AlarmShapes, AInv
  <2>4. QED
    BY <1>1, <2>1, <2>2, <2>3, AloneStep
<1>5. CASE A!MarkUnreachable \/ A!MarkIngestConfigError
  BY <1>1, <1>5, AloneStep DEF A!MarkUnreachable, A!MarkIngestConfigError, A!Alone
<1>6. QED
  BY <1>2, <1>3, <1>4, <1>5 DEF A!Next

LEMMA AlarmsIdle ==
    ASSUME AInv, UNCHANGED alarmVars
    PROVE  AInv'
<1>1. /\ polls' = polls /\ polls' \in 0 .. MaxPolls
      /\ UNCHANGED <<vendor, watched, last, shown, event, failed, made, alarm>>
  BY DEF AInv, AlarmShapes, alarmVars
<1>2. QED
  BY <1>1, AloneStep

LEMMA AlarmsAreShown == AInv => A!RulesInv
<1> SUFFICES ASSUME AInv PROVE A!RulesInv
  OBVIOUS
<1>0. AlarmShapes
  BY DEF AInv
<1>1. A!TypeOK
  <2>1. 0 .. polls \subseteq 0 .. MaxPolls
    BY <1>0, ProfileParameters DEF AlarmShapes, A!Parameters
  <2>2. QED
    BY <1>0, <2>1 DEF AlarmShapes, A!TypeOK
<1>2. A!OneEventUnlessTiersDiffer
  BY DEF AInv, Counted, A!OneEventUnlessTiersDiffer
<1>3. A!SeverityIsOfAFiringRule
  <2>1. ASSUME NEW k \in watched, failed = 0, event[k] # None, last.values[k] # None
        PROVE  \E i \in A!Firing(last.values, k) : event[k] = A!Alarms[i].severity
    <3> DEFINE x == last.values[k]
    <3>1. x \in Int /\ event[k] = Raised(k, x) /\ A!Firing(last.values, k) = FiringAt(k, x)
      BY <1>0, <2>1 DEF AInv, AlarmShapes, ShowsLast, A!Firing, A!Evaluated, FiringAt
    <3>2. FiringAt(k, x) # {}
      BY <2>1, <3>1 DEF AInv, A!EventsShowTheReading
    <3>3. A!Min(FiringAt(k, x)) \in FiringAt(k, x)
      BY <1>0, <3>1, <3>2, FirstFires
    <3>4. QED
      BY <3>1, <3>3 DEF Raised
  <2>2. QED
    BY <2>1 DEF A!SeverityIsOfAFiringRule
<1>4. QED
  BY <1>1, <1>2, <1>3 DEF AInv, A!RulesInv

(* After an ingest that went well the open events and the status are those of the *)
(* values that were answered, whatever tiers a metric has; an alarm that goes on   *)
(* keeps one event unless its tiers differ; and an open event has the severity of  *)
(* a rule that fires at the last answer (Ingest).                                  *)
THEOREM EventsFollowRules == DevicesSpec => []RulesInv
<1>1. DevicesInit => AInv
  BY AlarmsInit DEF DevicesInit
<1>2. AInv /\ [DevicesNext]_all => AInv'
  <2> SUFFICES ASSUME AInv, [DevicesNext]_all PROVE AInv'
    OBVIOUS
  <2>1. CASE UNCHANGED alarmVars
    BY <2>1, AlarmsIdle
  <2>2. CASE A!Next
    BY <2>2, AlarmsNext
  <2>3. QED
    BY <2>1, <2>2 DEF DevicesNext, Over, all, Runs
<1>3. AInv => RulesInv
  BY AlarmsAreShown DEF RulesInv
<1>4. QED
  BY <1>1, <1>2, <1>3, PTL DEF DevicesSpec
=============================================================================
