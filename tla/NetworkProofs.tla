--------------------------- MODULE NetworkProofs ---------------------------
(***************************************************************************)
(* Proofs about what is read in one statement and written in another: the  *)
(* cache of towers, for any number of requests, towers and filters, and    *)
(* the links copied from Zabbix, for any number of calls and routers.      *)
(***************************************************************************)
EXTENDS MCNetwork, FiniteSetTheorems, WellFoundedInduction, TLAPS

-----------------------------------------------------------------------------
(***************************************************************************)
(* The cache of towers.  What a request has read is current until a write  *)
(* overlaps it, and then the tower is in overlap; so what it stores is     *)
(* either current or of a tower in overlap, and only a write that is still *)
(* to invalidate makes an entry differ from its row.                       *)
(***************************************************************************)
Requesters == Readers \cup Writers
Reading == {"lookup", "drop", "query", "setlist", "setbyid", "answer"}
Writing == {"wrote", "invalidated"}
ListKeys == Statuses \cup {Every}

DetailEntry == [rows : SUBSET Shown, expired : BOOLEAN]
ListEntry == [rows : SUBSET Shown, filter : Filters, expired : BOOLEAN]
ListJob == [list : Filters]
TowerJob == [id : Towers]

Shapes ==
    /\ row \in [Towers -> [version : 0..MaxVersion, status : Statuses]]
    /\ details \in [Towers -> {Missing} \cup DetailEntry]
    /\ lists \in [ListKeys -> {Missing} \cup ListEntry]
    /\ pc \in [Requesters -> {"idle"} \cup Reading \cup Writing]
    /\ job \in [Requesters -> {Missing} \cup ListJob \cup TowerJob]
    /\ got \in [Readers -> SUBSET Shown]
    /\ overlap \subseteq Towers

(* What a request has to do goes with where it is. *)
Jobs ==
    /\ \A p \in Requesters :
        /\ pc[p] \in Reading => job[p] \in ListJob \cup TowerJob
        /\ pc[p] = "setlist" => job[p] \in ListJob
        /\ pc[p] \in Writing => job[p] \in TowerJob
    /\ \A r \in Readers :
        /\ pc[r] \notin {"setlist", "setbyid", "answer"} => got[r] = Nobody
        /\ job[r] \in TowerJob => \A s \in got[r] : s.tower = job[r].id

OwnRow(t) == details[t] # Missing => \E s \in Shown : s.tower = t /\ details[t].rows = {s}

(* An entry under a key holds rows of that status only. *)
ByStatus(k) == lists[k] # Missing =>
    lists[k].filter.status = k /\ \A s \in lists[k].rows : k \in {Every, s.status}

OfStatus(r) == job[r] \in ListJob => \A s \in got[r] : job[r].list.status \in {Every, s.status}

(* What a request is to store is current, unless a write overlapped it. *)
HandIsCurrent(r) ==
    /\ pc[r] \in {"setlist", "setbyid"} =>
          \A s \in got[r] : s = Now(s.tower) \/ s.tower \in overlap
    /\ pc[r] = "setlist" => got[r] = Listed(job[r].list) \/ overlap # {}

CInv ==
    /\ Shapes
    /\ Jobs
    /\ \A t \in Towers : OwnRow(t)
    /\ \A k \in ListKeys : ByStatus(k)
    /\ \A r \in Readers : OfStatus(r) /\ HandIsCurrent(r)
    /\ StaleTowerHasCause
    /\ StaleListHasCause

(* Jobs and entries tell what they are. *)
LEMMA JobKinds ==
    /\ \A f : DOMAIN [list |-> f] = {"list"}
    /\ \A j \in ListJob : j = [list |-> j.list] /\ j.list \in Filters /\ DOMAIN j = {"list"}
    /\ \A j \in TowerJob : j.id \in Towers /\ DOMAIN j # {"list"} /\ j \notin ListJob
    /\ Missing \notin ListJob /\ Missing \notin TowerJob /\ DOMAIN Missing # {"list"}
BY DEF ListJob, TowerJob, Missing

LEMMA EntryKinds ==
    Missing \notin DetailEntry /\ Missing \notin ListEntry
BY DEF DetailEntry, ListEntry, Missing

LEMMA ListedShown ==
    ASSUME Shapes
    PROVE  /\ \A t \in Towers : Now(t) \in Shown /\ Now(t).tower = t
           /\ \A f \in Filters : /\ Listed(f) \subseteq Shown
                                 /\ \A s \in Listed(f) : /\ s = Now(s.tower)
                                                         /\ f.status \in {Every, s.status}
BY DEF Shapes, Now, Shown, Listed

LEMMA CacheInit == Init => CInv
<1> SUFFICES ASSUME Init PROVE CInv
  OBVIOUS
<1>1. Shapes
  BY CacheAssumption DEF Init, Shapes, Requesters, ListKeys, Statuses, Nobody
<1>2. Jobs
  BY JobKinds DEF Init, Jobs, Requesters, Reading, Writing, Nobody
<1>3. QED
  BY <1>1, <1>2, JobKinds
  DEF CInv, Init, OwnRow, ByStatus, OfStatus, HandIsCurrent, StaleTowerHasCause, Stale,
      StaleListHasCause, StaleList, ListKeys, Nobody, Requesters

LEMMA ShapesStep ==
    ASSUME CInv, [Next]_vars
    PROVE  Shapes'
<1>0. Shapes /\ Jobs
  BY DEF CInv
<1>1. ASSUME NEW r \in Readers, NEW f \in Filters, StartList(r, f)
      PROVE  Shapes'
  BY <1>0, <1>1 DEF Shapes, StartList, Requesters, Reading, ListJob
<1>2. ASSUME NEW r \in Readers, NEW t \in Towers, StartGet(r, t)
      PROVE  Shapes'
  BY <1>0, <1>2 DEF Shapes, StartGet, Requesters, Reading, TowerJob
<1>3. ASSUME NEW r \in Readers, LookUp(r)
      PROVE  Shapes'
  <2>1. r \in Requesters /\ job[r] \in ListJob \cup TowerJob
    BY <1>0, <1>3 DEF LookUp, Jobs, Reading, Requesters
  <2>2. Entry(r) # Missing => Entry(r).rows \subseteq Shown
    <3>1. CASE IsList(r)
      <4>1. job[r].list \in Filters /\ listKey(job[r].list) \in ListKeys
        BY <2>1, <3>1, JobKinds, CacheAssumption DEF IsList, listKey, Filter, ListKeys
      <4>2. QED
        BY <1>0, <3>1, <4>1 DEF Entry, Shapes, ListEntry
    <3>2. CASE ~IsList(r)
      <4>1. job[r].id \in Towers
        BY <2>1, <3>2, JobKinds DEF IsList
      <4>2. QED
        BY <1>0, <3>2, <4>1 DEF Entry, Shapes, DetailEntry
    <3>3. QED
      BY <3>1, <3>2
  <2>3. QED
    BY <1>0, <1>3, <2>1, <2>2 DEF LookUp, Shapes, Reading
<1>4. ASSUME NEW r \in Readers, Drop(r)
      PROVE  Shapes'
  BY <1>0, <1>4 DEF Drop, Shapes, Reading, Requesters
<1>5. ASSUME NEW r \in Readers, Query(r)
      PROVE  Shapes'
  <2>1. r \in Requesters /\ job[r] \in ListJob \cup TowerJob
    BY <1>0, <1>5 DEF Query, Jobs, Reading, Requesters
  <2>2. IsList(r) => Listed(job[r].list) \subseteq Shown
    BY <1>0, <2>1, JobKinds, ListedShown DEF IsList
  <2>3. ~IsList(r) => Now(job[r].id) \in Shown
    BY <1>0, <2>1, JobKinds, ListedShown DEF IsList
  <2>4. QED
    BY <1>0, <1>5, <2>1, <2>2, <2>3 DEF Query, Shapes, Reading
<1>6. ASSUME NEW r \in Readers, QueryFails(r) \/ Finish(r)
      PROVE  Shapes'
  BY <1>0, <1>6 DEF QueryFails, Finish, Nobody, Shapes, Requesters
<1>7. ASSUME NEW r \in Readers, SetList(r)
      PROVE  Shapes'
  <2>1. r \in Requesters /\ job[r].list \in Filters
    BY <1>0, <1>7, JobKinds DEF SetList, Jobs, Requesters
  <2>2. [rows |-> got[r], filter |-> job[r].list, expired |-> FALSE] \in ListEntry
    BY <1>0, <2>1 DEF Shapes, ListEntry
  <2>3. QED
    BY <1>0, <1>7, <2>1, <2>2 DEF SetList, Shapes, Reading
<1>8. ASSUME NEW r \in Readers, SetByID(r)
      PROVE  Shapes'
  <2>1. PICK s \in got[r] :
            /\ details' = [details EXCEPT ![s.tower] = [rows |-> {s}, expired |-> FALSE]]
            /\ got' = [got EXCEPT ![r] = @ \ {s}]
    BY <1>8 DEF SetByID
  <2>2. [rows |-> {s}, expired |-> FALSE] \in DetailEntry
    BY <1>0 DEF Shapes, DetailEntry
  <2>3. QED
    BY <1>0, <1>8, <2>1, <2>2 DEF SetByID, Shapes
<1>9. ASSUME NEW w \in Writers, NEW t \in Towers, NEW status \in Statuses, Upsert(w, t, status)
      PROVE  Shapes'
  <2>1. row' \in [Towers -> [version : 0..MaxVersion, status : Statuses]]
    BY <1>0, <1>9, CacheAssumption DEF Shapes, Upsert, Changes
  <2>2. QED
    BY <1>0, <1>9, <2>1 DEF Shapes, Upsert, Requesters, Writing, TowerJob
<1>10. ASSUME NEW w \in Writers, Invalidate(w)
      PROVE  Shapes'
  BY <1>0, <1>10 DEF Invalidate, InvalidateTower, InvalidateList, Shapes, Requesters, Writing
<1>11. ASSUME NEW t \in Towers, NEW status \in Statuses, WriteElsewhere(t, status)
      PROVE  Shapes'
  <2>1. row' \in [Towers -> [version : 0..MaxVersion, status : Statuses]]
    BY <1>0, <1>11, CacheAssumption DEF Shapes, WriteElsewhere, Changes
  <2>2. QED
    BY <1>0, <1>11, <2>1 DEF Shapes, WriteElsewhere
<1>12. ASSUME NEW t \in Towers, ExpireTower(t)
      PROVE  Shapes'
  BY <1>0, <1>12 DEF Shapes, ExpireTower, DetailEntry
<1>13. ASSUME NEW k \in DOMAIN lists, ExpireList(k)
      PROVE  Shapes'
  BY <1>0, <1>13 DEF Shapes, ExpireList, ListEntry
<1>14. CASE UNCHANGED vars
  BY <1>0, <1>14 DEF Shapes, vars
<1>15. QED
  BY <1>1, <1>2, <1>3, <1>4, <1>5, <1>6, <1>7, <1>8, <1>9, <1>10, <1>11, <1>12, <1>13, <1>14
  DEF Next, Read

(* A reader that finds an entry answers with rows of what it was asked for,  *)
(* and so does one that queries.                                             *)
LEMMA FoundRows ==
    ASSUME CInv, NEW r \in Readers, pc[r] \in Reading, Entry(r) # Missing
    PROVE  /\ job[r] \in TowerJob => \A s \in Entry(r).rows : s.tower = job[r].id
           /\ job[r] \in ListJob =>
                 \A s \in Entry(r).rows : job[r].list.status \in {Every, s.status}
<1>1. CASE job[r] \in TowerJob
  <2>1. Entry(r) = details[job[r].id] /\ job[r].id \in Towers
    BY <1>1, JobKinds DEF Entry, IsList
  <2>2. QED
    BY <1>1, <2>1, JobKinds DEF CInv, OwnRow
<1>2. CASE job[r] \in ListJob
  <2>1. job[r].list.status \in ListKeys /\ Entry(r) = lists[job[r].list.status]
    BY <1>2, JobKinds, CacheAssumption DEF Entry, IsList, listKey, Filter, ListKeys
  <2>2. QED
    BY <1>2, <2>1, JobKinds DEF CInv, ByStatus
<1>3. QED
  BY <1>1, <1>2

LEMMA QueriedRows ==
    ASSUME CInv, NEW r \in Readers, Query(r)
    PROVE  /\ job[r] \in TowerJob => /\ pc'[r] = "setbyid" /\ got'[r] = {Now(job[r].id)}
                                     /\ \A s \in got'[r] : s.tower = job[r].id /\ s = Now(s.tower)
           /\ job[r] \in ListJob =>
                 /\ pc'[r] = "setlist" /\ got'[r] = Listed(job[r].list)
                 /\ \A s \in got'[r] : s = Now(s.tower) /\ job[r].list.status \in {Every, s.status}
<1>0. Shapes /\ r \in Requesters
  BY DEF CInv, Requesters
<1>1. CASE job[r] \in TowerJob
  <2>1. ~IsList(r) /\ job[r].id \in Towers
    BY <1>1, JobKinds DEF IsList
  <2>2. QED
    BY <1>0, <1>1, <2>1, ListedShown, JobKinds DEF Query, Shapes
<1>2. CASE job[r] \in ListJob
  <2>1. IsList(r) /\ job[r].list \in Filters
    BY <1>2, JobKinds DEF IsList
  <2>2. QED
    BY <1>0, <1>2, <2>1, ListedShown, JobKinds DEF Query, Shapes
<1>3. QED
  BY <1>1, <1>2

LEMMA JobsStep ==
    ASSUME CInv, [Next]_vars
    PROVE  Jobs'
<1>0. Shapes /\ Jobs
  BY DEF CInv
<1> USE DEF Requesters, Reading, Writing
<1>1. ASSUME NEW r \in Readers, NEW f \in Filters, StartList(r, f)
      PROVE  Jobs'
  <2>1. [list |-> f] \in ListJob /\ [list |-> f] \notin TowerJob
    BY JobKinds DEF ListJob
  <2>2. got[r] = Nobody
    BY <1>0, <1>1 DEF Jobs, StartList
  <2>3. QED
    BY <1>0, <1>1, <2>1, <2>2 DEF Shapes, Jobs, StartList, Nobody
<1>2. ASSUME NEW r \in Readers, NEW t \in Towers, StartGet(r, t)
      PROVE  Jobs'
  <2>1. [id |-> t] \in TowerJob
    BY DEF TowerJob
  <2>2. got[r] = Nobody
    BY <1>0, <1>2 DEF Jobs, StartGet
  <2>3. QED
    BY <1>0, <1>2, <2>1, <2>2 DEF Shapes, Jobs, StartGet, Nobody
<1>3. ASSUME NEW r \in Readers, LookUp(r)
      PROVE  Jobs'
  <2>1. Entry(r) # Missing /\ job[r] \in TowerJob => \A s \in Entry(r).rows : s.tower = job[r].id
    BY <1>3, FoundRows DEF LookUp
  <2>2. QED
    BY <1>0, <1>3, <2>1 DEF Shapes, Jobs, LookUp
<1>4. ASSUME NEW r \in Readers, Drop(r)
      PROVE  Jobs'
  BY <1>0, <1>4 DEF Shapes, Jobs, Drop
<1>5. ASSUME NEW r \in Readers, Query(r)
      PROVE  Jobs'
  BY <1>0, <1>5, QueriedRows DEF Shapes, Jobs, Query
<1>6. ASSUME NEW r \in Readers, QueryFails(r) \/ Finish(r)
      PROVE  Jobs'
  BY <1>0, <1>6, JobKinds DEF Shapes, Jobs, QueryFails, Finish, Nobody
<1>7. ASSUME NEW r \in Readers, SetList(r)
      PROVE  Jobs'
  BY <1>0, <1>7 DEF Shapes, Jobs, SetList
<1>8. ASSUME NEW r \in Readers, SetByID(r)
      PROVE  Jobs'
  BY <1>0, <1>8 DEF Shapes, Jobs, SetByID
<1>9. ASSUME NEW w \in Writers, NEW t \in Towers, NEW status \in Statuses, Upsert(w, t, status)
      PROVE  Jobs'
  <2>1. [id |-> t] \in TowerJob
    BY DEF TowerJob
  <2>2. w \in Readers => got[w] = Nobody
    BY <1>0, <1>9 DEF Jobs, Upsert
  <2>3. QED
    BY <1>0, <1>9, <2>1, <2>2 DEF Shapes, Jobs, Upsert, Nobody
<1>10. ASSUME NEW w \in Writers, Invalidate(w)
      PROVE  Jobs'
  BY <1>0, <1>10, JobKinds DEF Shapes, Jobs, Invalidate, InvalidateTower, InvalidateList
<1>11. CASE UNCHANGED <<pc, job, got>>
  BY <1>0, <1>11 DEF Jobs
<1>12. QED
  BY <1>1, <1>2, <1>3, <1>4, <1>5, <1>6, <1>7, <1>8, <1>9, <1>10, <1>11
  DEF Next, Read, WriteElsewhere, ExpireTower, ExpireList, vars

(* The entries and what the readers hold are of the tower, or the status,   *)
(* they are for.                                                            *)
LEMMA EntriesStep ==
    ASSUME CInv, [Next]_vars
    PROVE  /\ \A t \in Towers : OwnRow(t)'
           /\ \A k \in ListKeys : ByStatus(k)'
           /\ \A r \in Readers : OfStatus(r)'
<1> DEFINE Goal == /\ \A t \in Towers : OwnRow(t)'
                   /\ \A k \in ListKeys : ByStatus(k)'
                   /\ \A r \in Readers : OfStatus(r)'
<1>0. /\ Shapes /\ Jobs
      /\ \A t \in Towers : OwnRow(t)
      /\ \A k \in ListKeys : ByStatus(k)
      /\ \A r \in Readers : OfStatus(r)
  BY DEF CInv
<1>1. ASSUME NEW r \in Readers,
             \/ \E f \in Filters : StartList(r, f)
             \/ \E t \in Towers : StartGet(r, t)
             \/ QueryFails(r) \/ Finish(r)
      PROVE  Goal
  <2>1. got'[r] = Nobody /\ \A q \in Readers \ {r} : job'[q] = job[q] /\ got'[q] = got[q]
    BY <1>0, <1>1 DEF Shapes, Jobs, StartList, StartGet, QueryFails, Finish, Requesters
  <2>2. UNCHANGED <<details, lists>>
    BY <1>1 DEF StartList, StartGet, QueryFails, Finish
  <2>3. QED
    BY <1>0, <2>1, <2>2 DEF OwnRow, ByStatus, OfStatus, Nobody
<1>2. ASSUME NEW r \in Readers, LookUp(r)
      PROVE  Goal
  <2>1. Entry(r) # Missing /\ job[r] \in ListJob =>
            \A s \in Entry(r).rows : job[r].list.status \in {Every, s.status}
    BY <1>2, FoundRows DEF LookUp, Reading
  <2>2. QED
    BY <1>0, <1>2, <2>1 DEF Shapes, LookUp, OwnRow, ByStatus, OfStatus
<1>3. ASSUME NEW r \in Readers, Drop(r)
      PROVE  Goal
  BY <1>0, <1>3 DEF Shapes, Drop, OwnRow, ByStatus, OfStatus
<1>4. ASSUME NEW r \in Readers, Query(r)
      PROVE  Goal
  BY <1>0, <1>4, QueriedRows DEF Shapes, Query, OwnRow, ByStatus, OfStatus
<1>5. ASSUME NEW r \in Readers, SetList(r)
      PROVE  Goal
  <2>1. job[r] \in ListJob /\ r \in Requesters
    BY <1>0, <1>5 DEF SetList, Jobs, Requesters
  <2>2. QED
    BY <1>0, <1>5, <2>1 DEF Shapes, SetList, OwnRow, ByStatus, OfStatus, listKey
<1>6. ASSUME NEW r \in Readers, SetByID(r)
      PROVE  Goal
  <2>1. PICK s \in got[r] :
            /\ details' = [details EXCEPT ![s.tower] = [rows |-> {s}, expired |-> FALSE]]
            /\ got' = [got EXCEPT ![r] = @ \ {s}]
    BY <1>6 DEF SetByID
  <2>2. \A t \in Towers : OwnRow(t)'
    BY <1>0, <2>1 DEF Shapes, OwnRow
  <2>3. QED
    BY <1>0, <1>6, <2>1, <2>2 DEF Shapes, SetByID, ByStatus, OfStatus
<1>7. ASSUME NEW w \in Writers, NEW t \in Towers, NEW status \in Statuses, Upsert(w, t, status)
      PROVE  Goal
  BY <1>0, <1>7, JobKinds DEF Shapes, Jobs, Upsert, OwnRow, ByStatus, OfStatus, Nobody
<1>8. ASSUME NEW w \in Writers, Invalidate(w)
      PROVE  Goal
  <2>1. CASE InvalidateTower(w)
    BY <1>0, <2>1 DEF Shapes, InvalidateTower, OwnRow, ByStatus, OfStatus
  <2>2. CASE InvalidateList(w)
    <3>1. \A r \in Readers : job'[r] = job[r] \/ job'[r] = Missing
      BY <1>0, <2>2 DEF Shapes, InvalidateList, Requesters
    <3>2. \A k \in ListKeys : lists'[k] = Missing
      BY <1>0, <2>2 DEF Shapes, InvalidateList
    <3>3. QED
      BY <1>0, <2>2, <3>1, <3>2, JobKinds DEF InvalidateList, OwnRow, ByStatus, OfStatus
  <2>3. QED
    BY <1>8, <2>1, <2>2 DEF Invalidate
<1>9. ASSUME NEW t \in Towers, ExpireTower(t)
      PROVE  Goal
  <2>1. \A u \in Towers : details'[u] # Missing =>
            details[u] # Missing /\ details'[u].rows = details[u].rows
    BY <1>0, <1>9, EntryKinds DEF Shapes, ExpireTower, DetailEntry
  <2>2. QED
    BY <1>0, <1>9, <2>1 DEF ExpireTower, OwnRow, ByStatus, OfStatus
<1>10. ASSUME NEW k \in DOMAIN lists, ExpireList(k)
      PROVE  Goal
  <2>1. \A l \in ListKeys : lists'[l] # Missing =>
            /\ lists[l] # Missing
            /\ lists'[l].rows = lists[l].rows /\ lists'[l].filter = lists[l].filter
    BY <1>0, <1>10, EntryKinds DEF Shapes, ExpireList, ListEntry
  <2>2. QED
    BY <1>0, <1>10, <2>1 DEF ExpireList, OwnRow, ByStatus, OfStatus
<1>11. CASE UNCHANGED <<details, lists, job, got>>
  BY <1>0, <1>11 DEF OwnRow, ByStatus, OfStatus
<1>12. QED
  BY <1>1, <1>2, <1>3, <1>4, <1>5, <1>6, <1>7, <1>8, <1>9, <1>10, <1>11
  DEF Next, Read, WriteElsewhere, vars

(* Only the two writes change what readers would see, and only of one tower. *)
LEMMA SeenAgain ==
    ASSUME UNCHANGED row
    PROVE  (\A t : Now(t)' = Now(t)) /\ (\A f : Listed(f)' = Listed(f))
BY DEF Now, Listed

LEMMA SeenChanged ==
    ASSUME Shapes, NEW t \in Towers, NEW status \in Statuses, Changes(t, status)
    PROVE  \A u \in Towers \ {t} : Now(u)' = Now(u)
BY DEF Shapes, Changes, Now

(* A tower that a write changes while a reader has it in hand is in overlap. *)
LEMMA InHandRows ==
    ASSUME CInv, NEW r \in Readers, pc[r] \in {"setlist", "setbyid"}
    PROVE  /\ \A s \in got[r] : s.tower \in Towers /\ InHand(s.tower)
           /\ pc[r] = "setlist" => \A t \in Towers : InHand(t)
<1>0. r \in Requesters /\ Shapes /\ Jobs
  BY DEF CInv, Requesters
<1>1. job[r] \in ListJob => IsList(r)
  BY JobKinds DEF IsList
<1>2. QED
  BY <1>0, <1>1 DEF Shapes, Jobs, Reading, InHand, Shown

LEMMA HandStep ==
    ASSUME CInv, [Next]_vars, NEW q \in Readers
    PROVE  HandIsCurrent(q)'
<1>0. /\ Shapes /\ Jobs /\ q \in Requesters
      /\ HandIsCurrent(q)
  BY DEF CInv, Requesters
<1>1. ASSUME NEW r \in Readers,
             \/ \E f \in Filters : StartList(r, f)
             \/ \E t \in Towers : StartGet(r, t)
             \/ LookUp(r) \/ Drop(r) \/ QueryFails(r) \/ Finish(r)
      PROVE  HandIsCurrent(q)'
  <2>1. CASE r = q
    <3>1. pc'[q] \notin {"setlist", "setbyid"}
      BY <1>0, <1>1, <2>1 DEF Shapes, StartList, StartGet, LookUp, Drop, QueryFails, Finish
    <3>2. QED
      BY <3>1 DEF HandIsCurrent
  <2>2. CASE r # q
    <3>1. UNCHANGED <<row, overlap, pc[q], job[q], got[q]>>
      BY <1>0, <1>1, <2>2
      DEF Shapes, StartList, StartGet, LookUp, Drop, QueryFails, Finish, Requesters
    <3>2. QED
      BY <1>0, <3>1, SeenAgain DEF HandIsCurrent
  <2>3. QED
    BY <2>1, <2>2
<1>2. ASSUME NEW r \in Readers, Query(r)
      PROVE  HandIsCurrent(q)'
  <2>0. UNCHANGED row
    BY <1>2 DEF Query
  <2>1. CASE r = q
    <3>1. job[q] \in ListJob \cup TowerJob /\ UNCHANGED job
      BY <1>0, <1>2, <2>1 DEF Query, Jobs, Reading
    <3>2. QED
      BY <1>0, <1>2, <2>0, <2>1, <3>1, QueriedRows, SeenAgain DEF HandIsCurrent
  <2>2. CASE r # q
    <3>1. UNCHANGED <<overlap, pc[q], job[q], got[q]>>
      BY <1>0, <1>2, <2>2 DEF Shapes, Query
    <3>2. QED
      BY <1>0, <2>0, <3>1, SeenAgain DEF HandIsCurrent
  <2>3. QED
    BY <2>1, <2>2
<1>3. ASSUME NEW r \in Readers, SetList(r) \/ SetByID(r)
      PROVE  HandIsCurrent(q)'
  <2>1. UNCHANGED <<row, overlap, job>> /\ got'[q] \subseteq got[q]
    BY <1>0, <1>3 DEF Shapes, SetList, SetByID
  <2>2. pc'[q] = pc[q] \/ (pc[q] = "setlist" /\ pc'[q] = "setbyid")
    BY <1>0, <1>3 DEF Shapes, SetList, SetByID
  <2>3. pc'[q] = "setlist" => got'[q] = got[q]
    BY <1>0, <1>3 DEF Shapes, SetList, SetByID
  <2>4. QED
    BY <1>0, <2>1, <2>2, <2>3, SeenAgain DEF HandIsCurrent
<1>4. ASSUME NEW t \in Towers, NEW status \in Statuses, Changes(t, status),
             overlap \subseteq overlap', InHand(t) => t \in overlap',
             UNCHANGED <<got[q]>>,
             pc'[q] \in {"setlist", "setbyid"} => UNCHANGED <<pc[q], job[q]>>
      PROVE  HandIsCurrent(q)'
  <2> SUFFICES ASSUME pc'[q] \in {"setlist", "setbyid"}
               PROVE  HandIsCurrent(q)'
    BY DEF HandIsCurrent
  <2>1. ASSUME NEW s \in got[q]
        PROVE  s = Now(s.tower)' \/ s.tower \in overlap'
    BY <1>0, <1>4, SeenChanged, InHandRows DEF HandIsCurrent
  <2>2. pc[q] = "setlist" => overlap' # {}
    BY <1>4, InHandRows
  <2>3. QED
    BY <1>4, <2>1, <2>2 DEF HandIsCurrent
<1>5. ASSUME NEW w \in Writers, NEW t \in Towers, NEW status \in Statuses, Upsert(w, t, status)
      PROVE  HandIsCurrent(q)'
  <2>1. Changes(t, status) /\ overlap \subseteq overlap' /\ (InHand(t) => t \in overlap')
    BY <1>5 DEF Upsert
  <2>2. UNCHANGED <<got[q]>> /\ (pc'[q] \in {"setlist", "setbyid"} => UNCHANGED <<pc[q], job[q]>>)
    BY <1>0, <1>5 DEF Shapes, Upsert, Requesters
  <2>3. QED
    BY <1>4, <2>1, <2>2
<1>6. ASSUME NEW t \in Towers, NEW status \in Statuses, WriteElsewhere(t, status)
      PROVE  HandIsCurrent(q)'
  BY <1>4, <1>6 DEF WriteElsewhere
<1>7. ASSUME NEW w \in Writers, Invalidate(w)
      PROVE  HandIsCurrent(q)'
  <2>1. /\ UNCHANGED <<row, overlap, got>>
        /\ pc'[q] \in {"setlist", "setbyid"} => UNCHANGED <<pc[q], job[q]>>
    BY <1>0, <1>7 DEF Shapes, Invalidate, InvalidateTower, InvalidateList, Requesters
  <2>2. QED
    BY <1>0, <2>1, SeenAgain DEF HandIsCurrent
<1>8. CASE UNCHANGED <<row, pc, job, got, overlap>>
  BY <1>0, <1>8, SeenAgain DEF HandIsCurrent
<1>9. QED
  BY <1>1, <1>2, <1>3, <1>5, <1>6, <1>7, <1>8 DEF Next, Read, ExpireTower, ExpireList, vars

(* A tower comes to differ from its entry when a writer writes it, who has   *)
(* yet to invalidate it, or elsewhere.                                       *)
Pending(t) == \E w \in Writers : pc[w] = "wrote" /\ job[w].id = t
TowerCause(t) == Stale(t) => t \in overlap \/ Pending(t)

LEMMA StaleTowerStep ==
    ASSUME CInv, [Next]_vars
    PROVE  StaleTowerHasCause'
<1> SUFFICES ASSUME NEW u \in Towers
             PROVE  TowerCause(u)'
  BY DEF StaleTowerHasCause, TowerCause, Pending
<1>0. Shapes /\ Jobs /\ TowerCause(u)
  BY DEF CInv, StaleTowerHasCause, TowerCause, Pending
<1>1. ASSUME NEW r \in Readers,
             \/ \E f \in Filters : StartList(r, f)
             \/ \E t \in Towers : StartGet(r, t)
             \/ LookUp(r) \/ Drop(r) \/ Query(r) \/ QueryFails(r) \/ SetList(r) \/ Finish(r)
      PROVE  TowerCause(u)'
  <2>1. UNCHANGED <<row, overlap>>
    BY <1>1 DEF StartList, StartGet, LookUp, Drop, Query, QueryFails, SetList, Finish
  <2>2. details'[u] = Missing \/ details'[u] = details[u]
    BY <1>0, <1>1 DEF Shapes, StartList, StartGet, LookUp, Drop, Query, QueryFails, SetList, Finish
  <2>3. \A w \in Writers : pc[w] = "wrote" => pc'[w] = "wrote" /\ job'[w] = job[w]
    BY <1>0, <1>1
    DEF Shapes, StartList, StartGet, LookUp, Drop, Query, QueryFails, SetList, Finish, Requesters
  <2>4. QED
    BY <1>0, <2>1, <2>2, <2>3, SeenAgain DEF TowerCause, Pending, Stale
<1>2. ASSUME NEW r \in Readers, SetByID(r)
      PROVE  TowerCause(u)'
  <2>1. PICK s \in got[r] :
            /\ details' = [details EXCEPT ![s.tower] = [rows |-> {s}, expired |-> FALSE]]
            /\ got' = [got EXCEPT ![r] = @ \ {s}]
    BY <1>2 DEF SetByID
  <2>2. s = Now(s.tower) \/ s.tower \in overlap
    BY <1>2, <2>1 DEF CInv, HandIsCurrent, SetByID
  <2>3. UNCHANGED <<row, overlap, pc, job>>
    BY <1>2 DEF SetByID
  <2>4. CASE s.tower = u
    BY <1>0, <2>1, <2>2, <2>3, <2>4, SeenAgain DEF TowerCause, Stale, Shapes
  <2>5. CASE s.tower # u
    <3>1. details'[u] = details[u]
      BY <1>0, <2>1, <2>5 DEF Shapes
    <3>2. QED
      BY <1>0, <2>3, <3>1, SeenAgain DEF TowerCause, Stale, Pending
  <2>6. QED
    BY <2>4, <2>5
<1>3. ASSUME NEW w \in Writers, NEW t \in Towers, NEW status \in Statuses, Upsert(w, t, status)
      PROVE  TowerCause(u)'
  <2>1. pc'[w] = "wrote" /\ job'[w].id = t
    BY <1>0, <1>3 DEF Shapes, Upsert, Requesters
  <2>2. CASE u = t
    BY <2>1, <2>2 DEF TowerCause, Pending
  <2>3. CASE u # t
    <3>1. Now(u)' = Now(u)
      BY <1>0, <1>3, <2>3, SeenChanged DEF Upsert
    <3>2. \A v \in Writers : pc[v] = "wrote" => pc'[v] = "wrote" /\ job'[v] = job[v]
      BY <1>0, <1>3 DEF Shapes, Upsert, Requesters
    <3>3. QED
      BY <1>0, <1>3, <3>1, <3>2 DEF Upsert, TowerCause, Pending, Stale
  <2>4. QED
    BY <2>2, <2>3
<1>4. ASSUME NEW w \in Writers, InvalidateTower(w)
      PROVE  TowerCause(u)'
  <2>1. w \in Requesters /\ job[w].id \in Towers
    BY <1>0, <1>4, JobKinds DEF InvalidateTower, Jobs, Requesters, Writing
  <2>2. CASE u = job[w].id
    BY <1>0, <1>4, <2>1, <2>2 DEF InvalidateTower, Shapes, TowerCause, Stale
  <2>3. CASE u # job[w].id
    <3>1. Pending(u) => Pending(u)'
      BY <1>0, <1>4, <2>3 DEF InvalidateTower, Shapes, Pending, Requesters
    <3>2. details'[u] = details[u]
      BY <1>0, <1>4, <2>3 DEF InvalidateTower, Shapes
    <3>3. QED
      BY <1>0, <1>4, <3>1, <3>2, SeenAgain DEF InvalidateTower, TowerCause, Stale
  <2>4. QED
    BY <2>2, <2>3
<1>5. ASSUME NEW w \in Writers, InvalidateList(w)
      PROVE  TowerCause(u)'
  <2>1. \A v \in Writers : pc[v] = "wrote" => pc'[v] = "wrote" /\ job'[v] = job[v]
    BY <1>0, <1>5 DEF Shapes, InvalidateList, Requesters
  <2>2. QED
    BY <1>0, <1>5, <2>1, SeenAgain DEF InvalidateList, TowerCause, Pending, Stale
<1>6. ASSUME NEW t \in Towers, NEW status \in Statuses, WriteElsewhere(t, status)
      PROVE  TowerCause(u)'
  <2>1. u # t => Now(u)' = Now(u)
    BY <1>0, <1>6, SeenChanged DEF WriteElsewhere
  <2>2. QED
    BY <1>0, <1>6, <2>1 DEF WriteElsewhere, TowerCause, Pending, Stale
<1>7. ASSUME NEW t \in Towers, ExpireTower(t)
      PROVE  TowerCause(u)'
  <2>1. details[u] = Missing => details'[u] = Missing
    BY <1>0, <1>7 DEF Shapes, ExpireTower
  <2>2. details[u] # Missing => details'[u].rows = details[u].rows
    BY <1>0, <1>7 DEF Shapes, ExpireTower, DetailEntry
  <2>3. QED
    BY <1>0, <1>7, <2>1, <2>2, SeenAgain DEF ExpireTower, TowerCause, Pending, Stale
<1>8. CASE UNCHANGED <<row, details, pc, job, overlap>>
  BY <1>0, <1>8, SeenAgain DEF TowerCause, Pending, Stale
<1>9. QED
  BY <1>1, <1>2, <1>3, <1>4, <1>5, <1>6, <1>7, <1>8 DEF Next, Read, Invalidate, ExpireList, vars

(* A list comes to differ from the rows when a writer writes one of them, who *)
(* has yet to invalidate the lists, or elsewhere.                             *)
Unfinished == \E w \in Writers : pc[w] \in Writing
ListCause(k) == StaleList(k) => overlap # {} \/ Unfinished

LEMMA StaleListStep ==
    ASSUME CInv, [Next]_vars
    PROVE  StaleListHasCause'
<1>0. Shapes /\ Jobs /\ \A k \in ListKeys : ListCause(k)
  BY DEF CInv, StaleListHasCause, ListCause, Unfinished, Writing, Shapes
<1>00. Shapes'
  BY ShapesStep
<1> SUFFICES ASSUME NEW l \in ListKeys
             PROVE  ListCause(l)'
  BY <1>00 DEF StaleListHasCause, ListCause, Unfinished, Writing, Shapes
<1>1. ASSUME UNCHANGED <<row, overlap>>, Unfinished => Unfinished',
             \/ lists'[l] = Missing
             \/ /\ lists[l] # Missing
                /\ lists'[l].rows = lists[l].rows /\ lists'[l].filter = lists[l].filter
      PROVE  ListCause(l)'
  BY <1>0, <1>1, SeenAgain DEF ListCause, StaleList
<1>2. ASSUME NEW r \in Readers,
             \/ \E f \in Filters : StartList(r, f)
             \/ \E t \in Towers : StartGet(r, t)
             \/ LookUp(r) \/ Drop(r) \/ Query(r) \/ QueryFails(r) \/ SetByID(r) \/ Finish(r)
      PROVE  ListCause(l)'
  <2>1. UNCHANGED <<row, overlap>>
    BY <1>2 DEF StartList, StartGet, LookUp, Drop, Query, QueryFails, SetByID, Finish
  <2>2. lists'[l] = Missing \/ lists'[l] = lists[l]
    BY <1>0, <1>2 DEF Shapes, StartList, StartGet, LookUp, Drop, Query, QueryFails, SetByID, Finish
  <2>3. \A w \in Writers : pc[w] \in Writing => pc'[w] = pc[w]
    BY <1>0, <1>2
    DEF Shapes, StartList, StartGet, LookUp, Drop, Query, QueryFails, SetByID, Finish, Requesters,
        Writing
  <2>4. QED
    BY <1>1, <2>1, <2>2, <2>3 DEF Unfinished
<1>3. ASSUME NEW r \in Readers, SetList(r)
      PROVE  ListCause(l)'
  <2>1. r \in Requesters /\ job[r] \in ListJob
    BY <1>0, <1>3 DEF SetList, Jobs, Requesters
  <2>2. UNCHANGED <<row, overlap>> /\ \A w \in Writers : pc[w] \in Writing => pc'[w] = pc[w]
    BY <1>0, <1>3 DEF SetList, Shapes, Writing, Requesters
  <2>3. CASE l = listKey(job[r].list)
    <3>1. lists'[l] = [rows |-> got[r], filter |-> job[r].list, expired |-> FALSE]
      BY <1>0, <1>3, <2>3 DEF SetList, Shapes
    <3>2. got[r] = Listed(job[r].list) \/ overlap # {}
      BY <1>3 DEF CInv, HandIsCurrent, SetList
    <3>3. QED
      BY <2>2, <3>1, <3>2, SeenAgain DEF ListCause, StaleList
  <2>4. CASE l # listKey(job[r].list)
    <3>1. lists'[l] = lists[l]
      BY <1>0, <1>3, <2>4 DEF SetList, Shapes
    <3>2. QED
      BY <1>1, <2>2, <3>1 DEF Unfinished
  <2>5. QED
    BY <2>3, <2>4
<1>4. ASSUME NEW w \in Writers, NEW t \in Towers, NEW status \in Statuses, Upsert(w, t, status)
      PROVE  ListCause(l)'
  <2>1. pc'[w] \in Writing
    BY <1>0, <1>4 DEF Shapes, Upsert, Requesters, Writing
  <2>2. QED
    BY <2>1 DEF ListCause, Unfinished
<1>5. ASSUME NEW w \in Writers, InvalidateTower(w)
      PROVE  ListCause(l)'
  <2>1. \A v \in Writers : pc[v] \in Writing => pc'[v] \in Writing
    BY <1>0, <1>5 DEF Shapes, InvalidateTower, Writing
  <2>2. QED
    BY <1>1, <1>5, <2>1 DEF InvalidateTower, Unfinished
<1>6. ASSUME NEW w \in Writers, InvalidateList(w)
      PROVE  ListCause(l)'
  BY <1>0, <1>6 DEF InvalidateList, Shapes, ListCause, StaleList
<1>7. ASSUME NEW t \in Towers, NEW status \in Statuses, WriteElsewhere(t, status)
      PROVE  ListCause(l)'
  BY <1>7 DEF WriteElsewhere, ListCause
<1>8. ASSUME NEW k \in DOMAIN lists, ExpireList(k)
      PROVE  ListCause(l)'
  <2>1. lists[l] = Missing => lists'[l] = Missing
    BY <1>0, <1>8 DEF Shapes, ExpireList
  <2>2. lists[l] # Missing => lists'[l].rows = lists[l].rows /\ lists'[l].filter = lists[l].filter
    BY <1>0, <1>8 DEF Shapes, ExpireList, ListEntry
  <2>3. QED
    BY <1>1, <1>8, <2>1, <2>2 DEF ExpireList, Unfinished
<1>9. CASE UNCHANGED <<row, lists, pc, overlap>>
  BY <1>1, <1>9 DEF Unfinished
<1>10. QED
  BY <1>2, <1>3, <1>4, <1>5, <1>6, <1>7, <1>8, <1>9 DEF Next, Read, Invalidate, ExpireTower, vars

LEMMA CacheStep ==
    ASSUME CInv, [Next]_vars
    PROVE  CInv'
<1>1. \A r \in Readers : OfStatus(r)' /\ HandIsCurrent(r)'
  BY EntriesStep, HandStep
<1>2. (\A t \in Towers : OwnRow(t)') /\ (\A k \in ListKeys : ByStatus(k)')
  BY EntriesStep
<1>3. QED
  BY <1>1, <1>2, ShapesStep, JobsStep, StaleTowerStep, StaleListStep DEF CInv

LEMMA CacheFacts ==
    ASSUME CInv
    PROVE  CacheInv
<1>1. TypeOK
  BY DEF CInv, Shapes, OwnRow, TypeOK, ListEntry
<1>2. ListShowsItsStatus
  <2> SUFFICES ASSUME NEW r \in Readers, NEW f \in Filters, job[r] = [list |-> f], NEW s \in got[r]
               PROVE  f.status \in {Every, s.status}
    BY DEF ListShowsItsStatus
  <2>1. job[r] \in ListJob /\ job[r].list = f
    BY DEF ListJob
  <2>2. QED
    BY <2>1 DEF CInv, OfStatus
<1>3. QED
  BY <1>1, <1>2 DEF CInv, CacheInv

(* TowerCache, TowerService: whoever reads, writes, invalidates and expires  *)
(* at once, an entry that differs from its row has a cause, a detail entry   *)
(* is of its own tower, and a list shows no tower of another status.         *)
THEOREM CacheIsExplained == Spec => []CacheInv
<1>1. Init => CInv
  BY CacheInit
<1>2. CInv /\ [Next]_vars => CInv'
  BY CacheStep
<1>3. CInv => CacheInv
  BY CacheFacts
<1>4. QED
  BY <1>1, <1>2, <1>3, PTL DEF Spec

-----------------------------------------------------------------------------
(***************************************************************************)
(* The links copied from Zabbix.  A row of network_links keeps its id, its *)
(* interface and its name whatever is written over it, so the copy a call  *)
(* works on still names the row it was read from.                          *)
(***************************************************************************)
Times == 1 .. MaxPolls
Group == [host : Hosts, port : IfIndexes, speed : Speeds, clock : Times]
Link == [link_id : Nat, router_ip : {Address[h] : h \in Hosts}, if_index : IfIndexes, name : Times,
         router_host : Hosts, capacity : Int]
Held == [group : Group, copy : SUBSET Link]
Call == [step : {"off", "over", "login", "hosts", "items", "groups", "link", "snapshot"},
         call : {"sync", "inspect"}, searches : SUBSET L!Terms, hosts : SUBSET Hosts,
         groups : SUBSET Group, link : {None} \cup Held, got : SUBSET Group, errors : Nat]
Page == [step : {"off", "count", "done"}, rows : Nat, total : Nat]

SyncShapes ==
    /\ zabbix \in [Hosts -> [IfIndexes -> {None} \cup [speed : Speeds, clock : Times]]]
    /\ session \in {"api token", "none", "open", "ended"}
    /\ links \subseteq Link /\ IsFiniteSet(links)
    /\ sync \in [L!Syncers -> Call]
    /\ page \in [Pages -> Page]
    /\ asked \subseteq L!Terms
    /\ faults \in 0 .. MaxFaults

SameRow(k, l) ==
    k.link_id = l.link_id /\ k.router_ip = l.router_ip /\ k.if_index = l.if_index /\ k.name = l.name

LinkIds ==
    /\ \A l \in links : l.link_id \in 1 .. Cardinality(links)
    /\ \A k, l \in links : k.link_id = l.link_id => k = l

(* The copy a call works on is the row of its interface, as it was or is.   *)
CopyIsOfRow(s) == sync[s].step \in {"link", "snapshot"} =>
    /\ sync[s].link \in Held
    /\ sync[s].link.group \in sync[s].got
    /\ \A c \in sync[s].link.copy :
          /\ sync[s].link.copy = {c}
          /\ c.router_ip = Address[sync[s].link.group.host] /\ c.if_index = sync[s].link.group.port
          /\ \E l \in links : SameRow(l, c)
    /\ sync[s].step = "snapshot" => sync[s].link.copy # {}

(* What a call was given and has not stored is still to do, or an error.    *)
HasSnapshot(g) ==
    \E l \in links : /\ l.router_ip = Address[g.host] /\ l.if_index = g.port
                     /\ [link_id |-> l.link_id, clock |-> g.clock] \in snapshots

NothingForgotten(s) ==
    /\ sync[s].groups \subseteq sync[s].got
    /\ sync[s].step \notin {"groups", "link", "snapshot"} => sync[s].groups = {}
    /\ sync[s].errors = 0 => \A g \in sync[s].got :
          \/ g \in sync[s].groups
          \/ sync[s].step \in {"link", "snapshot"} /\ g = sync[s].link.group
          \/ HasSnapshot(g)

(* The hosts a call may import.                                             *)
Searched == IF Blank \in asked THEN Hosts ELSE DefaultSearch \cup asked

KeepsToSearch(s) ==
    /\ Blank \in asked \/ sync[s].searches \subseteq Searched
    /\ sync[s].hosts \subseteq Searched
    /\ \A g \in sync[s].got : g.host \in Searched

PagesCount ==
    \A r \in Pages :
        /\ page[r].step = "count" => page[r].rows <= Cardinality(links)
        /\ page[r].step = "done" => page[r].rows <= page[r].total

LkInv ==
    /\ SyncShapes
    /\ LinkIds
    /\ L!OneLinkPerInterface
    /\ \A s \in L!Syncers : CopyIsOfRow(s) /\ NothingForgotten(s) /\ KeepsToSearch(s)
    /\ \A l \in links : l.router_host \in Searched
    /\ PagesCount

(* A bounded set of numbers has a largest one.                               *)
LEMMA LessPairs == OpToRel(<, Nat) = {p \in Nat \X Nat : p[1] < p[2]}
BY DEF OpToRel

LEMMA LargestOfBounded ==
    ASSUME NEW S \in SUBSET Nat, NEW n \in Nat, S # {}, \A x \in S : x <= n
    PROVE  \E m \in S : \A x \in S : m >= x
<1> DEFINE Gaps == {n - x : x \in S}
           Less == OpToRel(<, Nat)
<1>1. Gaps \subseteq Nat /\ Gaps # {}
  <2>1. \A x \in S : x \in Nat /\ n - x \in Nat
    OBVIOUS
  <2>2. PICK x \in S : TRUE
    OBVIOUS
  <2>3. QED
    BY <2>1, <2>2
<1>2. IsWellFoundedOn(Less, Nat)
  BY NatLessThanWellFounded, Zenon
<1>3. \A a, b \in Nat : a < b => <<a, b>> \in Less
  BY LessPairs, Zenon
<1> HIDE DEF Less, Gaps
<1>4. PICK d \in Gaps : \A e \in Gaps : <<e, d>> \notin Less
  BY <1>1, <1>2, WFMin
<1>5. \A e \in Gaps : e >= d
  <2>1. \A e \in Gaps : ~(e < d)
    BY <1>1, <1>3, <1>4
  <2>2. QED
    BY <1>1, <2>1
<1>6. PICK m \in S : d = n - m
  BY DEF Gaps
<1>7. \A x \in S : n - x >= n - m
  BY <1>5, <1>6 DEF Gaps
<1>8. QED
  BY <1>7

LEMMA ClockType ==
    ASSUME SyncShapes
    PROVE  L!LastClock \in 0 .. MaxPolls
<1> DEFINE Polled == {m \in Hosts \X IfIndexes : zabbix[m[1]][m[2]] # None}
           Clocks == {zabbix[k[1]][k[2]].clock : k \in Polled}
<1>1. Clocks \subseteq Times
  <2> SUFFICES ASSUME NEW k \in Polled
               PROVE  zabbix[k[1]][k[2]].clock \in Times
    OBVIOUS
  <2>1. k[1] \in Hosts /\ k[2] \in IfIndexes /\ zabbix[k[1]][k[2]] # None
    OBVIOUS
  <2>2. zabbix \in [Hosts -> [IfIndexes -> {None} \cup [speed : Speeds, clock : Times]]]
    BY DEF SyncShapes
  <2>3. QED
    BY <2>1, <2>2
<1>2. MaxPolls \in Nat
  BY SyncParameters DEF L!Parameters
<1> HIDE DEF Clocks
<1>3. {0} \cup Clocks \in SUBSET Nat /\ \A x \in {0} \cup Clocks : x <= MaxPolls
  BY <1>1, <1>2 DEF Times
<1>4. \E m \in {0} \cup Clocks : \A x \in {0} \cup Clocks : m >= x
  BY <1>2, <1>3, LargestOfBounded
<1>5. L!Max({0} \cup Clocks) \in {0} \cup Clocks
  BY <1>4 DEF L!Max
<1>6. L!LastClock = L!Max({0} \cup Clocks)
  BY DEF L!LastClock, Clocks
<1>7. \A x \in {0} \cup Clocks : x \in 0 .. MaxPolls
  BY <1>1, <1>2 DEF Times
<1>8. QED
  BY <1>5, <1>6, <1>7

LEMMA NoFaults == 0 \in 0 .. MaxFaults
<1>1. MaxFaults \in Nat
  BY SyncParameters DEF L!Parameters
<1>2. QED
  BY <1>1

LEMMA LinksInit == L!Init => LkInv
<1> SUFFICES ASSUME L!Init PROVE LkInv
  OBVIOUS
<1> USE DEF L!Init, L!Idle, L!NoPage
<1>1. SyncShapes
  <2>1. faults \in 0 .. MaxFaults
    BY NoFaults
  <2>2. IsFiniteSet(links)
    BY FS_EmptySet
  <2>3. sync \in [L!Syncers -> Call] /\ page \in [Pages -> Page]
    BY DEF Call, Page
  <2>4. QED
    BY <2>1, <2>2, <2>3 DEF SyncShapes
<1>2. \A s \in L!Syncers : CopyIsOfRow(s) /\ NothingForgotten(s) /\ KeepsToSearch(s)
  BY DEF CopyIsOfRow, NothingForgotten, KeepsToSearch
<1>3. LinkIds /\ L!OneLinkPerInterface /\ PagesCount
  BY DEF LinkIds, L!OneLinkPerInterface, PagesCount
<1>4. QED
  BY <1>1, <1>2, <1>3 DEF LkInv

-----------------------------------------------------------------------------
(* What is written to network_links: a new row of an interface that has      *)
(* none, or a row that keeps what names it.                                  *)
Adds(new) ==
    /\ new \in Link /\ new.link_id = Cardinality(links) + 1 /\ new.router_host \in Searched
    /\ \A l \in links : ~(l.router_ip = new.router_ip /\ l.if_index = new.if_index)
    /\ links' = links \cup {new}

Replaces(old, new) ==
    /\ old \in links /\ new \in Link /\ SameRow(new, old) /\ new.router_host \in Searched
    /\ links' = (links \ {old}) \cup {new}

(* LinkSync counts as this module does.                                      *)
LEMMA SameCount == \A S : L!Cardinality(S) = Cardinality(S)
BY DEF L!Cardinality, Cardinality

LEMMA CapacityType ==
    ASSUME NEW g \in Group
    PROVE  L!parseCapacity(g.speed) \in Int
<1>1. g.speed \in Int
  BY SyncParameters DEF Group, L!Parameters
<1>2. g.speed \div 1000000 \in Int
  BY <1>1
<1>3. QED
  BY <1>1, <1>2 DEF L!parseCapacity

LEMMA GroupLink ==
    ASSUME NEW g \in Group, NEW n \in Nat
    PROVE  L!NewLink(g, n) \in Link
BY CapacityType DEF Group, Link, L!NewLink

LEMMA LinkWrites ==
    ASSUME LkInv, [L!Next]_syncVars
    PROVE  \/ UNCHANGED links
           \/ \E new : Adds(new)
           \/ \E old, new : Replaces(old, new)
<1>0. SyncShapes /\ \A s \in L!Syncers : CopyIsOfRow(s) /\ KeepsToSearch(s)
  BY DEF LkInv
<1>1. ASSUME NEW s \in L!Syncers, L!Create(s)
      PROVE  \E new : Adds(new)
  <2> DEFINE g == sync[s].link.group
             new == L!NewLink(g, Cardinality(links) + 1)
  <2>1. g \in Group /\ g.host \in Searched /\ Cardinality(links) \in Nat
    BY <1>0, <1>1, FS_CardinalityType DEF L!Create, CopyIsOfRow, KeepsToSearch, Held, SyncShapes
  <2>2. new \in Link
    BY <2>1, GroupLink
  <2>3. /\ new.link_id = Cardinality(links) + 1 /\ new.router_host = g.host
        /\ new.router_ip = Address[g.host] /\ new.if_index = g.port
    BY DEF L!NewLink
  <2>4. links' = links \cup {new} /\ L!RowOf(g) = {}
    BY <1>1, SameCount, SMT DEF L!Create
  <2> HIDE DEF new
  <2>5. Adds(new)
    BY <2>1, <2>2, <2>3, <2>4 DEF Adds, L!RowOf
  <2>6. QED
    BY <2>5
<1>2. ASSUME NEW s \in L!Syncers, L!Update(s)
      PROVE  \E old, new : Replaces(old, new)
  <2> DEFINE g == sync[s].link.group
  <2>1. PICK c \in sync[s].link.copy :
            links' = {IF l.link_id = c.link_id THEN L!Merged(c, g) ELSE l : l \in links}
    BY <1>2 DEF L!Update
  <2>2. g \in Group /\ g.host \in Searched /\ c \in Link
    BY <1>0, <1>2 DEF L!Update, CopyIsOfRow, KeepsToSearch, Held
  <2>3. PICK old \in links : SameRow(old, c)
    BY <1>0, <1>2 DEF L!Update, CopyIsOfRow
  <2>4. L!parseCapacity(g.speed) \in Int
    BY <2>2, CapacityType
  <2>5. /\ L!Merged(c, g) \in Link /\ SameRow(L!Merged(c, g), c)
        /\ L!Merged(c, g).router_host = g.host
    BY <2>2, <2>4 DEF L!Merged, Link, Group, SameRow
  <2>6. \A l \in links : l.link_id = c.link_id <=> l = old
    BY <2>3 DEF LkInv, LinkIds, SameRow
  <2> HIDE DEF g
  <2>7. links' = (links \ {old}) \cup {L!Merged(c, g)}
    BY <2>1, <2>6
  <2>8. Replaces(old, L!Merged(c, g))
    BY <2>2, <2>3, <2>5, <2>7 DEF Replaces, SameRow
  <2>9. QED
    BY <2>8
<1>3. ASSUME NEW s \in L!Syncers, L!Post(s)
      PROVE  UNCHANGED links
  BY <1>3 DEF L!Post, L!tables
<1>4. ASSUME NEW s \in L!Syncers,
             \/ L!Login(s) \/ L!LoginFails(s) \/ L!GetHostsByNameFilter(s) \/ L!HostsFail(s)
             \/ L!GetItemsForHost(s) \/ L!ItemsFail(s) \/ L!Return(s)
      PROVE  UNCHANGED links
  BY <1>4
  DEF L!Login, L!LoginFails, L!GetHostsByNameFilter, L!HostsFail, L!GetItemsForHost, L!ItemsFail,
      L!Return, L!tables
<1>5. ASSUME NEW s \in L!Syncers,
             L!GetByRouterAndIfIndex(s) \/ L!SaveMetricSnapshot(s) \/ L!GroupFails(s)
      PROVE  UNCHANGED links
  BY <1>5 DEF L!GetByRouterAndIfIndex, L!SaveMetricSnapshot, L!GroupFails, L!tables
<1>6. ASSUME NEW s \in L!Syncers, L!Step(s)
      PROVE  UNCHANGED links \/ L!Create(s) \/ L!Update(s)
  BY <1>4, <1>5, <1>6 DEF L!Step
<1>7. CASE \/ \E h \in Hosts, i \in IfIndexes : L!Poll(h, i)
           \/ L!SessionEnds \/ L!runOnce
           \/ \E r \in Pages : L!ListRows(r) \/ L!ListCount(r)
           \/ UNCHANGED syncVars
  BY <1>7 DEF L!Poll, L!SessionEnds, L!runOnce, L!ListRows, L!ListCount, L!tables, syncVars
<1>8. QED
  BY <1>1, <1>2, <1>3, <1>6, <1>7 DEF L!Next

(* A row is never removed and keeps what names it; no two rows share an id   *)
(* or an interface.                                                          *)
LEMMA LinksStep ==
    ASSUME LkInv, [L!Next]_syncVars
    PROVE  /\ links' \subseteq Link /\ IsFiniteSet(links')
           /\ LinkIds' /\ L!OneLinkPerInterface'
           /\ Cardinality(links) <= Cardinality(links')
           /\ \A l \in links : \E k \in links' : SameRow(k, l)
           /\ \A l \in links' : l \in links \/ l.router_host \in Searched
<1>0. /\ links \subseteq Link /\ IsFiniteSet(links) /\ Cardinality(links) \in Nat
      /\ LinkIds /\ L!OneLinkPerInterface
  BY FS_CardinalityType DEF LkInv, SyncShapes
<1>1. ASSUME NEW new, Adds(new)
      PROVE  /\ IsFiniteSet(links') /\ LinkIds' /\ L!OneLinkPerInterface'
             /\ Cardinality(links) <= Cardinality(links')
  <2>1. new \notin links
    BY <1>1 DEF Adds
  <2>2. IsFiniteSet(links') /\ Cardinality(links') = Cardinality(links) + 1
    BY <1>0, <1>1, <2>1, FS_AddElement DEF Adds
  <2>3. LinkIds'
    BY <1>0, <1>1, <2>2 DEF Adds, LinkIds
  <2>4. L!OneLinkPerInterface'
    BY <1>0, <1>1 DEF Adds, L!OneLinkPerInterface
  <2>5. QED
    BY <1>0, <2>2, <2>3, <2>4
<1>2. ASSUME NEW old, NEW new, Replaces(old, new)
      PROVE  /\ IsFiniteSet(links') /\ LinkIds' /\ L!OneLinkPerInterface'
             /\ Cardinality(links) <= Cardinality(links')
  <2>1. new \notin links \ {old}
    BY <1>0, <1>2 DEF Replaces, SameRow, LinkIds
  <2>2. IsFiniteSet(links \ {old}) /\ Cardinality(links \ {old}) = Cardinality(links) - 1
    BY <1>0, <1>2, FS_RemoveElement DEF Replaces
  <2>3. IsFiniteSet(links') /\ Cardinality(links') = Cardinality(links)
    BY <1>0, <1>2, <2>1, <2>2, FS_AddElement DEF Replaces
  <2>4. LinkIds'
    BY <1>0, <1>2, <2>3 DEF Replaces, LinkIds, SameRow
  <2>5. L!OneLinkPerInterface'
    BY <1>0, <1>2 DEF Replaces, L!OneLinkPerInterface, SameRow
  <2>6. QED
    BY <1>0, <2>3, <2>4, <2>5
<1>3. CASE UNCHANGED links
  BY <1>0, <1>3 DEF LinkIds, L!OneLinkPerInterface, SameRow
<1>4. CASE \E new : Adds(new)
  BY <1>0, <1>1, <1>4 DEF Adds, SameRow
<1>5. CASE \E old, new : Replaces(old, new)
  BY <1>0, <1>2, <1>5 DEF Replaces, SameRow
<1>6. QED
  BY <1>3, <1>4, <1>5, LinkWrites

-----------------------------------------------------------------------------
(* What the steps of the other calls cannot undo.                            *)
LEMMA OtherTables ==
    ASSUME LkInv, [L!Next]_syncVars
    PROVE  /\ asked \subseteq asked' /\ asked' \subseteq L!Terms
           /\ snapshots \subseteq snapshots'
<1>0. asked \subseteq L!Terms
  BY DEF LkInv, SyncShapes
<1>1. ASSUME NEW s \in L!Syncers, L!Post(s)
      PROVE  asked \subseteq asked' /\ asked' \subseteq L!Terms /\ UNCHANGED snapshots
  <2>1. PICK body \in {{}, {Blank}} \cup {{h} : h \in Hosts \ DefaultSearch} :
            asked' = asked \cup body
    BY <1>1, SMT DEF L!Post
  <2>2. body \subseteq L!Terms
    BY DEF L!Terms
  <2>3. UNCHANGED snapshots
    BY <1>1, SMT DEF L!Post, L!tables
  <2>4. QED
    BY <1>0, <2>1, <2>2, <2>3
<1>2. ASSUME NEW s \in L!Syncers, L!SaveMetricSnapshot(s)
      PROVE  snapshots \subseteq snapshots' /\ UNCHANGED asked
  BY <1>2, SMT DEF L!SaveMetricSnapshot
<1>3. ASSUME NEW s \in L!Syncers, L!Step(s), ~L!SaveMetricSnapshot(s)
      PROVE  UNCHANGED <<snapshots, asked>>
  <2>1. CASE L!Login(s)
    BY <2>1 DEF L!Login, L!tables
  <2>2. CASE L!LoginFails(s)
    BY <2>2 DEF L!LoginFails, L!tables
  <2>3. CASE L!GetHostsByNameFilter(s)
    BY <2>3, SMT DEF L!GetHostsByNameFilter, L!tables
  <2>4. CASE L!HostsFail(s)
    BY <2>4, SMT DEF L!HostsFail, L!tables
  <2>5. CASE L!GetItemsForHost(s)
    BY <2>5, SMT DEF L!GetItemsForHost, L!tables
  <2>6. CASE L!ItemsFail(s)
    BY <2>6, SMT DEF L!ItemsFail, L!tables
  <2>7. CASE L!Return(s)
    BY <2>7, SMT DEF L!Return, L!tables
  <2>8. CASE L!GetByRouterAndIfIndex(s)
    BY <2>8 DEF L!GetByRouterAndIfIndex, L!tables
  <2>9. CASE L!Create(s)
    BY <2>9, SMT DEF L!Create
  <2>10. CASE L!Update(s)
    BY <2>10, SMT DEF L!Update
  <2>11. CASE L!GroupFails(s)
    BY <2>11, SMT DEF L!GroupFails, L!tables
  <2>12. QED
    BY <1>3, <2>1, <2>2, <2>3, <2>4, <2>5, <2>6, <2>7, <2>8, <2>9, <2>10, <2>11 DEF L!Step
<1>4. ASSUME NEW h \in Hosts, NEW i \in IfIndexes, L!Poll(h, i)
      PROVE  UNCHANGED <<snapshots, asked>>
  BY <1>4, SMT DEF L!Poll, L!tables
<1>5. CASE L!SessionEnds
  BY <1>0, <1>5, SMT DEF L!SessionEnds, L!tables
<1>6. CASE L!runOnce
  BY <1>0, <1>6, SMT DEF L!runOnce, L!tables
<1>7. ASSUME NEW r \in Pages, L!ListRows(r) \/ L!ListCount(r)
      PROVE  UNCHANGED <<snapshots, asked>>
  BY <1>7, SMT DEF L!ListRows, L!ListCount, L!tables
<1>8. CASE UNCHANGED syncVars
  BY <1>0, <1>8 DEF syncVars
<1>9. QED
  BY <1>0, <1>1, <1>2, <1>3, <1>4, <1>5, <1>6, <1>7, <1>8 DEF L!Next

LEMMA Kept ==
    ASSUME LkInv, [L!Next]_syncVars
    PROVE  /\ Searched \subseteq Searched' /\ (Blank \in asked => Blank \in asked')
           /\ \A c : (\E l \in links : SameRow(l, c)) => \E l \in links' : SameRow(l, c)
           /\ \A g : HasSnapshot(g) => HasSnapshot(g)'
<1>1. asked \subseteq asked' /\ asked' \subseteq Hosts \cup {Blank} /\ snapshots \subseteq snapshots'
  BY OtherTables DEF L!Terms
<1>2. Searched \subseteq Searched'
  BY <1>1, SyncParameters DEF Searched, L!Parameters
<1>3. \A l \in links : \E k \in links' : SameRow(k, l)
  BY LinksStep
<1>4. \A c : (\E l \in links : SameRow(l, c)) => \E l \in links' : SameRow(l, c)
  BY <1>3 DEF SameRow
<1>5. \A g : HasSnapshot(g) => HasSnapshot(g)'
  <2> SUFFICES ASSUME NEW g, NEW l \in links,
                      l.router_ip = Address[g.host], l.if_index = g.port,
                      [link_id |-> l.link_id, clock |-> g.clock] \in snapshots
               PROVE  HasSnapshot(g)'
    BY DEF HasSnapshot
  <2>1. PICK k \in links' : SameRow(k, l)
    BY <1>3
  <2>2. QED
    BY <1>1, <2>1 DEF HasSnapshot, SameRow
<1>6. QED
  BY <1>1, <1>2, <1>4, <1>5

(* Everything that holds of a call.                                          *)
CallOK(s) == CopyIsOfRow(s) /\ NothingForgotten(s) /\ KeepsToSearch(s)

LEMMA OtherCalls ==
    ASSUME LkInv, [L!Next]_syncVars, NEW q \in L!Syncers, sync'[q] = sync[q]
    PROVE  CallOK(q)'
<1>0. CopyIsOfRow(q) /\ NothingForgotten(q) /\ KeepsToSearch(q)
  BY DEF LkInv
<1>1. CopyIsOfRow(q)'
  BY <1>0, Kept DEF CopyIsOfRow
<1>2. NothingForgotten(q)'
  BY <1>0, Kept DEF NothingForgotten
<1>3. KeepsToSearch(q)'
  BY <1>0, Kept DEF KeepsToSearch
<1>4. QED
  BY <1>1, <1>2, <1>3 DEF CallOK

(* A step of one call leaves it a call of which everything holds.            *)
Moves(s) ==
    /\ sync' \in [L!Syncers -> Call] /\ CallOK(s)'
    /\ \A q \in L!Syncers \ {s} : sync'[q] = sync[q]

(* A call that holds nothing yet, or nothing any more.                       *)
LEMMA FreshCall ==
    ASSUME LkInv, NEW s \in L!Syncers, NEW c \in Call,
           sync' = [sync EXCEPT ![s] = c],
           c.step \notin {"items", "groups", "link", "snapshot"},
           c.hosts = {}, c.groups = {}, c.got = {},
           Blank \in asked' \/ c.searches \subseteq Searched'
    PROVE  Moves(s)
<1>1. sync \in [L!Syncers -> Call]
  BY DEF LkInv, SyncShapes
<1>2. /\ sync' \in [L!Syncers -> Call] /\ sync'[s] = c
      /\ \A q \in L!Syncers \ {s} : sync'[q] = sync[q]
  BY <1>1
<1>3. QED
  BY <1>2 DEF Moves, CallOK, CopyIsOfRow, NothingForgotten, KeepsToSearch

LEMMA PostMoves ==
    ASSUME LkInv, [L!Next]_syncVars, NEW s \in L!Syncers, L!Post(s)
    PROVE  Moves(s)
<1>1. PICK query \in {None, {Blank}}, body \in {{}, {Blank}} \cup {{h} : h \in Hosts \ DefaultSearch},
           call \in {"sync", "inspect"} :
         /\ L!Begin(s, call, L!Searches(query, body))
         /\ asked' = asked \cup body
  BY DEF L!Post
<1> DEFINE searches == L!Searches(query, body)
<1>2. PICK c : /\ c = [L!Idle EXCEPT !.step = "login", !.call = call, !.searches = searches]
               /\ searches # {} /\ sync' = [sync EXCEPT ![s] = c]
  BY <1>1 DEF L!Begin
<1>3. searches = body \/ searches = DefaultSearch
  BY <1>2 DEF L!Searches, L!splitSearch
<1>4. body \subseteq L!Terms /\ DefaultSearch \subseteq L!Terms
  BY SyncParameters DEF L!Parameters, L!Terms
<1>5. searches \subseteq L!Terms /\ (Blank \in asked' \/ searches \subseteq Searched')
  BY <1>1, <1>3, <1>4 DEF Searched
<1> HIDE DEF searches
<1>6. c = [step |-> "login", call |-> call, searches |-> searches, hosts |-> {}, groups |-> {},
           link |-> None, got |-> {}, errors |-> 0]
  BY <1>2 DEF L!Idle
<1>7. c \in Call
  BY <1>5, <1>6 DEF Call
<1>8. /\ c.step \notin {"items", "groups", "link", "snapshot"}
      /\ c.hosts = {} /\ c.groups = {} /\ c.got = {} /\ c.searches = searches
  BY <1>6
<1>9. sync' = [sync EXCEPT ![s] = c]
  BY <1>2
<1>10. QED
  BY <1>5, <1>7, <1>8, <1>9, FreshCall

LEMMA RunMoves ==
    ASSUME LkInv, L!runOnce
    PROVE  Moves(Scheduler)
<1>1. PICK c : /\ c = [L!Idle EXCEPT !.step = "login", !.searches = DefaultSearch]
               /\ sync' = [sync EXCEPT ![Scheduler] = c] /\ asked' = asked
  BY DEF L!runOnce
<1>2. c = [step |-> "login", call |-> "sync", searches |-> DefaultSearch, hosts |-> {}, groups |-> {},
           link |-> None, got |-> {}, errors |-> 0]
  BY <1>1 DEF L!Idle
<1>3. DefaultSearch \subseteq L!Terms /\ DefaultSearch \subseteq Searched'
  BY SyncParameters DEF L!Parameters, L!Terms, Searched
<1>4. c \in Call
  BY <1>2, <1>3 DEF Call
<1>5. Scheduler \in L!Syncers
  BY DEF L!Syncers
<1>6. /\ c.step \notin {"items", "groups", "link", "snapshot"}
      /\ c.hosts = {} /\ c.groups = {} /\ c.got = {} /\ c.searches = DefaultSearch
  BY <1>2
<1>7. sync' = [sync EXCEPT ![Scheduler] = c]
  BY <1>1
<1>8. QED
  BY <1>3, <1>4, <1>5, <1>6, <1>7, FreshCall

LEMMA EndMoves ==
    ASSUME LkInv, NEW s \in L!Syncers, L!Ends(s)
    PROVE  Moves(s)
<1> DEFINE c == [L!Idle EXCEPT !.step = "over"]
<1>1. sync' = [sync EXCEPT ![s] = c]
  BY DEF L!Ends
<1>2. c = [step |-> "over", call |-> "sync", searches |-> {}, hosts |-> {}, groups |-> {},
           link |-> None, got |-> {}, errors |-> 0]
  BY DEF L!Idle
<1>3. c \in Call
  BY <1>2 DEF Call
<1> HIDE DEF c
<1>4. QED
  BY <1>1, <1>2, <1>3, FreshCall

LEMMA CallNow ==
    ASSUME LkInv, NEW s \in L!Syncers
    PROVE  sync \in [L!Syncers -> Call] /\ sync[s] \in Call /\ CallOK(s)
BY DEF LkInv, SyncShapes, CallOK

LEMMA LoginMoves ==
    ASSUME LkInv, [L!Next]_syncVars, NEW s \in L!Syncers, L!Login(s)
    PROVE  Moves(s)
<1>1. PICK c \in Call : c = sync[s] /\ CallOK(s) /\ sync \in [L!Syncers -> Call]
  BY CallNow
<1>2. c.step = "login" /\ sync' = [sync EXCEPT ![s].step = "hosts"]
  BY <1>1 DEF L!Login
<1>3. PICK e : e = [c EXCEPT !.step = "hosts"]
  OBVIOUS
<1>4. /\ e \in Call /\ e.step = "hosts" /\ e.searches = c.searches /\ e.hosts = c.hosts
      /\ e.groups = c.groups /\ e.got = c.got /\ e.errors = c.errors
  BY <1>3 DEF Call
<1>5. sync' \in [L!Syncers -> Call] /\ sync'[s] = e /\ \A q \in L!Syncers \ {s} : sync'[q] = sync[q]
  BY <1>1, <1>2, <1>3, <1>4
<1>6. CopyIsOfRow(s)'
  BY <1>4, <1>5 DEF CopyIsOfRow
<1>7. NothingForgotten(s)'
  BY <1>1, <1>2, <1>4, <1>5, Kept DEF CallOK, NothingForgotten
<1>8. KeepsToSearch(s)'
  BY <1>1, <1>4, <1>5, Kept DEF CallOK, KeepsToSearch
<1>9. QED
  BY <1>5, <1>6, <1>7, <1>8 DEF Moves, CallOK

LEMMA HostsMoves ==
    ASSUME LkInv, [L!Next]_syncVars, NEW s \in L!Syncers, L!GetHostsByNameFilter(s)
    PROVE  Moves(s)
<1>1. PICK c \in Call : c = sync[s] /\ CallOK(s) /\ sync \in [L!Syncers -> Call]
  BY CallNow
<1>2. PICK found : found = L!Found(c.searches)
  OBVIOUS
<1>3. /\ c.step = "hosts" /\ asked' = asked
      /\ sync' = [sync EXCEPT ![s].step = "items", ![s].hosts = found]
  BY <1>1, <1>2 DEF L!GetHostsByNameFilter
<1>4. found \subseteq Hosts /\ found \subseteq Searched
  <2>1. c.searches \subseteq L!Terms /\ (Blank \in asked \/ c.searches \subseteq Searched)
    BY <1>1 DEF Call, CallOK, KeepsToSearch
  <2>2. asked \subseteq L!Terms
    BY DEF LkInv, SyncShapes
  <2>3. QED
    BY <1>2, <2>1, <2>2, SyncParameters DEF L!Found, L!Terms, L!Parameters, Searched
<1>5. PICK e : e = [c EXCEPT !.step = "items", !.hosts = found]
  OBVIOUS
<1>6. /\ e \in Call /\ e.step = "items" /\ e.searches = c.searches /\ e.hosts = found
      /\ e.groups = c.groups /\ e.got = c.got /\ e.errors = c.errors
  BY <1>4, <1>5 DEF Call
<1>7. sync' \in [L!Syncers -> Call] /\ sync'[s] = e /\ \A q \in L!Syncers \ {s} : sync'[q] = sync[q]
  BY <1>1, <1>3, <1>5, <1>6
<1>8. CopyIsOfRow(s)'
  BY <1>6, <1>7 DEF CopyIsOfRow
<1>9. NothingForgotten(s)'
  BY <1>1, <1>3, <1>6, <1>7, Kept DEF CallOK, NothingForgotten
<1>10. KeepsToSearch(s)'
  BY <1>1, <1>4, <1>6, <1>7, Kept DEF CallOK, KeepsToSearch
<1>11. QED
  BY <1>7, <1>8, <1>9, <1>10 DEF Moves, CallOK

LEMMA GroupsOf ==
    ASSUME LkInv, NEW h \in Hosts
    PROVE  L!Groups(h) \subseteq Group /\ \A g \in L!Groups(h) : g.host = h
<1> SUFFICES ASSUME NEW i \in IfIndexes, zabbix[h][i] # None,
                    NEW g, g = [host |-> h, port |-> i, speed |-> zabbix[h][i].speed,
                                clock |-> zabbix[h][i].clock]
             PROVE  g \in Group /\ g.host = h
  BY DEF L!Groups
<1>1. zabbix \in [Hosts -> [IfIndexes -> {None} \cup [speed : Speeds, clock : Times]]]
  BY DEF LkInv, SyncShapes
<1>2. zabbix[h][i] \in [speed : Speeds, clock : Times]
  BY <1>1
<1>3. QED
  BY <1>2 DEF Group

LEMMA ItemsMove ==
    ASSUME LkInv, [L!Next]_syncVars, NEW s \in L!Syncers, L!GetItemsForHost(s)
    PROVE  Moves(s)
<1>1. PICK c \in Call : c = sync[s] /\ CallOK(s) /\ sync \in [L!Syncers -> Call]
  BY CallNow
<1>2. PICK h \in c.hosts :
        IF c.call = "inspect"
        THEN sync' = [sync EXCEPT ![s].hosts = @ \ {h}]
        ELSE sync' = [sync EXCEPT ![s].hosts = @ \ {h}, ![s].groups = L!Groups(h),
                                  ![s].step = "groups", ![s].got = @ \cup L!Groups(h)]
  BY <1>1 DEF L!GetItemsForHost
<1>3. c.step = "items" /\ c.groups = {}
  BY <1>1, SMT DEF L!GetItemsForHost, CallOK, NothingForgotten
<1>4. h \in Hosts /\ h \in Searched
  BY <1>1 DEF Call, CallOK, KeepsToSearch
<1>5. PICK new : new = L!Groups(h) /\ new \subseteq Group /\ \A g \in new : g.host = h
  BY <1>4, GroupsOf
<1>6. PICK e \in Call :
        /\ sync' = [sync EXCEPT ![s] = e]
        /\ e.searches = c.searches /\ e.hosts = c.hosts \ {h} /\ e.errors = c.errors
        /\ \/ e.step = "items" /\ e.groups = {} /\ e.got = c.got
           \/ e.step = "groups" /\ e.groups = new /\ e.got = c.got \cup new
  <2>1. CASE c.call = "inspect"
    <3>1. PICK e : e = [c EXCEPT !.hosts = @ \ {h}]
      OBVIOUS
    <3>2. /\ e \in Call /\ e.step = "items" /\ e.searches = c.searches /\ e.hosts = c.hosts \ {h}
          /\ e.groups = {} /\ e.got = c.got /\ e.errors = c.errors
      BY <1>3, <3>1 DEF Call
    <3>3. sync' = [sync EXCEPT ![s] = e]
      BY <1>1, <1>2, <2>1, <3>1
    <3>4. QED
      BY <3>2, <3>3
  <2>2. CASE c.call # "inspect"
    <3>1. PICK e : e = [c EXCEPT !.hosts = @ \ {h}, !.groups = new, !.step = "groups", !.got = @ \cup new]
      OBVIOUS
    <3>2. /\ e \in Call /\ e.step = "groups" /\ e.searches = c.searches /\ e.hosts = c.hosts \ {h}
          /\ e.groups = new /\ e.got = c.got \cup new /\ e.errors = c.errors
      BY <1>5, <3>1 DEF Call
    <3>3. sync' = [sync EXCEPT ![s] = e]
      BY <1>1, <1>2, <1>5, <2>2, <3>1
    <3>4. QED
      BY <3>2, <3>3
  <2>3. QED
    BY <2>1, <2>2
<1>7. sync' \in [L!Syncers -> Call] /\ sync'[s] = e /\ \A q \in L!Syncers \ {s} : sync'[q] = sync[q]
  BY <1>1, <1>6
<1>8. CopyIsOfRow(s)'
  BY <1>6, <1>7 DEF CopyIsOfRow
<1>9. NothingForgotten(s)'
  BY <1>1, <1>3, <1>6, <1>7, Kept DEF CallOK, NothingForgotten
<1>10. KeepsToSearch(s)'
  BY <1>1, <1>4, <1>5, <1>6, <1>7, Kept DEF CallOK, KeepsToSearch
<1>11. QED
  BY <1>7, <1>8, <1>9, <1>10 DEF Moves, CallOK

LEMMA ItemsFailMoves ==
    ASSUME LkInv, [L!Next]_syncVars, NEW s \in L!Syncers, L!ItemsFail(s)
    PROVE  Moves(s)
<1>1. PICK c \in Call : c = sync[s] /\ CallOK(s) /\ sync \in [L!Syncers -> Call]
  BY CallNow
<1>2. c.step = "items"
  BY <1>1, SMT DEF L!ItemsFail
<1>3. PICK h \in c.hosts :
        L!Ends(s) \/ sync' = [sync EXCEPT ![s].hosts = @ \ {h}, ![s].errors = @ + 1]
  BY <1>1 DEF L!ItemsFail, L!Fails
<1>4. CASE L!Ends(s)
  BY <1>4, EndMoves
<1>5. CASE sync' = [sync EXCEPT ![s].hosts = @ \ {h}, ![s].errors = @ + 1]
  <2>0. PICK n \in Nat : n = c.errors + 1 /\ n # 0
    BY DEF Call
  <2>1. PICK e : e = [c EXCEPT !.hosts = @ \ {h}, !.errors = n]
    OBVIOUS
  <2>2. /\ e \in Call /\ e.step = "items" /\ e.searches = c.searches /\ e.hosts = c.hosts \ {h}
        /\ e.groups = c.groups /\ e.got = c.got /\ e.errors = n
    BY <1>2, <2>1 DEF Call
  <2>3. sync' \in [L!Syncers -> Call] /\ sync'[s] = e /\ \A q \in L!Syncers \ {s} : sync'[q] = sync[q]
    BY <1>1, <1>5, <2>0, <2>1, <2>2
  <2>4. CopyIsOfRow(s)'
    BY <2>2, <2>3 DEF CopyIsOfRow
  <2>5. NothingForgotten(s)'
    BY <1>1, <1>2, <2>0, <2>2, <2>3 DEF CallOK, NothingForgotten
  <2>6. KeepsToSearch(s)'
    BY <1>1, <2>2, <2>3, Kept DEF CallOK, KeepsToSearch
  <2>7. QED
    BY <2>3, <2>4, <2>5, <2>6 DEF Moves, CallOK
<1>6. QED
  BY <1>3, <1>4, <1>5

(* The links of an interface that a call finds.                              *)
LEMMA RowFound ==
    ASSUME LkInv, NEW g \in Group
    PROVE  /\ L!RowOf(g) \subseteq links /\ L!RowOf(g) \in SUBSET Link
           /\ \A l \in L!RowOf(g) : /\ L!RowOf(g) = {l}
                                    /\ l.router_ip = Address[g.host] /\ l.if_index = g.port
BY DEF LkInv, SyncShapes, L!RowOf, L!OneLinkPerInterface

(* syncGroup is done with an interface, well or not.                         *)
LEMMA NextGroupMoves ==
    ASSUME LkInv, [L!Next]_syncVars, NEW s \in L!Syncers, NEW c \in Call, c = sync[s],
           NEW e, NEW n \in Nat,
           e = [c EXCEPT !.step = IF c.groups = {} THEN "items" ELSE "groups", !.link = None,
                         !.errors = n],
           sync' = [sync EXCEPT ![s] = e],
           n = 0 => \A g \in c.got : g \in c.groups \/ HasSnapshot(g)'
    PROVE  Moves(s)
<1>1. CallOK(s) /\ sync \in [L!Syncers -> Call]
  BY CallNow
<1>2. /\ e \in Call /\ e.step \in {"items", "groups"} /\ (e.step = "items" => e.groups = {})
      /\ e.searches = c.searches /\ e.hosts = c.hosts
      /\ e.groups = c.groups /\ e.got = c.got /\ e.errors = n
  BY DEF Call
<1>3. sync' \in [L!Syncers -> Call] /\ sync'[s] = e /\ \A q \in L!Syncers \ {s} : sync'[q] = sync[q]
  BY <1>1, <1>2
<1>4. CopyIsOfRow(s)'
  BY <1>2, <1>3 DEF CopyIsOfRow
<1>5. NothingForgotten(s)'
  BY <1>1, <1>2, <1>3 DEF CallOK, NothingForgotten
<1>6. KeepsToSearch(s)'
  BY <1>1, <1>2, <1>3, Kept DEF CallOK, KeepsToSearch
<1>7. QED
  BY <1>3, <1>4, <1>5, <1>6 DEF Moves, CallOK

LEMMA GetRowMoves ==
    ASSUME LkInv, [L!Next]_syncVars, NEW s \in L!Syncers, L!GetByRouterAndIfIndex(s)
    PROVE  Moves(s)
<1>1. PICK c \in Call : c = sync[s] /\ CallOK(s) /\ sync \in [L!Syncers -> Call]
  BY CallNow
<1>2. /\ c.step = "groups"
      /\ IF c.groups = {} THEN sync' = [sync EXCEPT ![s] = L!NextGroup(s)]
         ELSE \E g \in c.groups :
                sync' = [sync EXCEPT ![s].step = "link", ![s].groups = @ \ {g},
                                     ![s].link = [group |-> g, copy |-> L!RowOf(g)]]
  BY <1>1 DEF L!GetByRouterAndIfIndex
<1>3. c.errors = 0 => \A g \in c.got : g \in c.groups \/ HasSnapshot(g)'
  BY <1>1, <1>2, Kept DEF CallOK, NothingForgotten
<1>4. CASE c.groups = {}
  <2>1. PICK n \in Nat : n = c.errors
    BY DEF Call
  <2>2. PICK e : e = [c EXCEPT !.step = IF c.groups = {} THEN "items" ELSE "groups", !.link = None,
                               !.errors = n]
    OBVIOUS
  <2>3. e = L!NextGroup(s)
    BY <1>1, <2>1, <2>2 DEF L!NextGroup, Call
  <2>4. sync' = [sync EXCEPT ![s] = e]
    BY <1>2, <1>4, <2>3
  <2>5. QED
    BY <1>1, <1>3, <2>1, <2>2, <2>4, NextGroupMoves
<1>5. ASSUME NEW g \in c.groups,
             sync' = [sync EXCEPT ![s].step = "link", ![s].groups = @ \ {g},
                                  ![s].link = [group |-> g, copy |-> L!RowOf(g)]]
      PROVE  Moves(s)
  <2>1. g \in Group /\ g \in c.got
    BY <1>1 DEF Call, CallOK, NothingForgotten
  <2>2. PICK copy \in SUBSET Link :
          /\ copy = L!RowOf(g)
          /\ \A l \in copy : /\ copy = {l} /\ l \in links
                             /\ l.router_ip = Address[g.host] /\ l.if_index = g.port
    BY <2>1, RowFound
  <2>3. PICK held \in Held : held = [group |-> g, copy |-> copy]
    BY <2>1 DEF Held
  <2>4. PICK e : e = [c EXCEPT !.step = "link", !.groups = @ \ {g}, !.link = held]
    OBVIOUS
  <2>5. /\ e \in Call /\ e.step = "link" /\ e.searches = c.searches /\ e.hosts = c.hosts
        /\ e.groups = c.groups \ {g} /\ e.link = held /\ e.got = c.got /\ e.errors = c.errors
    BY <2>4 DEF Call
  <2>6. sync' \in [L!Syncers -> Call] /\ sync'[s] = e /\ \A q \in L!Syncers \ {s} : sync'[q] = sync[q]
    BY <1>1, <1>5, <2>2, <2>3, <2>4, <2>5
  <2>7. \A l \in copy : \E k \in links' : SameRow(k, l)
    BY <2>2, Kept DEF SameRow
  <2>8. CopyIsOfRow(s)'
    BY <2>1, <2>2, <2>3, <2>5, <2>6, <2>7 DEF CopyIsOfRow
  <2>9. NothingForgotten(s)'
    BY <1>1, <1>3, <2>3, <2>5, <2>6 DEF CallOK, NothingForgotten
  <2>10. KeepsToSearch(s)'
    BY <1>1, <2>5, <2>6, Kept DEF CallOK, KeepsToSearch
  <2>11. QED
    BY <2>6, <2>8, <2>9, <2>10 DEF Moves, CallOK
<1>6. QED
  BY <1>2, <1>4, <1>5

(* The row was written: the call holds it as it wrote it.                    *)
LEMMA StoredMoves ==
    ASSUME LkInv, [L!Next]_syncVars, NEW s \in L!Syncers, sync[s].step = "link",
           NEW new \in Link, new.router_ip = Address[sync[s].link.group.host],
           new.if_index = sync[s].link.group.port, \E l \in links' : SameRow(l, new),
           sync' = [sync EXCEPT ![s].step = "snapshot", ![s].link.copy = {new}]
    PROVE  Moves(s)
<1>1. PICK c \in Call : c = sync[s] /\ CallOK(s) /\ sync \in [L!Syncers -> Call]
  BY CallNow
<1>2. PICK old \in Held : old = c.link
  BY <1>1 DEF CallOK, CopyIsOfRow
<1>3. PICK held : held = [old EXCEPT !.copy = {new}]
  OBVIOUS
<1>4. held \in Held /\ held.group = old.group /\ held.copy = {new}
  BY <1>3 DEF Held
<1>5. PICK e : e = [c EXCEPT !.step = "snapshot", !.link = held]
  OBVIOUS
<1>6. /\ e \in Call /\ e.step = "snapshot" /\ e.searches = c.searches /\ e.hosts = c.hosts
      /\ e.groups = c.groups /\ e.link = held /\ e.got = c.got /\ e.errors = c.errors
  BY <1>4, <1>5 DEF Call
<1>7. sync' \in [L!Syncers -> Call] /\ sync'[s] = e /\ \A q \in L!Syncers \ {s} : sync'[q] = sync[q]
  BY <1>1, <1>2, <1>3, <1>4, <1>5, <1>6
<1>8. CopyIsOfRow(s)'
  <2>1. old.group \in c.got
    BY <1>1, <1>2 DEF CallOK, CopyIsOfRow
  <2>2. PICK l \in links' : SameRow(l, new)
    OBVIOUS
  <2>3. new.router_ip = Address[old.group.host] /\ new.if_index = old.group.port
    BY <1>1, <1>2
  <2>4. QED
    BY <1>4, <1>6, <1>7, <2>1, <2>2, <2>3 DEF CopyIsOfRow
<1>9. NothingForgotten(s)'
  BY <1>1, <1>2, <1>4, <1>6, <1>7, Kept DEF CallOK, NothingForgotten
<1>10. KeepsToSearch(s)'
  BY <1>1, <1>6, <1>7, Kept DEF CallOK, KeepsToSearch
<1>11. QED
  BY <1>7, <1>8, <1>9, <1>10 DEF Moves, CallOK

LEMMA CreateMoves ==
    ASSUME LkInv, [L!Next]_syncVars, NEW s \in L!Syncers, L!Create(s)
    PROVE  Moves(s)
<1>1. CallOK(s) /\ sync[s].step = "link"
  BY CallNow, SMT DEF L!Create
<1>2. PICK g \in Group : g = sync[s].link.group
  BY <1>1 DEF CallOK, CopyIsOfRow, Held
<1>3. Cardinality(links) \in Nat
  BY FS_CardinalityType DEF LkInv, SyncShapes
<1>4. PICK n \in Nat : n = Cardinality(links) + 1
  BY <1>3
<1>5. PICK new \in Link : /\ new = L!NewLink(g, n)
                          /\ new.router_ip = Address[g.host] /\ new.if_index = g.port
  BY GroupLink DEF L!NewLink
<1>6. links' = links \cup {new} /\ sync' = [sync EXCEPT ![s].step = "snapshot", ![s].link.copy = {new}]
  BY <1>2, <1>4, <1>5, SameCount DEF L!Create
<1>7. \E l \in links' : SameRow(l, new)
  BY <1>6 DEF SameRow
<1>8. QED
  BY <1>1, <1>2, <1>5, <1>6, <1>7, StoredMoves

LEMMA UpdateMoves ==
    ASSUME LkInv, [L!Next]_syncVars, NEW s \in L!Syncers, L!Update(s)
    PROVE  Moves(s)
<1>1. CallOK(s) /\ sync[s].step = "link"
  BY CallNow, SMT DEF L!Update
<1>2. PICK g \in Group : g = sync[s].link.group
  BY <1>1 DEF CallOK, CopyIsOfRow, Held
<1>3. PICK old \in sync[s].link.copy :
        LET merged == L!Merged(old, sync[s].link.group)
        IN /\ links' = {IF l.link_id = old.link_id THEN merged ELSE l : l \in links}
           /\ sync' = [sync EXCEPT ![s].step = "snapshot", ![s].link.copy = {merged}]
  BY DEF L!Update
<1>4. old \in Link /\ old.router_ip = Address[g.host] /\ old.if_index = g.port
  BY <1>1, <1>2 DEF CallOK, CopyIsOfRow, Held
<1>5. PICK kept \in links : SameRow(kept, old)
  BY <1>1 DEF CallOK, CopyIsOfRow
<1>6. L!parseCapacity(g.speed) \in Int
  BY CapacityType
<1>7. L!Merged(old, g) \in Link /\ SameRow(L!Merged(old, g), old)
  BY <1>4, <1>6 DEF L!Merged, Link, Group, SameRow
<1>8. PICK new \in Link : new = L!Merged(old, g) /\ SameRow(new, old)
  BY <1>7
<1>9. new \in links'
  BY <1>2, <1>3, <1>5, <1>8 DEF SameRow
<1>10. \E l \in links' : SameRow(l, new)
  BY <1>9 DEF SameRow
<1>11. new.router_ip = Address[g.host] /\ new.if_index = g.port
  BY <1>4, <1>8 DEF SameRow
<1>12. sync' = [sync EXCEPT ![s].step = "snapshot", ![s].link.copy = {new}]
  BY <1>2, <1>3, <1>8
<1>13. QED
  BY <1>1, <1>2, <1>10, <1>11, <1>12, StoredMoves

LEMMA SaveMoves ==
    ASSUME LkInv, [L!Next]_syncVars, NEW s \in L!Syncers, L!SaveMetricSnapshot(s)
    PROVE  Moves(s)
<1>1. PICK c \in Call : c = sync[s] /\ CallOK(s) /\ sync \in [L!Syncers -> Call]
  BY CallNow
<1>2. c.step = "snapshot" /\ sync' = [sync EXCEPT ![s] = L!NextGroup(s)] /\ links' = links
  BY <1>1 DEF L!SaveMetricSnapshot
<1>3. PICK l \in c.link.copy :
        snapshots' = snapshots \cup {[link_id |-> l.link_id, clock |-> c.link.group.clock]}
  BY <1>1 DEF L!SaveMetricSnapshot
<1>4. PICK kept \in links : /\ SameRow(kept, l)
                           /\ l.router_ip = Address[c.link.group.host] /\ l.if_index = c.link.group.port
  BY <1>1, <1>2 DEF CallOK, CopyIsOfRow
<1>5. HasSnapshot(c.link.group)'
  BY <1>2, <1>3, <1>4 DEF HasSnapshot, SameRow
<1>6. c.errors = 0 => \A g \in c.got : g \in c.groups \/ HasSnapshot(g)'
  BY <1>1, <1>2, <1>5, Kept DEF CallOK, NothingForgotten
<1>7. PICK n \in Nat : n = c.errors
  BY DEF Call
<1>8. PICK e : e = [c EXCEPT !.step = IF c.groups = {} THEN "items" ELSE "groups", !.link = None,
                             !.errors = n]
  OBVIOUS
<1>9. e = L!NextGroup(s)
  BY <1>1, <1>7, <1>8 DEF L!NextGroup, Call
<1>10. sync' = [sync EXCEPT ![s] = e]
  BY <1>2, <1>9
<1>11. QED
  BY <1>1, <1>6, <1>7, <1>8, <1>10, NextGroupMoves

LEMMA GroupFailsMoves ==
    ASSUME LkInv, [L!Next]_syncVars, NEW s \in L!Syncers, L!GroupFails(s)
    PROVE  Moves(s)
<1>1. PICK c \in Call : c = sync[s] /\ CallOK(s) /\ sync \in [L!Syncers -> Call]
  BY CallNow
<1>2. sync' = [sync EXCEPT ![s] = [L!NextGroup(s) EXCEPT !.errors = @ + 1]]
  BY DEF L!GroupFails, L!Fails
<1>3. PICK n \in Nat : n = c.errors + 1 /\ n # 0
  BY DEF Call
<1>4. PICK e : e = [c EXCEPT !.step = IF c.groups = {} THEN "items" ELSE "groups", !.link = None,
                             !.errors = n]
  OBVIOUS
<1>5. e = [L!NextGroup(s) EXCEPT !.errors = @ + 1]
  BY <1>1, <1>3, <1>4 DEF L!NextGroup, Call
<1>6. sync' = [sync EXCEPT ![s] = e]
  BY <1>2, <1>5
<1>7. QED
  BY <1>1, <1>3, <1>4, <1>6, NextGroupMoves

LEMMA StepMoves ==
    ASSUME LkInv, [L!Next]_syncVars, NEW s \in L!Syncers, L!Step(s)
    PROVE  Moves(s)
<1>1. CASE L!LoginFails(s)
  BY <1>1, EndMoves DEF L!LoginFails, L!Fails
<1>2. CASE L!HostsFail(s)
  BY <1>2, EndMoves DEF L!HostsFail, L!Fails
<1>3. CASE L!Return(s)
  BY <1>3, EndMoves DEF L!Return
<1>4. QED
  BY <1>1, <1>2, <1>3, LoginMoves, HostsMoves, ItemsMove, ItemsFailMoves, GetRowMoves, CreateMoves,
     UpdateMoves, SaveMoves, GroupFailsMoves DEF L!Step

LEMMA SyncStep ==
    ASSUME LkInv, [L!Next]_syncVars
    PROVE  sync' \in [L!Syncers -> Call] /\ \A s \in L!Syncers : CallOK(s)'
<1>1. sync \in [L!Syncers -> Call] /\ Scheduler \in L!Syncers
  BY DEF LkInv, SyncShapes, L!Syncers
<1>2. ASSUME NEW s \in L!Syncers, L!Post(s) \/ L!Step(s)
      PROVE  Moves(s)
  BY <1>2, PostMoves, StepMoves
<1>3. ASSUME L!runOnce
      PROVE  Moves(Scheduler)
  BY <1>3, RunMoves
<1>4. ASSUME NEW h \in Hosts, NEW i \in IfIndexes, L!Poll(h, i)
      PROVE  sync' = sync
  BY <1>4 DEF L!Poll
<1>5. ASSUME L!SessionEnds
      PROVE  sync' = sync
  BY <1>5 DEF L!SessionEnds
<1>6. ASSUME NEW r \in Pages, L!ListRows(r) \/ L!ListCount(r)
      PROVE  sync' = sync
  BY <1>6 DEF L!ListRows, L!ListCount
<1>7. ASSUME UNCHANGED syncVars
      PROVE  sync' = sync
  BY <1>7 DEF syncVars
<1>8. sync' = sync \/ \E s \in L!Syncers : Moves(s)
  BY <1>1, <1>2, <1>3, <1>4, <1>5, <1>6, <1>7 DEF L!Next
<1>9. CASE sync' = sync
  BY <1>1, <1>9, OtherCalls
<1>10. ASSUME NEW s \in L!Syncers, Moves(s)
       PROVE  sync' \in [L!Syncers -> Call] /\ \A q \in L!Syncers : CallOK(q)'
  <2>1. \A q \in L!Syncers \ {s} : CallOK(q)'
    BY <1>10, OtherCalls DEF Moves
  <2>2. QED
    BY <1>10, <2>1 DEF Moves
<1>11. QED
  BY <1>8, <1>9, <1>10

-----------------------------------------------------------------------------
(* Zabbix, the session, the pages and the faults.                            *)
LEMMA ShapesOfStep ==
    ASSUME LkInv, NEW s \in L!Syncers, L!Step(s)
    PROVE  /\ UNCHANGED <<zabbix, page>>
           /\ session' \in {"api token", "none", "open", "ended"} /\ faults' \in 0 .. MaxFaults
<1>0. /\ session \in {"api token", "none", "open", "ended"}
      /\ faults \in 0 .. MaxFaults /\ MaxFaults \in Nat
  BY SyncParameters DEF LkInv, SyncShapes, L!Parameters
<1>1. faults < MaxFaults /\ faults' = faults + 1 => faults' \in 0 .. MaxFaults
  <2>1. MaxFaults \in Nat
    BY <1>0
  <2>2. faults \in 0 .. MaxFaults
    BY <1>0
  <2>3. QED
    BY <2>1, <2>2
<1>2. QED
  <2>1. CASE L!Login(s)
    BY <1>0, <1>1, <2>1 DEF L!Login
  <2>2. CASE L!LoginFails(s)
    BY <1>0, <1>1, <2>2 DEF L!LoginFails, L!Fails
  <2>3. CASE L!GetHostsByNameFilter(s)
    BY <1>0, <1>1, <2>3 DEF L!GetHostsByNameFilter
  <2>4. CASE L!HostsFail(s)
    BY <1>0, <1>1, <2>4 DEF L!HostsFail, L!Fails, L!Refused
  <2>5. CASE L!GetItemsForHost(s)
    BY <1>0, <1>1, <2>5 DEF L!GetItemsForHost
  <2>6. CASE L!ItemsFail(s)
    BY <1>0, <1>1, <2>6 DEF L!ItemsFail, L!Fails, L!Refused
  <2>7. CASE L!Return(s)
    BY <1>0, <1>1, <2>7 DEF L!Return
  <2>8. CASE L!GetByRouterAndIfIndex(s)
    BY <1>0, <1>1, <2>8 DEF L!GetByRouterAndIfIndex
  <2>9. CASE L!Create(s)
    BY <1>0, <1>1, <2>9 DEF L!Create
  <2>10. CASE L!Update(s)
    BY <1>0, <1>1, <2>10 DEF L!Update
  <2>11. CASE L!SaveMetricSnapshot(s)
    BY <1>0, <1>1, <2>11 DEF L!SaveMetricSnapshot
  <2>12. CASE L!GroupFails(s)
    BY <1>0, <1>1, <2>12 DEF L!GroupFails, L!Fails
  <2>13. QED
    BY <2>1, <2>2, <2>3, <2>4, <2>5, <2>6, <2>7, <2>8, <2>9, <2>10, <2>11, <2>12 DEF L!Step

LEMMA PageCounts ==
    ASSUME LkInv, NEW r \in Pages
    PROVE  /\ page \in [Pages -> Page] /\ page[r].rows \in Nat
           /\ page[r].step = "count" => page[r].rows <= Cardinality(links)
           /\ page[r].step = "done" => page[r].rows <= page[r].total
<1>1. PagesCount
  BY DEF LkInv
<1>2. page \in [Pages -> Page]
  BY DEF LkInv, SyncShapes
<1>3. page[r].rows \in Nat
  BY <1>2 DEF Page
<1>4. QED
  BY <1>1, <1>2, <1>3 DEF PagesCount

LEMMA OtherShapes ==
    ASSUME LkInv, [L!Next]_syncVars
    PROVE  /\ zabbix' \in [Hosts -> [IfIndexes -> {None} \cup [speed : Speeds, clock : Times]]]
           /\ session' \in {"api token", "none", "open", "ended"}
           /\ page' \in [Pages -> Page] /\ PagesCount'
           /\ faults' \in 0 .. MaxFaults
<1> DEFINE Zabbix == [Hosts -> [IfIndexes -> {None} \cup [speed : Speeds, clock : Times]]]
           Good == /\ zabbix' \in Zabbix
                   /\ session' \in {"api token", "none", "open", "ended"}
                   /\ page' \in [Pages -> Page] /\ PagesCount'
                   /\ faults' \in 0 .. MaxFaults
<1>0. /\ zabbix \in Zabbix /\ session \in {"api token", "none", "open", "ended"}
      /\ page \in [Pages -> Page] /\ PagesCount
      /\ faults \in 0 .. MaxFaults /\ MaxFaults \in Nat
  BY SyncParameters DEF LkInv, SyncShapes, L!Parameters
<1>1. /\ Cardinality(links) \in Nat /\ Cardinality(links') \in Nat
      /\ Cardinality(links) <= Cardinality(links')
  BY LinksStep, FS_CardinalityType DEF LkInv, SyncShapes
<1>2. page' = page => page' \in [Pages -> Page] /\ PagesCount'
  <2> SUFFICES ASSUME page' = page, NEW r \in Pages
               PROVE  /\ page[r].step = "count" => page[r].rows <= Cardinality(links')
                      /\ page[r].step = "done" => page[r].rows <= page[r].total
    BY <1>0 DEF PagesCount
  <2>1. QED
    BY <1>1, PageCounts
<1>3. ASSUME NEW h \in Hosts, NEW i \in IfIndexes, L!Poll(h, i)
      PROVE  Good
  <2>1. PICK v \in Speeds :
            zabbix' = [zabbix EXCEPT ![h][i] = [speed |-> v, clock |-> L!LastClock + 1]]
    BY <1>3 DEF L!Poll
  <2>2. L!LastClock + 1 \in Times
    BY <1>3, ClockType, SyncParameters DEF L!Poll, Times, LkInv, L!Parameters
  <2>3. zabbix' \in Zabbix
    BY <1>0, <2>1, <2>2
  <2>4. UNCHANGED <<session, page, faults>>
    BY <1>3 DEF L!Poll
  <2>5. QED
    BY <1>0, <1>2, <2>3, <2>4
<1>4. ASSUME L!SessionEnds
      PROVE  Good
  BY <1>0, <1>2, <1>4 DEF L!SessionEnds
<1>5. ASSUME L!runOnce
      PROVE  Good
  BY <1>0, <1>2, <1>5 DEF L!runOnce
<1>6. ASSUME NEW s \in L!Syncers, L!Post(s)
      PROVE  Good
  BY <1>0, <1>2, <1>6 DEF L!Post
<1>7. ASSUME NEW s \in L!Syncers, L!Step(s)
      PROVE  Good
  BY <1>0, <1>2, <1>7, ShapesOfStep
<1>8. ASSUME NEW r \in Pages, L!ListRows(r)
      PROVE  Good
  <2>1. /\ page' = [page EXCEPT ![r] = [step |-> "count", rows |-> Cardinality(links), total |-> 0]]
        /\ UNCHANGED <<zabbix, session, links, faults>>
    BY <1>8, SameCount DEF L!ListRows, L!tables
  <2>2. page' \in [Pages -> Page]
    BY <1>0, <1>1, <2>1 DEF Page
  <2>3. PagesCount'
    BY <1>0, <1>1, <2>1 DEF PagesCount
  <2>4. QED
    BY <1>0, <2>1, <2>2, <2>3
<1>9. ASSUME NEW r \in Pages, L!ListCount(r)
      PROVE  Good
  <2>1. PICK e : e = [page[r] EXCEPT !.step = "done", !.total = Cardinality(links)]
    OBVIOUS
  <2>2. /\ page[r].step = "count" /\ page' = [page EXCEPT ![r] = e]
        /\ UNCHANGED <<zabbix, session, links, faults>>
    BY <1>0, <1>9, <2>1, SameCount DEF L!ListCount, L!tables
  <2>3. e \in Page /\ e.step = "done" /\ e.rows = page[r].rows /\ e.total = Cardinality(links)
    BY <1>0, <1>1, <2>1 DEF Page
  <2>4. page' \in [Pages -> Page]
    BY <1>0, <2>2, <2>3
  <2>5. PagesCount'
    <3>1. page'[r] = e /\ links' = links /\ \A q \in Pages \ {r} : page'[q] = page[q]
      BY <1>0, <2>2
    <3>2. e.rows <= e.total
      BY <2>2, <2>3, PageCounts
    <3>3. QED
      BY <1>0, <2>3, <3>1, <3>2 DEF PagesCount
  <2>6. QED
    BY <1>0, <2>2, <2>4, <2>5
<1>10. ASSUME UNCHANGED syncVars
       PROVE  Good
  BY <1>0, <1>2, <1>10 DEF syncVars
<1>11. QED
  BY <1>3, <1>4, <1>5, <1>6, <1>7, <1>8, <1>9, <1>10 DEF L!Next

LEMMA LinksStepInv ==
    ASSUME LkInv, [L!Next]_syncVars
    PROVE  LkInv'
<1>1. SyncShapes'
  BY LinksStep, SyncStep, OtherTables, OtherShapes DEF SyncShapes
<1>2. \A s \in L!Syncers : (CopyIsOfRow(s) /\ NothingForgotten(s) /\ KeepsToSearch(s))'
  BY SyncStep DEF CallOK
<1>3. \A l \in links' : l.router_host \in Searched'
  BY LinksStep, Kept DEF LkInv
<1>4. QED
  BY <1>1, <1>2, <1>3, LinksStep, OtherShapes DEF LkInv

LEMMA LinksFacts ==
    ASSUME LkInv
    PROVE  SyncInv
<1>1. L!TypeOK
  <2>1. \A l \in links : l.link_id \in 1 .. L!Cardinality(links) /\ l.name \in 1 .. MaxPolls
    BY SameCount DEF LkInv, SyncShapes, LinkIds, Link, Times
  <2>2. \A s \in L!Syncers : sync[s].got \subseteq L!Reading /\ sync[s].groups \subseteq sync[s].got
    BY DEF LkInv, SyncShapes, Call, Group, Times, L!Reading, NothingForgotten
  <2>3. QED
    BY <2>1, <2>2 DEF LkInv, SyncShapes, L!TypeOK
<1>2. L!NoErrorNoGap
  <2> SUFFICES ASSUME NEW s \in L!Syncers, sync[s].step = "items", sync[s].errors = 0, NEW g \in sync[s].got
               PROVE  \E l \in L!RowOf(g) : [link_id |-> l.link_id, clock |-> g.clock] \in snapshots
    BY DEF L!NoErrorNoGap
  <2>1. HasSnapshot(g)
    BY DEF LkInv, NothingForgotten
  <2>2. QED
    BY <2>1 DEF HasSnapshot, L!RowOf
<1>3. L!UnsearchedHostsStayOut
  BY DEF LkInv, Searched, L!UnsearchedHostsStayOut
<1>4. L!TotalCoversPage
  BY DEF LkInv, PagesCount, L!TotalCoversPage
<1>5. QED
  BY <1>1, <1>2, <1>3, <1>4 DEF LkInv, SyncInv, L!SyncInv

LEMMA NetworkSteps == [NetworkNext]_all => [L!Next]_syncVars
BY DEF NetworkNext, OfCache, OfSync, OfPages, all, syncVars

LEMMA NetworkLinks == NetworkSpec => []LkInv
<1>1. NetworkInit => LkInv
  BY LinksInit DEF NetworkInit
<1>2. LkInv /\ [NetworkNext]_all => LkInv'
  BY NetworkSteps, LinksStepInv
<1>3. QED
  BY <1>1, <1>2, PTL DEF NetworkSpec

(* LinkSync, ZabbixService.Sync and LinkRepository: whoever syncs at once,   *)
(* an interface has one link, a sync without errors left no gap, a host that *)
(* nobody searched for stays out, and a page's total covers its rows.        *)
THEOREM SyncsAreComplete == NetworkSpec => []SyncInv
BY NetworkLinks, LinksFacts, PTL

(* LinkSync, syncGroup: a link keeps the name it was given, whoever updates  *)
(* it from a copy read before.                                               *)
THEOREM LinksKeepNames == NetworkSpec => NamesAreKept
<1>1. LkInv /\ [NetworkNext]_all =>
        [\A l \in links : \E k \in links' : k.link_id = l.link_id /\ k.name = l.name]_links
  BY NetworkSteps, LinksStep DEF SameRow
<1>2. QED
  BY <1>1, NetworkLinks, PTL DEF NetworkSpec, NamesAreKept, L!NamesAreKept
=============================================================================
