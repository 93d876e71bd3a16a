----------------------------- MODULE TowerCache -----------------------------
(***************************************************************************)
(* The in-memory cache in front of the towers table: TowerService.List and *)
(* GetByID look in it, query the database on a miss and store what they    *)
(* got; TowerService writes a row and then invalidates it and every list.  *)
(* Each of these is a critical section or a statement of its own.  Other   *)
(* processes, and the NetEco poll, write rows without touching the cache.  *)
(*                                                                         *)
(* Definitions that no other definition uses, each just before the one it  *)
(* resembles, are plausible bugs that the properties are tested with.      *)
(***************************************************************************)
EXTENDS Naturals

CONSTANTS
    Towers,      \* towers, which are also their own names
    Readers,     \* requests that read
    Writers,     \* requests and collectors that write through TowerService
    Filters,     \* the filters requests list with, a subset of Filter
    MaxVersion,  \* bound on the number of times a row is written
    Elsewhere    \* whether rows are also written without TowerService

VARIABLES
    row,       \* the towers table: the version and the status of each row
    details,   \* detailEntries
    lists,     \* listEntries
    pc,        \* what each request does next
    job,       \* the filter or the tower a reader asks for, the tower a writer writes
    got,       \* the rows a reader has and is still to store or to answer with
    overlap    \* towers written elsewhere, or while a reader had them in hand

vars == <<row, details, lists, pc, job, got, overlap>>

Every == "every"
Statuses == {"online", "offline"}
Filter == [status : Statuses \cup {Every}, name : Towers \cup {Every}]

ASSUME CacheAssumption ==
    MaxVersion \in Nat /\ Elsewhere \in BOOLEAN /\ Filters \subseteq Filter

\* What a row looks like to those who read it.
Shown == [tower : Towers, version : 0..MaxVersion, status : Statuses]

Missing == [none |-> TRUE]
Nobody == {}

Init ==
    /\ row = [t \in Towers |-> [version |-> 0, status |-> "offline"]]
    /\ details = [t \in Towers |-> Missing]
    /\ lists = [k \in Statuses \cup {Every} |-> Missing]
    /\ pc = [p \in Readers \cup Writers |-> "idle"]
    /\ job = [p \in Readers \cup Writers |-> Missing]
    /\ got = [r \in Readers |-> Nobody]
    /\ overlap = {}

Now(t) == [tower |-> t, version |-> row[t].version, status |-> row[t].status]

\* The rows the database lists for a filter.
Listed(f) ==
    {Now(t) : t \in {u \in Towers : /\ f.status \in {Every, row[u].status}
                                    /\ f.name \in {Every, u}}}

\* listKey names the status, the operator, the region and the page of a filter.
OneKey(f) == Every

listKey(f) == f.status

-----------------------------------------------------------------------------
(* Readers: GetList and GetByID of the cache, then the query, then SetList   *)
(* and SetByID.                                                              *)

StartList(r, f) ==
    /\ pc[r] = "idle"
    /\ pc' = [pc EXCEPT ![r] = "lookup"]
    /\ job' = [job EXCEPT ![r] = [list |-> f]]
    /\ UNCHANGED <<row, details, lists, got, overlap>>

StartGet(r, t) ==
    /\ pc[r] = "idle"
    /\ pc' = [pc EXCEPT ![r] = "lookup"]
    /\ job' = [job EXCEPT ![r] = [id |-> t]]
    /\ UNCHANGED <<row, details, lists, got, overlap>>

IsList(r) == DOMAIN job[r] = {"list"}
Entry(r) == IF IsList(r) THEN lists[listKey(job[r].list)] ELSE details[job[r].id]

\* An entry within its time answers the request, an older one is dropped.
SlidingLookUp(r) ==
    /\ pc[r] = "lookup"
    /\ \/ /\ Entry(r) = Missing
          /\ pc' = [pc EXCEPT ![r] = "query"]
          /\ UNCHANGED <<details, got>>
       \/ /\ Entry(r) # Missing
          /\ pc' = [pc EXCEPT ![r] = "answer"]
          /\ got' = [got EXCEPT ![r] = Entry(r).rows]
          /\ details' = IF IsList(r) THEN details ELSE [details EXCEPT ![job[r].id].expired = FALSE]
    /\ UNCHANGED <<row, lists, job, overlap>>

LookUp(r) ==
    /\ pc[r] = "lookup"
    /\ \/ /\ Entry(r) = Missing
          /\ pc' = [pc EXCEPT ![r] = "query"]
          /\ UNCHANGED got
       \/ /\ Entry(r) # Missing /\ Entry(r).expired
          /\ pc' = [pc EXCEPT ![r] = "drop"]
          /\ UNCHANGED got
       \/ /\ Entry(r) # Missing /\ ~Entry(r).expired
          /\ pc' = [pc EXCEPT ![r] = "answer"]
          /\ got' = [got EXCEPT ![r] = Entry(r).rows]
    /\ UNCHANGED <<row, details, lists, job, overlap>>

\* The entry is deleted in a critical section of its own: another request may
\* have stored a new one meanwhile.
Drop(r) ==
    /\ pc[r] = "drop"
    /\ pc' = [pc EXCEPT ![r] = "query"]
    /\ IF IsList(r)
       THEN lists' = [lists EXCEPT ![listKey(job[r].list)] = Missing] /\ UNCHANGED details
       ELSE details' = [details EXCEPT ![job[r].id] = Missing] /\ UNCHANGED lists
    /\ UNCHANGED <<row, job, got, overlap>>

Query(r) ==
    /\ pc[r] = "query"
    /\ pc' = [pc EXCEPT ![r] = IF IsList(r) THEN "setlist" ELSE "setbyid"]
    /\ got' = [got EXCEPT ![r] = IF IsList(r) THEN Listed(job[r].list) ELSE {Now(job[r].id)}]
    /\ UNCHANGED <<row, details, lists, job, overlap>>

\* A request whose query fails stores nothing.
QueryFailsEmpty(r) ==
    /\ pc[r] = "query"
    /\ pc' = [pc EXCEPT ![r] = IF IsList(r) THEN "setlist" ELSE "setbyid"]
    /\ UNCHANGED <<row, details, lists, job, got, overlap>>

QueryFailsCached(r) ==
    /\ pc[r] = "query"
    /\ pc' = [pc EXCEPT ![r] = "idle"]
    /\ details' = IF IsList(r) THEN details
                  ELSE [details EXCEPT ![job[r].id] = [rows |-> Nobody, expired |-> FALSE]]
    /\ UNCHANGED <<row, lists, job, got, overlap>>

QueryFails(r) ==
    /\ pc[r] = "query"
    /\ pc' = [pc EXCEPT ![r] = "idle"]
    /\ job' = [job EXCEPT ![r] = Missing]
    /\ UNCHANGED <<row, details, lists, got, overlap>>

\* The entry remembers the filter of the request that stored it.
SetList(r) ==
    /\ pc[r] = "setlist"
    /\ lists' = [lists EXCEPT ![listKey(job[r].list)] =
                    [rows |-> got[r], filter |-> job[r].list, expired |-> FALSE]]
    /\ pc' = [pc EXCEPT ![r] = "setbyid"]
    /\ UNCHANGED <<row, details, job, got, overlap>>

\* One row of the result at a time.
SetByID(r) ==
    /\ pc[r] = "setbyid"
    /\ \E s \in got[r] :
          /\ details' = [details EXCEPT ![s.tower] = [rows |-> {s}, expired |-> FALSE]]
          /\ got' = [got EXCEPT ![r] = @ \ {s}]
    /\ UNCHANGED <<row, lists, pc, job, overlap>>

Finish(r) ==
    /\ pc[r] = "answer" \/ (pc[r] = "setbyid" /\ got[r] = Nobody)
    /\ pc' = [pc EXCEPT ![r] = "idle"]
    /\ job' = [job EXCEPT ![r] = Missing]
    /\ got' = [got EXCEPT ![r] = Nobody]
    /\ UNCHANGED <<row, details, lists, overlap>>

-----------------------------------------------------------------------------
(* Writers.                                                                 *)

InHand(t) == \E r \in Readers : pc[r] \in {"setlist", "setbyid"} /\ (IsList(r) \/ job[r].id = t)

Changes(t, status) ==
    /\ row[t].version < MaxVersion
    /\ row' = [row EXCEPT ![t] = [version |-> @.version + 1, status |-> status]]

Upsert(w, t, status) ==
    /\ pc[w] = "idle"
    /\ Changes(t, status)
    /\ pc' = [pc EXCEPT ![w] = "wrote"]
    /\ job' = [job EXCEPT ![w] = [id |-> t]]
    /\ overlap' = IF InHand(t) THEN overlap \cup {t} ELSE overlap
    /\ UNCHANGED <<details, lists, got>>

ForgetTower(w) ==
    /\ pc[w] = "wrote"
    /\ pc' = [pc EXCEPT ![w] = "invalidated"]
    /\ UNCHANGED <<row, details, lists, job, got, overlap>>

InvalidateTower(w) ==
    /\ pc[w] = "wrote"
    /\ details' = [details EXCEPT ![job[w].id] = Missing]
    /\ pc' = [pc EXCEPT ![w] = "invalidated"]
    /\ UNCHANGED <<row, lists, job, got, overlap>>

InvalidateList(w) ==
    /\ pc[w] = "invalidated"
    /\ lists' = [k \in DOMAIN lists |-> Missing]
    /\ pc' = [pc EXCEPT ![w] = "idle"]
    /\ job' = [job EXCEPT ![w] = Missing]
    /\ UNCHANGED <<row, details, got, overlap>>

\* NetEcoIngestService writes through the repository; the scheduler process
\* has a cache of its own.
WriteElsewhere(t, status) ==
    /\ Elsewhere
    /\ Changes(t, status)
    /\ overlap' = overlap \cup {t}
    /\ UNCHANGED <<details, lists, pc, job, got>>

\* A time to live runs out.
ExpireTower(t) ==
    /\ details[t] # Missing /\ ~details[t].expired
    /\ details' = [details EXCEPT ![t].expired = TRUE]
    /\ UNCHANGED <<row, lists, pc, job, got, overlap>>

ExpireList(k) ==
    /\ lists[k] # Missing /\ ~lists[k].expired
    /\ lists' = [lists EXCEPT ![k].expired = TRUE]
    /\ UNCHANGED <<row, details, pc, job, got, overlap>>

Read(r) == LookUp(r) \/ Drop(r) \/ Query(r) \/ SetList(r) \/ SetByID(r) \/ Finish(r)
Invalidate(w) == InvalidateTower(w) \/ InvalidateList(w)

Next ==
    \/ \E r \in Readers :
          \/ \E f \in Filters : StartList(r, f)
          \/ \E t \in Towers : StartGet(r, t)
          \/ Read(r)
          \/ QueryFails(r)
    \/ \E w \in Writers :
          \/ \E t \in Towers, status \in Statuses : Upsert(w, t, status)
          \/ Invalidate(w)
    \/ \E t \in Towers, status \in Statuses : WriteElsewhere(t, status)
    \/ \E t \in Towers : ExpireTower(t)
    \/ \E k \in DOMAIN lists : ExpireList(k)

Spec == Init /\ [][Next]_vars

\* Requests that have started end, and time passes.
Fairness ==
    /\ \A r \in Readers : WF_vars(Read(r))
    /\ \A w \in Writers : WF_vars(Invalidate(w))
    /\ \A t \in Towers : WF_vars(ExpireTower(t))
    /\ \A k \in Statuses \cup {Every} : WF_vars(ExpireList(k))

FairSpec == Spec /\ Fairness

-----------------------------------------------------------------------------
\* A detail entry holds one row, of its own tower.
TypeOK ==
    /\ row \in [Towers -> [version : 0..MaxVersion, status : Statuses]]
    /\ \A t \in Towers :
          details[t] # Missing => \E s \in Shown : s.tower = t /\ details[t].rows = {s}
    /\ \A k \in DOMAIN lists : lists[k] = Missing \/ lists[k].rows \subseteq Shown
    /\ \A r \in Readers : got[r] \subseteq Shown
    /\ overlap \subseteq Towers

Stale(t) == details[t] # Missing /\ details[t].rows # {Now(t)}
StaleList(k) == lists[k] # Missing /\ lists[k].rows # Listed(lists[k].filter)

\* A cached tower differs from its row only while the writer of the row has yet
\* to invalidate it, or because it was written elsewhere or while a reader had
\* it in hand (TowerService.GetByID, invalidateTowerCache).
StaleTowerHasCause ==
    \A t \in Towers :
        Stale(t) => \/ t \in overlap
                    \/ \E w \in Writers : pc[w] = "wrote" /\ job[w].id = t

\* The same for lists, which every write invalidates (TowerService.List).
StaleListHasCause ==
    \A k \in DOMAIN lists :
        StaleList(k) => \/ overlap # {}
                        \/ \E w \in Writers : pc[w] \in {"wrote", "invalidated"}

\* A list shows no tower with another status than the one asked for, stale or
\* not (listKey).
ListShowsItsStatus ==
    \A r \in Readers, f \in Filters :
        job[r] = [list |-> f] => \A s \in got[r] : f.status \in {Every, s.status}

\* A list shows no tower with another name than the one asked for.
ListShowsItsName ==
    \A r \in Readers, f \in Filters :
        job[r] = [list |-> f] => \A s \in got[r] : f.name \in {Every, s.tower}

\* The invariants of the cache together.
CacheInv == TypeOK /\ StaleTowerHasCause /\ StaleListHasCause /\ ListShowsItsStatus

\* However reads and writes overlapped, once writing stops the cache comes to
\* hold no tower that differs from its row and that a request could still be
\* answered with (TowerCache.GetByID).
ComesToShowTheRows ==
    <>[](\A t \in Towers : Stale(t) => details[t].expired)
=============================================================================
