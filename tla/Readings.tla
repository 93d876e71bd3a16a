------------------------------ MODULE Readings ------------------------------
(***************************************************************************)
(* The tables of readings of one tower: its backhaul interfaces, its radio *)
(* and the environment of its site.  A reading arrives alone or in a batch *)
(* that is checked as a whole and inserted in one transaction; a page is   *)
(* read in two statements, and a client asks for page after page while     *)
(* others insert.                                                          *)
(*                                                                         *)
(* The handlers accept POST although the router mounts only their GETs, so *)
(* that today only the pollers send; the services are modelled as written. *)
(* The radio's statements name columns and parameters that the database    *)
(* does not have, so each of them fails.                                   *)
(*                                                                         *)
(* Abstracted: a reading is its tag (the interface's name; for a site, what *)
(* the boolean filters tell apart), its instant, and whether the fields    *)
(* its service requires are there.  Ahead units of time are the five       *)
(* minutes by which an instant may lie in the future.  What is not stored  *)
(* is forgotten, and received_at is always the server's.                   *)
(*                                                                         *)
(* A definition that nothing uses, placed just before the one it resembles, *)
(* is a plausible mistake in that one.                                     *)
(***************************************************************************)
EXTENDS Integers, FiniteSets, SequencesExt

CONSTANTS
    Tags,        \* interfaces; what the filters of a site tell apart
    If0,         \* the tag of what the pollers send
    MaxClock,    \* bound: the last instant
    MaxBatches,  \* bound: how many readings or batches are accepted
    MaxReadings, \* bound: how many readings they hold
    PageSize,    \* the limit a client asks for
    StatusRows,  \* how many rows a tower's status looks at (1000)
    None

Parameters ==
    /\ If0 \in Tags
    /\ MaxClock \in Nat /\ MaxBatches \in Nat /\ PageSize \in Nat /\ StatusRows \in Nat
    /\ None \notin Nat \cup Tags \cup {"ok", "error", "refused"}
    /\ None \notin [tag : Tags, measured : Nat]
    /\ None \notin [tag : Tags, measured : Nat \cup {None}, complete : BOOLEAN]

Kinds == {"backhaul", "radio", "site"}
Batches == 1 .. MaxBatches
Ahead == 1
Instants == 0 .. MaxClock + Ahead + 1

VARIABLES
    clock,
    sent,    \* the batches, in the order in which their services accepted them
    rows,    \* the rows of the three tables
    purged,  \* history: the batches of which DeleteOlderThan removed rows
    page     \* a client that reads a table page by page

vars == <<clock, sent, rows, purged, page>>

\* What a client may send; measured = None leaves the instant to the server.
BackhaulInterface == [tag : Tags, measured : {None, 0, clock + Ahead + 1}, complete : BOOLEAN]
RadioKPI == [tag : {If0}, measured : {None, clock + Ahead + 1}, complete : BOOLEAN]
SiteEnvironment == [tag : Tags, measured : {None, 0, clock + Ahead + 1}, complete : BOOLEAN]

NoPage == [pc |-> "idle", kind |-> None, tag |-> None, offset |-> 0,
           had |-> {}, seen |-> {}, shifted |-> FALSE]

TypeOK ==
    /\ clock \in 0 .. MaxClock
    /\ Len(sent) <= MaxBatches
    /\ \A b \in DOMAIN sent :
          /\ sent[b].kind \in Kinds
          /\ sent[b].how \in {"one", "many", "poll"}
          /\ sent[b].answer \in {None, "ok", "error", "refused"}
          /\ sent[b].done \in 0 .. Len(sent[b].items)
          /\ sent[b].received \in 0 .. MaxClock
          /\ \A i \in DOMAIN sent[b].items :
                sent[b].items[i] \in [tag : Tags, measured : Instants] \cup {None}
    /\ rows \subseteq [batch : DOMAIN sent, item : {1, 2}]
    /\ purged \subseteq DOMAIN sent
    /\ page.pc \in {"idle", "rows", "count", "done"}
    /\ page.had \cup page.seen \subseteq [batch : DOMAIN sent, item : {1, 2}]

Init ==
    /\ clock = 0
    /\ sent = <<>>
    /\ rows = {}
    /\ purged = {}
    /\ page = NoPage

-----------------------------------------------------------------------------
(* Sending. *)

Reading(r) == sent[r.batch].items[r.item]
Kind(r) == sent[r.batch].kind

StampedByTheClient(x) == IF x = None THEN None ELSE [tag |-> x.tag, measured |-> x.measured]

\* An instant the sender leaves out is the server's.
Stamped(x) == IF x = None THEN None
              ELSE [tag |-> x.tag, measured |-> IF x.measured = None THEN clock ELSE x.measured]
Future(x) == x.measured # None /\ x.measured > clock + Ahead

Held == FoldSeq(LAMBDA batch, n : Len(batch.items) + n, 0, sent)

Accept(kind, how, items, answer) ==
    /\ Held + Len(items) <= MaxReadings
    /\ sent' = Append(sent, [kind |-> kind, how |-> how, items |-> items,
                             done |-> 0, answer |-> answer, received |-> clock])

\* One reading, one INSERT, which may fail (Create).
Insert(kind, x) ==
    \/ /\ Accept(kind, "one", <<Stamped(x)>>, "ok")
       /\ rows' = rows \cup {[batch |-> Len(sent) + 1, item |-> 1]}
    \/ /\ Accept(kind, "one", <<>>, "error")
       /\ UNCHANGED rows

\* BackhaulInterfaceService.CollectInterface.
CollectInterface ==
    \E x \in BackhaulInterface :
        /\ x.complete
        /\ ~Future(x)
        /\ Insert("backhaul", x)
        /\ UNCHANGED <<clock, purged, page>>

SiteCreate(x) == Insert("site", x)

\* SiteEnvironmentService.CollectEnvironment wants the instant too.
CollectEnvironment ==
    \E x \in SiteEnvironment :
        /\ x.complete
        /\ x.measured # None
        /\ ~Future(x)
        /\ SiteCreate(x)
        /\ UNCHANGED <<clock, purged, page>>

BatchesOf(S) == {<<x>> : x \in S} \cup S \X S

\* The transaction of a batch begins.
Begin(kind, how, items) ==
    /\ Accept(kind, how, [i \in DOMAIN items |-> Stamped(items[i])], None)
    /\ UNCHANGED <<clock, rows, purged, page>>

\* CollectMultipleInterfaces refuses a batch with an incomplete reading; it does
\* not look for instants in the future.
CollectMultipleInterfaces ==
    \E items \in BatchesOf(BackhaulInterface) :
        /\ \A i \in DOMAIN items : items[i].complete
        /\ Begin("backhaul", "many", items)

\* The INSERT of the radio's CreateMany cannot be prepared.
RadioCreateMany ==
    /\ Accept("radio", "many", <<>>, "error")
    /\ UNCHANGED <<clock, rows, purged, page>>

\* IngestKPIs refuses both.
IngestKPIs ==
    \E x \in RadioKPI :
        /\ x.complete /\ ~Future(x)
        /\ RadioCreateMany

CollectMultipleEnvironmentUnchecked ==
    \E items \in BatchesOf(SiteEnvironment \cup {None}) :
        /\ \A i \in DOMAIN items : items[i] # None => items[i].complete
        /\ Begin("site", "many", items)

\* CollectMultipleEnvironment refuses both, and skips what is nil.
CollectMultipleEnvironment ==
    \E items \in BatchesOf(SiteEnvironment \cup {None}) :
        /\ \A i \in DOMAIN items : items[i] # None => items[i].complete /\ ~Future(items[i])
        /\ Begin("site", "many", items)

Present(b) == {i \in DOMAIN sent[b].items : sent[b].items[i] # None}

\* CreateMany inserts the next reading.
ExecContext(b) ==
    /\ sent[b].answer = None
    /\ sent[b].done < Len(sent[b].items)
    /\ sent' = [sent EXCEPT ![b].done = @ + 1]
    /\ UNCHANGED <<clock, rows, purged, page>>

RollbackForgotten(b) ==
    /\ sent[b].answer = None
    /\ sent[b].done < Len(sent[b].items)
    /\ sent' = [sent EXCEPT ![b].answer = "error"]
    /\ rows' = rows \cup {[batch |-> b, item |-> i] : i \in Present(b) \cap 1 .. sent[b].done}
    /\ UNCHANGED <<clock, purged, page>>

\* A statement fails: the transaction is rolled back.
Rollback(b) ==
    /\ sent[b].answer = None
    /\ sent[b].done < Len(sent[b].items)
    /\ sent' = [sent EXCEPT ![b].answer = "error", ![b].done = 0, ![b].items = <<>>]
    /\ UNCHANGED <<clock, rows, purged, page>>

Stores(b) == rows' = rows \cup {[batch |-> b, item |-> i] : i \in Present(b)}

\* The transaction of a batch commits.
Commit(b) ==
    /\ sent[b].answer = None
    /\ sent[b].done = Len(sent[b].items)
    /\ sent' = [sent EXCEPT ![b].answer = "ok", ![b].done = 0]
    /\ Stores(b)
    /\ UNCHANGED <<clock, purged, page>>

CommitErrorAlwaysLost(b) == "ok"

\* CreateMany of a site returns the error of a commit; that of a backhaul gives it
\* to a variable that nobody returns.
CommitError(b) == IF sent[b].kind = "site" THEN "error" ELSE "ok"

\* COMMIT fails, and does not tell whether it took place.
CommitFails(b) ==
    /\ sent[b].answer = None
    /\ sent[b].done = Len(sent[b].items)
    /\ sent' = [sent EXCEPT ![b].answer = CommitError(b), ![b].done = 0]
    /\ Stores(b) \/ UNCHANGED rows
    /\ UNCHANGED <<clock, purged, page>>

-----------------------------------------------------------------------------
(* The pollers: what they collect is sent as a batch of one. *)

Samples == SUBSET {"admin", "oper", "octets"}

\* A reading if there is anything to say, complete with both statuses.
convertSamplesToBackhaulInterfaces(samples) ==
    IF samples = {} THEN <<>>
    ELSE <<[tag |-> If0, measured |-> clock, complete |-> {"admin", "oper"} \subseteq samples]>>

\* Without the technique of the cell.
convertSamplesToRadioKPIs ==
    <<[tag |-> If0, measured |-> clock, complete |-> FALSE]>>

convertSamplesToSiteEnvEveryMinute ==
    <<[tag |-> If0, measured |-> clock, complete |-> TRUE]>>

\* With an interval of zero seconds, which is not positive.
convertSamplesToSiteEnv ==
    <<[tag |-> If0, measured |-> clock, complete |-> FALSE]>>

\* The poller logs what the service refuses.
Poll(kind, items) ==
    /\ items # <<>>
    /\ IF items[1].complete THEN Begin(kind, "poll", items)
       ELSE /\ Accept(kind, "poll", <<>>, "refused")
            /\ UNCHANGED <<clock, rows, purged, page>>

BackhaulCollectOnce == \E samples \in Samples : Poll("backhaul", convertSamplesToBackhaulInterfaces(samples))
RadioCollectOnce == Poll("radio", convertSamplesToRadioKPIs)
SiteCollectOnce == Poll("site", convertSamplesToSiteEnv)

-----------------------------------------------------------------------------
(* Reading. *)

\* ORDER BY measured_at DESC LIMIT n: nothing orders rows of the same instant.
Newest(S, n) ==
    {T \in SUBSET S :
        /\ Cardinality(T) = (IF Cardinality(S) < n THEN Cardinality(S) ELSE n)
        /\ \A r \in T, s \in S \ T : Reading(r).measured >= Reading(s).measured}

Table(kind) == {r \in rows : Kind(r) = kind}
Named(S, tag) == {r \in S : tag # None => Reading(r).tag = tag}

\* The filters of a backhaul page are in both of its statements.
BackhaulWhere(tag) == Named(Table("backhaul"), tag)
BackhaulCount(tag) == Cardinality(BackhaulWhere(tag))

\* GetEnvironmentHistory does not pass the boolean filters on: the handler applies
\* them to the page (filterEnvironment), and the total counts every row of the site.
SiteWhere == Table("site")
SiteCount == Cardinality(SiteWhere)

Matching(kind, tag) == Named(Table(kind), tag)

\* A client asks for the first page.
Ask(kind, tag) ==
    /\ page.pc = "idle"
    /\ page' = [NoPage EXCEPT !.pc = "rows", !.kind = kind, !.tag = tag, !.had = Matching(kind, tag)]
    /\ UNCHANGED <<clock, sent, rows, purged>>

BackhaulAsk == \E tag \in {None, If0} : Ask("backhaul", tag)
RadioAsk == Ask("radio", None)
SiteAsk == \E tag \in {None, If0} : Ask("site", tag)

\* The statement of the rows: the page at the offset, and what is shown of it.
Page(where, filter) ==
    /\ page.pc = "rows"
    /\ \E before \in Newest(where, page.offset) :
          \E now \in Newest(where \ before, PageSize) :
              page' = [page EXCEPT !.pc = "count", !.seen = @ \cup Named(now, filter)]
    /\ UNCHANGED <<clock, sent, rows, purged>>

BackhaulList == page.kind = "backhaul" /\ Page(BackhaulWhere(page.tag), None)
SiteList == page.kind = "site" /\ Page(SiteWhere, page.tag)

\* The answer tells a client whether there is more to ask for.
MorePages(total) ==
    /\ page.pc = "count"
    /\ page' = IF page.offset + PageSize < total
               THEN [page EXCEPT !.pc = "rows", !.offset = @ + PageSize]
               ELSE [page EXCEPT !.pc = "done", !.offset = 0]
    /\ UNCHANGED <<clock, sent, rows, purged>>

BackhaulTotalOfThePage == page.kind = "backhaul" /\ MorePages(PageSize)
BackhaulTotal == page.kind = "backhaul" /\ MorePages(BackhaulCount(page.tag))
SiteTotal == page.kind = "site" /\ MorePages(SiteCount)

\* A page of the radio's readings names columns that its table does not have.
RadioList ==
    /\ page.pc = "rows" /\ page.kind = "radio"
    /\ page' = NoPage
    /\ UNCHANGED <<clock, sent, rows, purged>>

\* The client has all its pages, or one of them failed.
Leave ==
    /\ page.pc # "idle"
    /\ page' = NoPage
    /\ UNCHANGED <<clock, sent, rows, purged>>

\* The newest reading of an interface, of a site.
GetLatestInterface(tag) == Newest(Named(Table("backhaul"), tag), 1)
GetLatestEnvironment == Newest(Table("site"), 1)

TowerStatusLastSeen(top) ==
    {r \in top : \A s \in top : Reading(s).tag = Reading(r).tag => Reading(s).measured >= Reading(r).measured}

\* GetTowerBackhaulStatus, of the newest rows top: the first of each interface.
TowerStatus(top) ==
    {r \in top : \A s \in top : Reading(s).tag = Reading(r).tag => Reading(s).measured <= Reading(r).measured}

-----------------------------------------------------------------------------
(* DeleteOlderThan, which no job calls yet: by the instant of arrival. *)

Delete(kind, t) ==
    LET gone == {r \in Table(kind) : sent[r.batch].received < t} IN
    /\ gone # {}
    /\ rows' = rows \ gone
    /\ purged' = purged \cup {r.batch : r \in gone}
    /\ page' = [page EXCEPT !.shifted = page.pc # "idle"]
    /\ UNCHANGED <<clock, sent>>

BackhaulDeleteOlderThan == \E t \in 1 .. MaxClock : Delete("backhaul", t)
SiteDeleteOlderThan == \E t \in 1 .. MaxClock : Delete("site", t)

Tick ==
    /\ clock < MaxClock
    /\ clock' = clock + 1
    /\ UNCHANGED <<sent, rows, purged, page>>

\* A poller or a client sends.
Send ==
    /\ Len(sent) < MaxBatches
    /\ \/ CollectInterface \/ CollectEnvironment
       \/ CollectMultipleInterfaces \/ IngestKPIs \/ CollectMultipleEnvironment
       \/ BackhaulCollectOnce \/ RadioCollectOnce \/ SiteCollectOnce

\* What was sent goes on, is read or is deleted.
Proceed ==
    \/ \E b \in DOMAIN sent : ExecContext(b) \/ Rollback(b) \/ Commit(b) \/ CommitFails(b)
    \/ BackhaulAsk \/ RadioAsk \/ SiteAsk \/ BackhaulList \/ SiteList \/ RadioList
    \/ BackhaulTotal \/ SiteTotal \/ Leave
    \/ BackhaulDeleteOlderThan \/ SiteDeleteOlderThan
    \/ Tick

Next == Send \/ Proceed

Spec == Init /\ [][Next]_vars

-----------------------------------------------------------------------------
(* Properties. *)

StoredOf(b) == {r.item : r \in {s \in rows : s.batch = b}}

\* A batch is stored as a whole or not at all, whichever statement of its
\* transaction failed, until old rows are deleted.
BatchIsWhole ==
    \A b \in DOMAIN sent \ purged : StoredOf(b) \in {{}, Present(b)}

\* Who is told that his readings are stored finds them stored, except a batch of
\* backhaul readings, whose CreateMany loses the error of its commit.
OkIsStored ==
    \A b \in DOMAIN sent \ purged :
        /\ sent[b].answer = "ok"
        /\ StoredOf(b) # Present(b)
        => sent[b].kind = "backhaul" /\ sent[b].how # "one"

\* The latest reading of a site never lies in the future; that of an interface does
\* only if it came in a batch, whose instants nothing checks: then it hides the
\* interface's later readings until its time comes.
FutureOnlyFromBatches ==
    /\ \A latest \in GetLatestEnvironment :
          \A r \in latest : Reading(r).measured <= clock + Ahead
    /\ \A tag \in Tags : \A latest \in GetLatestInterface(tag) :
          \A r \in latest :
              Reading(r).measured > sent[r.batch].received + Ahead => sent[r.batch].how = "many"

\* Of what the pollers collect only the backhaul readings can ever be stored.
OnlyBackhaulIsPolled ==
    \A b \in DOMAIN sent :
        sent[b].how = "poll" /\ sent[b].answer = "ok" => sent[b].kind = "backhaul"

\* A tower's status shows of each interface the reading that GetLatestInterface
\* answers, or one of the same instant, unless so many readings of others are newer
\* that the status does not look at it.
StatusShowsTheLatest ==
    \A top \in Newest(Table("backhaul"), StatusRows), tag \in Tags :
        \A latest \in GetLatestInterface(tag) : \A r \in latest :
            \/ \E s \in TowerStatus(top) :
                  Reading(s).tag = tag /\ Reading(s).measured = Reading(r).measured
            \/ /\ Cardinality(top) = StatusRows
               /\ \A s \in top : Reading(s).tag # tag /\ Reading(s).measured >= Reading(r).measured

\* A client that reads all pages while others insert sees every reading that was
\* there when it began, unless two readings have the same instant, which nothing
\* orders, or old ones were deleted meanwhile.
PagesMissOnlyTies ==
    page.pc = "done" /\ ~page.shifted =>
        \A r \in page.had \ page.seen :
            \E s \in Table(page.kind) \ {r} : Reading(s).measured = Reading(r).measured

\* The invariants of what is stored, then those of what is read.
ReadingsInv ==
    /\ TypeOK /\ BatchIsWhole /\ OkIsStored /\ FutureOnlyFromBatches /\ OnlyBackhaulIsPolled
    /\ StatusShowsTheLatest /\ PagesMissOnlyTies
=============================================================================
