-------------------------- MODULE CollectionCycle --------------------------
(***************************************************************************)
(* A scheduler's CollectOnce: it lists the towers page by page, a count    *)
(* and a page at a time, hands each tower of a page to a goroutine, at     *)
(* most `concurrency' of them at a time, and waits for them before the     *)
(* next page.  Towers are created meanwhile; created_at, which orders the  *)
(* pages, is stamped before the row is committed.  SNMPScheduler runs many *)
(* goroutines; the backhaul, radio, environment and Nagios schedulers work *)
(* through a page themselves, which is a concurrency of one.               *)
(*                                                                         *)
(* Definitions that no other definition uses, each just before the one it  *)
(* resembles, are plausible bugs that the properties are tested with.      *)
(***************************************************************************)
EXTENDS Naturals, Sequences, SequencesExt, FiniteSets

CONSTANTS
    Towers,       \* the towers there are to create
    BatchSize,    \* POLL_BATCH_SIZE
    Concurrency,  \* the size of the semaphore
    Faults        \* "list": a List fails; "stop": the context is cancelled

Parameters ==
    /\ IsFiniteSet(Towers)
    /\ BatchSize \in Nat \ {0}
    /\ Concurrency \in Nat \ {0}

VARIABLES
    stamped,    \* the created_at of each tower, 0 until it has one
    committed,  \* the towers in the table
    pc,         \* what CollectOnce does next
    offset,     \* the towers of the pages so far
    total,      \* what the last List counted
    page,       \* the towers of the page still to hand out
    running,    \* how many goroutines collect each tower
    counted,    \* the sum of the cycle's counters
    started,    \* the towers handed out in this cycle
    atStart     \* the towers in the table when the cycle started

vars == <<stamped, committed, pc, offset, total, page, running, counted, started, atStart>>
table == <<stamped, committed>>
pool == <<running, counted, started>>

Init ==
    /\ stamped = [t \in Towers |-> 0]
    /\ committed = {}
    /\ pc = "idle"
    /\ offset = 0 /\ total = 0 /\ page = <<>>
    /\ running = [t \in Towers |-> 0]
    /\ counted = 0
    /\ started = <<>>
    /\ atStart = {}

InFlight == Cardinality({t \in Towers : running[t] > 0})

-----------------------------------------------------------------------------
(* TowerService.Save stamps created_at, then the Upsert commits.            *)

Stamped == {t \in Towers : stamped[t] # 0}

Stamp(t) ==
    /\ t \notin Stamped
    /\ stamped' = [stamped EXCEPT ![t] = Cardinality(Stamped) + 1]
    /\ UNCHANGED <<committed, pc, offset, total, page, pool, atStart>>

Commit(t) ==
    /\ t \in Stamped \ committed
    /\ committed' = committed \cup {t}
    /\ UNCHANGED <<stamped, pc, offset, total, page, pool, atStart>>

-----------------------------------------------------------------------------
(* The loop of CollectOnce.                                                 *)

Begin ==
    /\ pc = "idle"
    /\ pc' = "count"
    /\ offset' = 0 /\ counted' = 0 /\ started' = <<>>
    /\ atStart' = committed
    /\ UNCHANGED <<table, total, page, running>>

Count ==
    /\ pc = "count"
    /\ total' = Cardinality(committed)
    /\ pc' = "list"
    /\ UNCHANGED <<table, offset, page, pool, atStart>>

\* ORDER BY created_at ASC LIMIT BatchSize OFFSET offset.
Precedes(u, t) == stamped[u] < stamped[t]

Earlier(t) == {u \in committed : Precedes(u, t)}

Rows ==
    [n \in 1..Cardinality(committed) |->
        CHOOSE t \in committed : Cardinality(Earlier(t)) = n - 1]

ListByBatches ==
    /\ pc = "list"
    /\ LET last == offset + BatchSize
       IN page' = SubSeq(Rows, offset + 1, IF last < Len(Rows) THEN last ELSE Len(Rows))
    /\ offset' = offset + BatchSize
    /\ pc' = "hand out"
    /\ UNCHANGED <<table, total, pool, atStart>>

List ==
    /\ pc = "list"
    /\ LET last == offset + BatchSize
       IN page' = SubSeq(Rows, offset + 1, IF last < Len(Rows) THEN last ELSE Len(Rows))
    /\ offset' = offset + Len(page')
    /\ pc' = "hand out"
    /\ UNCHANGED <<table, total, pool, atStart>>

\* A cycle whose List fails is over.
ListFails ==
    /\ "list" \in Faults
    /\ pc \in {"count", "list"}
    /\ pc' = "failed"
    /\ UNCHANGED <<table, offset, total, page, pool, atStart>>

\* wg.Add(1), sem <- struct{}{}, go collectTower.
HandOut ==
    /\ pc = "hand out" /\ page # <<>>
    /\ InFlight < Concurrency
    /\ running' = [running EXCEPT ![Head(page)] = @ + 1]
    /\ started' = Append(started, Head(page))
    /\ page' = Tail(page)
    /\ UNCHANGED <<table, pc, offset, total, counted, atStart>>

\* collectTower returns, whatever came of it; the goroutine adds to a counter,
\* frees its place and is done.
CollectUncounted(t) ==
    /\ running[t] > 0
    /\ running' = [running EXCEPT ![t] = @ - 1]
    /\ UNCHANGED <<table, pc, offset, total, page, counted, started, atStart>>

Collect(t) ==
    /\ running[t] > 0
    /\ running' = [running EXCEPT ![t] = @ - 1]
    /\ counted' = counted + 1
    /\ UNCHANGED <<table, pc, offset, total, page, started, atStart>>

\* wg.Wait, and whether there is another page.
AfterPageByTotal == IF offset + BatchSize < total THEN "count" ELSE "done"

AfterPage == IF offset < total THEN "count" ELSE "done"

WaitForNobody ==
    /\ pc = "hand out" /\ page = <<>>
    /\ pc' = AfterPage
    /\ UNCHANGED <<table, offset, total, page, pool, atStart>>

Wait ==
    /\ pc = "hand out" /\ page = <<>>
    /\ InFlight = 0
    /\ pc' = AfterPage
    /\ UNCHANGED <<table, offset, total, page, pool, atStart>>

\* The ticker starts the next cycle.
Tick ==
    /\ pc \in {"done", "failed"}
    /\ pc' = "idle"
    /\ UNCHANGED <<table, offset, total, page, pool, atStart>>

Stop ==
    /\ "stop" \in Faults
    /\ pc \in {"done", "failed", "idle"}
    /\ pc' = "stopped"
    /\ UNCHANGED <<table, offset, total, page, pool, atStart>>

Cycle == Begin \/ Count \/ List \/ HandOut \/ Wait \/ Tick

Next ==
    \/ \E t \in Towers : Stamp(t) \/ Commit(t) \/ Collect(t)
    \/ Cycle
    \/ ListFails
    \/ Stop

Spec == Init /\ [][Next]_vars

\* The loop goes on, and collectTower returns: what it calls has timeouts.
Fairness ==
    /\ WF_vars(Cycle)
    /\ \A t \in Towers : WF_vars(Collect(t))

FairSpec == Spec /\ Fairness

-----------------------------------------------------------------------------
\* The offset is what the cycle has handed out and what is left of the page.
TypeOK ==
    /\ stamped \in [Towers -> 0..Cardinality(Towers)] /\ committed \subseteq Stamped
    /\ pc \in {"idle", "count", "list", "hand out", "done", "failed", "stopped"}
    /\ offset \in Nat /\ total \in 0..Cardinality(Towers)
    /\ offset = Len(started) + Len(page)
    /\ page \in Seq(Towers) /\ started \in Seq(Towers)
    /\ running \in [Towers -> Nat] /\ counted \in Nat
    /\ atStart \subseteq committed

\* No two goroutines collect the same tower at once, though a late commit can
\* put a tower on two pages: collectTower shares no state with another.
OneGoroutinePerTower == \A t \in Towers : running[t] <= 1

\* A cycle that ends has counted every tower it handed out.
EveryTowerIsCounted == pc = "done" => counted = Len(started)

\* A cycle that ends without an error misses a tower that was in the table when
\* it started only if another one, stamped before it, was committed during the
\* cycle and pushed it off the pages that were counted: appending towers does no
\* harm, however it interleaves (SNMPScheduler.CollectOnce).
MissesOnlyForLateCommits ==
    pc = "done" =>
        \A t \in atStart \ ToSet(started) :
            \E u \in committed \ atStart : Precedes(u, t)

\* The invariants of the cycle together.
CycleInv == TypeOK /\ OneGoroutinePerTower /\ EveryTowerIsCounted /\ MissesOnlyForLateCommits

\* A tower in the table is collected again and again, unless its cycles go on
\* failing or the scheduler is stopped (SNMPScheduler.Start).
EveryTowerIsCollectedAgain ==
    \A t \in Towers :
        []<>(t \in committed => running[t] > 0 \/ pc \in {"failed", "stopped"})
=============================================================================
