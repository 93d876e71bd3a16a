------------------------------ MODULE TowerRow ------------------------------
(***************************************************************************)
(* One row of the towers table and everybody who writes it: the SNMP, ComAp*)
(* and NetEco collectors and the operators' ConfigureSNMP requests.  Every *)
(* writer reads the whole row (TowerRepository.GetByID, or List for        *)
(* NetEco), changes a few columns of its copy and writes the whole copy    *)
(* back (TowerRepository.Upsert); nothing stops another writer in between. *)
(* No operation touches two rows, so one row stands for the table.         *)
(*                                                                         *)
(* Definitions that no other definition uses, each just before the one it  *)
(* resembles, are plausible bugs that the properties are tested with.      *)
(***************************************************************************)
EXTENDS Naturals, Sequences, Functions

CONSTANTS
    Collectors,   \* goroutines that collect this tower, of all the processes
    Operators,    \* requests to configure it, of all the API processes
    Jobs,         \* the kinds of collection that happen, (CollectionAssumption)
    Conditions,   \* the conditions the device may be in: it answers; it is silent,
                  \* though a socket to it opens; not even the socket opens
    MaxSettings,  \* bound on the number of times operators configure SNMP
    Faults        \* "db": a statement fails; "stop": the process stops

ASSUME CollectionAssumption ==
    /\ Jobs \subseteq {"snmp_online", "snmp_degraded", "snmp_unreachable", "snmp_unmapped",
                       "comap_online", "comap_unreachable",
                       "neteco_up", "neteco_down", "neteco_failed"}
    /\ Conditions \subseteq {"answers", "silent", "unroutable"}
    /\ MaxSettings \in Nat

VARIABLES
    row,       \* the row
    device,    \* the condition of the device, as the collectors meet it
    todo,      \* the operations each writer has still to run
    copy,      \* the row each writer has read and not yet written back
    want,      \* the settings an operator's request asks for
    asked      \* the number of settings operators have asked for

vars == <<row, device, todo, copy, want, asked>>

Writers == Collectors \cup Operators

Statuses == {"no_data", "online", "degraded", "offline"}
CollectionStatuses == {"not_configured", "never_collected", "collection_failed", "active"}

\* last_collection_error and last_successful_at are kept as set or not, the
\* settings as the number of the request they come from.
Row == [status : Statuses, collection_status : CollectionStatuses,
        error : BOOLEAN, succeeded : BOOLEAN,
        snmp_enabled : BOOLEAN, settings : 0..MaxSettings]

NoCopy == [none |-> TRUE]

\* MarkUnreachableWithError records the failure and then the status.
UnreachableKeepingStatus == <<"failed">>

Unreachable == <<"failed", "offline">>

\* What each kind of collection writes, in order: an SNMP cycle that ingests,
\* one that cannot reach the device, one that gets no usable sample; a ComAp
\* cycle; a NetEco poll whose site is up, is down, or that fails altogether.
Program(job) ==
    CASE job = "snmp_online"       -> <<"online", "success">>
      [] job = "snmp_degraded"     -> <<"degraded", "success">>
      [] job = "snmp_unreachable"  -> Unreachable
      [] job = "snmp_unmapped"     -> <<"failed">>
      [] job = "comap_online"      -> <<"online">>
      [] job = "comap_unreachable" -> <<"offline">>
      [] OTHER                     -> <<job>>

NetEcoOps == {"neteco_up", "neteco_down", "neteco_failed"}
StatusOps == {"online", "degraded", "offline"}
ConfigOps == {"enable", "disable"}
Ops == StatusOps \cup {"success", "failed"} \cup NetEcoOps \cup ConfigOps

\* TowerService.Save names the collection status of a tower it creates.
Init ==
    /\ row \in Row
    /\ row.collection_status = IF row.snmp_enabled THEN "never_collected" ELSE "not_configured"
    /\ ~row.error /\ ~row.succeeded /\ row.settings = 0
    /\ device \in Conditions
    /\ todo = [w \in Writers |-> <<>>]
    /\ copy = [w \in Writers |-> NoCopy]
    /\ want = [w \in Writers |-> 0]
    /\ asked = 0

DeviceChanges ==
    /\ device' \in Conditions \ {device}
    /\ UNCHANGED <<row, todo, copy, want, asked>>

\* What a cycle needs to end the way it does.  The scheduler opens a socket before
\* it looks at snmp_enabled: a disabled tower is unreachable when that fails, and
\* skipped, with nothing written, when it succeeds.  The socket is a UDP one, which
\* opens though nobody answers; that of a ComAp device is TCP, so a ComAp device
\* nobody can connect to is unroutable here.  A NetEco poll may fail whatever the
\* site does.
Possible(job) ==
    /\ job \in {"snmp_online", "snmp_degraded", "snmp_unmapped", "comap_online", "neteco_up"}
          => device = "answers"
    /\ job \in {"comap_unreachable", "neteco_down"} => device # "answers"
    /\ job = "snmp_unreachable"
          => device = "unroutable" \/ (device = "silent" /\ row.snmp_enabled)
    /\ job \in {"snmp_online", "snmp_degraded", "snmp_unmapped"} => row.snmp_enabled

Collect(c, job) ==
    /\ todo[c] = <<>>
    /\ Possible(job)
    /\ todo' = [todo EXCEPT ![c] = Program(job)]
    /\ UNCHANGED <<row, device, copy, want, asked>>

Configure(o, op) ==
    /\ todo[o] = <<>>
    /\ asked < MaxSettings
    /\ asked' = asked + 1
    /\ want' = [want EXCEPT ![o] = asked + 1]
    /\ todo' = [todo EXCEPT ![o] = <<op>>]
    /\ UNCHANGED <<row, device, copy>>

\* Reads the row; UpdateStatus has nothing to do when the status is right.
Read(w) ==
    /\ todo[w] # <<>> /\ copy[w] = NoCopy
    /\ \/ /\ Head(todo[w]) = row.status
          /\ todo' = [todo EXCEPT ![w] = Tail(@)]
          /\ UNCHANGED copy
       \/ /\ Head(todo[w]) # row.status
          /\ copy' = [copy EXCEPT ![w] = row]
          /\ UNCHANGED todo
    /\ UNCHANGED <<row, device, want, asked>>

Succeeded(r) ==
    [r EXCEPT !.collection_status = "active", !.error = FALSE, !.succeeded = TRUE]

FailedKeepingError(r) == [r EXCEPT !.collection_status = "collection_failed"]

Failed(r) == [r EXCEPT !.collection_status = "collection_failed", !.error = TRUE]

Configured(r, enabled, n) ==
    [r EXCEPT !.snmp_enabled = enabled, !.settings = n,
              !.collection_status =
                  IF enabled /\ @ = "not_configured" THEN "never_collected" ELSE @]

\* The status NetEco gives a tower whose site is up ("Não sobrescreve degraded
\* -> online").
UpStatus(status) == IF status = "degraded" THEN status ELSE "online"

\* The copy as the operation leaves it.
Changed(op, r, n) ==
    CASE op = "success" -> Succeeded([r EXCEPT !.status = IF @ = "no_data" THEN "online" ELSE @])
      [] op = "failed" -> Failed(r)
      [] op \in {"enable", "disable"} -> Configured(r, op = "enable", n)
      [] op = "neteco_up" -> Succeeded([r EXCEPT !.status = UpStatus(@)])
      [] op = "neteco_down" -> Succeeded([r EXCEPT !.status = "offline"])
      [] op = "neteco_failed" -> Failed([r EXCEPT !.status = "offline"])
      [] OTHER -> [r EXCEPT !.status = op]

\* Upsert sets every column of the row from the copy.
Write(w) ==
    /\ copy[w] # NoCopy
    /\ row' = Changed(Head(todo[w]), copy[w], want[w])
    /\ todo' = [todo EXCEPT ![w] = Tail(@)]
    /\ copy' = [copy EXCEPT ![w] = NoCopy]
    /\ UNCHANGED <<device, want, asked>>

\* An error of MarkCollectionFailed is logged and the cycle goes on; an error
\* of Ingest makes the scheduler record the failure (MarkIngestConfigError);
\* any other ends what the writer was doing.
AfterError(ops) ==
    CASE Head(ops) = "failed" -> Tail(ops)
      [] "success" \in Range(ops) -> <<"failed">>
      [] OTHER -> <<>>

FailsKeepingCopy(w) ==
    /\ "db" \in Faults
    /\ todo[w] # <<>>
    /\ todo' = [todo EXCEPT ![w] = AfterError(@)]
    /\ UNCHANGED <<row, device, copy, want, asked>>

StatementFails(w) ==
    /\ "db" \in Faults
    /\ todo[w] # <<>>
    /\ todo' = [todo EXCEPT ![w] = AfterError(@)]
    /\ copy' = [copy EXCEPT ![w] = NoCopy]
    /\ UNCHANGED <<row, device, want, asked>>

\* The process stops, or the request's context ends.
Stop(w) ==
    /\ "stop" \in Faults
    /\ todo[w] # <<>>
    /\ todo' = [todo EXCEPT ![w] = <<>>]
    /\ copy' = [copy EXCEPT ![w] = NoCopy]
    /\ UNCHANGED <<row, device, want, asked>>

Next ==
    \/ DeviceChanges
    \/ \E c \in Collectors, job \in Jobs : Collect(c, job)
    \/ \E o \in Operators, op \in ConfigOps : Configure(o, op)
    \/ \E w \in Writers : Read(w) \/ Write(w) \/ StatementFails(w) \/ Stop(w)

Spec == Init /\ [][Next]_vars

\* Tickers start the next cycle, and a statement returns (queryTimeout).
Fairness ==
    /\ \A c \in Collectors : WF_vars(\E job \in Jobs : Collect(c, job))
    /\ \A w \in Writers : WF_vars(Read(w)) /\ WF_vars(Write(w))

FairSpec == Spec /\ Fairness

-----------------------------------------------------------------------------
TypeOK ==
    /\ row \in Row
    /\ device \in Conditions
    /\ todo \in [Writers -> Seq(Ops)]
    /\ copy \in [Writers -> Row \cup {NoCopy}]
    /\ want \in [Writers -> 0..MaxSettings]
    /\ asked \in 0..MaxSettings
    /\ \A w \in Writers : copy[w] # NoCopy => todo[w] # <<>>

\* Whoever overwrites whom, the row tells one story: an active collection has
\* a success and no error, a failed one has an error, a tower that was never
\* collected has neither, and an enabled one is not "not_configured".
Coherent(r) ==
    /\ r.collection_status = "active" => ~r.error /\ r.succeeded /\ r.status # "no_data"
    /\ r.collection_status = "collection_failed" => r.error
    /\ r.collection_status \in {"not_configured", "never_collected"} => ~r.error /\ ~r.succeeded
    /\ r.snmp_enabled => r.collection_status # "not_configured"

RowIsCoherent == Coherent(row)

Wrote(w, ops) ==
    /\ todo[w] # <<>> /\ Head(todo[w]) \in ops
    /\ copy[w] # NoCopy
    /\ todo'[w] = Tail(todo[w])

\* A NetEco poll that finds the site up never promotes a degraded tower to
\* online (PollEnergyStatus: "Não sobrescreve degraded -> online").
NetEcoKeepsDegraded ==
    [][\A c \in Collectors :
          Wrote(c, {"neteco_up"}) /\ row.status = "degraded" => row'.status = "degraded"]_vars

\* The row comes to show what the device does and keeps showing it, though
\* operators overwrote what the collector wrote (UpdateStatus, MarkCollection*).
\* A disabled tower is shown to be unreachable only when no socket to it opens.
RowFollowsDevice ==
    /\ <>[](device = "answers" /\ row.snmp_enabled)
          => <>[](row.collection_status = "active" /\ row.status \in {"online", "degraded"})
    /\ <>[](device = "unroutable" \/ (device = "silent" /\ row.snmp_enabled))
          => <>[](row.collection_status = "collection_failed" /\ row.status = "offline")
=============================================================================
