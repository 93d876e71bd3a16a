----------------------------- MODULE TicketDesk -----------------------------
(***************************************************************************)
(* TicketService over the tickets and audit_logs tables.  Tickets come     *)
(* from the alarm pipeline; operators acknowledge and close them through   *)
(* concurrent HTTP requests.  Acknowledge and Close read the ticket, check *)
(* it and write it in separate statements, and the write has no condition  *)
(* on the status it replaces.                                              *)
(*                                                                         *)
(* Definitions that no other definition uses, each just before the one it  *)
(* resembles, are plausible bugs that the properties are tested with.      *)
(***************************************************************************)
EXTENDS Naturals

CONSTANTS Requests, Tickets, Faults

VARIABLES
    ticket,  \* ticket[k]: status, and whether acknowledged_at and closed_at are set
    pc,      \* the statement each request runs next
    job,     \* the operation and ticket of each request under way
    audit    \* the audit_logs table: <<action, ticket>>

vars == <<ticket, pc, job, audit>>

Statuses == {"none", "open", "acknowledged", "closed"}
Ops == {"ack", "close"}
Row == [status : Statuses, acknowledged_at : BOOLEAN, closed_at : BOOLEAN]
Job == [op : Ops, id : Tickets]
NoJob == [op |-> "none"]

Init ==
    /\ ticket = [k \in Tickets |->
                    [status |-> "none", acknowledged_at |-> FALSE, closed_at |-> FALSE]]
    /\ pc = [r \in Requests |-> "idle"]
    /\ job = [r \in Requests |-> NoJob]
    /\ audit = {}

\* The pipeline opens a ticket; the audit entry may fail to be written.
Create(k) ==
    /\ ticket[k].status = "none"
    /\ ticket' = [ticket EXCEPT ![k].status = "open"]
    /\ \/ audit' = audit \cup {<<"create", k>>}
       \/ "db" \in Faults /\ UNCHANGED audit
    /\ UNCHANGED <<pc, job>>

Receive(r, op, k) ==
    /\ pc[r] = "idle"
    /\ ticket[k].status # "none"
    /\ pc' = [pc EXCEPT ![r] = "get"]
    /\ job' = [job EXCEPT ![r] = [op |-> op, id |-> k]]
    /\ UNCHANGED <<ticket, audit>>

Ends(r) ==
    /\ pc' = [pc EXCEPT ![r] = "idle"]
    /\ job' = [job EXCEPT ![r] = NoJob]

\* A request that reads a closed ticket is over: Acknowledge refuses, Close
\* answers with the ticket as it is.
GetUnchecked(r) ==
    /\ pc[r] = "get"
    /\ pc' = [pc EXCEPT ![r] = "update"]
    /\ UNCHANGED <<ticket, job, audit>>

Get(r) ==
    /\ pc[r] = "get"
    /\ IF ticket[job[r].id].status = "closed"
       THEN Ends(r)
       ELSE pc' = [pc EXCEPT ![r] = "update"] /\ UNCHANGED job
    /\ UNCHANGED <<ticket, audit>>

\* COALESCE keeps the timestamp the operation does not set.
OpAsStatus(row, op) == [row EXCEPT !.status = op]
UnstampedUpdate(row, op) ==
    [row EXCEPT !.status = IF op = "ack" THEN "acknowledged" ELSE "closed"]
UpdatedRow(row, op) ==
    [status |-> IF op = "ack" THEN "acknowledged" ELSE "closed",
     acknowledged_at |-> IF op = "ack" THEN TRUE ELSE row.acknowledged_at,
     closed_at |-> IF op = "close" THEN TRUE ELSE row.closed_at]

Update(r) ==
    /\ pc[r] = "update"
    /\ ticket' = [ticket EXCEPT ![job[r].id] = UpdatedRow(@, job[r].op)]
    /\ pc' = [pc EXCEPT ![r] = "audit"]
    /\ UNCHANGED <<job, audit>>

Audit(r) ==
    /\ pc[r] = "audit"
    /\ audit' = audit \cup {<<job[r].op, job[r].id>>}
    /\ Ends(r)
    /\ UNCHANGED ticket

\* A statement fails, the client goes away or the process stops: the rest of
\* the request never runs.  A failed update is not audited.
AuditAnyway(r) ==
    /\ "db" \in Faults
    /\ pc[r] \in {"get", "update", "audit"}
    /\ Ends(r)
    /\ audit' = IF pc[r] = "update" THEN audit \cup {<<job[r].op, job[r].id>>} ELSE audit
    /\ UNCHANGED ticket

Abort(r) ==
    /\ "db" \in Faults
    /\ pc[r] \in {"get", "update", "audit"}
    /\ Ends(r)
    /\ UNCHANGED <<ticket, audit>>

Next ==
    \/ \E k \in Tickets : Create(k)
    \/ \E r \in Requests :
          \/ \E op \in Ops, k \in Tickets : Receive(r, op, k)
          \/ Get(r)
          \/ Update(r)
          \/ Audit(r)
          \/ Abort(r)

Spec == Init /\ [][Next]_vars

-----------------------------------------------------------------------------
TypeOK ==
    /\ ticket \in [Tickets -> Row]
    /\ pc \in [Requests -> {"idle", "get", "update", "audit"}]
    /\ job \in [Requests -> Job \cup {NoJob}]
    /\ \A r \in Requests : pc[r] # "idle" => job[r] \in Job
    /\ audit \subseteq ({"create", "ack", "close"} \X Tickets)

\* A closed ticket stays closed ("cannot acknowledge a closed ticket").
ClosedIsFinal ==
    [][\A k \in Tickets : ticket[k].status = "closed" => ticket'[k].status = "closed"]_vars

\* However requests race, a ticket keeps the stamps of what was done to it and
\* its status is one of the things that was done: an acknowledged ticket has
\* acknowledged_at, a closed one closed_at (TicketRepository.UpdateStatus).
StampsMatchStatus ==
    \A k \in Tickets :
        LET row == ticket[k] IN
        /\ row.status = "acknowledged" => row.acknowledged_at
        /\ row.status = "closed" => row.closed_at
        /\ row.acknowledged_at \/ row.closed_at => row.status \in {"acknowledged", "closed"}

\* Closing is final from the moment no request that read the ticket before
\* it was closed is still to write: the race above is the only way out.
Settled(k) ==
    /\ ticket[k].status = "closed"
    /\ ~\E r \in Requests : pc[r] = "update" /\ job[r].id = k

SettledIsFinal == [][\A k \in Tickets : Settled(k) => Settled(k)']_vars

\* The audit log never claims an operation the ticket does not carry, though
\* requests fail and race between the update and the entry (TicketService.audit).
AuditTellsTruth ==
    \A k \in Tickets :
        /\ <<"ack", k>> \in audit => ticket[k].acknowledged_at
        /\ <<"close", k>> \in audit => ticket[k].closed_at
=============================================================================
