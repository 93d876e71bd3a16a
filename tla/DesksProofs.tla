----------------------------- MODULE DesksProofs -----------------------------
(***************************************************************************)
(* Proofs about the desks for any number of requests, rows, users and      *)
(* processes: the tickets of towercore (TicketDesk); its users, tokens and *)
(* limiters (Access); the sessions of the analytics platform (Sessions);   *)
(* and the availability of a tower over windows of any length              *)
(* (Availability).  The last three are of the sum that MCDesks builds.     *)
(***************************************************************************)
EXTENDS MCDesks, FiniteSetTheorems, SequenceTheorems, WellFoundedInduction, TLAPS


(* A request about to write its audit entry has stamped the ticket. *)
Stamped ==
    \A r \in Requests : pc[r] = "audit" =>
        /\ job[r].op = "ack" => ticket[job[r].id].acknowledged_at
        /\ job[r].op = "close" => ticket[job[r].id].closed_at

IInv == TypeOK /\ StampsMatchStatus /\ AuditTellsTruth /\ Stamped

(* An update stamps what it does and keeps the other stamp (COALESCE). *)
LEMMA UpdatedStamps ==
    ASSUME NEW row \in Row, NEW op \in Ops
    PROVE  /\ row.acknowledged_at => UpdatedRow(row, op).acknowledged_at
           /\ row.closed_at => UpdatedRow(row, op).closed_at
           /\ op = "ack" => UpdatedRow(row, op).acknowledged_at
           /\ op = "close" => UpdatedRow(row, op).closed_at
<1>1. CASE op = "ack"
  <2>1. /\ UpdatedRow(row, op).acknowledged_at = TRUE
        /\ UpdatedRow(row, op).closed_at = row.closed_at
    BY <1>1 DEF UpdatedRow
  <2>2. QED
    BY <1>1, <2>1
<1>2. CASE op = "close"
  <2>1. /\ UpdatedRow(row, op).acknowledged_at = row.acknowledged_at
        /\ UpdatedRow(row, op).closed_at = TRUE
    BY <1>2 DEF UpdatedRow
  <2>2. QED
    BY <1>2, <2>1
<1>3. QED
  BY <1>1, <1>2 DEF Ops

(* No step takes a stamp away. *)
LEMMA StampsKept ==
    ASSUME TypeOK, [Next]_vars, NEW k \in Tickets
    PROVE  /\ ticket[k].acknowledged_at => ticket'[k].acknowledged_at
           /\ ticket[k].closed_at => ticket'[k].closed_at
<1>1. ASSUME NEW j \in Tickets, Create(j)
      PROVE  /\ ticket[k].acknowledged_at => ticket'[k].acknowledged_at
             /\ ticket[k].closed_at => ticket'[k].closed_at
  BY <1>1 DEF TypeOK, Row, Create
<1>2. ASSUME NEW r \in Requests, Update(r)
      PROVE  /\ ticket[k].acknowledged_at => ticket'[k].acknowledged_at
             /\ ticket[k].closed_at => ticket'[k].closed_at
  <2>1. CASE k = job[r].id
    <3>1. /\ ticket'[k] = UpdatedRow(ticket[k], job[r].op)
          /\ ticket[k] \in Row
          /\ job[r].op \in Ops
      BY <1>2, <2>1 DEF TypeOK, Job, Update
    <3>2. QED
      BY <3>1, UpdatedStamps
  <2>2. CASE k # job[r].id
    BY <1>2, <2>2 DEF TypeOK, Update
  <2>3. QED
    BY <2>1, <2>2
<1>3. QED
  BY <1>1, <1>2 DEF Next, Receive, Get, Audit, Abort, Ends, vars

LEMMA UpdatedRowType ==
    ASSUME NEW row \in Row, NEW op \in Ops
    PROVE  UpdatedRow(row, op) \in Row
BY DEF UpdatedRow, Row, Statuses, Ops

LEMMA TypeStep ==
    ASSUME TypeOK, [Next]_vars
    PROVE  TypeOK'
<1>1. ASSUME NEW k \in Tickets, Create(k) PROVE TypeOK'
  <2>1. ticket' \in [Tickets -> Row]
    BY <1>1 DEF TypeOK, Create, Row, Statuses
  <2>2. QED
    BY <1>1, <2>1 DEF TypeOK, Create
<1>2. ASSUME NEW r \in Requests, NEW op \in Ops, NEW k \in Tickets, Receive(r, op, k)
      PROVE  TypeOK'
  BY <1>2 DEF TypeOK, Receive, Job
<1>3. ASSUME NEW r \in Requests, Get(r) PROVE TypeOK'
  BY <1>3 DEF TypeOK, Get, Ends
<1>4. ASSUME NEW r \in Requests, Update(r) PROVE TypeOK'
  <2>1. ticket[job[r].id] \in Row /\ job[r].op \in Ops
    BY <1>4 DEF TypeOK, Job, Update
  <2>2. ticket' \in [Tickets -> Row]
    BY <1>4, <2>1, UpdatedRowType DEF TypeOK, Update
  <2>3. QED
    BY <1>4, <2>2 DEF TypeOK, Update
<1>5. ASSUME NEW r \in Requests, Audit(r) PROVE TypeOK'
  BY <1>5 DEF TypeOK, Audit, Ends, Job, Ops
<1>6. ASSUME NEW r \in Requests, Abort(r) PROVE TypeOK'
  BY <1>6 DEF TypeOK, Abort, Ends
<1>7. CASE UNCHANGED vars
  BY <1>7 DEF TypeOK, vars
<1>8. QED
  BY <1>1, <1>2, <1>3, <1>4, <1>5, <1>6, <1>7 DEF Next

LEMMA StampedStep ==
    ASSUME IInv, [Next]_vars
    PROVE  Stamped'
<1> SUFFICES ASSUME NEW r \in Requests, pc'[r] = "audit"
             PROVE  /\ job'[r].op = "ack" => ticket'[job'[r].id].acknowledged_at
                    /\ job'[r].op = "close" => ticket'[job'[r].id].closed_at
  BY DEF Stamped
<1>1. CASE pc[r] = "audit" /\ job'[r] = job[r]
  BY <1>1, StampsKept DEF IInv, Stamped, TypeOK, Job
<1>2. CASE Update(r)
  <2>1. /\ job'[r] = job[r]
        /\ ticket[job[r].id] \in Row
        /\ job[r].op \in Ops
        /\ ticket'[job[r].id] = UpdatedRow(ticket[job[r].id], job[r].op)
    BY <1>2 DEF IInv, TypeOK, Job, Update
  <2>2. QED
    BY <2>1, UpdatedStamps
<1>3. (pc[r] = "audit" /\ job'[r] = job[r]) \/ Update(r)
  BY DEF IInv, TypeOK, Next, Create, Receive, Get, Update, Audit, Abort, Ends, vars
<1>4. QED
  BY <1>1, <1>2, <1>3

LEMMA AuditStep ==
    ASSUME IInv, [Next]_vars
    PROVE  AuditTellsTruth'
<1> SUFFICES ASSUME NEW k \in Tickets
             PROVE  /\ <<"ack", k>> \in audit' => ticket'[k].acknowledged_at
                    /\ <<"close", k>> \in audit' => ticket'[k].closed_at
  BY DEF AuditTellsTruth
<1>1. ASSUME NEW op \in Ops, <<op, k>> \in audit', <<op, k>> \notin audit
      PROVE  \E r \in Requests : pc[r] = "audit" /\ job[r].op = op /\ job[r].id = k
  BY <1>1 DEF Next, Create, Receive, Get, Update, Audit, Abort, Ends, vars, Ops
<1>2. QED
  BY <1>1, StampsKept DEF IInv, AuditTellsTruth, Stamped, Ops

LEMMA StampsStep ==
    ASSUME IInv, [Next]_vars
    PROVE  StampsMatchStatus'
<1> SUFFICES ASSUME NEW k \in Tickets
             PROVE  /\ ticket'[k].status = "acknowledged" => ticket'[k].acknowledged_at
                    /\ ticket'[k].status = "closed" => ticket'[k].closed_at
                    /\ ticket'[k].acknowledged_at \/ ticket'[k].closed_at
                         => ticket'[k].status \in {"acknowledged", "closed"}
  BY DEF StampsMatchStatus
<1>1. CASE ticket'[k] = ticket[k]
  BY <1>1 DEF IInv, StampsMatchStatus
<1>2. CASE Create(k)
  BY <1>2 DEF IInv, TypeOK, Row, Create, StampsMatchStatus
<1>3. ASSUME NEW op \in Ops, ticket'[k] = UpdatedRow(ticket[k], op)
      PROVE  /\ ticket'[k].status = "acknowledged" => ticket'[k].acknowledged_at
             /\ ticket'[k].status = "closed" => ticket'[k].closed_at
             /\ ticket'[k].acknowledged_at \/ ticket'[k].closed_at
                  => ticket'[k].status \in {"acknowledged", "closed"}
  BY <1>3 DEF UpdatedRow, Ops
<1>4. \/ ticket'[k] = ticket[k]
      \/ Create(k)
      \/ \E op \in Ops : ticket'[k] = UpdatedRow(ticket[k], op)
  <2>1. ASSUME NEW r \in Requests, Update(r)
        PROVE  \/ ticket'[k] = ticket[k]
               \/ \E op \in Ops : ticket'[k] = UpdatedRow(ticket[k], op)
    BY <2>1 DEF IInv, TypeOK, Job, Update
  <2>2. ASSUME NEW j \in Tickets, Create(j)
        PROVE  ticket'[k] = ticket[k] \/ Create(k)
    BY <2>2 DEF IInv, TypeOK, Create
  <2>3. QED
    BY <2>1, <2>2 DEF Next, Receive, Get, Audit, Abort, Ends, vars
<1>5. QED
  BY <1>1, <1>2, <1>3, <1>4

THEOREM Invariance == Spec => []IInv
<1>1. Init => IInv
  BY DEF Init, IInv, TypeOK, Row, Statuses, StampsMatchStatus, AuditTellsTruth, Stamped
<1>2. IInv /\ [Next]_vars => IInv'
  <2> SUFFICES ASSUME IInv, [Next]_vars PROVE IInv'
    OBVIOUS
  <2>1. TypeOK'
    BY TypeStep DEF IInv
  <2>2. QED
    BY <2>1, StampsStep, AuditStep, StampedStep DEF IInv
<1>3. QED
  BY <1>1, <1>2, PTL DEF Spec

(* TicketRepository.UpdateStatus: whatever requests race, a ticket's stamps *)
(* and status agree.                                                       *)
THEOREM StampsAgree == Spec => []StampsMatchStatus
<1>1. IInv => StampsMatchStatus
  BY DEF IInv
<1>2. QED
  BY <1>1, Invariance, PTL

(* TicketService.audit: the log claims nothing the tickets do not show. *)
THEOREM AuditIsTruthful == Spec => []AuditTellsTruth
<1>1. IInv => AuditTellsTruth
  BY DEF IInv
<1>2. QED
  BY <1>1, Invariance, PTL

(* TicketService.Acknowledge, Close: once nobody who read the ticket before *)
(* it was closed is left to write, closing is final.                       *)
THEOREM SettledStays == Spec => SettledIsFinal
<1>1. IInv /\ [Next]_vars => [\A k \in Tickets : Settled(k) => Settled(k)']_vars
  <2> SUFFICES ASSUME IInv, [Next]_vars, NEW k \in Tickets, Settled(k)
               PROVE  Settled(k)'
    OBVIOUS
  <2>1. ticket'[k] = ticket[k]
    BY DEF IInv, TypeOK, Job, Settled, Next, Create, Receive, Get, Update, Audit, Abort, Ends, vars
  <2>2. ASSUME NEW r \in Requests, pc'[r] = "update", job'[r].id = k
        PROVE  pc[r] = "update" /\ job[r].id = k
    BY <2>2 DEF IInv, TypeOK, Settled, Next, Create, Receive, Get, Update, Audit, Abort, Ends, vars
  <2>3. QED
    BY <2>1, <2>2 DEF Settled
<1>2. QED
  BY <1>1, Invariance, PTL DEF Spec, SettledIsFinal
-----------------------------------------------------------------------------
(***************************************************************************)
(* The users of towercore.  A bootstrap that is about to upsert has seen   *)
(* no configured user, so the one it may replace was created late; what a  *)
(* token or a login holds is of its row until then; and what a limiter let *)
(* through in this minute it has counted in this minute.                   *)
(***************************************************************************)
Limiters == Tickets \X A!Routes \X A!Keys
SignJob == [user : Requests, role : A!Roles, proof : A!Passwords]

AccessTypes ==
    /\ A!TypeOK
    /\ windows \in [Limiters -> [start : Nat \cup {None}, count : Nat]]
    /\ served \in [Limiters -> Nat]
    /\ a_job \in [Clients -> A!Row \cup SignJob \cup {None}]

AccessJobs ==
    \A c \in Clients :
        /\ a_pc[c] = "Sign" => a_job[c] \in SignJob
        /\ a_pc[c] = "Create" => a_job[c] \in A!Row

(* What tells of a user tells what its row says.                            *)
TellsRow(t) ==
    /\ A!Exists(t.user)
    /\ t.user \in overwritten \/ (rows[t.user].role = t.role /\ rows[t.user].password = t.proof)

AllTell ==
    /\ \A t \in bearers : TellsRow(t)
    /\ \A c \in Clients : a_pc[c] = "Sign" => TellsRow(a_job[c])

NamesDiffer ==
    \A u, v \in Requests :
        A!Exists(u) /\ A!Exists(v) /\ rows[u].username = rows[v].username => u = v

UpsertsAreLate ==
    \A p \in Tickets : phase[p] = "Upsert" =>
        \A u \in A!Named(A!Boot) : u \in late \/ rows[u] = A!Ensured

WindowsCount ==
    \A x \in Limiters :
        /\ served[x] <= Limit
        /\ windows[x].start = None \/ windows[x].start <= now
        /\ IF windows[x].start = now THEN served[x] <= windows[x].count ELSE served[x] = 0

AcInv ==
    /\ AccessTypes /\ AccessJobs /\ AllTell /\ NamesDiffer /\ UpsertsAreLate /\ WindowsCount
    /\ A!UsersKeepTheirRow /\ A!RefusedHasCause

LEMMA AccessConstants ==
    /\ IsFiniteSet(Requests)
    /\ Limit \in Nat /\ TTL \in Nat /\ MaxTime \in Nat /\ MaxCalls \in Nat
    /\ None \notin Nat /\ None \notin A!Row
BY AccessParameters DEF A!Parameters, A!IsFiniteSet, IsFiniteSet

LEMMA AccessCounts == \A M : A!Cardinality(M) = Cardinality(M)
BY DEF A!Cardinality, Cardinality

LEMMA RowTypes ==
    ASSUME AccessTypes
    PROVE  /\ rows \in [Requests -> A!Row \cup {None}]
           /\ \A u \in Requests : A!Exists(u) => rows[u] \in A!Row
           /\ \A n : A!Named(n) \subseteq Requests /\ A!Matching(n) \subseteq Requests
           /\ A!Ensured \in A!Row /\ A!Ensured # None
<1>1. rows \in [Requests -> A!Row \cup {None}]
  BY DEF AccessTypes, A!TypeOK
<1>2. A!Ensured \in A!Row
  BY DEF A!Ensured, A!Row, A!Names, A!Passwords, A!Roles
<1>3. QED
  BY <1>1, <1>2, AccessConstants DEF A!Exists, A!Named, A!Matching

(* More users match, as long as none that matched is changed.                *)
LEMMA MoreMatch ==
    ASSUME AccessTypes, NEW n,
           \A v \in A!Matching(n) : rows'[v] = rows[v],
           Cardinality(A!Matching(n)) > 1
    PROVE  Cardinality(A!Matching(n)') > 1
<1> DEFINE M == A!Matching(n)
           W == A!Matching(n)'
<1>1. M \subseteq W /\ W \subseteq Requests
  BY RowTypes DEF A!Matching, A!Exists
<1>2. IsFiniteSet(W)
  BY <1>1, AccessConstants, FS_Subset
<1>3. IsFiniteSet(M) /\ Cardinality(M) <= Cardinality(W)
  BY <1>1, <1>2, FS_Subset
<1>4. Cardinality(M) \in Nat /\ Cardinality(W) \in Nat /\ Cardinality(M) > 1
  BY <1>2, <1>3, FS_CardinalityType
<1> HIDE DEF M, W
<1>5. Cardinality(W) > 1
  BY <1>3, <1>4
<1>6. QED
  BY <1>5 DEF W

LEMMA SeveralMatch ==
    ASSUME AccessTypes, NEW n, NEW u \in A!Matching(n), NEW v \in A!Matching(n), u # v
    PROVE  Cardinality(A!Matching(n)) > 1
<1> DEFINE M == A!Matching(n)
<1>1. IsFiniteSet(M)
  BY RowTypes, AccessConstants, FS_Subset
<1>2. {u, v} \subseteq M /\ Cardinality({u, v}) = 2
  <2>1. IsFiniteSet({u}) /\ Cardinality({u}) = 1
    BY FS_Singleton
  <2>2. Cardinality({u} \cup {v}) = 2
    BY <2>1, FS_AddElement
  <2>3. {u, v} = {u} \cup {v}
    OBVIOUS
  <2>4. QED
    BY <2>2, <2>3
<1>3. Cardinality({u, v}) <= Cardinality(M)
  BY <1>1, <1>2, FS_Subset
<1>4. Cardinality(M) \in Nat
  BY <1>1, FS_CardinalityType
<1>5. QED
  BY <1>2, <1>3, <1>4

(* A row is replaced: whoever told of the old one tells of one overwritten.  *)
LEMMA UpsertRows ==
    ASSUME AcInv, NEW p \in Tickets, A!Upsert(p)
    PROVE  \E u \in Requests :
               /\ IF A!Named(A!Boot) = {} THEN ~A!Exists(u) ELSE u \in A!Named(A!Boot)
               /\ rows'[u] = A!Ensured
               /\ \A v \in Requests \ {u} : rows'[v] = rows[v]
               /\ A!Exists(u) => rows[u] = A!Ensured \/ u \in overwritten'
               /\ \A v \in overwritten' : v \in overwritten \/ (v = u /\ rows[u] # A!Ensured /\ u \in A!Named(A!Boot))
               /\ overwritten \subseteq overwritten'
               /\ phase' = [phase EXCEPT ![p] = "up"] /\ phase[p] = "Upsert"
<1> DEFINE N == A!Named(A!Boot)
<1>1. PICK u \in Requests :
          /\ IF N = {} THEN ~A!Exists(u) ELSE u \in N
          /\ rows' = [rows EXCEPT ![u] = A!Ensured]
          /\ overwritten' = overwritten \cup (N \ {v \in {u} : rows[v] = A!Ensured})
  BY DEF A!Upsert
<1>2. AccessTypes /\ NamesDiffer
  BY DEF AcInv
<1>3. rows'[u] = A!Ensured /\ \A v \in Requests \ {u} : rows'[v] = rows[v]
  BY <1>1, <1>2, RowTypes
<1>4. \A v \in N : v = u
  <2>1. ASSUME NEW v \in N
        PROVE  v = u
    <3>1. u \in N
      BY <1>1
    <3>2. /\ u \in Requests /\ v \in Requests /\ A!Exists(u) /\ A!Exists(v)
          /\ rows[u].username = rows[v].username
      BY <3>1 DEF A!Named
    <3>3. QED
      BY <1>2, <3>2 DEF NamesDiffer
  <2>2. QED
    BY <2>1
<1>5. A!Exists(u) => u \in N
  BY <1>1
<1>6. phase' = [phase EXCEPT ![p] = "up"] /\ phase[p] = "Upsert"
  BY DEF A!Upsert, A!Enter
<1> HIDE DEF N
<1>7. QED
  BY <1>1, <1>3, <1>4, <1>5, <1>6 DEF N

LEMMA TellsOn ==
    ASSUME NEW t, TellsRow(t), overwritten \subseteq overwritten',
           rows'[t.user] = rows[t.user] \/ (rows'[t.user] # None /\ t.user \in overwritten')
    PROVE  TellsRow(t)'
BY DEF TellsRow, A!Exists

(* What a step does to the rows.                                            *)
RowsStand == UNCHANGED <<rows, late, overwritten, phase>>

LEMMA RowsStandFacts ==
    ASSUME RowsStand, AccessTypes
    PROVE  /\ \A t : TellsRow(t) => TellsRow(t)'
           /\ NamesDiffer => NamesDiffer'
           /\ UpsertsAreLate => UpsertsAreLate'
           /\ A!UsersKeepTheirRow => A!UsersKeepTheirRow'
           /\ \A n : A!Matching(n)' = A!Matching(n)
BY DEF RowsStand, TellsRow, NamesDiffer, UpsertsAreLate, A!UsersKeepTheirRow, A!Matching, A!Named, A!Exists

LEMMA UpsertStep ==
    ASSUME AcInv, NEW p \in Tickets, A!Upsert(p)
    PROVE  /\ \A t : TellsRow(t) /\ t.user \in Requests => TellsRow(t)'
           /\ NamesDiffer' /\ UpsertsAreLate' /\ A!UsersKeepTheirRow'
           /\ rows' \in [Requests -> A!Row \cup {None}] /\ overwritten' \subseteq Requests
           /\ \A n : Cardinality(A!Matching(n)) > 1 =>
                  Cardinality(A!Matching(n)') > 1 \/ overwritten' # {}
<1> DEFINE N == A!Named(A!Boot)
<1>0. AccessTypes /\ NamesDiffer /\ UpsertsAreLate /\ A!UsersKeepTheirRow
  BY DEF AcInv
<1>1. PICK u \in Requests :
          /\ IF N = {} THEN ~A!Exists(u) ELSE u \in N
          /\ rows'[u] = A!Ensured
          /\ \A v \in Requests \ {u} : rows'[v] = rows[v]
          /\ A!Exists(u) => rows[u] = A!Ensured \/ u \in overwritten'
          /\ \A v \in overwritten' : v \in overwritten \/ (v = u /\ rows[u] # A!Ensured /\ u \in N)
          /\ overwritten \subseteq overwritten'
          /\ phase' = [phase EXCEPT ![p] = "up"] /\ phase[p] = "Upsert"
  BY UpsertRows
<1>2. late' = late /\ A!Ensured # None /\ A!Ensured.username = A!Boot
  BY <1>0, RowTypes DEF A!Upsert, A!Ensured
<1>3. \A v \in Requests : v # u /\ A!Exists(v) => rows[v].username # A!Boot
  <2>1. ASSUME NEW v \in Requests, v # u, A!Exists(v), rows[v].username = A!Boot
        PROVE  FALSE
    <3>1. v \in N
      BY <2>1 DEF A!Named
    <3>2. A!Exists(u) /\ rows[u].username = A!Boot
      BY <1>1, <3>1 DEF A!Named
    <3>3. QED
      BY <1>0, <2>1, <3>2 DEF NamesDiffer
  <2>2. QED
    BY <2>1
<1>4. ASSUME NEW t, TellsRow(t), t.user \in Requests
      PROVE  TellsRow(t)'
  <2>1. CASE t.user = u
    <3>1. A!Exists(u)
      BY <1>4, <2>1 DEF TellsRow
    <3>2. rows'[t.user] = rows[t.user] \/ (rows'[t.user] # None /\ t.user \in overwritten')
      BY <1>1, <1>2, <2>1, <3>1
    <3>3. QED
      BY <1>1, <1>4, <3>2, TellsOn
  <2>2. CASE t.user # u
    BY <1>1, <1>4, <2>2, TellsOn
  <2>3. QED
    BY <2>1, <2>2
<1>5. NamesDiffer'
  <2> SUFFICES ASSUME NEW v \in Requests, NEW w \in Requests, rows'[v] # None, rows'[w] # None,
                      rows'[v].username = rows'[w].username
               PROVE  v = w
    BY DEF NamesDiffer, A!Exists
  <2>1. CASE v # u /\ w # u
    BY <1>0, <1>1, <2>1 DEF NamesDiffer, A!Exists
  <2>2. CASE v = u /\ w # u
    <3>1. rows[w].username = A!Boot /\ A!Exists(w)
      BY <1>1, <1>2, <2>2 DEF A!Exists
    <3>2. QED
      BY <1>3, <2>2, <3>1
  <2>3. CASE v # u /\ w = u
    <3>1. rows[v].username = A!Boot /\ A!Exists(v)
      BY <1>1, <1>2, <2>3 DEF A!Exists
    <3>2. QED
      BY <1>3, <2>3, <3>1
  <2>4. QED
    BY <2>1, <2>2, <2>3
<1>6. UpsertsAreLate'
  <2> SUFFICES ASSUME NEW v \in Requests, rows'[v] # None, rows'[v].username = A!Boot
               PROVE  rows'[v] = A!Ensured
    BY DEF UpsertsAreLate, A!Named, A!Exists
  <2>1. v = u
    BY <1>1, <1>3 DEF A!Exists
  <2>2. QED
    BY <1>1, <2>1
<1>7. A!UsersKeepTheirRow'
  <2>1. ASSUME NEW v \in overwritten'
        PROVE  v \in late
    <3>1. CASE v \in overwritten
      BY <1>0, <3>1 DEF A!UsersKeepTheirRow
    <3>2. CASE v = u /\ rows[u] # A!Ensured /\ u \in N
      BY <1>0, <1>1, <3>2 DEF UpsertsAreLate
    <3>3. QED
      BY <1>1, <3>1, <3>2
  <2>2. QED
    BY <1>2, <2>1 DEF A!UsersKeepTheirRow
<1>8. rows' \in [Requests -> A!Row \cup {None}] /\ overwritten' \subseteq Requests
  <2>1. PICK w \in Requests : rows' = [rows EXCEPT ![w] = A!Ensured]
    BY DEF A!Upsert
  <2>2. rows' \in [Requests -> A!Row \cup {None}]
    BY <1>0, <2>1, RowTypes
  <2>3. overwritten \subseteq Requests
    BY <1>0 DEF AccessTypes, A!TypeOK
  <2>4. overwritten' \subseteq Requests
    BY <1>1, <2>3
  <2>5. QED
    BY <2>2, <2>4
<1>9. ASSUME NEW n, Cardinality(A!Matching(n)) > 1, overwritten' = {}
      PROVE  Cardinality(A!Matching(n)') > 1
  <2>1. \A v \in A!Matching(n) : rows'[v] = rows[v]
    BY <1>1, <1>9 DEF A!Matching
  <2>2. QED
    BY <1>0, <1>9, <2>1, MoreMatch
<1>10. QED
  BY <1>4, <1>5, <1>6, <1>7, <1>8, <1>9

LEMMA CreateStep ==
    ASSUME AcInv, NEW c \in Clients, A!Create(c)
    PROVE  /\ \A t : TellsRow(t) => TellsRow(t)'
           /\ NamesDiffer' /\ UpsertsAreLate' /\ A!UsersKeepTheirRow'
           /\ rows' \in [Requests -> A!Row \cup {None}] /\ late' \subseteq Requests
           /\ \A n : Cardinality(A!Matching(n)) > 1 => Cardinality(A!Matching(n)') > 1
<1>0. AccessTypes /\ NamesDiffer /\ UpsertsAreLate /\ A!UsersKeepTheirRow /\ late \subseteq Requests
  BY DEF AcInv, AccessTypes, A!TypeOK
<1>1. CASE UNCHANGED <<rows, late>>
  <2>1. RowsStand
    BY <1>1 DEF A!Create, RowsStand
  <2>2. QED
    BY <1>0, <1>1, <2>1, RowsStandFacts, RowTypes
<1>2. CASE ~UNCHANGED <<rows, late>>
  <2>1. A!Named(a_job[c].username) = {} /\ a_job[c] \in A!Row
    BY <1>2 DEF A!Create, AcInv, AccessJobs
  <2>2. PICK u \in Requests :
            /\ ~A!Exists(u)
            /\ rows' = [rows EXCEPT ![u] = a_job[c]]
            /\ late' = late \cup {v \in {u} : \E p \in Tickets : phase[p] = "Upsert"}
    BY <1>2 DEF A!Create
  <2>3. UNCHANGED <<overwritten, phase>>
    BY DEF A!Create
  <2>4. rows'[u] = a_job[c] /\ rows'[u] # None /\ \A v \in Requests \ {u} : rows'[v] = rows[v]
    BY <1>0, <2>1, <2>2, RowTypes, AccessConstants
  <2>5. \A v \in Requests : rows[v] # None => v # u /\ rows[v].username # a_job[c].username
    BY <2>1, <2>2 DEF A!Named, A!Exists
  <2>6. ASSUME NEW t, TellsRow(t)
        PROVE  TellsRow(t)'
    <3>1. rows[t.user] # None
      BY <2>6 DEF TellsRow, A!Exists
    <3>2. t.user # u
      BY <2>2, <3>1 DEF A!Exists
    <3>3. rows'[t.user] = rows[t.user]
      BY <1>0, <2>2, <3>2, RowTypes
    <3>4. QED
      BY <2>3, <2>6, <3>3, TellsOn
  <2>7. NamesDiffer'
    <3> SUFFICES ASSUME NEW v \in Requests, NEW w \in Requests, rows'[v] # None, rows'[w] # None,
                        rows'[v].username = rows'[w].username
                 PROVE  v = w
      BY DEF NamesDiffer, A!Exists
    <3>1. CASE v # u /\ w # u
      BY <1>0, <2>4, <3>1 DEF NamesDiffer, A!Exists
    <3>2. CASE v = u /\ w # u
      BY <2>4, <2>5, <3>2
    <3>3. CASE v # u /\ w = u
      BY <2>4, <2>5, <3>3
    <3>4. QED
      BY <3>1, <3>2, <3>3
  <2>8. UpsertsAreLate'
    <3> SUFFICES ASSUME NEW p \in Tickets, phase[p] = "Upsert", NEW v \in Requests, rows'[v] # None,
                        rows'[v].username = A!Boot
                 PROVE  v \in late' \/ rows'[v] = A!Ensured
      BY <2>3 DEF UpsertsAreLate, A!Named, A!Exists
    <3>1. CASE v = u
      BY <2>2, <3>1
    <3>2. CASE v # u
      BY <1>0, <2>2, <2>4, <3>2 DEF UpsertsAreLate, A!Named, A!Exists
    <3>3. QED
      BY <3>1, <3>2
  <2>9. A!UsersKeepTheirRow' /\ late' \subseteq Requests
    BY <1>0, <2>2, <2>3 DEF A!UsersKeepTheirRow
  <2>10. rows' \in [Requests -> A!Row \cup {None}]
    BY <1>0, <2>1, <2>2, RowTypes
  <2>11. ASSUME NEW n, Cardinality(A!Matching(n)) > 1
         PROVE  Cardinality(A!Matching(n)') > 1
    <3>1. \A v \in A!Matching(n) : rows'[v] = rows[v]
      BY <2>2, <2>4 DEF A!Matching
    <3>2. QED
      BY <1>0, <2>11, <3>1, MoreMatch
  <2>12. QED
    BY <2>6, <2>7, <2>8, <2>9, <2>10, <2>11
<1>3. QED
  BY <1>1, <1>2

(* What a step that leaves the rows alone keeps.                             *)
LEMMA StandKeeps ==
    ASSUME AcInv, RowsStand, UNCHANGED wronged
    PROVE  NamesDiffer' /\ UpsertsAreLate' /\ A!UsersKeepTheirRow' /\ A!RefusedHasCause'
<1>1. AccessTypes /\ NamesDiffer /\ UpsertsAreLate /\ A!UsersKeepTheirRow /\ A!RefusedHasCause
  BY DEF AcInv
<1>2. \A n : A!Matching(n)' = A!Matching(n)
  BY <1>1, RowsStandFacts
<1>3. A!RefusedHasCause'
  BY <1>1, <1>2 DEF A!RefusedHasCause, RowsStand
<1>4. QED
  BY <1>1, <1>3, RowsStandFacts

LEMMA TellingOn ==
    ASSUME AcInv, UNCHANGED <<bearers, a_pc, a_job>>, \A t : TellsRow(t) /\ t.user \in Requests => TellsRow(t)'
    PROVE  AllTell' /\ AccessJobs'
<1>1. \A t \in bearers : TellsRow(t) /\ t.user \in Requests
  BY DEF AcInv, AllTell, AccessTypes, A!TypeOK, A!Token
<1>2. \A c \in Clients : a_pc[c] = "Sign" => TellsRow(a_job[c]) /\ a_job[c].user \in Requests
  BY DEF AcInv, AllTell, AccessJobs, SignJob
<1>3. \A t \in bearers' : TellsRow(t)'
  BY <1>1
<1>4. \A c \in Clients : a_pc'[c] = "Sign" => TellsRow(a_job[c])'
  BY <1>2
<1>5. AllTell'
  BY <1>3, <1>4 DEF AllTell, TellsRow
<1>6. AccessJobs'
  BY DEF AcInv, AccessJobs
<1>7. QED
  BY <1>5, <1>6

(* The step of a request: it answers, or has something to do.                *)
LEMMA AnswerTells ==
    ASSUME AcInv, NEW c \in Clients, A!Answer(c), \A t : TellsRow(t) => TellsRow(t)',
           \A t \in bearers' : t \in bearers \/ (a_pc[c] = "Sign" /\ t.user = a_job[c].user /\ t.role = a_job[c].role
                                                 /\ t.proof = a_job[c].proof)
    PROVE  /\ AllTell' /\ AccessJobs'
           /\ a_pc' \in [Clients -> {"idle", "Sign", "Create"}]
           /\ a_job' \in [Clients -> A!Row \cup SignJob \cup {None}]
<1>1. /\ a_pc' = [a_pc EXCEPT ![c] = "idle"] /\ a_job' = [a_job EXCEPT ![c] = None]
      /\ a_pc \in [Clients -> {"idle", "Sign", "Create"}]
      /\ a_job \in [Clients -> A!Row \cup SignJob \cup {None}]
  BY DEF A!Answer, AcInv, AccessTypes, A!TypeOK
<1>2. a_pc'[c] = "idle" /\ \A d \in Clients \ {c} : a_pc'[d] = a_pc[d] /\ a_job'[d] = a_job[d]
  <2>1. a_pc'[c] = "idle" /\ \A d \in Clients \ {c} : a_pc'[d] = a_pc[d]
    BY <1>1
  <2>2. \A d \in Clients \ {c} : a_job'[d] = a_job[d]
    BY <1>1
  <2>3. QED
    BY <2>1, <2>2
<1>3. AccessJobs'
  BY <1>2 DEF AcInv, AccessJobs
<1>4. \A t \in bearers' : TellsRow(t)'
  <2>1. ASSUME NEW t \in bearers'
        PROVE  TellsRow(t)'
    <3>1. CASE t \in bearers
      BY <3>1 DEF AcInv, AllTell
    <3>2. CASE t \notin bearers
      <4>1. TellsRow(a_job[c])
        BY <2>1, <3>2 DEF AcInv, AllTell
      <4>2. TellsRow(t)
        BY <2>1, <3>2, <4>1 DEF TellsRow
      <4>3. QED
        BY <4>2
    <3>3. QED
      BY <3>1, <3>2
  <2>2. QED
    BY <2>1
<1>5. \A d \in Clients : a_pc'[d] = "Sign" => d # c /\ a_pc[d] = "Sign" /\ TellsRow(a_job[d])' /\ a_job'[d] = a_job[d]
  BY <1>2 DEF AcInv, AllTell
<1>6. \A d \in Clients : a_pc'[d] = "Sign" => TellsRow(a_job[d])'
  BY <1>5
<1>7. AllTell'
  <2>1. \A d \in Clients : a_pc'[d] = "Sign" =>
            /\ rows'[a_job'[d].user] # None
            /\ a_job'[d].user \in overwritten' \/ (rows'[a_job'[d].user].role = a_job'[d].role
                                                   /\ rows'[a_job'[d].user].password = a_job'[d].proof)
    <3>1. ASSUME NEW d \in Clients, a_pc'[d] = "Sign"
          PROVE  \E j : /\ a_job'[d] = j /\ TellsRow(j)'
      BY <1>5, <3>1
    <3>2. QED
      BY <1>5 DEF TellsRow, A!Exists
  <2>2. QED
    BY <1>4, <2>1 DEF AllTell, TellsRow, A!Exists
<1>8. QED
  BY <1>1, <1>3, <1>7

LEMMA PhaseFacts ==
    ASSUME AcInv, NEW p \in Tickets, A!Start(p) \/ A!BootstrapReads(p) \/ A!Fatal(p)
    PROVE  /\ UNCHANGED <<now, calls, rows, bearers, windows, served, a_pc, a_job,
                          late, overwritten, wronged>>
           /\ phase' \in [Tickets -> A!Phases]
           /\ \A q \in Tickets : phase'[q] = "Upsert" => phase[q] = "Upsert" \/ A!Named(A!Boot) = {}
<1>0. phase \in [Tickets -> A!Phases]
  BY DEF AcInv, AccessTypes, A!TypeOK
<1>1. CASE A!Start(p)
  BY <1>0, <1>1 DEF A!Start, A!Enter, A!Phases
<1>2. CASE A!Fatal(p)
  BY <1>0, <1>2 DEF A!Fatal, A!Enter, A!Phases
<1>3. CASE A!BootstrapReads(p)
  <2>1. A!AfterRead \in {"Upsert", "up"} /\ (A!AfterRead = "Upsert" => A!Matching(A!Boot) = {})
    BY DEF A!AfterRead
  <2>2. A!Named(A!Boot) \subseteq A!Matching(A!Boot)
    BY DEF A!Named, A!Matching
  <2>3. phase' = [phase EXCEPT ![p] = A!AfterRead]
    BY <1>3 DEF A!BootstrapReads, A!Enter
  <2>4. phase' \in [Tickets -> A!Phases]
    BY <1>0, <2>1, <2>3 DEF A!Phases
  <2>5. \A q \in Tickets : phase'[q] = "Upsert" => phase[q] = "Upsert" \/ A!AfterRead = "Upsert"
    BY <1>0, <2>3
  <2>6. QED
    BY <1>3, <2>1, <2>2, <2>4, <2>5 DEF A!BootstrapReads
<1>4. QED
  BY <1>1, <1>2, <1>3

LEMMA PhaseStep ==
    ASSUME AcInv, NEW p \in Tickets, A!Start(p) \/ A!BootstrapReads(p) \/ A!Fatal(p)
    PROVE  AcInv'
<1>1. /\ UNCHANGED <<now, calls, rows, bearers, windows, served, a_pc, a_job,
                     late, overwritten, wronged>>
      /\ phase' \in [Tickets -> A!Phases]
      /\ \A q \in Tickets : phase'[q] = "Upsert" => phase[q] = "Upsert" \/ A!Named(A!Boot) = {}
  BY PhaseFacts
<1>2. AccessTypes'
  BY <1>1 DEF AcInv, AccessTypes, A!TypeOK
<1>3. AllTell' /\ AccessJobs'
  BY <1>1, TellingOn DEF TellsRow, A!Exists
<1>4. NamesDiffer' /\ A!UsersKeepTheirRow' /\ WindowsCount'
  BY <1>1 DEF AcInv, NamesDiffer, A!UsersKeepTheirRow, WindowsCount, A!Exists
<1>5. UpsertsAreLate'
  BY <1>1 DEF AcInv, UpsertsAreLate, A!Named, A!Exists
<1>6. A!RefusedHasCause'
  BY <1>1 DEF AcInv, A!RefusedHasCause, A!Matching, A!Exists
<1>7. QED
  BY <1>2, <1>3, <1>4, <1>5, <1>6 DEF AcInv

LEMMA UpsertKeeps ==
    ASSUME AcInv, NEW p \in Tickets, A!Upsert(p)
    PROVE  AcInv'
<1>1. /\ \A t : TellsRow(t) /\ t.user \in Requests => TellsRow(t)'
      /\ NamesDiffer' /\ UpsertsAreLate' /\ A!UsersKeepTheirRow'
      /\ rows' \in [Requests -> A!Row \cup {None}] /\ overwritten' \subseteq Requests
      /\ \A n : Cardinality(A!Matching(n)) > 1 =>
             Cardinality(A!Matching(n)') > 1 \/ overwritten' # {}
  BY UpsertStep
<1>2. /\ UNCHANGED <<now, calls, bearers, windows, served, a_pc, a_job, late, wronged>>
      /\ phase' = [phase EXCEPT ![p] = "up"]
  BY DEF A!Upsert, A!Enter
<1>3. AccessTypes'
  <2>1. phase' \in [Tickets -> A!Phases]
    BY <1>2 DEF AcInv, AccessTypes, A!TypeOK, A!Phases
  <2>2. QED
    BY <1>1, <1>2, <2>1 DEF AcInv, AccessTypes, A!TypeOK
<1>4. AllTell' /\ AccessJobs'
  BY <1>1, <1>2, TellingOn
<1>5. WindowsCount'
  BY <1>2 DEF AcInv, WindowsCount
<1>6. overwritten \subseteq overwritten'
  BY UpsertRows
<1>7. A!RefusedHasCause'
  BY <1>1, <1>2, <1>6, AccessCounts DEF AcInv, A!RefusedHasCause
<1>8. QED
  BY <1>1, <1>3, <1>4, <1>5, <1>7 DEF AcInv

LEMMA LoginStep ==
    ASSUME AcInv, NEW c \in Clients, NEW p \in Tickets, NEW n \in A!Names,
           NEW password \in A!Passwords, NEW u \in Requests, A!Login(c, p, n, password, u)
    PROVE  AcInv'
<1>0. AccessTypes
  BY DEF AcInv
<1>1. /\ a_pc[c] = "idle" /\ calls < MaxCalls /\ calls' = calls + 1 /\ u \in A!Matching(n)
      /\ UNCHANGED <<now, phase, rows, bearers, windows, served, late, overwritten>>
  BY DEF A!Login
<1>2. RowsStand
  BY <1>1 DEF RowsStand
<1>3. \A t : TellsRow(t) => TellsRow(t)'
  BY <1>0, <1>2, RowsStandFacts
<1>4. calls' \in 0 .. MaxCalls
  BY <1>1, AccessConstants DEF AcInv, AccessTypes, A!TypeOK
<1>5. NamesDiffer' /\ UpsertsAreLate' /\ A!UsersKeepTheirRow'
  BY <1>0, <1>2, RowsStandFacts DEF AcInv
<1>6. WindowsCount'
  BY <1>1 DEF AcInv, WindowsCount
<1>7. CASE rows[u].password = password
  <2> PICK j : j = [user |-> u, role |-> rows[u].role, proof |-> password]
    OBVIOUS
  <2>1. /\ a_pc' = [a_pc EXCEPT ![c] = "Sign"] /\ a_job' = [a_job EXCEPT ![c] = j] /\ wronged' = wronged
    BY <1>7 DEF A!Login
  <2>2. a_pc \in [Clients -> {"idle", "Sign", "Create"}] /\ A!Exists(u) /\ rows[u] \in A!Row
    BY <1>0, <1>1, RowTypes DEF AccessTypes, A!TypeOK, A!Matching
  <2>3. j \in SignJob
    BY <2>2 DEF SignJob, A!Row
  <2>4. TellsRow(j)'
    <3>1. TellsRow(j)
      BY <1>7, <2>2 DEF TellsRow
    <3>2. QED
      BY <1>3, <3>1
  <2>5. a_pc' \in [Clients -> {"idle", "Sign", "Create"}]
    BY <2>1, <2>2
  <2>6. AccessTypes'
    <3>1. a_job' \in [Clients -> A!Row \cup SignJob \cup {None}]
      BY <1>0, <2>1, <2>3 DEF AccessTypes
    <3>2. QED
      BY <1>1, <1>4, <2>1, <2>5, <3>1 DEF AcInv, AccessTypes, A!TypeOK
  <2>7. A!RefusedHasCause'
    BY <1>2, <2>1, StandKeeps
  <2>8. \A d \in Clients : a_pc'[d] = IF d = c THEN "Sign" ELSE a_pc[d]
    BY <2>1, <2>2
  <2>9. ASSUME NEW d \in Clients
        PROVE  /\ a_pc'[d] = "Sign" => a_job'[d] \in SignJob /\ \E i : a_job'[d] = i /\ TellsRow(i)'
               /\ a_pc'[d] = "Create" => a_job'[d] \in A!Row
    <3>1. CASE d = c
      <4>1. a_job' = [a_job EXCEPT ![c] = j] /\ a_job \in [Clients -> A!Row \cup SignJob \cup {None}]
        BY <2>1 DEF AcInv, AccessTypes
      <4>2. QED
        BY <2>3, <2>4, <2>8, <3>1, <4>1
    <3>2. CASE d # c
      <4>1. a_job'[d] = a_job[d] /\ a_pc'[d] = a_pc[d]
        BY <2>1, <2>8, <3>2
      <4>2. a_pc[d] = "Sign" => a_job[d] \in SignJob /\ TellsRow(a_job[d])
        BY DEF AcInv, AccessJobs, AllTell
      <4>3. a_pc[d] = "Create" => a_job[d] \in A!Row
        BY DEF AcInv, AccessJobs
      <4>4. QED
        BY <1>3, <4>1, <4>2, <4>3
    <3>3. QED
      BY <3>1, <3>2
  <2>10. AccessJobs'
    BY <2>9 DEF AccessJobs
  <2>11. AllTell'
    <3>1. \A t \in bearers' : TellsRow(t)'
      BY <1>1, <1>3 DEF AcInv, AllTell
    <3>2. QED
      BY <2>9, <3>1 DEF AllTell, TellsRow, A!Exists
  <2>12. QED
    BY <1>5, <1>6, <2>6, <2>7, <2>10, <2>11 DEF AcInv
<1>8. CASE rows[u].password # password
  <2>1. /\ wronged' = wronged \cup {m \in {n} : \E v \in A!Matching(n) : rows[v].password = password}
        /\ UNCHANGED <<a_pc, a_job>>
    BY <1>8 DEF A!Login
  <2>2. AccessTypes'
    <3>1. wronged' \subseteq A!Names
      BY <2>1 DEF AcInv, AccessTypes, A!TypeOK
    <3>2. QED
      BY <1>1, <1>4, <2>1, <3>1 DEF AcInv, AccessTypes, A!TypeOK
  <2>3. AllTell' /\ AccessJobs'
    BY <1>1, <1>3, <2>1, TellingOn
  <2>4. \A m : A!Matching(m)' = A!Matching(m)
    BY <1>0, <1>2, RowsStandFacts
  <2>5. A!RefusedHasCause'
    <3>1. ASSUME NEW v \in A!Matching(n), rows[v].password = password
          PROVE  Cardinality(A!Matching(n)) > 1
      BY <1>0, <1>1, <1>8, <3>1, SeveralMatch
    <3>2. QED
      BY <1>1, <2>1, <2>4, <3>1, AccessCounts DEF AcInv, A!RefusedHasCause
  <2>6. QED
    BY <1>5, <1>6, <2>2, <2>3, <2>5 DEF AcInv
<1>9. QED
  BY <1>7, <1>8

LEMMA SignStep ==
    ASSUME AcInv, NEW c \in Clients, A!Sign(c)
    PROVE  AcInv'
<1>0. AccessTypes
  BY DEF AcInv
<1>1. /\ a_pc[c] = "Sign" /\ A!Answer(c)
      /\ UNCHANGED <<now, calls, phase, rows, windows, served, late, overwritten, wronged>>
  BY DEF A!Sign
<1>2. PICK j : j = a_job[c]
  OBVIOUS
<1>3. j \in SignJob
  BY <1>1, <1>2 DEF AcInv, AccessJobs
<1>4. PICK t : /\ t = [user |-> j.user, role |-> j.role, proof |-> j.proof, exp |-> now + TTL]
               /\ bearers' = bearers \cup {t}
  BY <1>2 DEF A!Sign
<1>5. now + TTL \in 0 .. MaxTime + TTL
  BY AccessConstants DEF AcInv, AccessTypes, A!TypeOK
<1>6. t \in A!Token
  <2>1. j.user \in Requests /\ j.role \in A!Roles /\ j.proof \in A!Passwords
    BY <1>3 DEF SignJob
  <2>2. QED
    BY <1>4, <1>5, <2>1 DEF A!Token
<1>7. RowsStand
  BY <1>1 DEF RowsStand
<1>8. \A s : TellsRow(s) => TellsRow(s)'
  BY <1>0, <1>7, RowsStandFacts
<1>9. /\ AllTell' /\ AccessJobs'
      /\ a_pc' \in [Clients -> {"idle", "Sign", "Create"}]
      /\ a_job' \in [Clients -> A!Row \cup SignJob \cup {None}]
  <2>1. t.user = j.user /\ t.role = j.role /\ t.proof = j.proof
    BY <1>4
  <2>2. \A s \in bearers' : s \in bearers \/ (a_pc[c] = "Sign" /\ s.user = a_job[c].user
                                /\ s.role = a_job[c].role /\ s.proof = a_job[c].proof)
    BY <1>1, <1>2, <1>4, <2>1
  <2>3. QED
    BY <1>1, <1>8, <2>2, AnswerTells
<1>10. AccessTypes'
  BY <1>0, <1>1, <1>4, <1>6, <1>9 DEF AccessTypes, A!TypeOK
<1>11. WindowsCount'
  BY <1>1 DEF AcInv, WindowsCount
<1>12. QED
  BY <1>1, <1>7, <1>9, <1>10, <1>11, StandKeeps DEF AcInv

LEMMA CreateKeeps ==
    ASSUME AcInv, NEW c \in Clients, A!Create(c)
    PROVE  AcInv'
<1>0. AccessTypes
  BY DEF AcInv
<1>1. /\ \A t : TellsRow(t) => TellsRow(t)'
      /\ NamesDiffer' /\ UpsertsAreLate' /\ A!UsersKeepTheirRow'
      /\ rows' \in [Requests -> A!Row \cup {None}] /\ late' \subseteq Requests
      /\ \A n : Cardinality(A!Matching(n)) > 1 => Cardinality(A!Matching(n)') > 1
  BY CreateStep
<1>2. /\ A!Answer(c)
      /\ UNCHANGED <<now, calls, phase, bearers, windows, served, overwritten, wronged>>
  BY DEF A!Create
<1>3. /\ AllTell' /\ AccessJobs'
      /\ a_pc' \in [Clients -> {"idle", "Sign", "Create"}]
      /\ a_job' \in [Clients -> A!Row \cup SignJob \cup {None}]
  BY <1>1, <1>2, AnswerTells
<1>4. AccessTypes'
  BY <1>0, <1>1, <1>2, <1>3 DEF AccessTypes, A!TypeOK
<1>5. WindowsCount'
  BY <1>2 DEF AcInv, WindowsCount
<1>6. A!RefusedHasCause'
  BY <1>1, <1>2, AccessCounts DEF AcInv, A!RefusedHasCause
<1>7. QED
  BY <1>1, <1>3, <1>4, <1>5, <1>6 DEF AcInv

LEMMA AbortStep ==
    ASSUME AcInv, NEW c \in Clients, A!Abort(c)
    PROVE  AcInv'
<1>0. AccessTypes
  BY DEF AcInv
<1>1. /\ A!Answer(c)
      /\ UNCHANGED <<now, calls, phase, rows, bearers, windows, served, late, overwritten, wronged>>
  BY DEF A!Abort
<1>2. RowsStand
  BY <1>1 DEF RowsStand
<1>3. \A t : TellsRow(t) => TellsRow(t)'
  BY <1>0, <1>2, RowsStandFacts
<1>4. /\ AllTell' /\ AccessJobs'
      /\ a_pc' \in [Clients -> {"idle", "Sign", "Create"}]
      /\ a_job' \in [Clients -> A!Row \cup SignJob \cup {None}]
  BY <1>1, <1>3, AnswerTells
<1>5. AccessTypes'
  BY <1>0, <1>1, <1>4 DEF AccessTypes, A!TypeOK
<1>6. WindowsCount'
  BY <1>1 DEF AcInv, WindowsCount
<1>7. QED
  BY <1>1, <1>2, <1>4, <1>5, <1>6, StandKeeps DEF AcInv

LEMMA TickStep ==
    ASSUME AcInv, A!Tick
    PROVE  AcInv'
<1>0. AccessTypes /\ WindowsCount
  BY DEF AcInv
<1>1. /\ now < MaxTime /\ now' = now + 1 /\ served' = [x \in DOMAIN served |-> 0]
      /\ UNCHANGED <<calls, phase, rows, bearers, windows, a_pc, a_job, late, overwritten, wronged>>
  BY DEF A!Tick
<1>2. RowsStand
  BY <1>1 DEF RowsStand
<1>3. now \in Nat /\ now' \in 0 .. MaxTime /\ now < now'
  BY <1>0, <1>1, AccessConstants DEF AccessTypes, A!TypeOK
<1>4. served' \in [Limiters -> Nat] /\ \A x \in Limiters : served'[x] = 0
  BY <1>0, <1>1 DEF AccessTypes
<1>5. AccessTypes'
  BY <1>0, <1>1, <1>3, <1>4 DEF AccessTypes, A!TypeOK
<1>6. AllTell' /\ AccessJobs'
  <2>1. \A t : TellsRow(t) => TellsRow(t)'
    BY <1>0, <1>2, RowsStandFacts
  <2>2. QED
    BY <1>1, <2>1, TellingOn
<1>7. WindowsCount'
  <2> SUFFICES ASSUME NEW x \in Limiters
               PROVE  /\ served'[x] <= Limit
                      /\ windows'[x].start = None \/ windows'[x].start <= now'
                      /\ IF windows'[x].start = now' THEN served'[x] <= windows'[x].count ELSE served'[x] = 0
    BY DEF WindowsCount
  <2>1. windows[x].start \in Nat \cup {None} /\ windows[x].count \in Nat /\ windows' = windows
    BY <1>0, <1>1 DEF AccessTypes
  <2>2. windows[x].start = None \/ windows[x].start <= now
    BY <1>0 DEF WindowsCount
  <2>3. windows[x].start = None \/ windows[x].start < now'
    BY <1>3, <2>1, <2>2, AccessConstants
  <2>4. windows[x].start = None \/ windows[x].start <= now'
    BY <1>3, <2>1, <2>3, AccessConstants
  <2>5. QED
    BY <1>4, <2>1, <2>4, AccessConstants
<1>8. QED
  BY <1>1, <1>2, <1>5, <1>6, <1>7, StandKeeps DEF AcInv

(* A request counts itself, and passes only if it is counted under Limit.    *)
LEMMA Counts ==
    ASSUME AcInv, NEW x \in Limiters,
           windows' = [windows EXCEPT ![x] = A!Counted(@)],
           served' = IF A!Counted(windows[x]).count <= Limit THEN [served EXCEPT ![x] = @ + 1] ELSE served,
           UNCHANGED now
    PROVE  /\ WindowsCount'
           /\ windows' \in [Limiters -> [start : Nat \cup {None}, count : Nat]]
           /\ served' \in [Limiters -> Nat]
<1>1. /\ windows \in [Limiters -> [start : Nat \cup {None}, count : Nat]]
      /\ served \in [Limiters -> Nat] /\ now \in Nat
  BY AccessConstants DEF AcInv, AccessTypes, A!TypeOK
<1>2. PICK w : w = windows[x]
  OBVIOUS
<1>3. /\ w.start \in Nat \cup {None} /\ w.count \in Nat
      /\ w.start = None \/ w.start <= now
      /\ IF w.start = now THEN served[x] <= w.count ELSE served[x] = 0
      /\ served[x] <= Limit /\ served[x] \in Nat
      /\ w = [start |-> w.start, count |-> w.count]
  <2>1. w \in [start : Nat \cup {None}, count : Nat] /\ served[x] \in Nat
    BY <1>1, <1>2
  <2>2. /\ w.start = None \/ w.start <= now
        /\ IF w.start = now THEN served[x] <= w.count ELSE served[x] = 0
        /\ served[x] <= Limit
    BY <1>2 DEF AcInv, WindowsCount
  <2>3. QED
    BY <2>1, <2>2
<1>4. PICK n : n = A!Counted(w)
  OBVIOUS
<1>5. n.start = now /\ n \in [start : Nat \cup {None}, count : Nat]
      /\ n.count = IF w.start = now THEN w.count + 1 ELSE 1
  BY <1>1, <1>3, <1>4 DEF A!Counted
<1>6. windows' = [windows EXCEPT ![x] = n]
  BY <1>2, <1>4
<1>7. windows' \in [Limiters -> [start : Nat \cup {None}, count : Nat]] /\ windows'[x] = n
      /\ \A y \in Limiters \ {x} : windows'[y] = windows[y]
  BY <1>1, <1>5, <1>6
<1>8. PICK s : s = IF n.count <= Limit THEN served[x] + 1 ELSE served[x]
  OBVIOUS
<1>9. n.count \in Nat /\ s \in Nat /\ s <= n.count /\ s <= Limit
  <2>1. n.count \in Nat
    BY <1>5
  <2>2. s \in Nat /\ s <= n.count /\ s <= Limit
    BY <1>3, <1>5, <1>8, <2>1, AccessConstants
  <2>3. QED
    BY <2>1, <2>2
<1>10. served' = [served EXCEPT ![x] = s]
  <2>1. served' = IF n.count <= Limit THEN [served EXCEPT ![x] = served[x] + 1] ELSE served
    BY <1>2, <1>4
  <2>2. served = [served EXCEPT ![x] = served[x]]
    BY <1>1
  <2>3. QED
    BY <1>8, <2>1, <2>2
<1>11. served' \in [Limiters -> Nat] /\ served'[x] = s
       /\ \A y \in Limiters \ {x} : served'[y] = served[y]
  BY <1>1, <1>9, <1>10
<1>12. WindowsCount'
  <2> SUFFICES ASSUME NEW y \in Limiters
               PROVE  /\ served'[y] <= Limit
                      /\ windows'[y].start = None \/ windows'[y].start <= now'
                      /\ IF windows'[y].start = now' THEN served'[y] <= windows'[y].count ELSE served'[y] = 0
    BY DEF WindowsCount
  <2>1. CASE y = x
    BY <1>1, <1>5, <1>7, <1>9, <1>11, <2>1
  <2>2. CASE y # x
    <3>1. windows'[y] = windows[y] /\ served'[y] = served[y]
      BY <1>7, <1>11, <2>2
    <3>2. QED
      BY <3>1 DEF AcInv, WindowsCount
  <2>3. QED
    BY <2>1, <2>2
<1>13. QED
  BY <1>7, <1>11, <1>12

LEMMA RequestStep ==
    ASSUME AcInv, NEW c \in Clients, NEW p \in Tickets, NEW route \in A!Routes,
           NEW cred \in A!Credentials, NEW row \in A!Row, A!Request(c, p, route, cred, row)
    PROVE  AcInv'
<1>0. AccessTypes
  BY DEF AcInv
<1>1. PICK x \in Limiters :
          /\ windows' = [windows EXCEPT ![x] = A!Counted(@)]
          /\ served' = IF A!Counted(windows[x]).count <= Limit
                       THEN [served EXCEPT ![x] = @ + 1] ELSE served
  <2>1. <<p, route, A!KeyOf(cred)>> \in Limiters
    BY DEF Limiters, A!KeyOf, A!Keys
  <2>2. QED
    BY <2>1 DEF A!Request
<1>2. /\ a_pc[c] = "idle" /\ calls < MaxCalls /\ calls' = calls + 1
      /\ UNCHANGED <<now, phase, rows, bearers, late, overwritten, wronged>>
      /\ \/ a_pc' = [a_pc EXCEPT ![c] = "Create"] /\ a_job' = [a_job EXCEPT ![c] = row]
         \/ UNCHANGED <<a_pc, a_job>>
  BY DEF A!Request
<1>3. /\ WindowsCount'
      /\ windows' \in [Limiters -> [start : Nat \cup {None}, count : Nat]]
      /\ served' \in [Limiters -> Nat]
  BY <1>1, <1>2, Counts
<1>4. RowsStand
  BY <1>2 DEF RowsStand
<1>5. \A t : TellsRow(t) => TellsRow(t)'
  BY <1>0, <1>4, RowsStandFacts
<1>6. calls' \in 0 .. MaxCalls
  BY <1>2, AccessConstants DEF AcInv, AccessTypes, A!TypeOK
<1>7. /\ AllTell' /\ AccessJobs'
      /\ a_pc' \in [Clients -> {"idle", "Sign", "Create"}]
      /\ a_job' \in [Clients -> A!Row \cup SignJob \cup {None}]
  <2>0. /\ a_pc \in [Clients -> {"idle", "Sign", "Create"}]
        /\ a_job \in [Clients -> A!Row \cup SignJob \cup {None}]
    BY <1>0 DEF AccessTypes, A!TypeOK
  <2>1. CASE UNCHANGED <<a_pc, a_job>>
    BY <1>2, <1>5, <2>0, <2>1, TellingOn
  <2>2. CASE a_pc' = [a_pc EXCEPT ![c] = "Create"] /\ a_job' = [a_job EXCEPT ![c] = row]
    <3>1. a_pc' \in [Clients -> {"idle", "Sign", "Create"}] /\ a_pc'[c] = "Create"
          /\ \A d \in Clients \ {c} : a_pc'[d] = a_pc[d]
      BY <2>0, <2>2
    <3>2. a_job' \in [Clients -> A!Row \cup SignJob \cup {None}] /\ a_job'[c] = row
          /\ \A d \in Clients \ {c} : a_job'[d] = a_job[d]
      BY <2>0, <2>2
    <3>3. AccessJobs'
      BY <3>1, <3>2 DEF AcInv, AccessJobs
    <3>4. \A d \in Clients : a_pc'[d] = "Sign" => \E j : a_job'[d] = j /\ TellsRow(j)'
      <4>1. ASSUME NEW d \in Clients, a_pc'[d] = "Sign"
            PROVE  \E j : a_job'[d] = j /\ TellsRow(j)'
        <5>1. d # c /\ a_job'[d] = a_job[d] /\ a_pc[d] = "Sign"
          BY <3>1, <3>2, <4>1
        <5>2. TellsRow(a_job[d])
          BY <5>1 DEF AcInv, AllTell
        <5>3. QED
          BY <1>5, <5>1, <5>2
      <4>2. QED
        BY <4>1
    <3>5. \A t \in bearers' : TellsRow(t)'
      BY <1>2, <1>5 DEF AcInv, AllTell
    <3>6. AllTell'
      BY <3>4, <3>5 DEF AllTell, TellsRow, A!Exists
    <3>7. QED
      BY <3>1, <3>2, <3>3, <3>6
  <2>3. QED
    BY <1>2, <2>1, <2>2
<1>8. AccessTypes'
  BY <1>0, <1>2, <1>3, <1>6, <1>7 DEF AccessTypes, A!TypeOK
<1>9. QED
  BY <1>2, <1>3, <1>4, <1>7, <1>8, StandKeeps DEF AcInv

LEMMA AccessNext ==
    ASSUME AcInv, A!Next
    PROVE  AcInv'
<1>1. CASE \E p \in Tickets : A!Start(p) \/ A!BootstrapReads(p) \/ A!Upsert(p) \/ A!Fatal(p)
  BY <1>1, PhaseStep, UpsertKeeps
<1>2. CASE \E c \in Clients, p \in Tickets, n \in A!Names, password \in A!Passwords, u \in Requests :
             A!Login(c, p, n, password, u)
  BY <1>2, LoginStep
<1>3. CASE \E c \in Clients, p \in Tickets, route \in A!Routes, cred \in A!Credentials, row \in A!Row :
             A!Request(c, p, route, cred, row)
  BY <1>3, RequestStep
<1>4. CASE \E c \in Clients : A!Sign(c) \/ A!Create(c) \/ A!Abort(c)
  BY <1>4, SignStep, CreateKeeps, AbortStep
<1>5. CASE A!Tick
  BY <1>5, TickStep
<1>6. QED
  BY <1>1, <1>2, <1>3, <1>4, <1>5 DEF A!Next

LEMMA AccessInit ==
    ASSUME A!Init
    PROVE  AcInv
<1>1. \A u \in Requests : rows[u] = None
  BY DEF A!Init
<1>2. AccessTypes
  <2>1. 0 \in 0 .. MaxTime /\ 0 \in 0 .. MaxCalls
    BY AccessConstants
  <2>2. windows \in [Limiters -> [start : Nat \cup {None}, count : Nat]]
    BY DEF A!Init, Limiters
  <2>3. QED
    BY <2>1, <2>2 DEF A!Init, AccessTypes, A!TypeOK, A!Phases, Limiters
<1>3. AllTell /\ AccessJobs /\ NamesDiffer /\ UpsertsAreLate /\ A!UsersKeepTheirRow /\ A!RefusedHasCause
  BY DEF A!Init, AllTell, AccessJobs, NamesDiffer, UpsertsAreLate, A!UsersKeepTheirRow,
         A!RefusedHasCause, A!Exists
<1>4. WindowsCount
  BY AccessConstants DEF A!Init, WindowsCount, Limiters
<1>5. QED
  BY <1>2, <1>3, <1>4 DEF AcInv

(* Users keep their rows, tokens tell them, a right password is refused only *)
(* where two users match, and no limiter lets more than Limit requests of a  *)
(* client through in a minute: for every number of processes, clients and    *)
(* users, whatever statement fails (AuthService, EnsureBootstrapUser,        *)
(* RateLimitPerMinute).                                                      *)
THEOREM AccessIsKept == DesksSpec => []AccessInv
<1>1. DesksInit => AcInv
  BY AccessInit DEF DesksInit
<1>2. AcInv /\ [DesksNext]_all => AcInv'
  <2> SUFFICES ASSUME AcInv, [DesksNext]_all PROVE AcInv'
    OBVIOUS
  <2>1. CASE A!Next
    BY <2>1, AccessNext
  <2>2. CASE UNCHANGED accessVars
    BY <2>2 DEF accessVars, AcInv, AccessTypes, A!TypeOK, AccessJobs, AllTell, TellsRow, NamesDiffer,
                UpsertsAreLate, WindowsCount, A!UsersKeepTheirRow, A!RefusedHasCause, A!Matching,
                A!Named, A!Exists
  <2>3. QED
    BY <2>1, <2>2 DEF DesksNext, all
<1>3. AcInv => AccessInv
  <2> SUFFICES ASSUME AcInv PROVE A!AccessInv
    BY DEF AccessInv
  <2>1. A!TypeOK /\ A!UsersKeepTheirRow /\ A!RefusedHasCause
    BY DEF AcInv, AccessTypes
  <2>2. A!TokensTellTheRow
    BY DEF AcInv, AllTell, TellsRow, A!TokensTellTheRow
  <2>3. A!LimitHolds
    BY DEF AcInv, AccessTypes, WindowsCount, A!LimitHolds
  <2>4. QED
    BY <2>1, <2>2, <2>3 DEF A!AccessInv
<1>4. QED
  BY <1>1, <1>2, <1>3, PTL DEF DesksSpec

-----------------------------------------------------------------------------
(***************************************************************************)
(* The sessions of the analytics platform.  A refresh token has one heir   *)
(* or one request that may still make it one; what shows a password, a     *)
(* token or a request, shows the one in force until a change of password   *)
(* has revoked the tokens; and only one bootstrap founds.                  *)
(***************************************************************************)
Statements ==
    {"idle", "GetByEmail", "RegisterFailedLogin", "ResetFailedLogins", "Issue", "GetValid",
     "Revoke", "GetByID", "UpdatePassword", "RevokeAllForUser", "Count", "Create", "UpdateActive"}

SessionTypes == S!TypeOK /\ s_pc \in [Clients -> Statements]

(* What a request about to run a statement asks for.                        *)
OpFits(statement, op) ==
    /\ statement \in {"GetByEmail", "RegisterFailedLogin", "ResetFailedLogins"} => op = "login"
    /\ statement = "Issue" => op \in {"login", "refresh", "bootstrap"}
    /\ statement = "GetValid" => op = "refresh"
    /\ statement = "Revoke" => op \in {"refresh", "logout"}
    /\ statement = "GetByID" => op \in {"refresh", "change"}
    /\ statement = "UpdatePassword" => op = "change"
    /\ statement = "RevokeAllForUser" => op \in {"logout", "change"}
    /\ statement = "Count" => op = "bootstrap"
    /\ statement = "Create" => op \in {"bootstrap", "create"}
    /\ statement = "UpdateActive" => op = "update"

(* The rows it is about are there.                                          *)
AboutRows(j) ==
    /\ j.op \in {"login", "change", "update", "logout"} => j.user \in Tickets /\ S!Exists(j.user)
    /\ j.op \in {"bootstrap", "create"} => j.user \in Tickets
    /\ j.op \in {"refresh", "logout"} => j.token \in Requests /\ S!Issued(j.token)
    /\ j.op \in {"login", "bootstrap"} => j.token = None

JobsFit ==
    \A c \in Clients :
        /\ OpFits(s_pc[c], s_job[c].op)
        /\ AboutRows(s_job[c])
        /\ s_pc[c] = "Issue" /\ s_job[c].op = "bootstrap" => S!Exists(s_job[c].user)
        /\ s_pc[c] \in {"idle", "Count", "Create"} => proof[c] = 0

TokensOfUsers == \A t \in Requests : S!Issued(t) => S!Exists(tokens[t].user)

SoundRows == SessionTypes /\ JobsFit /\ TokensOfUsers

(* A refresh that has found its token valid.                                *)
Holds(c, t) ==
    /\ s_pc[c] \in {"Revoke", "GetByID", "Issue"}
    /\ s_job[c].op = "refresh"
    /\ s_job[c].token = t

Heir(s, t) == S!Issued(s) /\ tokens[s].parent = t

HeirsInv ==
    \A t \in Requests : S!Issued(t) /\ t \notin shared =>
        /\ \A s1, s2 \in Requests : Heir(s1, t) /\ Heir(s2, t) => s1 = s2
        /\ \A c, d \in Clients : Holds(c, t) /\ Holds(d, t) => c = d
        /\ \A c \in Clients, s \in Requests : ~(Holds(c, t) /\ Heir(s, t))
        /\ \A s \in Requests : Heir(s, t) => ~S!Valid(t)
        /\ \A c \in Clients : Holds(c, t) /\ s_pc[c] # "Revoke" => ~S!Valid(t)

ParentsIssued ==
    \A s \in Requests : S!Issued(s) /\ tokens[s].parent # None =>
        tokens[s].parent \in Requests /\ S!Issued(tokens[s].parent)

(* A request that changes the password of u has yet to revoke its tokens.   *)
Changer(c, u) == S!Changes(c) /\ s_job[c].user = u /\ s_pc[c] = "RevokeAllForUser"

Shows(u, password) ==
    \/ password = users[u].password
    \/ u \in excused
    \/ \E c \in Clients : Changer(c, u)

(* A request that may still get a session.                                  *)
MayEnter(c) ==
    /\ s_pc[c] \in {"ResetFailedLogins", "Issue", "Revoke", "GetByID"}
    /\ s_job[c].op \in {"login", "refresh", "bootstrap"}

ShowsInv ==
    /\ \A t \in Requests : S!Issued(t) /\ S!Valid(t) => Shows(tokens[t].user, tokens[t].proof)
    /\ \A c \in Clients : MayEnter(c) => Shows(S!Of(c), proof[c])

FoundersInv ==
    /\ \A u \in founders : S!Exists(u)
    /\ ~raced => \A c, d \in Clients : S!Founds(c) /\ S!Founds(d) => c = d
    /\ ~raced /\ founders # {} => \A c \in Clients : ~S!Founds(c)
    /\ S!OneFounder

SsInv ==
    SoundRows /\ HeirsInv /\ ParentsIssued /\ ShowsInv /\ FoundersInv /\ S!LockFollowsFailures

LEMMA SessionConstants ==
    /\ MaxFailedLogins \in Nat /\ MaxFailedLogins >= 1
    /\ MaxPasswords \in Nat /\ MaxRequests \in Nat
    /\ None \notin Tickets /\ None \notin Requests
    /\ None \notin S!User /\ None \notin S!Token
<1>1. MaxFailedLogins \in Nat \ {0} /\ MaxPasswords \in Nat /\ MaxRequests \in Nat
  BY SessionParameters DEF S!Parameters
<1>2. MaxFailedLogins >= 1
  BY <1>1
<1>3. QED
  BY <1>1, <1>2, SessionParameters DEF S!Parameters

LEMMA SessionRows ==
    ASSUME SessionTypes
    PROVE  /\ users \in [Tickets -> S!User \cup {None}]
           /\ tokens \in [Requests -> S!Token \cup {None}]
           /\ \A u \in Tickets : S!Exists(u) => users[u] \in S!User
           /\ \A t \in Requests : S!Issued(t) => tokens[t] \in S!Token
           /\ s_pc \in [Clients -> Statements]
           /\ s_job \in [Clients -> S!Job]
           /\ proof \in [Clients -> S!Passwords]
BY DEF SessionTypes, S!TypeOK, S!Exists, S!Issued

LEMMA RowFields ==
    /\ \A row \in S!User :
          /\ row.active \in BOOLEAN /\ row.failed_login_count \in 0 .. MaxFailedLogins + 1
          /\ row.locked_until \in S!Locks /\ row.password \in S!Passwords
          /\ row # None
    /\ \A row \in S!Token :
          /\ row.user \in Tickets /\ row.valid \in BOOLEAN /\ row.proof \in S!Passwords
          /\ row.parent \in Requests \cup {None}
          /\ row # None
BY SessionConstants DEF S!User, S!Token

(* What one more failed login makes of a user.                              *)
LEMMA FailedRow ==
    ASSUME NEW row \in S!User
    PROVE  /\ S!Failed(row) \in S!User /\ S!Failed(row).password = row.password
           /\ (row.locked_until # "none" <=> row.failed_login_count >= MaxFailedLogins) =>
              (S!Failed(row).locked_until # "none" <=>
                  S!Failed(row).failed_login_count >= MaxFailedLogins)
<1>1. PICK n : n = row.failed_login_count
  OBVIOUS
<1>2. PICK m : m = IF n <= MaxFailedLogins THEN n + 1 ELSE n
  OBVIOUS
<1>3. PICK k : k = IF n + 1 >= MaxFailedLogins THEN "on" ELSE row.locked_until
  OBVIOUS
<1>4. n \in 0 .. MaxFailedLogins + 1
  BY <1>1, RowFields
<1>5. m \in 0 .. MaxFailedLogins + 1
  BY <1>2, <1>4, SessionConstants
<1>6. k \in S!Locks
  BY <1>3, RowFields DEF S!Locks
<1>7. S!Failed(row) = [row EXCEPT !.failed_login_count = m, !.locked_until = k]
  BY <1>1, <1>2, <1>3 DEF S!Failed
<1>8. /\ S!Failed(row) \in S!User /\ S!Failed(row).password = row.password
      /\ S!Failed(row).locked_until = k /\ S!Failed(row).failed_login_count = m
  BY <1>5, <1>6, <1>7 DEF S!User
<1>9. m >= MaxFailedLogins <=> n + 1 >= MaxFailedLogins
  BY <1>2, <1>4, SessionConstants
<1>10. ASSUME row.locked_until # "none" <=> n >= MaxFailedLogins
       PROVE  k # "none" <=> m >= MaxFailedLogins
  <2>1. CASE n + 1 >= MaxFailedLogins
    BY <1>3, <1>9, <2>1
  <2>2. CASE ~(n + 1 >= MaxFailedLogins)
    <3>1. ~(n >= MaxFailedLogins)
      BY <1>4, <2>2, SessionConstants
    <3>2. k = row.locked_until
      BY <1>3, <2>2
    <3>3. QED
      BY <1>9, <1>10, <2>2, <3>1, <3>2
  <2>3. QED
    BY <2>1, <2>2
<1>11. QED
  BY <1>1, <1>8, <1>10

(* What a step makes of the table users: one row, new or changed.           *)
UserStep(u, row) ==
    /\ users' = [users EXCEPT ![u] = row]
    /\ \/ /\ S!Exists(u)
          /\ \/ row.password = users[u].password
             \/ \E c \in Clients : S!UpdatePassword(c) /\ s_job[c].user = u
          /\ (users[u].locked_until # "none" <=> users[u].failed_login_count >= MaxFailedLogins) =>
             (row.locked_until # "none" <=> row.failed_login_count >= MaxFailedLogins)
       \/ /\ ~S!Exists(u)
          /\ \E c \in Clients : S!Create(c) /\ s_job[c].user = u
          /\ row.password = 0
          /\ row.locked_until = "none" /\ row.failed_login_count = 0

LEMMA UsersChange ==
    ASSUME SoundRows, S!Next
    PROVE  users' = users \/ \E u \in Tickets, row \in S!User : UserStep(u, row)
<1>1. SessionTypes /\ JobsFit
  BY DEF SoundRows
<1>2. ASSUME NEW c \in Clients, s_job[c].op \in {"login", "change", "update"}
      PROVE  s_job[c].user \in Tickets /\ S!Exists(s_job[c].user) /\ users[s_job[c].user] \in S!User
  BY <1>1, <1>2, SessionRows DEF JobsFit, AboutRows
<1>3. ASSUME NEW c \in Clients, S!RegisterFailedLogin(c)
      PROVE  \E u \in Tickets, row \in S!User : UserStep(u, row)
  <2>1. s_job[c].op = "login"
    BY <1>1, <1>3 DEF S!RegisterFailedLogin, JobsFit, OpFits
  <2>2. PICK u : u = s_job[c].user
    OBVIOUS
  <2>3. u \in Tickets /\ S!Exists(u) /\ users[u] \in S!User
    BY <1>2, <2>1, <2>2
  <2>4. users' = [users EXCEPT ![u] = S!Failed(users[u])]
    BY <1>3, <2>2 DEF S!RegisterFailedLogin
  <2>5. QED
    BY <2>3, <2>4, FailedRow DEF UserStep
<1>4. ASSUME NEW c \in Clients, S!ResetFailedLogins(c), users' # users
      PROVE  \E u \in Tickets, row \in S!User : UserStep(u, row)
  <2>1. s_job[c].op = "login"
    BY <1>1, <1>4 DEF S!ResetFailedLogins, JobsFit, OpFits
  <2>2. PICK u : u = s_job[c].user
    OBVIOUS
  <2>3. u \in Tickets /\ S!Exists(u) /\ users[u] \in S!User
    BY <1>2, <2>1, <2>2
  <2>4. PICK row : row = [users[u] EXCEPT !.failed_login_count = 0, !.locked_until = "none"]
    OBVIOUS
  <2>5. users' = [users EXCEPT ![u] = row]
    BY <1>1, <1>4, <2>2, <2>3, <2>4, SessionRows DEF S!ResetFailedLogins
  <2>6. 0 \in 0 .. MaxFailedLogins + 1 /\ ~(0 >= MaxFailedLogins)
    BY SessionConstants
  <2>7. row \in S!User /\ row.password = users[u].password
        /\ row.locked_until = "none" /\ row.failed_login_count = 0
    BY <2>3, <2>4, <2>6 DEF S!User, S!Locks
  <2>8. QED
    BY <2>3, <2>5, <2>6, <2>7 DEF UserStep
<1>5. ASSUME NEW c \in Clients, S!UpdatePassword(c)
      PROVE  \E u \in Tickets, row \in S!User : UserStep(u, row)
  <2>1. s_job[c].op = "change"
    BY <1>1, <1>5 DEF S!UpdatePassword, JobsFit, OpFits
  <2>2. PICK u : u = s_job[c].user
    OBVIOUS
  <2>3. u \in Tickets /\ S!Exists(u) /\ users[u] \in S!User
    BY <1>2, <2>1, <2>2
  <2>4. PICK n : n = users[u].password + 1
    OBVIOUS
  <2>5. n \in S!Passwords
    <3>1. users[u].password < MaxPasswords /\ users[u].password \in 0 .. MaxPasswords
      BY <1>5, <2>2, <2>3, RowFields DEF S!UpdatePassword, S!Passwords
    <3>2. QED
      BY <2>4, <3>1, SessionConstants DEF S!Passwords
  <2>6. PICK row : row = [users[u] EXCEPT !.password = n]
    OBVIOUS
  <2>7. users' = [users EXCEPT ![u] = row]
    BY <1>5, <2>2, <2>4, <2>6 DEF S!UpdatePassword
  <2>8. row \in S!User /\ row.locked_until = users[u].locked_until
        /\ row.failed_login_count = users[u].failed_login_count
    BY <2>3, <2>5, <2>6 DEF S!User
  <2>9. QED
    BY <1>5, <2>2, <2>3, <2>7, <2>8 DEF UserStep
<1>6. ASSUME NEW c \in Clients, S!Create(c), users' # users
      PROVE  \E u \in Tickets, row \in S!User : UserStep(u, row)
  <2>1. s_job[c].op \in {"bootstrap", "create"}
    BY <1>1, <1>6 DEF S!Create, JobsFit, OpFits
  <2>2. PICK u : u = s_job[c].user
    OBVIOUS
  <2>3. u \in Tickets
    BY <1>1, <2>1, <2>2 DEF JobsFit, AboutRows
  <2>4. PICK row : row = [active |-> TRUE, failed_login_count |-> 0, locked_until |-> "none",
                          password |-> 0]
    OBVIOUS
  <2>5. ~S!Exists(u) /\ users' = [users EXCEPT ![u] = row]
    BY <1>6, <2>2, <2>4 DEF S!Create
  <2>6. 0 \in 0 .. MaxFailedLogins + 1 /\ 0 \in S!Passwords
    BY SessionConstants DEF S!Passwords
  <2>7. row \in S!User /\ row.password = 0 /\ row.locked_until = "none"
        /\ row.failed_login_count = 0
    BY <2>4, <2>6 DEF S!User, S!Locks
  <2>8. QED
    BY <1>6, <2>2, <2>3, <2>5, <2>7 DEF UserStep
<1>7. ASSUME NEW c \in Clients, S!UpdateActive(c)
      PROVE  \E u \in Tickets, row \in S!User : UserStep(u, row)
  <2>1. s_job[c].op = "update"
    BY <1>1, <1>7 DEF S!UpdateActive, JobsFit, OpFits
  <2>2. PICK u : u = s_job[c].user
    OBVIOUS
  <2>3. u \in Tickets /\ S!Exists(u) /\ users[u] \in S!User
    BY <1>2, <2>1, <2>2
  <2>4. PICK row : row = [users[u] EXCEPT !.active = s_job[c].active]
    OBVIOUS
  <2>5. users' = [users EXCEPT ![u] = row]
    BY <1>7, <2>2, <2>4 DEF S!UpdateActive
  <2>6. s_job[c].active \in BOOLEAN
    BY <1>1, SessionRows DEF S!Jobs, S!Job
  <2>7. row \in S!User /\ row.locked_until = users[u].locked_until
        /\ row.failed_login_count = users[u].failed_login_count
        /\ row.password = users[u].password
    BY <2>3, <2>4, <2>6 DEF S!User
  <2>8. QED
    BY <2>3, <2>5, <2>7 DEF UserStep
<1>8. ASSUME NEW u \in Tickets, S!LockExpires(u)
      PROVE  \E v \in Tickets, row \in S!User : UserStep(v, row)
  <2>1. S!Exists(u) /\ users[u].locked_until = "on" /\ users[u] \in S!User
    BY <1>1, <1>8, SessionRows DEF S!LockExpires
  <2>2. PICK row : row = [users[u] EXCEPT !.locked_until = "over"]
    OBVIOUS
  <2>3. users' = [users EXCEPT ![u] = row]
    BY <1>8, <2>2 DEF S!LockExpires
  <2>4. row \in S!User /\ row.locked_until = "over"
        /\ row.failed_login_count = users[u].failed_login_count
        /\ row.password = users[u].password
    BY <2>1, <2>2 DEF S!User, S!Locks
  <2>5. QED
    BY <2>1, <2>3, <2>4 DEF UserStep
<1>9. \/ users' = users
      \/ \E c \in Clients : \/ S!RegisterFailedLogin(c) \/ S!ResetFailedLogins(c)
                            \/ S!UpdatePassword(c) \/ S!Create(c) \/ S!UpdateActive(c)
      \/ \E u \in Tickets : S!LockExpires(u)
  BY DEF S!Next, S!Serve, S!Receive, S!GetByEmail, S!Issue, S!GetValid, S!Revoke,
         S!RevokeIgnored, S!GetByID, S!RevokeAllForUser, S!Count, S!Abort, S!TokenExpires
<1>10. QED
  BY <1>3, <1>4, <1>5, <1>6, <1>7, <1>8, <1>9

(* What a step makes of the table refresh_tokens: one more, or some revoked. *)
Revoked(gone) ==
    [t \in Requests |-> IF t \in gone /\ S!Issued(t)
                        THEN [tokens[t] EXCEPT !.valid = FALSE] ELSE tokens[t]]

LEMMA TokensChange ==
    ASSUME SoundRows, S!Next
    PROVE  \/ tokens' = tokens
           \/ \E gone \in SUBSET Requests : tokens' = Revoked(gone)
           \/ \E c \in Clients, t \in Requests : S!Issue(c, t)
<1>1. SessionTypes /\ JobsFit
  BY DEF SoundRows
<1>2. ASSUME NEW c \in Clients, S!Revoke(c)
      PROVE  tokens' = Revoked({s_job[c].token}) /\ s_job[c].token \in Requests
  <2>1. s_job[c].token \in Requests /\ S!Issued(s_job[c].token)
    <3>1. s_job[c].op \in {"refresh", "logout"}
      BY <1>1, <1>2 DEF S!Revoke, JobsFit, OpFits
    <3>2. QED
      BY <1>1, <3>1 DEF JobsFit, AboutRows
  <2>2. QED
    BY <1>1, <1>2, <2>1, SessionRows DEF S!Revoke, Revoked
<1>3. ASSUME NEW c \in Clients, S!RevokeAllForUser(c)
      PROVE  \E gone \in SUBSET Requests : tokens' = Revoked(gone)
  <2>1. tokens' = Revoked({t \in Requests : S!Issued(t) /\ tokens[t].user = s_job[c].user})
    BY <1>3 DEF S!RevokeAllForUser, S!RevokedFor, Revoked
  <2>2. QED
    BY <2>1
<1>4. ASSUME NEW t \in Requests, S!TokenExpires(t)
      PROVE  tokens' = Revoked({t})
  BY <1>1, <1>4, SessionRows DEF S!TokenExpires, Revoked
<1>5. \/ tokens' = tokens
      \/ \E c \in Clients : S!Revoke(c) \/ S!RevokeAllForUser(c)
      \/ \E t \in Requests : S!TokenExpires(t)
      \/ \E c \in Clients, t \in Requests : S!Issue(c, t)
  BY DEF S!Next, S!Serve, S!Receive, S!GetByEmail, S!RegisterFailedLogin, S!ResetFailedLogins,
         S!GetValid, S!RevokeIgnored, S!GetByID, S!UpdatePassword, S!Count, S!Create,
         S!UpdateActive, S!Abort, S!LockExpires
<1>6. QED
  BY <1>2, <1>3, <1>4, <1>5

(* Users and tokens stay, a token as it was except that it may be revoked.   *)
RowsStay ==
    /\ \A u \in Tickets : S!Exists(u) => users'[u] # None
    /\ \A t \in Requests : S!Issued(t) =>
          /\ tokens'[t] # None
          /\ tokens'[t].user = tokens[t].user /\ tokens'[t].proof = tokens[t].proof
          /\ tokens'[t].parent = tokens[t].parent
          /\ tokens'[t].valid => tokens[t].valid

LEMMA RevokedRows ==
    ASSUME SessionTypes, NEW gone \in SUBSET Requests, tokens' = Revoked(gone)
    PROVE  /\ tokens' \in [Requests -> S!Token \cup {None}]
           /\ \A t \in Requests :
                 /\ tokens'[t] # None <=> tokens[t] # None
                 /\ S!Issued(t) =>
                      /\ tokens'[t].user = tokens[t].user /\ tokens'[t].proof = tokens[t].proof
                      /\ tokens'[t].parent = tokens[t].parent
                      /\ tokens'[t].valid => tokens[t].valid
                      /\ t \in gone => ~tokens'[t].valid
<1>1. ASSUME NEW t \in Requests, S!Issued(t)
      PROVE  LET row == [tokens[t] EXCEPT !.valid = FALSE]
             IN row \in S!Token /\ row # None /\ row.user = tokens[t].user
                /\ row.proof = tokens[t].proof /\ row.parent = tokens[t].parent /\ row.valid = FALSE
  <2>1. tokens[t] \in S!Token
    BY <1>1, SessionRows
  <2>2. [tokens[t] EXCEPT !.valid = FALSE] \in S!Token
    BY <2>1 DEF S!Token
  <2>3. QED
    BY <2>1, <2>2, RowFields DEF S!Token
<1>2. QED
  BY <1>1, SessionRows DEF Revoked, S!Issued

LEMMA RowsDoStay ==
    ASSUME SoundRows, S!Next
    PROVE  RowsStay
<1>1. SessionTypes
  BY DEF SoundRows
<1>2. \A u \in Tickets : S!Exists(u) => users'[u] # None
  <2>1. ASSUME NEW v \in Tickets, NEW row \in S!User, UserStep(v, row)
        PROVE  \A u \in Tickets : S!Exists(u) => users'[u] # None
    BY <1>1, <2>1, SessionRows, RowFields DEF UserStep, S!Exists
  <2>2. QED
    BY <2>1, UsersChange DEF S!Exists
<1>3. ASSUME NEW t \in Requests, S!Issued(t)
      PROVE  /\ tokens'[t] # None
             /\ tokens'[t].user = tokens[t].user /\ tokens'[t].proof = tokens[t].proof
             /\ tokens'[t].parent = tokens[t].parent
             /\ tokens'[t].valid => tokens[t].valid
  <2>1. ASSUME NEW gone \in SUBSET Requests, tokens' = Revoked(gone)
        PROVE  /\ tokens'[t] # None
               /\ tokens'[t].user = tokens[t].user /\ tokens'[t].proof = tokens[t].proof
               /\ tokens'[t].parent = tokens[t].parent
               /\ tokens'[t].valid => tokens[t].valid
    BY <1>1, <1>3, <2>1, RevokedRows DEF S!Issued
  <2>2. ASSUME NEW c \in Clients, NEW s \in Requests, S!Issue(c, s)
        PROVE  tokens'[t] = tokens[t]
    <3>1. s # t
      BY <1>3, <2>2 DEF S!Issue
    <3>2. QED
      BY <1>1, <2>2, <3>1, SessionRows DEF S!Issue
  <2>3. QED
    BY <1>3, <2>1, <2>2, TokensChange DEF S!Issued
<1>4. QED
  BY <1>2, <1>3 DEF RowsStay

LEMMA LocksStep ==
    ASSUME SoundRows, S!LockFollowsFailures, S!Next
    PROVE  S!LockFollowsFailures'
<1>1. SessionTypes
  BY DEF SoundRows
<1>2. ASSUME NEW v \in Tickets, NEW row \in S!User, UserStep(v, row)
      PROVE  S!LockFollowsFailures'
  <2>1. /\ users' = [users EXCEPT ![v] = row]
        /\ row.locked_until # "none" <=> row.failed_login_count >= MaxFailedLogins
    <3>1. CASE S!Exists(v)
      BY <1>2, <3>1 DEF UserStep, S!LockFollowsFailures
    <3>2. CASE ~S!Exists(v)
      BY <1>2, <3>2, SessionConstants DEF UserStep
    <3>3. QED
      BY <1>2, <3>1, <3>2 DEF UserStep
  <2>2. \A u \in Tickets : users'[u] = IF u = v THEN row ELSE users[u]
    BY <1>1, <2>1, SessionRows
  <2>3. QED
    BY <2>1, <2>2 DEF S!LockFollowsFailures, S!Exists
<1>3. CASE users' = users
  BY <1>3 DEF S!LockFollowsFailures, S!Exists
<1>4. QED
  BY <1>2, <1>3, UsersChange

(* A step of a request: what it runs next, asks for and has shown.          *)
Moves(c, statement, j, password) ==
    /\ s_pc' = [s_pc EXCEPT ![c] = statement]
    /\ s_job' = [s_job EXCEPT ![c] = j]
    /\ proof' = [proof EXCEPT ![c] = password]
    /\ OpFits(statement, j.op)
    /\ j = s_job[c] \/ j = S!NoJob \/ j \in S!Asked
    /\ statement \in {"idle", "Count", "Create"} => password = 0
    /\ statement = "Issue" /\ j.op = "bootstrap" => users'[j.user] # None

NobodyMoves == UNCHANGED <<s_pc, s_job, proof>>

LEMMA NoJobFits ==
    /\ S!NoJob \in S!Job /\ S!NoJob.op = "none" /\ S!NoJob.user = None /\ S!NoJob.token = None
    /\ AboutRows(S!NoJob)
<1>1. 0 \in S!Passwords
  BY SessionConstants DEF S!Passwords
<1>2. QED
  BY <1>1 DEF S!NoJob, S!Jobs, S!Job, S!Ops, AboutRows

LEMMA AskedFits ==
    ASSUME SoundRows, NEW j \in S!Asked
    PROVE  /\ j \in S!Job /\ AboutRows(j) /\ OpFits(S!FirstStatement(j.op), j.op)
           /\ S!FirstStatement(j.op) \in Statements
           /\ S!FirstStatement(j.op) # "Issue"
<1>1. 0 \in S!Passwords
  BY SessionConstants DEF S!Passwords
<1>2. SessionTypes /\ TokensOfUsers
  BY DEF SoundRows
<1>3. \A t \in Requests : S!Issued(t) => tokens[t].user \in Tickets /\ S!Exists(tokens[t].user)
  BY <1>2, SessionRows, RowFields DEF TokensOfUsers
<1>4. \/ j \in S!Jobs({"login", "change"}, S!Existing, {None}, S!Passwords, {TRUE})
      \/ j \in S!Jobs({"refresh"}, {None}, S!Known, {0}, {TRUE})
      \/ \E t \in S!Known : j \in S!Jobs({"logout"}, {tokens[t].user}, {t}, {0}, {TRUE})
      \/ j \in S!Jobs({"bootstrap"}, Tickets, {None}, {0}, {TRUE})
      \/ j \in S!Jobs({"create"}, Tickets, {None}, {0}, {TRUE})
      \/ j \in S!Jobs({"update"}, S!Existing, {None}, {0}, BOOLEAN)
  <2>1. \/ j \in S!Jobs({"login", "change"}, S!Existing, {None}, S!Passwords, {TRUE})
        \/ j \in S!Jobs({"refresh"}, {None}, S!Known, {0}, {TRUE})
        \/ j \in UNION {S!Jobs({"logout"}, {tokens[t].user}, {t}, {0}, {TRUE}) : t \in S!Known}
        \/ j \in S!Jobs({"bootstrap"}, Tickets, {None}, {0}, {TRUE})
        \/ j \in S!Jobs({"create"}, IF founders = {} THEN {} ELSE Tickets, {None}, {0}, {TRUE})
        \/ j \in S!Jobs({"update"}, S!Existing, {None}, {0}, BOOLEAN)
    BY DEF S!Asked
  <2>2. j \in S!Jobs({"create"}, IF founders = {} THEN {} ELSE Tickets, {None}, {0}, {TRUE}) =>
            j \in S!Jobs({"create"}, Tickets, {None}, {0}, {TRUE})
    BY DEF S!Jobs
  <2>3. QED
    BY <2>1, <2>2
<1>5. /\ j \in S!Job /\ AboutRows(j)
      /\ j.op \in {"login", "refresh", "logout", "change", "bootstrap", "create", "update"}
  <2>1. CASE j \in S!Jobs({"login", "change"}, S!Existing, {None}, S!Passwords, {TRUE})
    BY <2>1 DEF S!Existing, S!Known, S!Jobs, S!Job, S!Ops, AboutRows
  <2>2. CASE j \in S!Jobs({"refresh"}, {None}, S!Known, {0}, {TRUE})
    BY <1>1, <2>2 DEF S!Existing, S!Known, S!Jobs, S!Job, S!Ops, AboutRows
  <2>3. CASE \E t \in S!Known : j \in S!Jobs({"logout"}, {tokens[t].user}, {t}, {0}, {TRUE})
    BY <1>1, <1>3, <2>3 DEF S!Existing, S!Known, S!Jobs, S!Job, S!Ops, AboutRows
  <2>4. CASE \/ j \in S!Jobs({"bootstrap"}, Tickets, {None}, {0}, {TRUE})
             \/ j \in S!Jobs({"create"}, Tickets, {None}, {0}, {TRUE})
    BY <1>1, <2>4 DEF S!Existing, S!Known, S!Jobs, S!Job, S!Ops, AboutRows
  <2>5. CASE j \in S!Jobs({"update"}, S!Existing, {None}, {0}, BOOLEAN)
    BY <1>1, <2>5 DEF S!Existing, S!Known, S!Jobs, S!Job, S!Ops, AboutRows
  <2>6. QED
    BY <1>4, <2>1, <2>2, <2>3, <2>4, <2>5
<1>7. \A op \in {"login", "refresh", "logout", "change", "bootstrap", "create", "update"} :
          OpFits(S!FirstStatement(op), op) /\ S!FirstStatement(op) \in Statements
          /\ S!FirstStatement(op) # "Issue"
  BY DEF S!FirstStatement, OpFits, Statements
<1>8. QED
  BY <1>5, <1>7

LEMMA Stays ==
    ASSUME SessionTypes, NEW c \in Clients
    PROVE  /\ s_job = [s_job EXCEPT ![c] = s_job[c]] /\ proof = [proof EXCEPT ![c] = proof[c]]
           /\ \A st : S!GoTo(c, st) =>
                 /\ s_pc' = [s_pc EXCEPT ![c] = st]
                 /\ s_job' = [s_job EXCEPT ![c] = s_job[c]] /\ proof' = [proof EXCEPT ![c] = proof[c]]
           /\ S!Answer(c) => Moves(c, "idle", S!NoJob, 0)
<1>1. s_job = [s_job EXCEPT ![c] = s_job[c]] /\ proof = [proof EXCEPT ![c] = proof[c]]
  BY SessionRows
<1>2. OpFits("idle", S!NoJob.op)
  BY DEF OpFits
<1>3. S!Answer(c) => Moves(c, "idle", S!NoJob, 0)
  BY <1>2 DEF S!Answer, Moves
<1>4. QED
  BY <1>1, <1>3 DEF S!GoTo

(* The moves of a request, but for those that answer.                       *)
LEMMA RequestMoves ==
    ASSUME SoundRows, NEW c \in Clients, S!Serve(c)
    PROVE  \E statement \in Statements, j \in S!Job, password \in S!Passwords :
               Moves(c, statement, j, password)
<1>1. SessionTypes /\ JobsFit
  BY DEF SoundRows
<1>2. /\ s_job[c] \in S!Job /\ proof[c] \in S!Passwords /\ OpFits(s_pc[c], s_job[c].op)
      /\ s_pc[c] \in {"idle", "Count", "Create"} => proof[c] = 0
      /\ S!NoJob \in S!Job /\ 0 \in S!Passwords /\ "idle" \in Statements
      /\ s_job[c].password \in S!Passwords
  <2>1. s_job[c] \in S!Job /\ proof[c] \in S!Passwords
    BY <1>1, SessionRows
  <2>2. s_job[c].password \in S!Passwords
    BY <2>1 DEF S!Jobs, S!Job
  <2>3. 0 \in S!Passwords
    BY SessionConstants DEF S!Passwords
  <2>4. QED
    BY <1>1, <2>1, <2>2, <2>3, NoJobFits DEF JobsFit, Statements
<1>3. CASE S!Answer(c)
  BY <1>1, <1>2, <1>3, Stays
<1>4. ASSUME NEW j \in S!Asked, S!Receive(c, j)
      PROVE  \E statement \in Statements, i \in S!Job, password \in S!Passwords :
                 Moves(c, statement, i, password)
  <2>1. /\ j \in S!Job /\ OpFits(S!FirstStatement(j.op), j.op)
        /\ S!FirstStatement(j.op) \in Statements /\ S!FirstStatement(j.op) # "Issue"
    BY AskedFits
  <2>2. s_pc[c] = "idle" /\ proof[c] = 0
    BY <1>2, <1>4 DEF S!Receive
  <2>3. Moves(c, S!FirstStatement(j.op), j, proof[c])
    BY <1>1, <1>4, <2>1, <2>2, Stays DEF S!Receive, Moves
  <2>4. QED
    BY <1>2, <2>1, <2>3
<1>5. ASSUME NEW st \in Statements, S!GoTo(c, st), OpFits(st, s_job[c].op),
             st \in {"Count", "Create", "idle"} => s_pc[c] = "Count",
             st = "Issue" /\ s_job[c].op = "bootstrap" => users'[s_job[c].user] # None
      PROVE  Moves(c, st, s_job[c], proof[c])
  BY <1>1, <1>2, <1>5, Stays DEF Moves
<1>6. ASSUME NEW st \in Statements, NEW x \in S!Passwords, s_pc' = [s_pc EXCEPT ![c] = st],
             proof' = [proof EXCEPT ![c] = x], s_job' = s_job, OpFits(st, s_job[c].op),
             st \notin {"Count", "Create", "idle", "Issue"}
      PROVE  Moves(c, st, s_job[c], x)
  BY <1>1, <1>2, <1>6, Stays DEF Moves
<1>7. CASE S!GetByEmail(c)
  <2>1. s_job[c].op = "login"
    BY <1>2, <1>7 DEF S!GetByEmail, OpFits
  <2>2. CASE S!GoTo(c, "RegisterFailedLogin")
    BY <1>2, <1>5, <2>1, <2>2 DEF OpFits, Statements
  <2>3. CASE s_pc' = [s_pc EXCEPT ![c] = "ResetFailedLogins"]
             /\ proof' = [proof EXCEPT ![c] = s_job[c].password] /\ s_job' = s_job
    <3>1. OpFits("ResetFailedLogins", s_job[c].op) /\ "ResetFailedLogins" \in Statements
      BY <2>1 DEF OpFits, Statements
    <3>2. Moves(c, "ResetFailedLogins", s_job[c], s_job[c].password)
      BY <1>2, <1>6, <2>3, <3>1
    <3>3. QED
      BY <1>2, <3>1, <3>2
  <2>4. QED
    BY <1>3, <1>7, <2>2, <2>3 DEF S!GetByEmail
<1>8. CASE S!ResetFailedLogins(c)
  <2>1. s_job[c].op = "login" /\ S!GoTo(c, "Issue")
    BY <1>2, <1>8 DEF S!ResetFailedLogins, OpFits
  <2>2. QED
    BY <1>2, <1>5, <2>1 DEF OpFits, Statements
<1>9. CASE S!GetValid(c) /\ ~S!Answer(c)
  <2>1. s_job[c].op = "refresh"
    BY <1>2, <1>9 DEF S!GetValid, OpFits
  <2>2. tokens[s_job[c].token].proof \in S!Passwords
    BY <1>1, <2>1, SessionRows, RowFields DEF JobsFit, AboutRows
  <2>3. s_pc' = [s_pc EXCEPT ![c] = "Revoke"] /\ s_job' = s_job
        /\ proof' = [proof EXCEPT ![c] = tokens[s_job[c].token].proof]
    BY <1>9 DEF S!GetValid
  <2>4. OpFits("Revoke", s_job[c].op) /\ "Revoke" \in Statements
    BY <2>1 DEF OpFits, Statements
  <2>5. Moves(c, "Revoke", s_job[c], tokens[s_job[c].token].proof)
    BY <1>6, <2>2, <2>3, <2>4
  <2>6. QED
    BY <1>2, <2>2, <2>4, <2>5
<1>10. CASE S!Revoke(c) \/ S!RevokeIgnored(c)
  <2>1. s_job[c].op \in {"refresh", "logout"} /\ S!GoTo(c, S!AfterRevoke(c))
    BY <1>2, <1>10 DEF S!Revoke, S!RevokeIgnored, OpFits
  <2>2. S!AfterRevoke(c) = IF s_job[c].op = "refresh" THEN "GetByID" ELSE "RevokeAllForUser"
    BY DEF S!AfterRevoke
  <2>3. OpFits(S!AfterRevoke(c), s_job[c].op) /\ S!AfterRevoke(c) \in Statements
        /\ S!AfterRevoke(c) \notin {"Count", "Create", "idle", "Issue"}
    BY <2>1, <2>2 DEF OpFits, Statements
  <2>4. QED
    BY <1>2, <1>5, <2>1, <2>3
<1>11. CASE S!GetByID(c) /\ ~S!Answer(c)
  <2>1. CASE s_job[c].op = "refresh" /\ S!GoTo(c, "Issue")
    BY <1>2, <1>5, <2>1 DEF OpFits, Statements
  <2>2. CASE s_job[c].op = "change" /\ S!GoTo(c, "UpdatePassword")
    BY <1>2, <1>5, <2>2 DEF OpFits, Statements
  <2>3. QED
    BY <1>11, <2>1, <2>2 DEF S!GetByID
<1>12. CASE S!UpdatePassword(c)
  <2>1. s_job[c].op = "change" /\ S!GoTo(c, "RevokeAllForUser")
    BY <1>2, <1>12 DEF S!UpdatePassword, OpFits
  <2>2. QED
    BY <1>2, <1>5, <2>1 DEF OpFits, Statements
<1>13. CASE S!Count(c) /\ ~S!Answer(c)
  <2>1. s_job[c].op = "bootstrap" /\ S!GoTo(c, "Create") /\ s_pc[c] = "Count"
    BY <1>2, <1>13 DEF S!Count, OpFits
  <2>2. QED
    BY <1>2, <1>5, <2>1 DEF OpFits, Statements
<1>14. CASE S!Create(c) /\ ~S!Answer(c)
  <2>1. s_job[c].op = "bootstrap" /\ S!GoTo(c, "Issue") /\ s_job[c].user \in Tickets
    BY <1>1, <1>14 DEF S!Create, S!Founds, JobsFit, AboutRows
  <2>2. users'[s_job[c].user] # None
    <3>1. PICK row : row = [active |-> TRUE, failed_login_count |-> 0, locked_until |-> "none",
                            password |-> 0]
      OBVIOUS
    <3>2. row # None
      <4>1. 0 \in 0 .. MaxFailedLogins + 1 /\ 0 \in S!Passwords
        BY SessionConstants DEF S!Passwords
      <4>2. row \in S!User
        BY <3>1, <4>1 DEF S!User, S!Locks
      <4>3. QED
        BY <4>2, RowFields
    <3>3. users' = [users EXCEPT ![s_job[c].user] = row]
      BY <1>14, <3>1 DEF S!Create
    <3>4. QED
      BY <1>1, <2>1, <3>2, <3>3, SessionRows
  <2>3. QED
    BY <1>2, <1>5, <2>1, <2>2 DEF OpFits, Statements
<1>15. QED
  BY <1>3, <1>4, <1>7, <1>8, <1>9, <1>10, <1>11, <1>12, <1>13, <1>14
  DEF S!Serve, S!RegisterFailedLogin, S!Issue, S!RevokeAllForUser, S!UpdateActive, S!Abort

LEMMA SoundStep ==
    ASSUME SoundRows, S!Next
    PROVE  SoundRows'
<1>1. SessionTypes /\ JobsFit /\ TokensOfUsers
  BY DEF SoundRows
<1>2. RowsStay
  BY RowsDoStay
<1>3. /\ \A u \in Tickets : S!Exists(u) => S!Exists(u)'
      /\ \A t \in Requests : S!Issued(t) => S!Issued(t)'
  BY <1>2 DEF RowsStay, S!Exists, S!Issued
<1>4. users' \in [Tickets -> S!User \cup {None}]
  BY <1>1, UsersChange, SessionRows DEF UserStep
<1>5. tokens' \in [Requests -> S!Token \cup {None}] /\ TokensOfUsers'
  <2>1. CASE tokens' = tokens
    BY <1>1, <1>3, <2>1, SessionRows, RowFields DEF TokensOfUsers, S!Issued
  <2>2. ASSUME NEW gone \in SUBSET Requests, tokens' = Revoked(gone)
        PROVE  tokens' \in [Requests -> S!Token \cup {None}] /\ TokensOfUsers'
    <3>1. /\ tokens' \in [Requests -> S!Token \cup {None}]
          /\ \A t \in Requests : /\ tokens'[t] # None <=> tokens[t] # None
                                 /\ S!Issued(t) => tokens'[t].user = tokens[t].user
      BY <1>1, <2>2, RevokedRows
    <3>2. QED
      BY <1>1, <1>3, <3>1, SessionRows, RowFields DEF TokensOfUsers, S!Issued, S!Exists
  <2>3. ASSUME NEW c \in Clients, NEW t \in Requests, S!Issue(c, t)
        PROVE  tokens' \in [Requests -> S!Token \cup {None}] /\ TokensOfUsers'
    <3>1. PICK row : row = [user |-> S!Of(c), valid |-> TRUE, proof |-> proof[c],
                            parent |-> s_job[c].token]
      OBVIOUS
    <3>2. s_job[c].op \in {"login", "refresh", "bootstrap"} /\ s_pc[c] = "Issue"
      BY <1>1, <2>3 DEF S!Issue, JobsFit, OpFits
    <3>3. S!Of(c) \in Tickets /\ S!Exists(S!Of(c)) /\ s_job[c].token \in Requests \cup {None}
      <4>1. CASE s_job[c].op = "refresh"
        BY <1>1, <4>1, SessionRows, RowFields DEF JobsFit, AboutRows, TokensOfUsers, S!Of
      <4>2. CASE s_job[c].op # "refresh"
        BY <1>1, <3>2, <4>2 DEF JobsFit, AboutRows, S!Of
      <4>3. QED
        BY <4>1, <4>2
    <3>4. proof[c] \in S!Passwords
      BY <1>1, SessionRows
    <3>5. row \in S!Token /\ row.user = S!Of(c)
      BY <3>1, <3>3, <3>4 DEF S!Token
    <3>6. tokens' = [tokens EXCEPT ![t] = row] /\ users' = users
      BY <2>3, <3>1 DEF S!Issue
    <3>7. tokens' \in [Requests -> S!Token \cup {None}] /\ tokens'[t] = row
          /\ \A s \in Requests \ {t} : tokens'[s] = tokens[s]
      BY <1>1, <3>5, <3>6, SessionRows
    <3>8. \A s \in Requests : tokens'[s] # None => users'[tokens'[s].user] # None
      BY <1>1, <3>3, <3>5, <3>6, <3>7 DEF TokensOfUsers, S!Issued, S!Exists
    <3>9. QED
      BY <3>7, <3>8 DEF TokensOfUsers, S!Issued, S!Exists
  <2>4. QED
    BY <2>1, <2>2, <2>3, TokensChange
<1>6. /\ s_pc' \in [Clients -> Statements] /\ s_job' \in [Clients -> S!Job]
      /\ proof' \in [Clients -> S!Passwords] /\ JobsFit'
  <2>1. ASSUME NEW j, AboutRows(j)
        PROVE  AboutRows(j)'
    BY <1>3, <2>1 DEF AboutRows
  <2>2. ASSUME NEW c \in Clients, S!Serve(c)
        PROVE  /\ s_pc' \in [Clients -> Statements] /\ s_job' \in [Clients -> S!Job]
               /\ proof' \in [Clients -> S!Passwords] /\ JobsFit'
    <3>1. PICK statement \in Statements, j \in S!Job, password \in S!Passwords :
              Moves(c, statement, j, password)
      BY <2>2, RequestMoves
    <3>2. /\ s_pc' \in [Clients -> Statements] /\ s_pc'[c] = statement
          /\ \A d \in Clients \ {c} : s_pc'[d] = s_pc[d]
      BY <1>1, <3>1, SessionRows DEF Moves
    <3>3. /\ s_job' \in [Clients -> S!Job] /\ s_job'[c] = j
          /\ \A d \in Clients \ {c} : s_job'[d] = s_job[d]
      BY <1>1, <3>1, SessionRows DEF Moves
    <3>4. /\ proof' \in [Clients -> S!Passwords] /\ proof'[c] = password
          /\ \A d \in Clients \ {c} : proof'[d] = proof[d]
      BY <1>1, <3>1, SessionRows DEF Moves
    <3>5. AboutRows(j)'
      <4>1. AboutRows(j)
        BY <1>1, <3>1, NoJobFits, AskedFits DEF Moves, JobsFit
      <4>2. QED
        BY <2>1, <4>1
    <3>6. ASSUME NEW d \in Clients
          PROVE  /\ OpFits(s_pc'[d], s_job'[d].op)
                 /\ \E i : i = s_job'[d] /\ AboutRows(i)'
                 /\ s_pc'[d] = "Issue" /\ s_job'[d].op = "bootstrap" => users'[s_job'[d].user] # None
                 /\ s_pc'[d] \in {"idle", "Count", "Create"} => proof'[d] = 0
      <4>1. CASE d = c
        BY <3>1, <3>2, <3>3, <3>4, <3>5, <4>1 DEF Moves
      <4>2. CASE d # c
        <5>1. /\ OpFits(s_pc[d], s_job[d].op) /\ AboutRows(s_job[d])
              /\ s_pc[d] = "Issue" /\ s_job[d].op = "bootstrap" =>
                     s_job[d].user \in Tickets /\ S!Exists(s_job[d].user)
              /\ s_pc[d] \in {"idle", "Count", "Create"} => proof[d] = 0
          BY <1>1 DEF JobsFit, AboutRows
        <5>2. \E i : i = s_job[d] /\ AboutRows(i)'
          BY <2>1, <5>1
        <5>3. QED
          BY <1>3, <3>2, <3>3, <3>4, <4>2, <5>1, <5>2 DEF S!Exists
      <4>3. QED
        BY <4>1, <4>2
    <3>7. JobsFit'
      BY <3>6 DEF JobsFit, OpFits, AboutRows, S!Exists
    <3>8. QED
      BY <3>2, <3>3, <3>4, <3>7
  <2>3. CASE NobodyMoves
    <3>1. \A c \in Clients : \E i : i = s_job[c] /\ AboutRows(i)'
      BY <1>1, <2>1 DEF JobsFit
    <3>2. \A c \in Clients : s_pc[c] = "Issue" /\ s_job[c].op = "bootstrap" => users'[s_job[c].user] # None
      BY <1>1, <1>3 DEF JobsFit, AboutRows, S!Exists
    <3>3. JobsFit'
      BY <1>1, <2>3, <3>1, <3>2 DEF JobsFit, NobodyMoves, OpFits, AboutRows, S!Exists, S!Issued
    <3>4. QED
      BY <1>1, <2>3, <3>3, SessionRows DEF NobodyMoves
  <2>4. NobodyMoves \/ \E c \in Clients : S!Serve(c)
    BY DEF S!Next, S!LockExpires, S!TokenExpires, NobodyMoves
  <2>5. QED
    BY <2>2, <2>3, <2>4
<1>7. received' \in 0 .. MaxRequests
  <2>1. received' = received \/ (received < MaxRequests /\ received' = received + 1)
    BY DEF S!Next, S!Serve, S!Receive, S!GetByEmail, S!RegisterFailedLogin, S!ResetFailedLogins,
           S!Issue, S!GetValid, S!Revoke, S!RevokeIgnored, S!GetByID, S!UpdatePassword,
           S!RevokeAllForUser, S!Count, S!Create, S!UpdateActive, S!Abort, S!LockExpires,
           S!TokenExpires
  <2>2. received \in 0 .. MaxRequests
    BY <1>1 DEF SessionTypes, S!TypeOK
  <2>3. QED
    BY <2>1, <2>2, SessionConstants
<1>8. shared' \subseteq Requests /\ excused' \subseteq Tickets /\ founders' \subseteq Tickets
      /\ raced' \in BOOLEAN
  <2>1. shared \subseteq Requests /\ excused \subseteq Tickets /\ founders \subseteq Tickets
        /\ raced \in BOOLEAN
    BY <1>1 DEF SessionTypes, S!TypeOK
  <2>2. ASSUME NEW c \in Clients
        PROVE  /\ s_job[c].op = "refresh" => s_job[c].token \in Requests
               /\ s_job[c].op \in {"change", "bootstrap"} => s_job[c].user \in Tickets
    BY <1>1 DEF JobsFit, AboutRows
  <2>3. ASSUME NEW c \in Clients, S!GetValid(c)
        PROVE  shared' \subseteq Requests
    BY <1>1, <2>1, <2>2, <2>3 DEF S!GetValid, JobsFit, OpFits
  <2>4. ASSUME NEW c \in Clients, S!RevokeIgnored(c)
        PROVE  shared' \subseteq Requests
    BY <2>1, <2>2, <2>4 DEF S!RevokeIgnored
  <2>5. ASSUME NEW c \in Clients, S!RevokeAllForUser(c) \/ S!Abort(c)
        PROVE  excused' \subseteq Tickets
    BY <2>1, <2>2, <2>5 DEF S!RevokeAllForUser, S!Abort, S!Changes
  <2>6. ASSUME NEW c \in Clients, S!Create(c)
        PROVE  founders' \subseteq Tickets
    BY <2>1, <2>2, <2>6 DEF S!Create, S!Founds
  <2>7. /\ shared' = shared \/ \E c \in Clients : S!GetValid(c) \/ S!RevokeIgnored(c)
        /\ excused' = excused \/ \E c \in Clients : S!RevokeAllForUser(c) \/ S!Abort(c)
        /\ founders' = founders \/ \E c \in Clients : S!Create(c)
        /\ raced' = raced \/ \E c \in Clients : S!Count(c)
    BY DEF S!Next, S!Serve, S!Receive, S!GetByEmail, S!RegisterFailedLogin, S!ResetFailedLogins,
           S!Issue, S!GetValid, S!Revoke, S!RevokeIgnored, S!GetByID, S!UpdatePassword,
           S!RevokeAllForUser, S!Count, S!Create, S!UpdateActive, S!Abort, S!LockExpires,
           S!TokenExpires
  <2>8. raced' \in BOOLEAN
    BY <2>1, <2>7 DEF S!Count
  <2>9. QED
    BY <2>1, <2>3, <2>4, <2>5, <2>6, <2>7, <2>8
<1>9. SessionTypes'
  BY <1>4, <1>5, <1>6, <1>7, <1>8 DEF SessionTypes, S!TypeOK
<1>10. QED
  BY <1>5, <1>6, <1>9 DEF SoundRows

(* The tokens a step may add an heir to, and the requests it may let in.     *)
LEMMA OthersStay ==
    ASSUME SessionTypes, NEW c \in Clients, NEW st, NEW j, NEW x, Moves(c, st, j, x)
    PROVE  /\ \A d \in Clients \ {c} :
                  s_pc'[d] = s_pc[d] /\ s_job'[d] = s_job[d] /\ proof'[d] = proof[d]
           /\ s_pc'[c] = st /\ s_job'[c] = j /\ proof'[c] = x
<1>1. s_pc'[c] = st /\ \A d \in Clients \ {c} : s_pc'[d] = s_pc[d]
  BY SessionRows DEF Moves
<1>2. s_job'[c] = j /\ \A d \in Clients \ {c} : s_job'[d] = s_job[d]
  BY SessionRows DEF Moves
<1>3. proof'[c] = x /\ \A d \in Clients \ {c} : proof'[d] = proof[d]
  BY SessionRows DEF Moves
<1>4. QED
  BY <1>1, <1>2, <1>3

(* A step that makes no heir and lets no request hold a token keeps it.      *)
LEMMA HeirsKept ==
    ASSUME SoundRows, HeirsInv, ParentsIssued, S!Next,
           \A s \in Requests : tokens'[s] # None <=> tokens[s] # None,
           \A d \in Clients, t \in Requests : Holds(d, t)' /\ t \notin shared' =>
               /\ Holds(d, t)
               /\ s_pc'[d] # "Revoke" => s_pc[d] # "Revoke" \/ ~tokens'[t].valid,
           shared \subseteq shared'
    PROVE  HeirsInv' /\ ParentsIssued'
<1>1. RowsStay
  BY RowsDoStay
<1>2. \A s, t \in Requests : Heir(s, t)' <=> Heir(s, t)
  BY <1>1 DEF Heir, S!Issued, RowsStay
<1>3. HeirsInv'
  <2> SUFFICES ASSUME NEW t \in Requests, tokens'[t] # None, t \notin shared'
               PROVE  /\ \A s1, s2 \in Requests : Heir(s1, t)' /\ Heir(s2, t)' => s1 = s2
                      /\ \A c, d \in Clients : Holds(c, t)' /\ Holds(d, t)' => c = d
                      /\ \A c \in Clients, s \in Requests : ~(Holds(c, t)' /\ Heir(s, t)')
                      /\ \A s \in Requests : Heir(s, t)' => ~tokens'[t].valid
                      /\ \A c \in Clients : Holds(c, t)' /\ s_pc'[c] # "Revoke" => ~tokens'[t].valid
    BY DEF HeirsInv, S!Issued, S!Valid, Heir, Holds
  <2>1. S!Issued(t) /\ t \notin shared /\ (tokens'[t].valid => tokens[t].valid)
    BY <1>1 DEF S!Issued, RowsStay
  <2>2. /\ \A s1, s2 \in Requests : Heir(s1, t) /\ Heir(s2, t) => s1 = s2
        /\ \A c, d \in Clients : Holds(c, t) /\ Holds(d, t) => c = d
        /\ \A c \in Clients, s \in Requests : ~(Holds(c, t) /\ Heir(s, t))
        /\ \A s \in Requests : Heir(s, t) => ~tokens[t].valid
        /\ \A c \in Clients : Holds(c, t) /\ s_pc[c] # "Revoke" => ~tokens[t].valid
    BY <2>1 DEF HeirsInv, S!Valid
  <2>3. QED
    BY <1>2, <2>1, <2>2
<1>4. ParentsIssued'
  BY <1>1 DEF ParentsIssued, S!Issued, RowsStay
<1>5. QED
  BY <1>3, <1>4

LEMMA HeirsStep ==
    ASSUME SoundRows, HeirsInv, ParentsIssued, S!Next
    PROVE  HeirsInv' /\ ParentsIssued'
<1>1. SessionTypes /\ JobsFit /\ RowsStay
  BY RowsDoStay DEF SoundRows
<1>2. ASSUME NEW c \in Clients, S!GetValid(c), ~S!Answer(c)
      PROVE  HeirsInv' /\ ParentsIssued'
  <2>1. PICK t \in Requests : t = s_job[c].token /\ S!Issued(t) /\ s_job[c].op = "refresh"
    BY <1>1, <1>2 DEF S!GetValid, JobsFit, OpFits, AboutRows
  <2>2. /\ S!Valid(t) /\ s_pc[c] = "GetValid" /\ tokens' = tokens
        /\ s_pc' = [s_pc EXCEPT ![c] = "Revoke"] /\ s_job' = s_job
        /\ shared' = shared \cup {s \in {t} : \E d \in Clients : S!Exchanges(d, s)}
    BY <1>2, <2>1 DEF S!GetValid
  <2>3. s_pc'[c] = "Revoke" /\ \A d \in Clients \ {c} : s_pc'[d] = s_pc[d]
    BY <1>1, <2>2, SessionRows
  <2>4. \A d \in Clients, s \in Requests : Holds(d, s)' <=> Holds(d, s) \/ (d = c /\ s = t)
    BY <2>1, <2>2, <2>3 DEF Holds
  <2>5. t \notin shared' => \A d \in Clients : ~Holds(d, t)
    <3>1. ASSUME t \notin shared', NEW d \in Clients, Holds(d, t)
          PROVE  FALSE
      <4>1. s_pc[d] = "Revoke"
        BY <2>1, <2>2, <3>1 DEF HeirsInv
      <4>2. S!Exchanges(d, t)
        BY <3>1, <4>1 DEF Holds, S!Exchanges
      <4>3. QED
        BY <2>2, <3>1, <4>2
    <3>2. QED
      BY <3>1
  <2>6. \A s, p \in Requests : Heir(s, p)' <=> Heir(s, p)
    BY <2>2 DEF Heir, S!Issued
  <2>7. ASSUME NEW p \in Requests, tokens[p] # None, p \notin shared'
        PROVE  /\ \A s1, s2 \in Requests : Heir(s1, p) /\ Heir(s2, p) => s1 = s2
               /\ \A b, d \in Clients : Holds(b, p)' /\ Holds(d, p)' => b = d
               /\ \A d \in Clients, s \in Requests : ~(Holds(d, p)' /\ Heir(s, p))
               /\ \A s \in Requests : Heir(s, p) => ~tokens[p].valid
               /\ \A d \in Clients : Holds(d, p)' /\ s_pc'[d] # "Revoke" => ~tokens[p].valid
    <3>1. /\ \A s1, s2 \in Requests : Heir(s1, p) /\ Heir(s2, p) => s1 = s2
          /\ \A b, d \in Clients : Holds(b, p) /\ Holds(d, p) => b = d
          /\ \A b \in Clients, s \in Requests : ~(Holds(b, p) /\ Heir(s, p))
          /\ \A s \in Requests : Heir(s, p) => ~tokens[p].valid
          /\ \A b \in Clients : Holds(b, p) /\ s_pc[b] # "Revoke" => ~tokens[p].valid
      BY <2>2, <2>7 DEF HeirsInv, S!Valid, S!Issued
    <3>2. CASE p = t
      BY <2>2, <2>3, <2>4, <2>5, <2>7, <3>1, <3>2 DEF S!Valid
    <3>3. CASE p # t
      <4>1. \A d \in Clients : Holds(d, p)' <=> Holds(d, p)
        BY <2>4, <3>3
      <4>2. ~Holds(c, p)
        BY <2>2 DEF Holds
      <4>3. QED
        BY <2>3, <3>1, <4>1, <4>2
    <3>4. QED
      BY <3>2, <3>3
  <2>8. HeirsInv'
    BY <2>2, <2>6, <2>7 DEF HeirsInv, S!Issued, S!Valid, Heir, Holds
  <2>9. ParentsIssued'
    BY <2>2 DEF ParentsIssued, S!Issued
  <2>10. QED
    BY <2>8, <2>9
<1>3. ASSUME NEW c \in Clients, NEW t \in Requests, S!Issue(c, t)
      PROVE  HeirsInv' /\ ParentsIssued'
  <2>1. PICK row : row = [user |-> S!Of(c), valid |-> TRUE, proof |-> proof[c],
                          parent |-> s_job[c].token]
    OBVIOUS
  <2>2. /\ s_pc[c] = "Issue" /\ ~S!Issued(t) /\ shared' = shared
        /\ tokens' = [tokens EXCEPT ![t] = row] /\ S!Answer(c)
        /\ s_job[c].op \in {"login", "refresh", "bootstrap"}
    BY <1>1, <1>3, <2>1 DEF S!Issue, JobsFit, OpFits
  <2>3. row.parent = s_job[c].token /\ row # None
    <3>1. row # None
      <4>1. S!Of(c) \in Tickets /\ proof[c] \in S!Passwords /\ s_job[c].token \in Requests \cup {None}
        <5>1. CASE s_job[c].op = "refresh"
          BY <1>1, <5>1, SessionRows, RowFields DEF JobsFit, AboutRows, S!Of
        <5>2. CASE s_job[c].op # "refresh"
          BY <1>1, <2>2, <5>2, SessionRows DEF JobsFit, AboutRows, S!Of
        <5>3. QED
          BY <5>1, <5>2
      <4>2. row \in S!Token
        BY <2>1, <4>1 DEF S!Token
      <4>3. QED
        BY <4>2, RowFields
    <3>2. QED
      BY <2>1, <3>1
  <2>4. tokens'[t] = row /\ \A s \in Requests \ {t} : tokens'[s] = tokens[s]
    BY <1>1, <2>2, SessionRows
  <2>5. s_pc'[c] = "idle" /\ \A d \in Clients \ {c} : s_pc'[d] = s_pc[d] /\ s_job'[d] = s_job[d]
    BY <1>1, <2>2, Stays, OthersStay
  <2>6. \A d \in Clients, s \in Requests : Holds(d, s)' <=> Holds(d, s) /\ d # c
    BY <2>5 DEF Holds
  <2>7. \A s, p \in Requests : Heir(s, p)' <=> Heir(s, p) \/ (s = t /\ p = s_job[c].token)
    BY <2>2, <2>3, <2>4 DEF Heir, S!Issued
  <2>8. s_job[c].token \in Requests =>
            /\ Holds(c, s_job[c].token) /\ S!Issued(s_job[c].token)
    BY <1>1, <2>2, SessionConstants DEF JobsFit, AboutRows, Holds
  <2>9. \A s \in Requests : ~Heir(s, t)
    BY <2>2, SessionConstants DEF ParentsIssued, Heir
  <2>10. ASSUME NEW p \in Requests, tokens'[p] # None, p \notin shared
         PROVE  /\ \A s1, s2 \in Requests : Heir(s1, p)' /\ Heir(s2, p)' => s1 = s2
                /\ \A b, d \in Clients : Holds(b, p)' /\ Holds(d, p)' => b = d
                /\ \A d \in Clients, s \in Requests : ~(Holds(d, p)' /\ Heir(s, p)')
                /\ \A s \in Requests : Heir(s, p)' => ~tokens'[p].valid
                /\ \A d \in Clients : Holds(d, p)' /\ s_pc'[d] # "Revoke" => ~tokens'[p].valid
    <3>1. CASE p = t
      <4>1. \A s \in Requests : ~Heir(s, p)'
        BY <2>2, <2>7, <2>8, <2>9, <3>1
      <4>2. \A d \in Clients : ~Holds(d, p)
        BY <1>1, <2>2, <3>1 DEF Holds, JobsFit, AboutRows
      <4>3. QED
        BY <2>6, <4>1, <4>2
    <3>2. CASE p # t
      <4>1. tokens'[p] = tokens[p] /\ S!Issued(p)
        BY <2>4, <2>10, <3>2 DEF S!Issued
      <4>2. /\ \A s1, s2 \in Requests : Heir(s1, p) /\ Heir(s2, p) => s1 = s2
            /\ \A b, d \in Clients : Holds(b, p) /\ Holds(d, p) => b = d
            /\ \A b \in Clients, s \in Requests : ~(Holds(b, p) /\ Heir(s, p))
            /\ \A s \in Requests : Heir(s, p) => ~tokens[p].valid
            /\ \A b \in Clients : Holds(b, p) /\ s_pc[b] # "Revoke" => ~tokens[p].valid
        BY <2>10, <4>1 DEF HeirsInv, S!Valid
      <4>3. CASE p = s_job[c].token
        <5>1. Holds(c, p)
          BY <2>8, <4>3
        <5>2. (\A s \in Requests : Heir(s, p)' => s = t) /\ (\A d \in Clients : ~Holds(d, p)')
          BY <2>6, <2>7, <4>2, <5>1
        <5>3. ~tokens[p].valid
          BY <2>2, <4>2, <5>1
        <5>4. QED
          BY <4>1, <5>2, <5>3
      <4>4. CASE p # s_job[c].token
        <5>1. /\ \A s \in Requests : Heir(s, p)' <=> Heir(s, p)
              /\ \A d \in Clients : Holds(d, p)' => Holds(d, p) /\ s_pc'[d] = s_pc[d]
          BY <2>5, <2>6, <2>7, <4>4
        <5>2. QED
          BY <4>1, <4>2, <5>1
      <4>5. QED
        BY <4>3, <4>4
    <3>3. QED
      BY <3>1, <3>2
  <2>11. HeirsInv'
    BY <2>2, <2>10 DEF HeirsInv, S!Issued, S!Valid, Heir, Holds
  <2>12. ParentsIssued'
    <3>1. ASSUME NEW s \in Requests, tokens'[s] # None, tokens'[s].parent # None
          PROVE  tokens'[s].parent \in Requests /\ tokens'[tokens'[s].parent] # None
      <4>1. CASE s = t
        <5>1. tokens'[s].parent = s_job[c].token
          BY <2>3, <2>4, <4>1
        <5>2. s_job[c].token \in Requests /\ S!Issued(s_job[c].token)
          BY <1>1, <2>2, <3>1, <5>1 DEF JobsFit, AboutRows
        <5>3. QED
          BY <1>1, <5>1, <5>2 DEF RowsStay
      <4>2. CASE s # t
        BY <1>1, <2>4, <3>1, <4>2 DEF ParentsIssued, S!Issued, RowsStay
      <4>3. QED
        BY <4>1, <4>2
    <3>2. QED
      BY <3>1 DEF ParentsIssued, S!Issued
  <2>13. QED
    BY <2>11, <2>12
<1>4. CASE ~\E c \in Clients, t \in Requests : S!Issue(c, t)
  <2>1. \A s \in Requests : tokens'[s] # None <=> tokens[s] # None
    BY <1>1, <1>4, TokensChange, RevokedRows
  <2>2. CASE NobodyMoves /\ shared' = shared
    <3>1. \A d \in Clients, t \in Requests : Holds(d, t)' => Holds(d, t) /\ s_pc'[d] = s_pc[d]
      BY <2>2 DEF NobodyMoves, Holds
    <3>2. QED
      BY <2>1, <2>2, <3>1, HeirsKept
  <2>3. ASSUME NEW c \in Clients, S!Serve(c), ~(S!GetValid(c) /\ ~S!Answer(c))
        PROVE  HeirsInv' /\ ParentsIssued'
    <3>1. PICK st \in Statements, j \in S!Job, x \in S!Passwords : Moves(c, st, j, x)
      BY <2>3, RequestMoves
    <3>2. /\ \A d \in Clients \ {c} : s_pc'[d] = s_pc[d] /\ s_job'[d] = s_job[d]
          /\ s_pc'[c] = st /\ s_job'[c] = j
      BY <1>1, <3>1, OthersStay
    <3>3. shared \subseteq shared'
      BY <2>3 DEF S!Serve, S!Receive, S!GetByEmail, S!RegisterFailedLogin, S!ResetFailedLogins,
         S!Issue, S!GetValid, S!Revoke, S!RevokeIgnored, S!GetByID, S!UpdatePassword,
         S!RevokeAllForUser, S!Count, S!Create, S!UpdateActive, S!Abort
    <3>4. ASSUME NEW t \in Requests, Holds(c, t)', t \notin shared'
          PROVE  /\ Holds(c, t)
                 /\ s_pc'[c] # "Revoke" => s_pc[c] # "Revoke" \/ ~tokens'[t].valid
      <4>1. j.op = "refresh" /\ j.token = t /\ st \in {"Revoke", "GetByID", "Issue"}
        BY <3>2, <3>4 DEF Holds
      <4>2. CASE S!Revoke(c)
        <5>1. j = s_job[c]
          BY <1>1, <4>2, <3>2, Stays DEF S!Revoke, S!GoTo
        <5>2. tokens' = [tokens EXCEPT ![t].valid = FALSE]
          BY <4>1, <4>2, <5>1 DEF S!Revoke
        <5>3. ~tokens'[t].valid
          <6>1. S!Issued(t)
            BY <1>1, <4>1, <5>1 DEF JobsFit, AboutRows
          <6>2. tokens[t] \in S!Token
            BY <1>1, <6>1, SessionRows
          <6>3. QED
            BY <1>1, <5>2, <6>2, SessionRows DEF S!Token
        <5>4. QED
          BY <4>1, <4>2, <5>1, <5>3 DEF S!Revoke, Holds
      <4>3. CASE S!RevokeIgnored(c)
        <5>1. j = s_job[c]
          BY <1>1, <4>3, <3>2 DEF S!RevokeIgnored, S!GoTo
        <5>2. t \in shared'
          BY <4>1, <4>3, <5>1 DEF S!RevokeIgnored
        <5>3. QED
          BY <3>4, <5>2
      <4>4. CASE S!GetByID(c)
        <5>1. j = s_job[c]
          BY <1>1, <4>1, <4>4, <3>2, NoJobFits, Stays DEF S!GetByID, S!GoTo, S!Answer, S!NoJob, Moves
        <5>2. QED
          BY <4>1, <4>4, <5>1 DEF S!GetByID, Holds
      <4>5. CASE ~(S!Revoke(c) \/ S!RevokeIgnored(c) \/ S!GetByID(c))
        <5>1. S!Answer(c) \/ (\E i \in S!Asked : S!Receive(c, i)) \/ S!GetByEmail(c)
              \/ S!ResetFailedLogins(c) \/ S!UpdatePassword(c) \/ S!Count(c) \/ S!Create(c)
          BY <2>3, <4>5 DEF S!Serve, S!RegisterFailedLogin, S!Issue, S!RevokeAllForUser,
             S!UpdateActive, S!Abort
        <5>2. ASSUME S!Answer(c) PROVE FALSE
          BY <1>1, <3>2, <4>1, <5>2, SessionRows DEF S!Answer
        <5>3. ASSUME NEW i \in S!Asked, S!Receive(c, i) PROVE FALSE
          <6>1. st = S!FirstStatement(i.op) /\ j = i
            BY <1>1, <3>2, <5>3, SessionRows DEF S!Receive
          <6>2. S!FirstStatement("refresh") = "GetValid"
            BY DEF S!FirstStatement
          <6>3. QED
            BY <4>1, <6>1, <6>2
        <5>4. ASSUME S!GetByEmail(c) \/ S!ResetFailedLogins(c) \/ S!UpdatePassword(c) \/ S!Count(c)
                     \/ S!Create(c), ~S!Answer(c)
              PROVE  FALSE
          <6>1. s_job' = s_job
            BY <5>4 DEF S!GetByEmail, S!ResetFailedLogins, S!UpdatePassword, S!Count, S!Create, S!GoTo
          <6>2. s_job[c].op = "refresh"
            BY <3>2, <4>1, <6>1
          <6>3. QED
            BY <1>1, <5>4, <6>2 DEF S!GetByEmail, S!ResetFailedLogins, S!UpdatePassword, S!Count,
               S!Create, JobsFit, OpFits
        <5>5. QED
          BY <5>1, <5>2, <5>3, <5>4
      <4>6. QED
        BY <4>2, <4>3, <4>4, <4>5
    <3>5. ASSUME NEW d \in Clients \ {c}, NEW t \in Requests
          PROVE  Holds(d, t)' => Holds(d, t) /\ s_pc'[d] = s_pc[d]
      BY <3>2, <3>5 DEF Holds
    <3>6. \A d \in Clients, t \in Requests : Holds(d, t)' /\ t \notin shared' =>
              /\ Holds(d, t)
              /\ s_pc'[d] # "Revoke" => s_pc[d] # "Revoke" \/ ~tokens'[t].valid
      BY <3>4, <3>5
    <3>7. QED
      BY <2>1, <3>3, <3>6, HeirsKept
  <2>4. (NobodyMoves /\ shared' = shared) \/ \E c \in Clients : S!Serve(c)
    BY DEF S!Next, S!LockExpires, S!TokenExpires, NobodyMoves
  <2>5. QED
    BY <1>2, <2>2, <2>3, <2>4
<1>5. QED
  BY <1>3, <1>4

(* Whoever shows the password in force goes on to, while passwords and the   *)
(* changes under way stand.                                                  *)
LEMMA ShowsOn ==
    ASSUME NEW u, NEW x, Shows(u, x), users'[u].password = users[u].password,
           excused \subseteq excused',
           \A c \in Clients : Changer(c, u) => Changer(c, u)' \/ u \in excused'
    PROVE  Shows(u, x)'
BY DEF Shows

LEMMA ShowsKept ==
    ASSUME SoundRows, ShowsInv, S!Next,
           \A u \in Tickets : \A x : S!Exists(u) /\ Shows(u, x) => Shows(u, x)',
           \A t \in Requests : tokens'[t] # None /\ tokens'[t].valid =>
               S!Issued(t) \/ \E u, x : u = tokens'[t].user /\ x = tokens'[t].proof /\ Shows(u, x)',
           \A c \in Clients : MayEnter(c)' =>
               \/ MayEnter(c) /\ s_job'[c] = s_job[c] /\ proof'[c] = proof[c]
               \/ \E u, x : u = S!Of(c)' /\ x = proof'[c] /\ Shows(u, x)'
    PROVE  ShowsInv'
<1>1. SessionTypes /\ JobsFit /\ TokensOfUsers /\ RowsStay
  BY RowsDoStay DEF SoundRows
<1>2. ASSUME NEW t \in Requests, tokens'[t] # None, tokens'[t].valid
      PROVE  \E u, x : u = tokens'[t].user /\ x = tokens'[t].proof /\ Shows(u, x)'
  <2>1. CASE S!Issued(t)
    <3>1. /\ tokens'[t].user = tokens[t].user /\ tokens'[t].proof = tokens[t].proof
          /\ tokens[t].valid
      BY <1>1, <1>2, <2>1 DEF RowsStay
    <3>2. tokens[t].user \in Tickets /\ S!Exists(tokens[t].user)
      BY <1>1, <2>1, SessionRows, RowFields DEF TokensOfUsers
    <3>3. Shows(tokens[t].user, tokens[t].proof)
      BY <2>1, <3>1 DEF ShowsInv, S!Valid
    <3>4. \A u \in Tickets : \A x : S!Exists(u) /\ Shows(u, x) => Shows(u, x)'
      OBVIOUS
    <3>5. \E u, x : u = tokens[t].user /\ x = tokens[t].proof /\ Shows(u, x)'
      BY <3>2, <3>3, <3>4
    <3>6. QED
      BY <3>1, <3>5
  <2>2. QED
    BY <1>2, <2>1
<1>3. ASSUME NEW c \in Clients, MayEnter(c)'
      PROVE  \E u, x : u = S!Of(c)' /\ x = proof'[c] /\ Shows(u, x)'
  <2>1. CASE MayEnter(c) /\ s_job'[c] = s_job[c] /\ proof'[c] = proof[c]
    <3>1. S!Of(c)' = S!Of(c)
      BY <1>1, <2>1 DEF S!Of, JobsFit, AboutRows, RowsStay
    <3>2. S!Of(c) \in Tickets /\ S!Exists(S!Of(c))
      <4>1. CASE s_job[c].op = "refresh"
        BY <1>1, <4>1, SessionRows, RowFields DEF JobsFit, AboutRows, TokensOfUsers, S!Of
      <4>2. CASE s_job[c].op = "login"
        BY <1>1, <4>2, SessionRows DEF JobsFit, AboutRows, S!Of
      <4>3. CASE s_job[c].op = "bootstrap"
        BY <1>1, <2>1, <4>3 DEF JobsFit, AboutRows, OpFits, MayEnter, S!Of
      <4>4. QED
        BY <2>1, <4>1, <4>2, <4>3 DEF MayEnter
    <3>3. Shows(S!Of(c), proof[c])
      BY <2>1 DEF ShowsInv
    <3>4. \A u \in Tickets : \A x : S!Exists(u) /\ Shows(u, x) => Shows(u, x)'
      OBVIOUS
    <3>5. \E u, x : u = S!Of(c) /\ x = proof[c] /\ Shows(u, x)'
      BY <3>2, <3>3, <3>4
    <3>6. QED
      BY <2>1, <3>1, <3>5
  <2>2. QED
    BY <1>3, <2>1
<1>4. QED
  BY <1>2, <1>3 DEF ShowsInv, S!Issued, S!Valid, Shows

(* The passwords of the users there are, but for the one being changed.     *)
LEMMA PasswordsStay ==
    ASSUME SoundRows, S!Next, NEW u \in Tickets, S!Exists(u)
    PROVE  \/ users'[u].password = users[u].password
           \/ \E c \in Clients : S!UpdatePassword(c) /\ s_job[c].user = u
<1>1. SessionTypes
  BY DEF SoundRows
<1>2. ASSUME NEW v \in Tickets, NEW row \in S!User, UserStep(v, row)
      PROVE  \/ users'[u].password = users[u].password
             \/ \E c \in Clients : S!UpdatePassword(c) /\ s_job[c].user = u
  <2>1. users' = [users EXCEPT ![v] = row] /\ users \in [Tickets -> S!User \cup {None}]
    BY <1>1, <1>2, SessionRows DEF UserStep
  <2>2. CASE u = v
    <3>1. users'[u] = row
      BY <2>1, <2>2
    <3>2. QED
      BY <1>2, <2>2, <3>1 DEF UserStep
  <2>3. CASE u # v
    BY <2>1, <2>3
  <2>4. QED
    BY <2>2, <2>3
<1>3. QED
  BY <1>2, UsersChange

(* Steps that end no change of a password.                                  *)
LEMMA ShowsStay ==
    ASSUME SoundRows, S!Next, excused \subseteq excused',
           \A c \in Clients, u \in Tickets : Changer(c, u) => Changer(c, u)' \/ u \in excused'
    PROVE  \A u \in Tickets : \A x : S!Exists(u) /\ Shows(u, x) => Shows(u, x)'
<1> SUFFICES ASSUME NEW u \in Tickets, NEW x, S!Exists(u), Shows(u, x)
             PROVE  Shows(u, x)'
  OBVIOUS
<1>1. CASE users'[u].password = users[u].password
  BY <1>1, ShowsOn
<1>2. ASSUME NEW c \in Clients, S!UpdatePassword(c), s_job[c].user = u
      PROVE  Shows(u, x)'
  <2>1. SessionTypes /\ s_job[c].op = "change" /\ S!GoTo(c, "RevokeAllForUser")
    BY <1>2 DEF SoundRows, S!UpdatePassword, JobsFit, OpFits
  <2>2. s_pc'[c] = "RevokeAllForUser" /\ s_job'[c] = s_job[c]
    BY <2>1, SessionRows DEF S!GoTo
  <2>3. Changer(c, u)'
    BY <1>2, <2>1, <2>2 DEF Changer, S!Changes
  <2>4. QED
    BY <2>3 DEF Shows
<1>3. QED
  BY <1>1, <1>2, PasswordsStay

LEMMA ChangersStay ==
    ASSUME SoundRows, NEW c \in Clients, S!Serve(c), ~(S!RevokeAllForUser(c) \/ S!Abort(c)),
           NEW d \in Clients, NEW u \in Tickets, Changer(d, u)
    PROVE  Changer(d, u)'
<1>1. SessionTypes /\ JobsFit
  BY DEF SoundRows
<1>2. d # c
  BY DEF Changer, S!Serve, S!Receive, S!GetByEmail, S!RegisterFailedLogin, S!ResetFailedLogins,
         S!Issue, S!GetValid, S!Revoke, S!RevokeIgnored, S!GetByID, S!UpdatePassword,
         S!Count, S!Create, S!UpdateActive
<1>3. s_pc'[d] = s_pc[d] /\ s_job'[d] = s_job[d]
  <2>1. PICK st \in Statements, j \in S!Job, x \in S!Passwords : Moves(c, st, j, x)
    BY RequestMoves
  <2>2. QED
    BY <1>1, <1>2, <2>1, OthersStay
<1>4. QED
  BY <1>3 DEF Changer, S!Changes

(* A request that is let in shows what it has just proved, or goes on.       *)
LEMMA Entrants ==
    ASSUME SoundRows, ShowsInv, NEW c \in Clients, S!Serve(c), MayEnter(c)'
    PROVE  \/ MayEnter(c) /\ s_job'[c] = s_job[c] /\ proof'[c] = proof[c]
           \/ \E u, x : u = S!Of(c)' /\ x = proof'[c] /\ Shows(u, x)'
<1>1. SessionTypes /\ JobsFit /\ RowsStay
  BY RowsDoStay DEF SoundRows, S!Next
<1>2. PICK st \in Statements, j \in S!Job, x \in S!Passwords : Moves(c, st, j, x)
  BY RequestMoves
<1>3. s_pc'[c] = st /\ s_job'[c] = j /\ proof'[c] = x
  BY <1>1, <1>2, OthersStay
<1>4. /\ st \in {"ResetFailedLogins", "Issue", "Revoke", "GetByID"}
      /\ j.op \in {"login", "refresh", "bootstrap"}
  BY <1>3 DEF MayEnter
<1>5. ~S!Answer(c)
  BY <1>1, <1>3, <1>4, SessionRows DEF S!Answer
<1>6. \A i \in S!Asked : ~S!Receive(c, i)
  <2>1. ASSUME NEW i \in S!Asked, S!Receive(c, i)
        PROVE  FALSE
    <3>1. st = S!FirstStatement(i.op) /\ j = i
      BY <1>1, <1>3, <2>1, SessionRows DEF S!Receive
    <3>2. /\ S!FirstStatement("refresh") = "GetValid" /\ S!FirstStatement("login") = "GetByEmail"
          /\ S!FirstStatement("bootstrap") = "Count"
      BY DEF S!FirstStatement
    <3>3. QED
      BY <1>4, <3>1, <3>2
  <2>2. QED
    BY <2>1
<1>8. CASE S!GetByEmail(c)
  <2>1. s_job[c].op = "login" /\ st = "ResetFailedLogins" /\ s_job' = s_job
        /\ users[s_job[c].user].password = s_job[c].password
        /\ proof' = [proof EXCEPT ![c] = s_job[c].password] /\ users' = users
    <3>1. s_job[c].op = "login"
      BY <1>1, <1>8 DEF S!GetByEmail, JobsFit, OpFits
    <3>2. ~S!GoTo(c, "RegisterFailedLogin")
      BY <1>1, <1>3, <1>4, SessionRows DEF S!GoTo
    <3>3. s_pc' = [s_pc EXCEPT ![c] = "ResetFailedLogins"] /\ s_job' = s_job
          /\ users[s_job[c].user].password = s_job[c].password
          /\ proof' = [proof EXCEPT ![c] = s_job[c].password] /\ users' = users
      BY <1>5, <1>8, <3>2 DEF S!GetByEmail
    <3>4. QED
      BY <1>1, <1>3, <3>1, <3>3, SessionRows
  <2>2. proof'[c] = s_job[c].password
    BY <1>1, <2>1, SessionRows
  <2>3. S!Of(c)' = s_job[c].user
    BY <2>1 DEF S!Of
  <2>4. \E u, y : u = s_job[c].user /\ y = s_job[c].password /\ Shows(u, y)'
    BY <2>1 DEF Shows
  <2>5. QED
    BY <2>2, <2>3, <2>4
<1>9. CASE S!GetValid(c)
  <2>1. PICK t \in Requests : t = s_job[c].token /\ S!Issued(t) /\ s_job[c].op = "refresh"
    BY <1>1, <1>9 DEF S!GetValid, JobsFit, OpFits, AboutRows
  <2>2. /\ S!Valid(t) /\ tokens' = tokens /\ s_job' = s_job /\ users' = users /\ excused' = excused
        /\ s_pc' = [s_pc EXCEPT ![c] = "Revoke"]
        /\ proof' = [proof EXCEPT ![c] = tokens[t].proof]
    BY <1>5, <1>9, <2>1 DEF S!GetValid
  <2>3. proof'[c] = tokens[t].proof /\ S!Of(c)' = tokens[t].user
    BY <1>1, <2>1, <2>2, SessionRows DEF S!Of
  <2>4. Shows(tokens[t].user, tokens[t].proof)
    BY <2>1, <2>2 DEF ShowsInv
  <2>5. \A d \in Clients : \A u : Changer(d, u) => Changer(d, u)'
    BY <1>1, <1>9, <2>2, SessionRows DEF Changer, S!Changes, S!GetValid
  <2>6. \E u, y : u = tokens[t].user /\ y = tokens[t].proof /\ Shows(u, y)'
    BY <2>2, <2>4, <2>5, ShowsOn
  <2>7. QED
    BY <2>3, <2>6
<1>10. CASE S!Create(c)
  <2>1. s_pc[c] = "Create" /\ S!GoTo(c, "Issue") /\ S!Founds(c) /\ ~S!Exists(s_job[c].user)
    BY <1>5, <1>10 DEF S!Create
  <2>2. s_job[c].op = "bootstrap" /\ s_job[c].user \in Tickets /\ proof[c] = 0
    BY <1>1, <2>1 DEF S!Founds, JobsFit, AboutRows
  <2>3. PICK row : row = [active |-> TRUE, failed_login_count |-> 0, locked_until |-> "none",
                          password |-> 0]
    OBVIOUS
  <2>4. users' = [users EXCEPT ![s_job[c].user] = row] /\ row.password = 0
    BY <1>10, <2>1, <2>3 DEF S!Create
  <2>5. users'[s_job[c].user].password = 0
    BY <1>1, <2>2, <2>4, SessionRows
  <2>6. s_job' = s_job /\ proof' = proof /\ S!Of(c)' = s_job[c].user
    BY <2>1, <2>2 DEF S!GoTo, S!Of
  <2>7. \E u, y : u = s_job[c].user /\ y = 0 /\ Shows(u, y)'
    BY <2>5 DEF Shows
  <2>8. QED
    BY <2>2, <2>6, <2>7
<1>11. CASE S!ResetFailedLogins(c) \/ S!Revoke(c) \/ S!RevokeIgnored(c) \/ S!GetByID(c)
  <2>1. \E to : S!GoTo(c, to)
    BY <1>5, <1>11 DEF S!ResetFailedLogins, S!Revoke, S!RevokeIgnored, S!GetByID
  <2>2. s_job' = s_job /\ proof' = proof
    BY <2>1 DEF S!GoTo
  <2>3. s_pc[c] \in {"ResetFailedLogins", "Revoke", "GetByID"}
    BY <1>11 DEF S!ResetFailedLogins, S!Revoke, S!RevokeIgnored, S!GetByID
  <2>4. QED
    BY <1>3, <1>4, <2>2, <2>3 DEF MayEnter
<1>12. CASE S!UpdatePassword(c) \/ S!Count(c)
  <2>1. st \in {"RevokeAllForUser", "Create"}
    BY <1>1, <1>3, <1>5, <1>12, SessionRows DEF S!UpdatePassword, S!Count, S!GoTo
  <2>2. QED
    BY <1>4, <2>1
<1>13. QED
  BY <1>5, <1>6, <1>8, <1>9, <1>10, <1>11, <1>12
  DEF S!Serve, S!RegisterFailedLogin, S!Issue, S!RevokeAllForUser, S!UpdateActive, S!Abort

LEMMA IssuedBefore ==
    ASSUME SoundRows, S!Next, ~\E c \in Clients, t \in Requests : S!Issue(c, t)
    PROVE  \A t \in Requests : tokens'[t] # None => S!Issued(t)
BY TokensChange, RevokedRows DEF SoundRows, S!Issued

(* The end of a change of password: its user's tokens are revoked, and what  *)
(* older passwords may still let in is excused.                             *)
LEMMA ChangeEnds ==
    ASSUME SoundRows, ShowsInv, NEW c \in Clients, S!RevokeAllForUser(c), S!Changes(c)
    PROVE  ShowsInv'
<1>1. SessionTypes /\ JobsFit /\ TokensOfUsers /\ RowsStay /\ S!Next
  BY RowsDoStay DEF SoundRows, S!Next, S!Serve
<1>2. PICK u \in Tickets : u = s_job[c].user
  BY <1>1 DEF JobsFit, AboutRows, S!Changes
<1>3. /\ tokens' = S!RevokedFor(u) /\ users' = users /\ s_pc[c] = "RevokeAllForUser" /\ S!Answer(c)
      /\ excused' = excused \cup
             {v \in {u} : \E d \in Clients : S!Entitled(d, v) /\ proof[d] # users[v].password}
  BY <1>2 DEF S!RevokeAllForUser
<1>4. \A d \in Clients \ {c} :
          s_pc'[d] = s_pc[d] /\ s_job'[d] = s_job[d] /\ proof'[d] = proof[d]
  BY <1>1, <1>3, Stays, OthersStay
<1>5. ASSUME NEW v, NEW x, v # u, Shows(v, x)
      PROVE  Shows(v, x)'
  <2>1. \A d \in Clients : Changer(d, v) => Changer(d, v)'
    BY <1>2, <1>4, <1>5 DEF Changer, S!Changes
  <2>2. QED
    BY <1>3, <1>5, <2>1, ShowsOn
<1>6. ASSUME NEW t \in Requests, tokens'[t] # None, tokens'[t].valid
      PROVE  \E v, x : v = tokens'[t].user /\ x = tokens'[t].proof /\ Shows(v, x)'
  <2>1. tokens'[t] = IF S!Issued(t) /\ tokens[t].user = u THEN [tokens[t] EXCEPT !.valid = FALSE]
                     ELSE tokens[t]
    BY <1>3 DEF S!RevokedFor
  <2>2. S!Issued(t) /\ tokens[t].user # u /\ tokens'[t] = tokens[t]
    <3>1. CASE S!Issued(t) /\ tokens[t].user = u
      <4>1. tokens[t] \in S!Token
        BY <1>1, <3>1, SessionRows
      <4>2. ~tokens'[t].valid
        BY <2>1, <3>1, <4>1 DEF S!Token
      <4>3. QED
        BY <1>6, <4>2
    <3>2. CASE ~(S!Issued(t) /\ tokens[t].user = u)
      BY <1>6, <2>1, <3>2 DEF S!Issued
    <3>3. QED
      BY <3>1, <3>2
  <2>3. Shows(tokens[t].user, tokens[t].proof)
    BY <1>6, <2>2 DEF ShowsInv, S!Valid
  <2>4. \E v, x : v = tokens[t].user /\ x = tokens[t].proof /\ Shows(v, x)'
    BY <1>5, <2>2, <2>3
  <2>5. QED
    BY <2>2, <2>4
<1>7. ASSUME NEW d \in Clients, MayEnter(d)'
      PROVE  \E v, x : v = S!Of(d)' /\ x = proof'[d] /\ Shows(v, x)'
  <2>1. d # c
    BY <1>1, <1>3, <1>7, SessionRows DEF S!Answer, MayEnter
  <2>2. MayEnter(d) /\ s_job'[d] = s_job[d] /\ proof'[d] = proof[d]
    BY <1>4, <1>7, <2>1 DEF MayEnter
  <2>3. S!Of(d)' = S!Of(d)
    BY <1>1, <2>2 DEF S!Of, JobsFit, AboutRows, RowsStay
  <2>4. \E v, x : v = S!Of(d) /\ x = proof[d] /\ Shows(v, x)'
    <3>1. Shows(S!Of(d), proof[d])
      BY <2>2 DEF ShowsInv
    <3>2. CASE S!Of(d) # u
      BY <1>5, <3>1, <3>2
    <3>3. CASE S!Of(d) = u /\ proof[d] = users[u].password
      BY <1>3, <3>3 DEF Shows
    <3>4. CASE S!Of(d) = u /\ proof[d] # users[u].password
      <4>1. S!Entitled(d, u)
        BY <2>2, <3>4 DEF MayEnter, S!Entitled
      <4>2. u \in excused'
        BY <1>3, <3>4, <4>1
      <4>3. \E x : x = proof[d] /\ Shows(u, x)'
        BY <4>2 DEF Shows
      <4>4. QED
        BY <3>4, <4>3
    <3>5. QED
      BY <3>2, <3>3, <3>4
  <2>5. QED
    BY <2>2, <2>3, <2>4
<1>8. QED
  BY <1>6, <1>7 DEF ShowsInv, S!Issued, S!Valid, Shows

LEMMA ShowsStep ==
    ASSUME SoundRows, ShowsInv, S!Next
    PROVE  ShowsInv'
<1>1. SessionTypes /\ JobsFit
  BY DEF SoundRows
<1>2. CASE NobodyMoves /\ excused' = excused /\ ~\E c \in Clients, t \in Requests : S!Issue(c, t)
  <2>1. \A c \in Clients, u \in Tickets : Changer(c, u) => Changer(c, u)'
    BY <1>2 DEF NobodyMoves, Changer, S!Changes
  <2>2. \A u \in Tickets : \A x : S!Exists(u) /\ Shows(u, x) => Shows(u, x)'
    BY <1>2, <2>1, ShowsStay
  <2>3. \A c \in Clients : MayEnter(c)' => MayEnter(c) /\ s_job'[c] = s_job[c] /\ proof'[c] = proof[c]
    BY <1>2 DEF NobodyMoves, MayEnter
  <2>4. QED
    BY <1>2, <2>2, <2>3, IssuedBefore, ShowsKept
<1>3. ASSUME NEW c \in Clients, S!Serve(c), ~(S!RevokeAllForUser(c) /\ S!Changes(c))
      PROVE  ShowsInv'
  <2>1. PICK st \in Statements, j \in S!Job, x \in S!Passwords : Moves(c, st, j, x)
    BY <1>3, RequestMoves
  <2>2. \A d \in Clients \ {c} :
            s_pc'[d] = s_pc[d] /\ s_job'[d] = s_job[d] /\ proof'[d] = proof[d]
    BY <1>1, <2>1, OthersStay
  <2>3. excused \subseteq excused'
    BY <1>3 DEF S!Serve, S!Receive, S!GetByEmail, S!RegisterFailedLogin, S!ResetFailedLogins,
       S!Issue, S!GetValid, S!Revoke, S!RevokeIgnored, S!GetByID, S!UpdatePassword,
       S!RevokeAllForUser, S!Count, S!Create, S!UpdateActive, S!Abort
  <2>4. ASSUME NEW d \in Clients, NEW u \in Tickets, Changer(d, u)
        PROVE  Changer(d, u)' \/ u \in excused'
    <3>1. CASE d # c
      BY <2>2, <2>4, <3>1 DEF Changer, S!Changes
    <3>2. CASE d = c /\ S!Abort(c)
      BY <2>4, <3>2 DEF Changer, S!Abort
    <3>3. CASE d = c /\ S!RevokeAllForUser(c)
      BY <1>3, <2>4, <3>3 DEF Changer
    <3>4. CASE ~(S!RevokeAllForUser(c) \/ S!Abort(c))
      BY <1>3, <2>4, <3>4, ChangersStay
    <3>5. QED
      BY <3>1, <3>2, <3>3, <3>4
  <2>5. \A u \in Tickets : \A y : S!Exists(u) /\ Shows(u, y) => Shows(u, y)'
    BY <2>3, <2>4, ShowsStay
  <2>6. \A d \in Clients : MayEnter(d)' =>
            \/ MayEnter(d) /\ s_job'[d] = s_job[d] /\ proof'[d] = proof[d]
            \/ \E u, y : u = S!Of(d)' /\ y = proof'[d] /\ Shows(u, y)'
    <3>1. ASSUME NEW d \in Clients, d # c, MayEnter(d)'
          PROVE  MayEnter(d) /\ s_job'[d] = s_job[d] /\ proof'[d] = proof[d]
      BY <2>2, <3>1 DEF MayEnter
    <3>2. QED
      BY <1>3, <3>1, Entrants
  <2>7. ASSUME NEW t \in Requests, tokens'[t] # None, tokens'[t].valid, ~S!Issued(t)
        PROVE  \E u, y : u = tokens'[t].user /\ y = tokens'[t].proof /\ Shows(u, y)'
    <3>1. PICK d \in Clients, s \in Requests : S!Issue(d, s)
      BY <2>7, IssuedBefore
    <3>2. tokens' = [tokens EXCEPT ![s] = [user |-> S!Of(d), valid |-> TRUE, proof |-> proof[d],
                                           parent |-> s_job[d].token]]
      BY <3>1 DEF S!Issue
    <3>3. t = s
      BY <1>1, <2>7, <3>2, SessionRows DEF S!Issued
    <3>4. tokens'[t].user = S!Of(d) /\ tokens'[t].proof = proof[d]
      BY <1>1, <3>2, <3>3, SessionRows
    <3>5. MayEnter(d)
      BY <1>1, <3>1 DEF S!Issue, MayEnter, JobsFit, OpFits
    <3>6. S!Of(d) \in Tickets /\ S!Exists(S!Of(d))
      <4>1. CASE s_job[d].op = "refresh"
        BY <1>1, <4>1, SessionRows, RowFields DEF SoundRows, JobsFit, AboutRows, TokensOfUsers, S!Of
      <4>2. CASE s_job[d].op = "login"
        BY <1>1, <4>2, SessionRows DEF JobsFit, AboutRows, S!Of
      <4>3. CASE s_job[d].op = "bootstrap"
        BY <1>1, <3>1, <4>3 DEF JobsFit, AboutRows, S!Issue, S!Of
      <4>4. QED
        BY <3>5, <4>1, <4>2, <4>3 DEF MayEnter
    <3>7. Shows(S!Of(d), proof[d])
      BY <3>5 DEF ShowsInv
    <3>8. \E u, y : u = S!Of(d) /\ y = proof[d] /\ Shows(u, y)'
      BY <2>5, <3>6, <3>7
    <3>9. QED
      BY <3>4, <3>8
  <2>8. QED
    BY <2>5, <2>6, <2>7, ShowsKept
<1>4. ASSUME NEW c \in Clients, S!RevokeAllForUser(c), S!Changes(c)
      PROVE  ShowsInv'
  BY <1>4, ChangeEnds
<1>5. QED
  <2>1. ASSUME ~\E c \in Clients : S!Serve(c)
        PROVE  NobodyMoves /\ excused' = excused /\ ~\E c \in Clients, t \in Requests : S!Issue(c, t)
    BY <2>1 DEF S!Next, S!Serve, S!LockExpires, S!TokenExpires, NobodyMoves
  <2>2. QED
    BY <1>2, <1>3, <1>4, <2>1

(* A bootstrap finds no user, so there is no founder, and it finds another    *)
(* one only if they overlap.                                                 *)
LEMMA FoundersStep ==
    ASSUME SoundRows, FoundersInv, S!Next
    PROVE  FoundersInv'
<1>1. SessionTypes /\ JobsFit /\ RowsStay
  BY RowsDoStay DEF SoundRows
<1>2. \A u \in Tickets : S!Exists(u) => S!Exists(u)'
  BY <1>1 DEF RowsStay, S!Exists
<1>3. founders \subseteq Tickets /\ raced \in BOOLEAN
  BY <1>1 DEF SessionTypes, S!TypeOK
<1>4. CASE /\ UNCHANGED <<founders, raced>>
           /\ \A d \in Clients : S!Founds(d)' => S!Founds(d)
  <2>1. \A u \in founders' : S!Exists(u)'
    BY <1>2, <1>3, <1>4 DEF FoundersInv
  <2>2. QED
    BY <1>4, <2>1 DEF FoundersInv, S!OneFounder, S!Founds, S!Exists
<1>5. ASSUME NEW c \in Clients, S!Serve(c), S!Count(c), ~S!Answer(c)
      PROVE  FoundersInv'
  <2>1. /\ \A u \in Tickets : ~S!Exists(u)
        /\ raced' = (raced \/ \E d \in Clients : S!Founds(d))
        /\ founders' = founders /\ S!GoTo(c, "Create")
    BY <1>5 DEF S!Count
  <2>2. founders = {}
    BY <1>3, <2>1 DEF FoundersInv
  <2>3. \A d \in Clients \ {c} : S!Founds(d)' => S!Founds(d)
    BY <1>1, <2>1, Stays, SessionRows DEF S!Founds
  <2>4. QED
    BY <2>1, <2>2, <2>3 DEF FoundersInv, S!OneFounder, S!Founds, S!Exists
<1>6. ASSUME NEW c \in Clients, S!Serve(c), S!Create(c), S!Founds(c), ~S!Exists(s_job[c].user)
      PROVE  FoundersInv'
  <2>1. PICK u \in Tickets : u = s_job[c].user
    BY <1>1, <1>6 DEF S!Founds, JobsFit, AboutRows
  <2>2. founders' = founders \cup {u} /\ raced' = raced /\ S!GoTo(c, "Issue")
    BY <1>6, <2>1 DEF S!Create
  <2>3. s_job[c].op = "bootstrap" /\ s_pc[c] = "Create"
    BY <1>6 DEF S!Founds
  <2>4. /\ \A d \in Clients \ {c} : S!Founds(d)' => S!Founds(d)
        /\ ~S!Founds(c)'
    BY <1>1, <2>2, Stays, SessionRows DEF S!Founds
  <2>5. users'[u] # None
    <3>1. PICK st \in Statements, j \in S!Job, x \in S!Passwords : Moves(c, st, j, x)
      BY <1>6, RequestMoves
    <3>2. st = "Issue" /\ j = s_job[c]
      BY <1>1, <2>2, <3>1, OthersStay, SessionRows DEF S!GoTo
    <3>3. QED
      BY <2>1, <2>3, <3>1, <3>2 DEF Moves
  <2>6. ~raced => founders = {}
    BY <1>6 DEF FoundersInv
  <2>7. \A v \in founders' : S!Exists(v)'
    BY <1>2, <1>3, <2>2, <2>5 DEF FoundersInv, S!Exists
  <2>8. ~raced' => founders' = {u} /\ \A d \in Clients : ~S!Founds(d)'
    BY <1>6, <2>2, <2>4, <2>6 DEF FoundersInv
  <2>9. QED
    BY <2>7, <2>8 DEF FoundersInv, S!OneFounder, S!Founds, S!Exists
<1>7. ASSUME NEW c \in Clients, S!Serve(c), ~(S!Count(c) /\ ~S!Answer(c)),
             ~(S!Create(c) /\ S!Founds(c) /\ ~S!Exists(s_job[c].user))
      PROVE  UNCHANGED <<founders, raced>> /\ \A d \in Clients : S!Founds(d)' => S!Founds(d)
  <2>1. PICK st \in Statements, j \in S!Job, x \in S!Passwords : Moves(c, st, j, x)
    BY <1>7, RequestMoves
  <2>2. /\ \A d \in Clients \ {c} : s_pc'[d] = s_pc[d] /\ s_job'[d] = s_job[d]
        /\ s_pc'[c] = st /\ s_job'[c] = j
    BY <1>1, <2>1, OthersStay
  <2>3. UNCHANGED <<founders, raced>>
    <3>1. CASE S!Count(c) /\ S!Answer(c)
      <4>1. ~S!GoTo(c, "Create")
        BY <1>1, <3>1, SessionRows DEF S!Answer, S!GoTo
      <4>2. QED
        BY <3>1, <4>1 DEF S!Count
    <3>2. CASE S!Create(c)
      BY <1>7, <3>2 DEF S!Create
    <3>3. CASE ~(S!Count(c) \/ S!Create(c))
      BY <1>7, <3>3 DEF S!Serve, S!Receive, S!GetByEmail, S!RegisterFailedLogin,
         S!ResetFailedLogins, S!Issue, S!GetValid, S!Revoke, S!RevokeIgnored, S!GetByID,
         S!UpdatePassword, S!RevokeAllForUser, S!UpdateActive, S!Abort
    <3>4. QED
      BY <1>7, <3>1, <3>2, <3>3
  <2>4. ~S!Founds(c)'
    <3>1. ASSUME st = "Create", j.op = "bootstrap"
          PROVE  FALSE
      <4>1. ~S!Answer(c)
        BY <1>1, <2>2, <3>1, SessionRows DEF S!Answer
      <4>2. ASSUME NEW i \in S!Asked, S!Receive(c, i) PROVE FALSE
        <5>1. st = S!FirstStatement(i.op) /\ j = i
          BY <1>1, <2>2, <4>2, SessionRows DEF S!Receive
        <5>2. S!FirstStatement("bootstrap") = "Count"
          BY DEF S!FirstStatement
        <5>3. QED
          BY <3>1, <5>1, <5>2
      <4>3. \A to : S!GoTo(c, to) => to = "Create"
        BY <1>1, <2>2, <3>1, SessionRows DEF S!GoTo
      <4>4. ~S!GetByEmail(c) /\ ~S!GetValid(c)
        <5>1. ~\E to \in {"ResetFailedLogins", "Revoke"} : s_pc' = [s_pc EXCEPT ![c] = to]
          BY <1>1, <2>2, <3>1, SessionRows
        <5>2. QED
          BY <4>1, <4>3, <5>1 DEF S!GetByEmail, S!GetValid
      <4>5. ~S!Revoke(c) /\ ~S!RevokeIgnored(c)
        BY <4>3 DEF S!Revoke, S!RevokeIgnored, S!AfterRevoke
      <4>6. QED
        BY <1>7, <4>1, <4>2, <4>3, <4>4, <4>5
        DEF S!Serve, S!RegisterFailedLogin, S!ResetFailedLogins, S!Issue, S!GetByID,
            S!UpdatePassword, S!RevokeAllForUser, S!Create, S!UpdateActive, S!Abort
    <3>2. QED
      BY <2>2, <3>1 DEF S!Founds
  <2>5. QED
    BY <2>2, <2>3, <2>4 DEF S!Founds
<1>8. ASSUME ~\E c \in Clients : S!Serve(c)
      PROVE  UNCHANGED <<founders, raced>> /\ \A d \in Clients : S!Founds(d)' => S!Founds(d)
  BY <1>8 DEF S!Next, S!LockExpires, S!TokenExpires, S!Founds
<1>9. QED
  BY <1>4, <1>5, <1>6, <1>7, <1>8

LEMMA SessionsNext ==
    ASSUME SsInv, S!Next
    PROVE  SsInv'
BY SoundStep, HeirsStep, ShowsStep, FoundersStep, LocksStep DEF SsInv

LEMMA SessionsInit ==
    ASSUME S!Init
    PROVE  SsInv
<1>1. \A u \in Tickets : ~S!Exists(u)
  BY DEF S!Init, S!Exists
<1>2. \A t \in Requests : ~S!Issued(t)
  BY DEF S!Init, S!Issued
<1>3. \A c \in Clients : s_pc[c] = "idle" /\ s_job[c] = S!NoJob /\ proof[c] = 0
  BY DEF S!Init
<1>4. S!NoJob \in S!Job /\ S!NoJob.op = "none" /\ AboutRows(S!NoJob) /\ 0 \in S!Passwords
  BY NoJobFits, SessionConstants DEF S!Passwords
<1>5. SessionTypes
  <2>1. 0 \in 0 .. MaxRequests
    BY SessionConstants
  <2>2. QED
    BY <1>4, <2>1 DEF S!Init, SessionTypes, S!TypeOK, Statements
<1>6. JobsFit
  BY <1>3, <1>4 DEF JobsFit, OpFits
<1>7. TokensOfUsers /\ HeirsInv /\ ParentsIssued
  BY <1>2 DEF TokensOfUsers, HeirsInv, ParentsIssued
<1>8. ShowsInv
  BY <1>2, <1>3 DEF ShowsInv, MayEnter
<1>9. FoundersInv
  BY <1>3 DEF S!Init, FoundersInv, S!Founds, S!OneFounder
<1>10. S!LockFollowsFailures
  BY <1>1 DEF S!LockFollowsFailures
<1>11. QED
  BY <1>5, <1>6, <1>7, <1>8, <1>9, <1>10 DEF SsInv, SoundRows

LEMMA SessionsRest ==
    ASSUME SsInv, UNCHANGED sessionVars
    PROVE  SsInv'
<1>1. SoundRows'
  BY DEF SsInv, sessionVars, SoundRows, SessionTypes, S!TypeOK, JobsFit, OpFits, AboutRows,
         TokensOfUsers, S!Exists, S!Issued
<1>2. HeirsInv' /\ ParentsIssued'
  BY DEF SsInv, sessionVars, HeirsInv, ParentsIssued, Heir, Holds, S!Issued, S!Valid
<1>3. ShowsInv'
  BY DEF SsInv, sessionVars, ShowsInv, Shows, Changer, MayEnter, S!Changes, S!Of, S!Issued, S!Valid
<1>4. FoundersInv'
  BY DEF SsInv, sessionVars, FoundersInv, S!Founds, S!OneFounder, S!Exists
<1>5. S!LockFollowsFailures'
  BY DEF SsInv, sessionVars, S!LockFollowsFailures, S!Exists
<1>6. QED
  BY <1>1, <1>2, <1>3, <1>4, <1>5 DEF SsInv

LEMMA SessionsHold ==
    ASSUME SsInv
    PROVE  S!SessionsInv
<1>1. S!TypeOK /\ SessionTypes
  BY DEF SsInv, SoundRows, SessionTypes
<1>2. S!OneHeirPerToken
  <2> SUFFICES ASSUME NEW s \in Requests, NEW t \in Requests, S!Issued(s), S!Issued(t), s # t,
                      tokens[s].parent # None, tokens[s].parent = tokens[t].parent
               PROVE  tokens[s].parent \in shared
    BY DEF S!OneHeirPerToken
  <2>1. PICK p \in Requests : p = tokens[s].parent /\ S!Issued(p)
    BY DEF SsInv, ParentsIssued
  <2>2. Heir(s, p) /\ Heir(t, p)
    BY <2>1 DEF Heir
  <2>3. QED
    BY <2>1, <2>2 DEF SsInv, HeirsInv
<1>3. S!SessionsProveThePassword
  <2> SUFFICES ASSUME NEW t \in Requests, S!Issued(t), S!Valid(t)
               PROVE  \/ tokens[t].proof = users[tokens[t].user].password
                      \/ tokens[t].user \in excused
                      \/ \E c \in Clients : /\ S!Changes(c) /\ s_job[c].user = tokens[t].user
                                            /\ s_pc[c] = "RevokeAllForUser"
    BY DEF S!SessionsProveThePassword
  <2>1. Shows(tokens[t].user, tokens[t].proof)
    BY DEF SsInv, ShowsInv
  <2>2. QED
    BY <2>1 DEF Shows, Changer
<1>4. S!LockFollowsFailures /\ S!OneFounder
  BY DEF SsInv, FoundersInv
<1>5. QED
  BY <1>1, <1>2, <1>3, <1>4 DEF S!SessionsInv

(* A refresh token has one heir, a valid session shows the password in       *)
(* force, a lock follows the failures and one bootstrap founds, but for the  *)
(* overlaps and failures that each of them names: for every number of        *)
(* requests, users and tokens (AuthHandler).                                 *)
THEOREM SessionsAreKept == DesksSpec => []DesksInv
<1> DEFINE I == runs \in {"tickets", "sessions", "access", "availability"} /\ SsInv
                /\ (runs = "tickets" => TypeOK)
<1>1. DesksInit => I
  <2>1. Init => TypeOK
    BY DEF Init, TypeOK, Row, Statuses
  <2>2. DesksInit => SsInv
    BY SessionsInit DEF DesksInit
  <2>3. DesksInit => runs \in {"tickets", "sessions", "access", "availability"}
                     /\ (runs = "tickets" => Init)
    BY DEF DesksInit
  <2>4. QED
    BY <2>1, <2>2, <2>3
<1>2. I /\ [DesksNext]_all => I'
  <2> SUFFICES ASSUME I, [DesksNext]_all PROVE I'
    OBVIOUS
  <2>1. runs' = runs
    BY DEF DesksNext, Runs, all
  <2>2. SsInv'
    <3>1. S!Next \/ UNCHANGED sessionVars
      BY DEF DesksNext, all
    <3>2. QED
      BY <3>1, SessionsNext, SessionsRest
  <2>3. runs = "tickets" => TypeOK'
    <3>1. runs = "tickets" => [Next]_vars
      BY DEF DesksNext, Runs, all
    <3>2. QED
      BY <3>1, TypeStep
  <2>4. QED
    BY <2>1, <2>2, <2>3
<1>3. I => DesksInv
  BY SessionsHold DEF DesksInv
<1>4. QED
  BY <1>1, <1>2, <1>3, PTL DEF DesksSpec

-----------------------------------------------------------------------------
(* Induction over the numbers up to k, from the least one that is missing. *)
LEMMA LessPairs == OpToRel(<, Nat) = {p \in Nat \X Nat : p[1] < p[2]}
BY DEF OpToRel

LEMMA SmallestNumber ==
    ASSUME NEW reached \in SUBSET Nat, reached # {}
    PROVE  \E m \in reached : \A x \in reached : m <= x
<1> DEFINE Less == OpToRel(<, Nat)
<1>1. IsWellFoundedOn(Less, Nat)
  BY NatLessThanWellFounded, Zenon
<1>2. \A a, b \in Nat : a < b => <<a, b>> \in Less
  BY LessPairs, Zenon
<1> HIDE DEF Less
<1>3. PICK m \in reached : \A x \in reached : <<x, m>> \notin Less
  BY <1>1, WFMin
<1>4. \A x \in reached : ~(x < m)
  BY <1>2, <1>3
<1>5. QED
  BY <1>4

LEMMA Counting ==
    ASSUME NEW k \in Nat, NEW reached, 0 \in reached, \A n \in 0 .. k - 1 : n \in reached => n + 1 \in reached
    PROVE  0 .. k \subseteq reached
<1> DEFINE missing == {n \in 0 .. k : n \notin reached}
<1> SUFFICES ASSUME missing # {}
             PROVE  FALSE
  OBVIOUS
<1>0. missing \in SUBSET Nat
  OBVIOUS
<1>1. PICK m \in missing : \A x \in missing : m <= x
  <2> HIDE DEF missing
  <2>1. QED
    BY <1>0, SmallestNumber
<1>2. m \in 0 .. k /\ m \notin reached /\ m # 0
  BY <1>1
<1>3. m - 1 \in 0 .. k - 1 /\ m - 1 \notin missing
  BY <1>1, <1>2
<1>4. m - 1 \in reached
  BY <1>2, <1>3
<1>5. QED
  BY <1>2, <1>3, <1>4

-----------------------------------------------------------------------------
(* The total of a sequence. *)
IsSum(g, h, k) ==
    /\ g \in [0 .. k -> Int] /\ g[0] = 0
    /\ \A n \in 1 .. k : g[n] = g[n - 1] + h[n]

LEMMA SumExists ==
    ASSUME NEW h \in Seq(Int)
    PROVE  \E g : IsSum(g, h, Len(h))
<1>1. Len(h) \in Nat /\ DOMAIN h = 1 .. Len(h) /\ \A n \in 1 .. Len(h) : h[n] \in Int
  BY LenProperties
<1> DEFINE reached == {n \in Nat : \E g : IsSum(g, h, n)}
<1>2. 0 \in reached
  <2>1. IsSum([i \in 0 .. 0 |-> 0], h, 0)
    BY DEF IsSum
  <2>2. QED
    BY <2>1
<1>3. ASSUME NEW n \in 0 .. Len(h) - 1, n \in reached
      PROVE  n + 1 \in reached
  <2>1. n \in Nat /\ n + 1 \in 1 .. Len(h) /\ h[n + 1] \in Int
    BY <1>1
  <2>2. PICK g : IsSum(g, h, n)
    BY <1>3
  <2> DEFINE f == [i \in 0 .. n + 1 |-> IF i = n + 1 THEN g[n] + h[n + 1] ELSE g[i]]
  <2>3. f \in [0 .. n + 1 -> Int]
    BY <2>1, <2>2 DEF IsSum
  <2>4. f[0] = 0
    BY <2>1, <2>2 DEF IsSum
  <2>5. ASSUME NEW i \in 1 .. n + 1
        PROVE  f[i] = f[i - 1] + h[i]
    <3>1. i - 1 \in 0 .. n /\ i \in 0 .. n + 1 /\ f[i - 1] = g[i - 1]
      BY <2>1, <2>5
    <3>2. CASE i = n + 1
      BY <2>1, <3>1, <3>2
    <3>3. CASE i # n + 1
      BY <2>1, <2>2, <3>1, <3>3 DEF IsSum
    <3>4. QED
      BY <3>2, <3>3
  <2>6. IsSum(f, h, n + 1)
    BY <2>3, <2>4, <2>5 DEF IsSum
  <2>7. QED
    BY <2>1, <2>6
<1>4. 0 .. Len(h) \subseteq reached
  <2> HIDE DEF reached
  <2>1. QED
    BY <1>1, <1>2, <1>3, Counting
<1>5. QED
  BY <1>1, <1>4

LEMMA SumsAgree ==
    ASSUME NEW k \in Nat, NEW h, NEW i, NEW f, NEW g, IsSum(f, h, k), IsSum(g, i, k),
           \A n \in 1 .. k : h[n] = i[n]
    PROVE  f[k] = g[k]
<1> DEFINE reached == {n \in 0 .. k : f[n] = g[n]}
<1>1. 0 \in reached
  BY DEF IsSum
<1>2. ASSUME NEW n \in 0 .. k - 1, n \in reached
      PROVE  n + 1 \in reached
  <2>1. n + 1 \in 1 .. k /\ n + 1 - 1 = n
    OBVIOUS
  <2>2. f[n + 1] = f[n] + h[n + 1] /\ g[n + 1] = g[n] + i[n + 1]
    BY <2>1 DEF IsSum
  <2>3. QED
    BY <1>2, <2>1, <2>2
<1>3. 0 .. k \subseteq reached
  <2> HIDE DEF reached
  <2>1. QED
    BY <1>1, <1>2, Counting
<1>4. QED
  BY <1>3

LEMMA TotalIsSum ==
    ASSUME NEW h \in Seq(Int)
    PROVE  \E g : IsSum(g, h, Len(h)) /\ V!Total(h) = g[Len(h)]
<1>1. Len(h) \in Nat
  BY LenProperties
<1> DEFINE Sums(g) == g = [n \in 0 .. Len(h) |-> IF n = 0 THEN 0 ELSE g[n - 1] + h[n]]
           s == CHOOSE g : Sums(g)
<1>2. PICK f : IsSum(f, h, Len(h))
  BY SumExists
<1>3. Sums(f)
  BY <1>1, <1>2 DEF IsSum
<1>4. Sums(s)
  BY <1>3
<1>5. V!Total(h) = s[Len(h)]
  BY DEF V!Total
<1> HIDE DEF s
<1>6. s[0] = 0 /\ \A n \in 1 .. Len(h) : s[n] = s[n - 1] + h[n]
  BY <1>1, <1>4
<1> DEFINE agreed == {n \in 0 .. Len(h) : s[n] = f[n]}
<1>7. 0 \in agreed
  BY <1>1, <1>2, <1>6 DEF IsSum
<1>8. ASSUME NEW n \in 0 .. Len(h) - 1, n \in agreed
      PROVE  n + 1 \in agreed
  <2>1. n + 1 \in 1 .. Len(h) /\ n + 1 - 1 = n
    BY <1>1
  <2>2. QED
    BY <1>2, <1>6, <1>8, <2>1 DEF IsSum
<1>9. 0 .. Len(h) \subseteq agreed
  <2> HIDE DEF agreed
  <2>1. QED
    BY <1>1, <1>7, <1>8, Counting
<1>10. s[Len(h)] = f[Len(h)]
  BY <1>1, <1>9
<1>11. QED
  BY <1>2, <1>5, <1>10

-----------------------------------------------------------------------------
(* The hours of a window: what the events share with it are its failed hours, *)
(* as long as no two of them share an hour.                                   *)
SameSizes == \A group : V!Cardinality(group) = Cardinality(group)

LEMMA HourSizes == SameSizes
BY DEF SameSizes, V!Cardinality, Cardinality

LEMMA HourConstants ==
    /\ Window \in Nat /\ Stale \in Nat /\ LastHour \in Nat /\ LastHour >= 1 /\ None \notin Nat
    /\ Births \subseteq {0, 1} /\ FirstHour \in 1 .. LastHour
BY HourParameters DEF V!Parameters

IsWindow(w) == w.start \in Nat /\ w.end \in Nat /\ w.start <= w.end

IsFailure(e) == e.occurred_at \in Nat /\ e.resolved_at \in Nat \cup {None}

Meets(e, w) == e.occurred_at < w.end /\ V!Until(e, w) > w.start
\* It was not resolved with an instant from before it occurred.
Upright(e, w) == Meets(e, w) => e.occurred_at <= V!Until(e, w)
Term(e, w) == IF Meets(e, w) THEN V!Share(e, w) ELSE 0
Terms(list, w) == [i \in DOMAIN list |-> Term(list[i], w)]
HoursOf(e, w) == {t \in V!Hours(w) : e.occurred_at <= t /\ V!Until(e, w) > t}

LEMMA TermIsInt ==
    ASSUME NEW e, NEW w, IsFailure(e), IsWindow(w)
    PROVE  Term(e, w) \in Int
BY HourConstants
DEF Term, IsFailure, IsWindow, V!Share, V!Until, V!Least, V!Greatest

LEMMA SumOfTerms ==
    ASSUME NEW list, NEW w
    PROVE  V!SumFailureDowntime(list, w) = V!Total(Terms(list, w))
<1>1. \A i \in DOMAIN list : i \in V!Meeting(list, w) <=> Meets(list[i], w)
  BY DEF V!Meeting, Meets
<1>2. [i \in DOMAIN list |-> IF i \in V!Meeting(list, w) THEN V!Share(list[i], w) ELSE 0]
        = Terms(list, w)
  BY <1>1 DEF Terms, Term
<1>3. QED
  BY <1>2 DEF V!SumFailureDowntime

\* The hours of one event are as many as it shares with the window.
LEMMA HoursOfOne ==
    ASSUME NEW e, NEW w, IsFailure(e), IsWindow(w), Upright(e, w)
    PROVE  /\ IsFiniteSet(HoursOf(e, w)) /\ Term(e, w) \in Nat
           /\ Cardinality(HoursOf(e, w)) = Term(e, w)
<1>1. V!Until(e, w) \in Nat /\ (Meets(e, w) => e.occurred_at <= V!Until(e, w))
  BY HourConstants DEF IsFailure, IsWindow, Upright, V!Until
<1>2. CASE Meets(e, w)
  <2> DEFINE from == V!Greatest(e.occurred_at, w.start)
             to == V!Least(V!Until(e, w), w.end)
  <2>1. from \in Nat /\ to \in Nat /\ from <= to
    BY <1>1, <1>2 DEF IsFailure, IsWindow, Meets, V!Greatest, V!Least
  <2>2. HoursOf(e, w) = from .. to - 1
    BY <1>1, <1>2 DEF IsFailure, IsWindow, HoursOf, V!Hours, V!Greatest, V!Least
  <2>3. Term(e, w) = to - from
    BY <1>2 DEF Term, V!Share
  <2> HIDE DEF from, to
  <2>4. IsFiniteSet(from .. to - 1)
        /\ Cardinality(from .. to - 1) = IF from > to - 1 THEN 0 ELSE (to - 1) - from + 1
    BY <2>1, FS_Interval
  <2>5. QED
    BY <2>1, <2>2, <2>3, <2>4
<1>3. CASE ~Meets(e, w)
  <2>1. HoursOf(e, w) = {}
    BY <1>1, <1>3 DEF IsFailure, IsWindow, Meets, HoursOf, V!Hours
  <2>2. QED
    BY <1>3, <2>1, FS_EmptySet DEF Term
<1>4. QED
  BY <1>2, <1>3

LEMMA HoursOfWindow ==
    ASSUME NEW w, IsWindow(w)
    PROVE  IsFiniteSet(V!Hours(w)) /\ Cardinality(V!Hours(w)) = w.end - w.start
<1>1. w.start \in Int /\ w.end - 1 \in Int
  BY DEF IsWindow
<1>2. IsFiniteSet(w.start .. w.end - 1)
      /\ Cardinality(w.start .. w.end - 1)
            = IF w.start > w.end - 1 THEN 0 ELSE (w.end - 1) - w.start + 1
  BY <1>1, FS_Interval
<1>3. QED
  BY <1>2 DEF IsWindow, V!Hours

LEMMA SilenceCounted ==
    ASSUME NEW w, IsWindow(w), NEW last \in Nat \cup {None}
    PROVE  /\ V!SilenceDowntime(last, w) \in 0 .. w.end - w.start
           /\ Cardinality(V!SilentHours(last, w)) = V!SilenceDowntime(last, w)
<1>1. CASE last = None
  <2>1. V!SilenceDowntime(last, w) = w.end - w.start /\ V!SilentHours(last, w) = V!Hours(w)
    BY <1>1 DEF V!SilenceDowntime, V!SilentHours
  <2>2. QED
    BY <2>1, HoursOfWindow DEF IsWindow
<1>2. CASE last # None /\ last < w.end - Stale
  <2> DEFINE from == V!Greatest(last, w.start)
  <2>1. last \in Nat /\ from \in Nat /\ from <= w.end /\ w.start <= from
    BY <1>2, HourConstants DEF IsWindow, V!Greatest
  <2>2. V!SilenceDowntime(last, w) = w.end - from
    BY <1>2 DEF V!SilenceDowntime
  <2>3. V!SilentHours(last, w) = from .. w.end - 1
    BY <1>2, <2>1 DEF IsWindow, V!SilentHours, V!Hours, V!Greatest
  <2> HIDE DEF from
  <2>4. Cardinality(from .. w.end - 1) = IF from > w.end - 1 THEN 0 ELSE (w.end - 1) - from + 1
    <3>1. from \in Int /\ w.end - 1 \in Int
      BY <2>1 DEF IsWindow
    <3>2. QED
      BY <3>1, FS_Interval
  <2>5. QED
    BY <2>1, <2>2, <2>3, <2>4 DEF IsWindow
<1>3. CASE last # None /\ ~(last < w.end - Stale)
  <2>1. V!SilenceDowntime(last, w) = 0 /\ V!SilentHours(last, w) = {}
    BY <1>3 DEF V!SilenceDowntime, V!SilentHours
  <2>2. QED
    BY <2>1, FS_EmptySet DEF IsWindow
<1>4. QED
  BY <1>1, <1>2, <1>3

LEMMA EventsAreFailures == \A e \in V!Event : IsFailure(e)
BY HourConstants DEF V!Event, V!Time, IsFailure

\* The sum of any events.
LEMMA SumIsInt ==
    ASSUME NEW list \in Seq(V!Event), NEW w, IsWindow(w)
    PROVE  /\ V!SumFailureDowntime(list, w) \in Int
           /\ Terms(list, w) \in Seq(Int) /\ Len(Terms(list, w)) = Len(list)
<1>1. Len(list) \in Nat /\ DOMAIN list = 1 .. Len(list)
      /\ \A i \in DOMAIN list : list[i] \in V!Event
  BY LenProperties
<1>2. Terms(list, w) \in [1 .. Len(list) -> Int]
  BY <1>1, EventsAreFailures, TermIsInt DEF Terms
<1>3. Terms(list, w) \in Seq(Int) /\ Len(Terms(list, w)) = Len(list)
  BY <1>1, <1>2
<1>4. PICK g : IsSum(g, Terms(list, w), Len(list)) /\ V!SumFailureDowntime(list, w) = g[Len(list)]
  BY <1>3, TotalIsSum, SumOfTerms
<1>5. QED
  BY <1>1, <1>3, <1>4 DEF IsSum

LEMMA FailedHoursFit ==
    ASSUME NEW list, NEW w, IsWindow(w)
    PROVE  Cardinality(V!FailedHours(list, w)) \in 0 .. w.end - w.start
<1>1. V!FailedHours(list, w) \subseteq V!Hours(w)
  BY DEF V!FailedHours
<1>2. Cardinality(V!FailedHours(list, w)) \in Nat
      /\ Cardinality(V!FailedHours(list, w)) <= w.end - w.start
  BY <1>1, HoursOfWindow, FS_Subset, FS_CardinalityType
<1>3. QED
  BY <1>2 DEF IsWindow

\* The first n events, each resolved after it occurred: their failed hours against the
\* sum so far.
LEMMA FailuresCounted ==
    ASSUME NEW list \in Seq(V!Event), NEW w, IsWindow(w), ~V!Inverted(list, w)
    PROVE  /\ Cardinality(V!FailedHours(list, w)) <= V!SumFailureDowntime(list, w)
           /\ ~V!Overlap(list, w) =>
                Cardinality(V!FailedHours(list, w)) = V!SumFailureDowntime(list, w)
<1> DEFINE h == Terms(list, w)
           k == Len(list)
           First(n) == {t \in V!Hours(w) : \E i \in 1 .. n : t \in HoursOf(list[i], w)}
<1>1. k \in Nat /\ DOMAIN list = 1 .. k /\ \A i \in 1 .. k : IsFailure(list[i])
  BY LenProperties, EventsAreFailures
<1>2. \A i \in 1 .. k : /\ IsFiniteSet(HoursOf(list[i], w)) /\ Term(list[i], w) \in Nat
                        /\ Cardinality(HoursOf(list[i], w)) = Term(list[i], w)
  <2>1. ASSUME NEW i \in 1 .. k
        PROVE  Upright(list[i], w)
    <3>1. V!Until(list[i], w) \in Nat
      BY <1>1 DEF V!Until, IsFailure, IsWindow
    <3>2. Meets(list[i], w) => ~(V!Until(list[i], w) < list[i].occurred_at)
      BY <1>1 DEF V!Inverted, V!Meeting, Meets
    <3>3. QED
      BY <1>1, <3>1, <3>2 DEF Upright, IsFailure
  <2>2. QED
    BY <1>1, <2>1, HoursOfOne
<1>3. h \in Seq(Int) /\ Len(h) = k /\ \A i \in 1 .. k : h[i] = Term(list[i], w)
  BY <1>1, SumIsInt DEF Terms
<1>4. PICK g : IsSum(g, h, k) /\ V!SumFailureDowntime(list, w) = g[k]
  BY <1>3, TotalIsSum, SumOfTerms
<1>5. V!FailedHours(list, w) = First(k)
  BY <1>1 DEF V!FailedHours, HoursOf
<1> DEFINE counted == {n \in 0 .. k : /\ IsFiniteSet(First(n))
                                      /\ Cardinality(First(n)) <= g[n]
                                      /\ ~V!Overlap(list, w) => Cardinality(First(n)) = g[n]}
<1>6. 0 \in counted
  <2>1. First(0) = {}
    OBVIOUS
  <2>2. IsFiniteSet(First(0)) /\ Cardinality(First(0)) = 0
    BY <2>1, FS_EmptySet
  <2>3. g[0] = 0 /\ 0 \in 0 .. k
    BY <1>1, <1>4 DEF IsSum
  <2> HIDE DEF First
  <2>4. QED
    BY <2>2, <2>3
<1>7. ASSUME NEW n \in 0 .. k - 1, n \in counted
      PROVE  n + 1 \in counted
  <2> DEFINE new == HoursOf(list[n + 1], w)
  <2>1. n + 1 \in 1 .. k /\ n + 1 - 1 = n /\ n \in Nat
    BY <1>1
  <2>2. First(n + 1) = First(n) \cup new
    BY <2>1 DEF HoursOf
  <2>3. IsFiniteSet(new) /\ Cardinality(new) = h[n + 1] /\ IsFiniteSet(First(n))
        /\ Cardinality(new) \in Nat /\ Cardinality(First(n)) \in Nat /\ g[n] \in Int
    BY <1>1, <1>2, <1>3, <1>4, <1>7, <2>1, FS_CardinalityType DEF IsSum
  <2>4. g[n + 1] = g[n] + h[n + 1]
    BY <1>4, <2>1 DEF IsSum
  <2>5. ~V!Overlap(list, w) => First(n) \cap new = {}
    <3> SUFFICES ASSUME NEW t \in First(n), t \in new
                 PROVE  V!Overlap(list, w)
      OBVIOUS
    <3>1. PICK i \in 1 .. n : t \in HoursOf(list[i], w)
      OBVIOUS
    <3>2. i \in DOMAIN list /\ n + 1 \in DOMAIN list /\ i # n + 1
      BY <1>1, <2>1, <3>1
    <3>3. i \in V!Meeting(list, w) /\ n + 1 \in V!Meeting(list, w)
      <4>1. \A j \in DOMAIN list : t \in HoursOf(list[j], w) => j \in V!Meeting(list, w)
        <5> SUFFICES ASSUME NEW j \in DOMAIN list, t \in HoursOf(list[j], w)
                     PROVE  j \in V!Meeting(list, w)
          OBVIOUS
        <5>1. IsFailure(list[j])
          BY <1>1
        <5>2. V!Until(list[j], w) \in Nat
          BY <5>1 DEF V!Until, IsFailure, IsWindow
        <5>3. QED
          BY <5>1, <5>2 DEF HoursOf, V!Hours, V!Meeting, IsFailure, IsWindow
      <4>2. QED
        BY <3>1, <3>2, <4>1
    <3>4. t \in V!FailedHours(<<list[i]>>, w) /\ t \in V!FailedHours(<<list[n + 1]>>, w)
      BY <3>1 DEF HoursOf, V!FailedHours
    <3>5. QED
      BY <3>2, <3>3, <3>4 DEF V!Overlap
  <2>6. Cardinality(First(n)) <= g[n] /\ (~V!Overlap(list, w) => Cardinality(First(n)) = g[n])
    BY <1>7
  <2>7. PICK old, both, more :
            old = First(n) /\ both = First(n + 1) /\ more = new
    OBVIOUS
  <2>8. /\ both = old \cup more /\ IsFiniteSet(old) /\ IsFiniteSet(more)
        /\ Cardinality(more) = h[n + 1] /\ Cardinality(old) <= g[n]
        /\ ~V!Overlap(list, w) => Cardinality(old) = g[n] /\ old \cap more = {}
    BY <2>2, <2>3, <2>5, <2>6, <2>7, Zenon
  <2>9. IsFiniteSet(both) /\ Cardinality(both) <= g[n + 1]
        /\ (~V!Overlap(list, w) => Cardinality(both) = g[n + 1])
    <3> HIDE DEF First, new, h
    <3>1. /\ IsFiniteSet(both)
          /\ Cardinality(both) = Cardinality(old) + Cardinality(more) - Cardinality(old \cap more)
      BY <2>8, FS_Union
    <3>2. /\ Cardinality(old) \in Nat /\ Cardinality(more) \in Nat
          /\ Cardinality(old \cap more) \in Nat
      BY <2>8, FS_Intersection, FS_CardinalityType
    <3>3. old \cap more = {} => Cardinality(old \cap more) = 0
      BY FS_EmptySet
    <3>4. QED
      BY <2>3, <2>4, <2>8, <3>1, <3>2, <3>3
  <2>10. n + 1 \in 0 .. k
    BY <1>1, <2>1
  <2>11. QED
    BY <2>7, <2>9, <2>10, Zenon
<1>8. 0 .. k \subseteq counted
  <2> HIDE DEF counted
  <2>1. QED
    BY <1>1, <1>6, <1>7, Counting
<1>9. k \in counted
  BY <1>1, <1>8
<1> HIDE DEF First
<1>10. QED
  BY <1>4, <1>5, <1>9

-----------------------------------------------------------------------------
(* What holds of the availability in every state. *)
HourTypes == V!TypeOK

WindowSound ==
    /\ IsWindow(window) /\ window.end - window.start <= Window
    /\ V!Asking => window.start < window.end

\* What the request would answer if the rest of it ran now.
AnswerToCome ==
    V!Capped(IF v_pc = "SumFailureDowntime" THEN V!SumFailureDowntime(events, window) ELSE down,
             V!SilenceDowntime(lastMetric, window), window)
ComesToBe == V!Asking => atEnd \in {AnswerToCome, None}

VInv == HourTypes /\ WindowSound /\ ComesToBe

LEMMA SilenceNow ==
    ASSUME VInv, NEW w, IsWindow(w)
    PROVE  V!SilenceDowntime(lastMetric, w) \in 0 .. w.end - w.start
BY HourConstants, SilenceCounted DEF VInv, HourTypes, V!TypeOK, V!Time

LEMMA FailuresNow ==
    ASSUME VInv, NEW w, IsWindow(w)
    PROVE  V!SumFailureDowntime(events, w) \in Int
BY SumIsInt DEF VInv, HourTypes, V!TypeOK

LEMMA CappedFits ==
    ASSUME NEW f \in Int, NEW w, IsWindow(w), NEW s \in 0 .. w.end - w.start
    PROVE  /\ V!Capped(f, s, w) \in 0 .. w.end - w.start
           /\ V!Capped(f, s, w) = V!Least(V!Greatest(f, s), w.end - w.start)
BY DEF V!Capped, V!Least, V!Greatest, IsWindow

\* An event that occurs when the window has ended shares nothing with it.
LEMMA LaterEvent ==
    ASSUME NEW list \in Seq(V!Event), NEW w, IsWindow(w), NEW e \in V!Event,
           e.occurred_at >= w.end
    PROVE  V!SumFailureDowntime(Append(list, e), w) = V!SumFailureDowntime(list, w)
<1> DEFINE longer == Append(list, e)
           k == Len(list)
<1>1. /\ k \in Nat /\ DOMAIN list = 1 .. k /\ longer \in Seq(V!Event) /\ Len(longer) = k + 1
      /\ DOMAIN longer = 1 .. k + 1 /\ longer[k + 1] = e
      /\ \A i \in 1 .. k : longer[i] = list[i]
  BY LenProperties, AppendProperties
<1> HIDE DEF longer
<1>2. Terms(list, w) \in Seq(Int) /\ Len(Terms(list, w)) = k
  BY SumIsInt
<1>3. Term(e, w) = 0
  BY EventsAreFailures DEF Term, Meets, IsFailure, IsWindow
<1>4. Terms(longer, w) \in Seq(Int) /\ Len(Terms(longer, w)) = k + 1
  BY <1>1, SumIsInt
<1>5. Len(Terms(list, w)) = k /\ Len(Terms(longer, w)) = k + 1
  BY <1>2, <1>4
<1>6. PICK f : IsSum(f, Terms(list, w), k) /\ V!SumFailureDowntime(list, w) = f[k]
  BY <1>2, TotalIsSum, SumOfTerms
<1>7. PICK g : IsSum(g, Terms(longer, w), k + 1) /\ V!SumFailureDowntime(longer, w) = g[k + 1]
  BY <1>4, TotalIsSum, SumOfTerms
<1> DEFINE shorter == [n \in 0 .. k |-> g[n]]
<1>8. \A n \in 1 .. k : Terms(list, w)[n] = Terms(longer, w)[n]
  BY <1>1 DEF Terms
<1>9. IsSum(shorter, Terms(longer, w), k)
  <2>1. shorter \in [0 .. k -> Int] /\ shorter[0] = 0
    BY <1>1, <1>7 DEF IsSum
  <2>2. ASSUME NEW n \in 1 .. k
        PROVE  shorter[n] = shorter[n - 1] + Terms(longer, w)[n]
    <3>1. n \in 1 .. k + 1 /\ n \in 0 .. k /\ n - 1 \in 0 .. k
      BY <1>1
    <3>2. QED
      BY <1>7, <3>1 DEF IsSum
  <2>3. QED
    BY <2>1, <2>2 DEF IsSum
<1>10. f[k] = shorter[k]
  BY <1>1, <1>6, <1>8, <1>9, SumsAgree
<1>11. g[k + 1] = g[k] + 0 /\ g[k] \in Int
  <2>1. k + 1 \in 1 .. k + 1 /\ k \in 0 .. k + 1 /\ k + 1 - 1 = k
    BY <1>1
  <2>2. Terms(longer, w)[k + 1] = 0
    BY <1>1, <1>3, <2>1 DEF Terms
  <2>3. QED
    BY <1>7, <2>1, <2>2 DEF IsSum
<1>12. QED
  BY <1>1, <1>6, <1>7, <1>10, <1>11 DEF longer

-----------------------------------------------------------------------------
(* The statements of a request. *)
LEMMA CalculateStep ==
    ASSUME VInv, V!GetByID \/ V!ReadFailures \/ V!ReadLastMetric \/ V!Fail
    PROVE  VInv'
<1>0. UNCHANGED <<hour, created, events, lastMetric>>
  BY DEF V!GetByID, V!ReadFailures, V!ReadLastMetric, V!Fail, V!Returns
<1>1. CASE V!GetByID
  <2> DEFINE w == [start |-> V!Greatest(created, hour - Window), end |-> hour]
  <2>1. IsWindow(w) /\ w.end - w.start <= Window
    BY HourConstants DEF VInv, HourTypes, V!TypeOK, IsWindow, V!Greatest
  <2>2. /\ window' = w /\ w.start < w.end /\ down' = down
        /\ v_pc' = "SumFailureDowntime"
        /\ atEnd' = V!Capped(V!SumFailureDowntime(events, w), V!SilenceDowntime(lastMetric, w), w)
    BY <1>1 DEF V!GetByID, V!Downtime
  <2> HIDE DEF w
  <2>3. atEnd' \in 0 .. w.end - w.start
    BY <2>1, <2>2, FailuresNow, SilenceNow, CappedFits
  <2>4. atEnd' \in 0 .. Window
    BY <2>1, <2>3, HourConstants DEF IsWindow
  <2>5. HourTypes'
    BY <1>0, <2>2, <2>4 DEF VInv, HourTypes, V!TypeOK, V!Event, V!Time
  <2>6. WindowSound' /\ ComesToBe'
    BY <1>0, <2>1, <2>2 DEF WindowSound, ComesToBe, AnswerToCome, V!Asking, IsWindow
  <2>7. QED
    BY <2>5, <2>6 DEF VInv
<1>2. CASE V!ReadFailures
  <2>1. V!SumFailureDowntime(events, window) \in Int
    BY FailuresNow DEF VInv, WindowSound
  <2>2. /\ down' = V!SumFailureDowntime(events, window)
        /\ v_pc = "SumFailureDowntime" /\ v_pc' = "LastCollectedAt"
        /\ UNCHANGED <<window, atEnd>>
    BY <1>2 DEF V!ReadFailures
  <2>3. HourTypes'
    BY <1>0, <2>1, <2>2 DEF VInv, HourTypes, V!TypeOK, V!Event, V!Time
  <2>4. WindowSound' /\ ComesToBe'
    BY <1>0, <2>2 DEF VInv, WindowSound, ComesToBe, V!Asking, AnswerToCome
  <2>5. QED
    BY <2>3, <2>4 DEF VInv
<1>3. CASE V!ReadLastMetric \/ V!Fail
  <2>1. /\ v_pc' = "idle" /\ down' = 0 /\ atEnd' = None
        /\ window' = [start |-> 0, end |-> 0]
    BY <1>3 DEF V!ReadLastMetric, V!Fail, V!Returns, V!NoWindow
  <2>2. HourTypes'
    BY <1>0, <2>1 DEF VInv, HourTypes, V!TypeOK, V!Event, V!Time
  <2>3. WindowSound' /\ ComesToBe'
    BY <2>1, HourConstants DEF WindowSound, IsWindow, ComesToBe, V!Asking
  <2>4. QED
    BY <2>2, <2>3 DEF VInv
<1>4. QED
  BY <1>1, <1>2, <1>3

-----------------------------------------------------------------------------
(* The writers meanwhile: a step that leaves the request where it is, and is news of *)
(* the window if it changes what is to be answered.                                  *)
LEMMA Meanwhile ==
    ASSUME VInv, UNCHANGED <<v_pc, window, down>>, NEW news, V!Heard(news),
           V!Asking /\ ~news => AnswerToCome' = AnswerToCome
    PROVE  /\ WindowSound' /\ ComesToBe'
           /\ atEnd' \in (0 .. Window) \cup {None}
<1>1. atEnd' \in {atEnd, None} /\ (V!Asking /\ news => atEnd' = None)
  BY DEF V!Heard
<1>2. WindowSound' /\ V!Asking' = V!Asking
  BY DEF VInv, WindowSound, IsWindow, V!Asking
<1>3. ComesToBe'
  BY <1>1, <1>2 DEF VInv, ComesToBe
<1>4. QED
  BY <1>1, <1>2, <1>3 DEF VInv, HourTypes, V!TypeOK

LEMMA OccurStep ==
    ASSUME VInv, NEW keyed \in BOOLEAN, NEW at \in V!Time, V!Insert(keyed, at)
    PROVE  VInv'
<1> DEFINE e == [keyed |-> keyed, occurred_at |-> at, resolved_at |-> None]
<1>1. e \in V!Event /\ e.occurred_at = at /\ at \in Nat
  BY HourConstants DEF V!Event, V!Time
<1>2. /\ events' = Append(events, e) /\ V!Heard(at < window.end)
      /\ UNCHANGED <<hour, created, lastMetric, v_pc, window, down>>
  BY DEF V!Insert, V!Unasked
<1> HIDE DEF e
<1>3. events \in Seq(V!Event) /\ IsWindow(window)
  BY DEF VInv, HourTypes, V!TypeOK, WindowSound
<1>4. events' \in Seq(V!Event)
  BY <1>1, <1>2, <1>3, AppendProperties
<1>5. ~(at < window.end) => AnswerToCome' = AnswerToCome
  <2> SUFFICES ASSUME ~(at < window.end)
               PROVE  AnswerToCome' = AnswerToCome
    OBVIOUS
  <2>1. e.occurred_at >= window.end
    BY <1>1, <1>3 DEF IsWindow
  <2>2. V!SumFailureDowntime(events', window) = V!SumFailureDowntime(events, window)
    BY <1>1, <1>2, <1>3, <2>1, LaterEvent
  <2>3. QED
    BY <1>2, <2>2 DEF AnswerToCome
<1>6. WindowSound' /\ ComesToBe' /\ atEnd' \in (0 .. Window) \cup {None}
  BY <1>2, <1>5, Meanwhile
<1>7. HourTypes'
  BY <1>2, <1>4, <1>6 DEF VInv, HourTypes, V!TypeOK, V!Event, V!Time
<1>8. QED
  BY <1>6, <1>7 DEF VInv

LEMMA ResolveStep ==
    ASSUME VInv, V!Resolve
    PROVE  VInv'
<1>1. PICK at \in 0 .. hour : events' = V!ResolvedAt(at) /\ V!Heard(at < window.end)
  BY DEF V!Resolve
<1>2. UNCHANGED <<hour, created, lastMetric, v_pc, window, down>>
  BY DEF V!Resolve, V!Unasked
<1>3. events \in Seq(V!Event) /\ IsWindow(window) /\ at \in V!Time /\ at \in Nat
  BY HourConstants DEF VInv, HourTypes, V!TypeOK, V!Time, WindowSound
<1>4. ASSUME NEW i \in DOMAIN events
      PROVE  /\ events[i] \in V!Event /\ events'[i] \in V!Event
             /\ events'[i].occurred_at = events[i].occurred_at
             /\ \/ events'[i] = events[i]
                \/ events[i].resolved_at = None /\ events'[i].resolved_at = at
  <2>1. events[i] \in V!Event
    BY <1>3
  <2>2. LET e == [events[i] EXCEPT !.resolved_at = at]
        IN  e \in V!Event /\ e.occurred_at = events[i].occurred_at /\ e.resolved_at = at
    BY <1>3, <2>1 DEF V!Event
  <2>3. events'[i] = IF i \in V!Open THEN [events[i] EXCEPT !.resolved_at = at] ELSE events[i]
    BY <1>1 DEF V!ResolvedAt
  <2>4. i \in V!Open => events[i].resolved_at = None
    BY DEF V!Open
  <2>5. QED
    BY <2>1, <2>2, <2>3, <2>4
<1>5. events' \in Seq(V!Event) /\ DOMAIN events' = DOMAIN events
  <2>1. Len(events) \in Nat /\ DOMAIN events = 1 .. Len(events) /\ DOMAIN events' = DOMAIN events
    BY <1>1, <1>3, LenProperties DEF V!ResolvedAt
  <2>2. events' \in [1 .. Len(events) -> V!Event]
    BY <1>1, <1>4, <2>1 DEF V!ResolvedAt
  <2>3. QED
    BY <2>1, <2>2
<1>6. V!Asking /\ ~(at < window.end) => AnswerToCome' = AnswerToCome
  <2> SUFFICES ASSUME V!Asking, ~(at < window.end)
               PROVE  AnswerToCome' = AnswerToCome
    OBVIOUS
  <2>1. window.start < window.end /\ window.end <= at
    BY <1>3 DEF VInv, WindowSound, IsWindow
  <2>2. ASSUME NEW i \in DOMAIN events
        PROVE  Term(events'[i], window) = Term(events[i], window)
    <3>1. CASE events'[i] = events[i]
      BY <3>1
    <3>2. CASE events[i].resolved_at = None /\ events'[i].resolved_at = at
      <4>1. V!Until(events[i], window) = window.end /\ V!Until(events'[i], window) = at
        BY <1>3, <3>2, HourConstants DEF V!Until
      <4>2. events'[i].occurred_at = events[i].occurred_at
        BY <1>4
      <4>3. Meets(events'[i], window) <=> Meets(events[i], window)
        BY <1>3, <2>1, <4>1, <4>2 DEF Meets, IsWindow
      <4>4. V!Share(events'[i], window) = V!Share(events[i], window)
        BY <1>3, <2>1, <4>1, <4>2 DEF V!Share, V!Least, IsWindow
      <4>5. QED
        BY <4>3, <4>4 DEF Term
    <3>3. QED
      BY <1>4, <3>1, <3>2
  <2>3. Terms(events', window) = Terms(events, window)
    BY <1>5, <2>2 DEF Terms
  <2>4. V!SumFailureDowntime(events', window) = V!SumFailureDowntime(events, window)
    BY <2>3, SumOfTerms
  <2>5. QED
    BY <1>2, <2>4 DEF AnswerToCome
<1>7. WindowSound' /\ ComesToBe' /\ atEnd' \in (0 .. Window) \cup {None}
  BY <1>1, <1>2, <1>6, Meanwhile
<1>8. HourTypes'
  BY <1>2, <1>5, <1>7 DEF VInv, HourTypes, V!TypeOK, V!Event, V!Time
<1>9. QED
  BY <1>7, <1>8 DEF VInv

LEMMA CollectStep ==
    ASSUME VInv, V!Collect
    PROVE  VInv'
<1>1. /\ UNCHANGED <<hour, created, events, v_pc, window, down>>
      /\ lastMetric' \in V!Time /\ (lastMetric = None \/ lastMetric < lastMetric')
      /\ V!Heard(V!SilenceDowntime(lastMetric, window) > 0)
  BY DEF V!Collect, V!Unasked
<1>2. /\ IsWindow(window) /\ lastMetric \in Nat \cup {None}
      /\ lastMetric' \in Nat /\ lastMetric' # None
  BY <1>1, HourConstants DEF VInv, HourTypes, V!TypeOK, V!Time, WindowSound
<1>3. V!Asking /\ ~(V!SilenceDowntime(lastMetric, window) > 0) => AnswerToCome' = AnswerToCome
  <2> SUFFICES ASSUME V!Asking, ~(V!SilenceDowntime(lastMetric, window) > 0)
               PROVE  AnswerToCome' = AnswerToCome
    OBVIOUS
  <2>1. V!SilenceDowntime(lastMetric, window) = 0
    BY <1>2, SilenceNow DEF IsWindow
  <2>2. window.start < window.end
    BY DEF VInv, WindowSound
  <2>3. lastMetric # None /\ ~(lastMetric < window.end - Stale)
    BY <1>2, <2>1, <2>2, HourConstants DEF V!SilenceDowntime, V!Greatest, IsWindow
  <2>4. ~(lastMetric' < window.end - Stale)
    BY <1>1, <1>2, <2>3, HourConstants DEF IsWindow
  <2>5. V!SilenceDowntime(lastMetric', window) = 0
    BY <1>2, <2>4 DEF V!SilenceDowntime
  <2>6. QED
    BY <1>1, <2>1, <2>5 DEF AnswerToCome
<1>4. WindowSound' /\ ComesToBe' /\ atEnd' \in (0 .. Window) \cup {None}
  BY <1>1, <1>3, Meanwhile
<1>5. HourTypes'
  BY <1>1, <1>4 DEF VInv, HourTypes, V!TypeOK, V!Event, V!Time
<1>6. QED
  BY <1>4, <1>5 DEF VInv

LEMMA HourStep ==
    ASSUME VInv, V!Tick \/ UNCHANGED hourVars
    PROVE  VInv'
<1>1. /\ UNCHANGED <<created, events, lastMetric, v_pc, window, down, atEnd>>
      /\ hour' = hour \/ (hour < LastHour /\ hour' = hour + 1)
  BY DEF V!Tick, V!Unasked, hourVars
<1>2. hour' \in 1 .. LastHour
  BY <1>1, HourConstants DEF VInv, HourTypes, V!TypeOK
<1>3. HourTypes'
  BY <1>1, <1>2 DEF VInv, HourTypes, V!TypeOK, V!Event, V!Time
<1>4. WindowSound' /\ ComesToBe'
  BY <1>1 DEF VInv, WindowSound, IsWindow, ComesToBe, AnswerToCome, V!Asking
<1>5. QED
  BY <1>3, <1>4 DEF VInv

LEMMA HoursInit ==
    ASSUME V!Init
    PROVE  VInv
<1>1. HourTypes
  <2>1. /\ FirstHour \in 1 .. LastHour /\ 1 \in V!Time /\ {None, 1} \subseteq V!Time \cup {None}
        /\ << >> \in Seq(V!Event) /\ Births \subseteq {0, 1}
    BY HourConstants DEF V!Time
  <2>2. QED
    BY <2>1 DEF V!Init, HourTypes, V!TypeOK
<1>2. WindowSound /\ ComesToBe
  BY HourConstants DEF V!Init, V!NoWindow, WindowSound, IsWindow, ComesToBe, V!Asking
<1>3. QED
  BY <1>1, <1>2 DEF VInv

LEMMA HoursHold ==
    ASSUME VInv
    PROVE  V!AvailabilityInv
<1> DEFINE w == [start |-> V!Greatest(created, hour - Window), end |-> hour]
           failed == V!SumFailureDowntime(events, w)
           silent == V!SilenceDowntime(lastMetric, w)
<1>1. IsWindow(w)
  BY HourConstants DEF VInv, HourTypes, V!TypeOK, IsWindow, V!Greatest
<1>2. events \in Seq(V!Event) /\ lastMetric \in Nat \cup {None}
  BY HourConstants DEF VInv, HourTypes, V!TypeOK, V!Time
<1> HIDE DEF w
<1>3. /\ failed \in Int
      /\ Cardinality(V!FailedHours(events, w)) \in 0 .. w.end - w.start
      /\ ~V!Inverted(events, w) =>
            /\ Cardinality(V!FailedHours(events, w)) <= failed
            /\ ~V!Overlap(events, w) => Cardinality(V!FailedHours(events, w)) = failed
  BY <1>1, <1>2, FailuresNow, FailedHoursFit, FailuresCounted
<1>4. silent \in 0 .. w.end - w.start /\ Cardinality(V!SilentHours(lastMetric, w)) = silent
  BY <1>1, <1>2, SilenceCounted
<1>5. V!Downtime(events, lastMetric, w) = V!Least(V!Greatest(failed, silent), w.end - w.start)
  BY <1>1, <1>3, <1>4, CappedFits DEF V!Downtime
<1>6. /\ V!Cardinality(V!FailedHours(events, w)) = Cardinality(V!FailedHours(events, w))
      /\ V!Cardinality(V!SilentHours(lastMetric, w)) = Cardinality(V!SilentHours(lastMetric, w))
  BY HourSizes DEF SameSizes
<1> HIDE DEF failed, silent
<1> DEFINE f == Cardinality(V!FailedHours(events, w))
           s == Cardinality(V!SilentHours(lastMetric, w))
           d == V!Downtime(events, lastMetric, w)
<1>7. /\ s <= d /\ d <= w.end - w.start
      /\ ~V!Inverted(events, w) => /\ f <= d
                                   /\ ~V!Overlap(events, w) => d = V!Greatest(f, s)
  <2>1. f \in 0 .. w.end - w.start /\ s \in 0 .. w.end - w.start /\ s = silent
        /\ (~V!Inverted(events, w) => f <= failed /\ (~V!Overlap(events, w) => f = failed))
        /\ d = V!Least(V!Greatest(failed, silent), w.end - w.start)
    BY <1>3, <1>4, <1>5
  <2>2. w.end \in Int /\ w.start \in Int /\ failed \in Int
    BY <1>1, <1>3 DEF IsWindow
  <2> HIDE DEF f, s, d
  <2>3. QED
    BY <2>1, <2>2 DEF V!Least, V!Greatest
<1>8. V!CountsTheHours
  BY <1>6, <1>7 DEF V!CountsTheHours, w
<1>9. V!AnswerIsOfItsInstant
  BY DEF VInv, ComesToBe, AnswerToCome, V!AnswerIsOfItsInstant, V!Answer, V!Asking
<1>10. QED
  BY <1>8, <1>9 DEF VInv, HourTypes, V!AvailabilityInv

(* The downtime of a window is between its silent hours and its length, and that of *)
(* its failed and its silent hours but for events that overlap or were resolved     *)
(* before they occurred; and an answer is that of the instant at which its window   *)
(* ended unless news of the window was stored since: for every length of the window *)
(* and any number of events (AvailabilityService.Calculate).                        *)
THEOREM HoursAreCounted == DesksSpec => []AvailabilityInv
<1>1. DesksInit => VInv
  BY HoursInit DEF DesksInit
<1>2. VInv /\ [DesksNext]_all => VInv'
  <2> SUFFICES ASSUME VInv, [DesksNext]_all PROVE VInv'
    OBVIOUS
  <2>1. V!Next \/ UNCHANGED hourVars
    BY DEF DesksNext, all
  <2>2. CASE UNCHANGED hourVars
    BY <2>2, HourStep
  <2>3. CASE V!Next
    <3>1. CASE V!GetByID \/ V!ReadFailures \/ V!ReadLastMetric \/ V!Fail
      BY <3>1, CalculateStep
    <3>2. CASE V!Post \/ V!CreateOrTouch
      <4>1. 0 .. hour \subseteq V!Time
        BY HourConstants DEF VInv, HourTypes, V!TypeOK, V!Time
      <4>2. QED
        BY <3>2, <4>1, OccurStep DEF V!Post, V!CreateOrTouch
    <3>3. CASE V!Resolve
      BY <3>3, ResolveStep
    <3>4. CASE V!Collect
      BY <3>4, CollectStep
    <3>5. CASE V!Tick
      BY <3>5, HourStep
    <3>6. QED
      BY <2>3, <3>1, <3>2, <3>3, <3>4, <3>5 DEF V!Next
  <2>4. QED
    BY <2>1, <2>2, <2>3
<1>3. VInv => AvailabilityInv
  BY HoursHold DEF AvailabilityInv
<1>4. QED
  BY <1>1, <1>2, <1>3, PTL DEF DesksSpec
=============================================================================
