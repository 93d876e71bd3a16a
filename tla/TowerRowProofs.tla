--------------------------- MODULE TowerRowProofs ---------------------------
(***************************************************************************)
(* Proofs about the three parts that MCTables puts side by side.           *)
(* The row of a tower stays coherent whoever overwrites whom: a writer     *)
(* writes back a whole row that was coherent when it was read, changed by  *)
(* one operation that keeps a row coherent.  The polls of NetEco survive   *)
(* the loss of a session, and the tables of readings hold whole batches    *)
(* and give a client every page of them.                                   *)
(***************************************************************************)
EXTENDS MCTables, SequenceTheorems, FiniteSetTheorems, TLAPS

\* The rows that writers carry are as coherent as the row itself.
CopiesAreCoherent == \A w \in Writers : copy[w] # NoCopy => Coherent(copy[w])

Inductive == TypeOK /\ RowIsCoherent /\ CopiesAreCoherent

-----------------------------------------------------------------------------
(* What the helpers return. *)

\* Every kind of collection is a list of operations.
LEMMA ProgramType == \A job \in Jobs : Program(job) \in Seq(Ops)
<1> SUFFICES ASSUME NEW job \in Jobs
             PROVE  Program(job) \in Seq(Ops)
  OBVIOUS
<1> DEFINE Snmp == {"snmp_online", "snmp_degraded", "snmp_unreachable", "snmp_unmapped"}
           Comap == {"comap_online", "comap_unreachable"}
<1>1. /\ <<"online", "success">> \in Seq(Ops) /\ <<"degraded", "success">> \in Seq(Ops)
      /\ <<"failed", "offline">> \in Seq(Ops) /\ <<"failed">> \in Seq(Ops)
      /\ <<"online">> \in Seq(Ops) /\ <<"offline">> \in Seq(Ops)
  BY DEF Ops, StatusOps
<1>2. CASE job \in Snmp
  BY <1>1, <1>2 DEF Program, Unreachable
<1>3. CASE job \in Comap
  BY <1>1, <1>3 DEF Program
<1>4. CASE job \in NetEcoOps
  <2>1. Program(job) = <<job>>
    BY <1>4 DEF Program, NetEcoOps
  <2>2. job \in Ops
    BY <1>4 DEF Ops
  <2> QED
    BY <2>1, <2>2
<1> QED
  BY <1>2, <1>3, <1>4, CollectionAssumption DEF NetEcoOps

\* What is left to run after an error is a list of operations.
LEMMA AfterErrorType ==
    ASSUME NEW ops \in Seq(Ops), ops # <<>>
    PROVE  AfterError(ops) \in Seq(Ops)
<1>1. Tail(ops) \in Seq(Ops)
  BY HeadTailProperties
<1>2. <<"failed">> \in Seq(Ops) /\ <<>> \in Seq(Ops)
  BY DEF Ops
<1> QED
  BY <1>1, <1>2 DEF AfterError

\* One operation on a coherent row leaves a coherent row.
LEMMA ChangedIsCoherent ==
    ASSUME NEW r \in Row, Coherent(r), NEW op \in Ops, NEW n \in 0..MaxSettings
    PROVE  Changed(op, r, n) \in Row /\ Coherent(Changed(op, r, n))
<1> USE DEF Row, Statuses, CollectionStatuses, Coherent
<1>1. CASE op = "success"
  BY <1>1 DEF Changed, Succeeded
<1>2. CASE op = "failed"
  BY <1>2 DEF Changed, Failed
<1>3. CASE op \in ConfigOps
  BY <1>3 DEF Changed, Configured, ConfigOps
<1>4. CASE op = "neteco_up"
  BY <1>4 DEF Changed, Succeeded, UpStatus
<1>5. CASE op = "neteco_down"
  BY <1>5 DEF Changed, Succeeded
<1>6. CASE op = "neteco_failed"
  BY <1>6 DEF Changed, Failed
<1>7. CASE op \in StatusOps
  BY <1>7 DEF Changed, StatusOps
<1> QED
  BY <1>1, <1>2, <1>3, <1>4, <1>5, <1>6, <1>7 DEF Ops, NetEcoOps

-----------------------------------------------------------------------------
(* The inductive invariant. *)

\* The types, and the coherence of the row and of every copy, hold initially
\* and after every step.
THEOREM Invariance == Spec => []Inductive
<1>1. Init => Inductive
  BY CollectionAssumption
     DEF Init, Inductive, TypeOK, RowIsCoherent, CopiesAreCoherent, Coherent, Row
<1>2. Inductive /\ [Next]_vars => Inductive'
  <2> SUFFICES ASSUME Inductive, [Next]_vars
               PROVE  Inductive'
    OBVIOUS
  <2> USE DEF Inductive, RowIsCoherent, CopiesAreCoherent
  <2>1. CASE DeviceChanges
    BY <2>1 DEF DeviceChanges, TypeOK
  <2>2. ASSUME NEW c \in Collectors, NEW job \in Jobs, Collect(c, job)
        PROVE  Inductive'
    <3>1. Program(job) \in Seq(Ops)
      BY ProgramType
    <3>2. copy[c] = NoCopy
      BY <2>2 DEF Collect, TypeOK, Writers
    <3> QED
      BY <2>2, <3>1, <3>2 DEF Collect, TypeOK, Writers
  <2>3. ASSUME NEW o \in Operators, NEW op \in ConfigOps, Configure(o, op)
        PROVE  Inductive'
    <3>1. <<op>> \in Seq(Ops)
      BY DEF Ops
    <3>2. copy[o] = NoCopy /\ asked + 1 \in 0..MaxSettings
      BY <2>3, CollectionAssumption DEF Configure, TypeOK, Writers
    <3> QED
      BY <2>3, <3>1, <3>2 DEF Configure, TypeOK, Writers
  <2>4. ASSUME NEW w \in Writers, Read(w)
        PROVE  Inductive'
    <3>1. Tail(todo[w]) \in Seq(Ops)
      BY <2>4, HeadTailProperties DEF Read, TypeOK
    <3> QED
      BY <2>4, <3>1 DEF Read, TypeOK
  <2>5. ASSUME NEW w \in Writers, Write(w)
        PROVE  Inductive'
    <3>1. todo[w] \in Seq(Ops) /\ todo[w] # <<>> /\ copy[w] \in Row
      BY <2>5 DEF Write, TypeOK
    <3>2. Tail(todo[w]) \in Seq(Ops) /\ Head(todo[w]) \in Ops
      BY <3>1, HeadTailProperties
    <3>3. row' \in Row /\ Coherent(row')
      BY <2>5, <3>1, <3>2, ChangedIsCoherent DEF Write, TypeOK
    <3> QED
      BY <2>5, <3>2, <3>3 DEF Write, TypeOK
  <2>6. ASSUME NEW w \in Writers, StatementFails(w)
        PROVE  Inductive'
    <3>1. AfterError(todo[w]) \in Seq(Ops)
      BY <2>6, AfterErrorType DEF StatementFails, TypeOK
    <3> QED
      BY <2>6, <3>1 DEF StatementFails, TypeOK
  <2>7. ASSUME NEW w \in Writers, Stop(w)
        PROVE  Inductive'
    <3>1. <<>> \in Seq(Ops)
      OBVIOUS
    <3> QED
      BY <2>7, <3>1 DEF Stop, TypeOK
  <2>8. CASE UNCHANGED vars
    BY <2>8 DEF vars, TypeOK
  <2> QED
    BY <2>1, <2>2, <2>3, <2>4, <2>5, <2>6, <2>7, <2>8 DEF Next
<1> QED
  BY <1>1, <1>2, PTL DEF Spec

\* Every variable keeps its type, and a writer that holds a copy has an
\* operation to run on it.
THEOREM TypeCorrect == Spec => []TypeOK
<1>1. Inductive => TypeOK
  BY DEF Inductive
<1> QED
  BY Invariance, <1>1, PTL

\* Whoever overwrites whom, and whichever statements fail, the row tells one
\* story about the collection of its tower.
THEOREM RowStaysCoherent == Spec => []RowIsCoherent
<1>1. Inductive => RowIsCoherent
  BY DEF Inductive
<1> QED
  BY Invariance, <1>1, PTL

-----------------------------------------------------------------------------
(* The polls of NetEco.  A poll p of a client whose session is worth s,     *)
(* while the site has version v.                                            *)
Fetches == {"battery", "energy"}
Steps == {"start", "idle", "enter", "first", "again", "second", "write", "record"}
PollRecord == [step : Steps, fetch : Fetches, copy : N!Rows \cup {None},
               got : SUBSET Fetches, failed : SUBSET Fetches, connect : Texts \cup {None},
               from : Nat, lost : Nat, trouble : BOOLEAN, excused : SUBSET Fetches]

(* How many sessions the fetch under way has lost, unless NetEco failed it. *)
LossIsCounted(p, s) ==
    \/ p.trouble
    \/ /\ p.step = "enter" => p.lost = 0
       /\ p.step = "first" => p.lost = IF s = "live" THEN 0 ELSE 1
       /\ p.step = "again" => p.lost = 1
       /\ p.step = "second" => p.lost = IF s = "live" THEN 1 ELSE 2

(* What is fetched is not older than the poll, unless its fetch failed. *)
IsFresh(p, x, fetch) == x = None \/ x >= p.from \/ fetch \in p.failed

Sound(p, s, v) ==
    /\ p \in PollRecord
    /\ p.failed \subseteq p.excused
    /\ LossIsCounted(p, s)
    /\ p.step \notin {"start", "idle"} =>
          /\ p.copy \in N!Rows
          /\ p.from <= v
          /\ p.fetch = "energy" => IsFresh(p, p.copy.soc, "battery")
    /\ p.step \in {"write", "record"} =>
          p.fetch = "energy" /\ IsFresh(p, p.copy.volts, "energy")

SessionShapes ==
    /\ up \in BOOLEAN /\ exclusive \in BOOLEAN
    /\ site \in [version : 0 .. MaxChanges, connect : Texts, dc : SUBSET N!DcDevices,
                 lacks : {{}, {"data"}, {"batGroupSohDataList"}, {"siteCounterInfo"}}]
    /\ session \in [Clients -> {"none", "live", "dead"}]
    /\ loggedIn \in [Clients -> BOOLEAN]
    /\ energy \in N!Rows
    /\ losses \in 0 .. MaxFaults
    /\ DOMAIN loop = Clients /\ loop = [c \in Clients |-> loop[c]]
    /\ \A c \in Clients : loggedIn[c] => session[c] # "none"

NInv ==
    /\ SessionShapes
    /\ processes \subseteq Clients
    /\ \A c \in Clients : Sound(loop[c], session[c], site.version)

-----------------------------------------------------------------------------
LEMMA ReadingsOfNetEco ==
    /\ MaxChanges \in Nat /\ MaxFaults \in Nat /\ None \notin Nat
    /\ N!Readings \subseteq Nat \cup {None} /\ None \in N!Readings
BY NetEcoParameters DEF N!Parameters, N!Readings

(* What each change of a poll leaves alone. *)
Keeps(q, p) == q.from = p.from /\ q.failed = p.failed /\ q.excused = p.excused

LEMMA StepChanges ==
    ASSUME NEW p \in PollRecord, NEW w \in Steps
    PROVE  LET q == [p EXCEPT !.step = w]
           IN  /\ q \in PollRecord /\ Keeps(q, p) /\ q.step = w /\ q.copy = p.copy
               /\ q.fetch = p.fetch /\ q.lost = p.lost /\ q.trouble = p.trouble
BY DEF PollRecord, Keeps

LEMMA LostChanges ==
    ASSUME NEW p \in PollRecord, NEW n \in Nat
    PROVE  LET q == [p EXCEPT !.lost = n]
           IN  /\ q \in PollRecord /\ Keeps(q, p) /\ q.step = p.step /\ q.copy = p.copy
               /\ q.fetch = p.fetch /\ q.lost = n /\ q.trouble = p.trouble
BY DEF PollRecord, Keeps

LEMMA TroubleChanges ==
    ASSUME NEW p \in PollRecord
    PROVE  LET q == N!Troubled(p)
           IN  /\ q \in PollRecord /\ Keeps(q, p) /\ q.step = p.step /\ q.copy = p.copy
               /\ q.fetch = p.fetch /\ q.lost = p.lost /\ q.trouble = TRUE
BY DEF PollRecord, Keeps, N!Troubled

LEMMA FetchChanges ==
    ASSUME NEW p \in PollRecord
    PROVE  LET q == N!AfterFetch(p)
           IN  /\ q \in PollRecord /\ Keeps(q, p) /\ q.copy = p.copy
               /\ q.fetch = "energy" /\ q.lost = 0
               /\ q.step = IF p.fetch = "battery" THEN "enter" ELSE "write"
BY DEF PollRecord, Keeps, N!AfterFetch, Steps, Fetches

LEMMA FailureChanges ==
    ASSUME NEW p \in PollRecord, p.trouble \/ p.lost = 2
    PROVE  LET q == N!Failed(p)
           IN  /\ q \in PollRecord /\ q.copy = p.copy /\ q.from = p.from
               /\ q.failed = p.failed \cup {p.fetch} /\ q.excused = p.excused \cup {p.fetch}
               /\ q.fetch = "energy" /\ q.lost = 0
               /\ q.step = IF p.fetch = "battery" THEN "enter" ELSE "write"
<1> DEFINE r == [p EXCEPT !.failed = @ \cup {p.fetch}, !.excused = @ \cup {p.fetch}]
<1>1. /\ r \in PollRecord /\ r.copy = p.copy /\ r.from = p.from /\ r.fetch = p.fetch
      /\ r.failed = p.failed \cup {p.fetch} /\ r.excused = p.excused \cup {p.fetch}
  BY DEF PollRecord, Steps, Fetches
<1>2. N!Failed(p) = N!AfterFetch(r)
  BY DEF N!Failed
<1> HIDE DEF r
<1>3. QED
  BY <1>1, <1>2, FetchChanges DEF Keeps

LEMMA RowChanges ==
    ASSUME NEW r \in N!Rows, NEW x \in N!Readings
    PROVE  /\ [r EXCEPT !.soc = x] \in N!Rows /\ [r EXCEPT !.soc = x].soc = x
           /\ [r EXCEPT !.volts = x] \in N!Rows /\ [r EXCEPT !.volts = x].volts = x
           /\ [r EXCEPT !.volts = x].soc = r.soc
BY DEF N!Rows

LEMMA BatteryChanges ==
    ASSUME NEW p \in PollRecord, p.copy \in N!Rows,
           NEW b, b.soc \in N!Readings, b.connect \in Texts
    PROVE  LET q == N!applyBatteryStatus(p, b)
           IN  /\ q \in PollRecord /\ Keeps(q, p) /\ q.fetch = p.fetch
               /\ q.copy = [p.copy EXCEPT !.soc = b.soc]
<1> DEFINE x == [p.copy EXCEPT !.soc = b.soc]
           r == [p EXCEPT !.copy = x, !.connect = b.connect, !.got = @ \cup {"battery"}]
<1>1. x \in N!Rows
  BY RowChanges
<1>2. N!applyBatteryStatus(p, b) = r
  BY DEF N!applyBatteryStatus, PollRecord
<1> HIDE DEF x
<1>3. r \in PollRecord /\ Keeps(r, p) /\ r.fetch = p.fetch /\ r.copy = x
  BY <1>1 DEF PollRecord, Keeps, Fetches
<1>4. QED
  BY <1>2, <1>3 DEF x

LEMMA EnergyChanges ==
    ASSUME NEW p \in PollRecord, p.copy \in N!Rows, NEW w \in N!Readings
    PROVE  LET q == N!applyEnergyStatus(p, w)
           IN  /\ q \in PollRecord /\ Keeps(q, p) /\ q.fetch = p.fetch
               /\ q.copy = [p.copy EXCEPT !.volts = w]
<1> DEFINE x == [p.copy EXCEPT !.volts = w]
           r == [p EXCEPT !.copy = x, !.got = @ \cup {"energy"}]
<1>1. x \in N!Rows
  BY RowChanges
<1>2. N!applyEnergyStatus(p, w) = r
  BY DEF N!applyEnergyStatus, PollRecord
<1> HIDE DEF x
<1>3. r \in PollRecord /\ Keeps(r, p) /\ r.fetch = p.fetch /\ r.copy = x
  BY <1>1 DEF PollRecord, Keeps, Fetches
<1>4. QED
  BY <1>2, <1>3 DEF x

-----------------------------------------------------------------------------
LEMMA IdleSound ==
    ASSUME NEW s, NEW v, NEW w \in {"start", "idle"}
    PROVE  Sound(N!Idle(w), s, v)
BY DEF Sound, N!Idle, PollRecord, Steps, Fetches, LossIsCounted

(* A fetch that fails with an excuse. *)
LEMMA FailedSound ==
    ASSUME NEW p, NEW s, NEW t, NEW v, Sound(p, s, v),
           p.step \in {"enter", "first", "again", "second"}, p.trouble \/ p.lost = 2
    PROVE  Sound(N!Failed(p), t, v)
<1>1. p \in PollRecord
  BY DEF Sound
<1> DEFINE q == N!Failed(p)
<1>2. /\ q \in PollRecord /\ q.copy = p.copy /\ q.from = p.from
      /\ q.failed = p.failed \cup {p.fetch} /\ q.excused = p.excused \cup {p.fetch}
      /\ q.fetch = "energy" /\ q.lost = 0
      /\ q.step = IF p.fetch = "battery" THEN "enter" ELSE "write"
  BY <1>1, FailureChanges
<1> HIDE DEF q
<1>3. p.fetch \in {"battery", "energy"}
  BY <1>1 DEF PollRecord, Fetches
<1>4. LossIsCounted(q, t)
  BY <1>2 DEF LossIsCounted
<1>5. IsFresh(q, q.copy.soc, "battery")
  BY <1>2, <1>3 DEF Sound, IsFresh
<1>6. q.step = "write" => IsFresh(q, q.copy.volts, "energy")
  BY <1>2, <1>3 DEF IsFresh
<1>7. q.failed \subseteq q.excused
  BY <1>2 DEF Sound
<1>8. QED
  BY <1>2, <1>4, <1>5, <1>6, <1>7 DEF Sound, q

(* A fetch in which NetEco failed. *)
LEMMA TroubledSound ==
    ASSUME NEW p, NEW s, NEW t, NEW v, Sound(p, s, v),
           p.step \in {"enter", "first", "again", "second"},
           NEW w \in {"enter", "first", "again", "second"}
    PROVE  /\ Sound(N!Troubled(p), t, v)
           /\ N!Troubled(p).step = p.step /\ N!Troubled(p).trouble
           /\ Sound(N!Troubled([p EXCEPT !.step = w]), t, v)
<1>1. p \in PollRecord /\ w \in Steps
  BY DEF Sound, Steps
<1> DEFINE q == N!Troubled(p)
           r == [p EXCEPT !.step = w]
           u == N!Troubled(r)
<1>2. /\ q \in PollRecord /\ Keeps(q, p) /\ q.step = p.step /\ q.copy = p.copy
      /\ q.fetch = p.fetch /\ q.trouble = TRUE
  BY <1>1, TroubleChanges
<1>3. /\ r \in PollRecord /\ Keeps(r, p) /\ r.step = w /\ r.copy = p.copy
      /\ r.fetch = p.fetch
  BY <1>1, StepChanges
<1> HIDE DEF r
<1>4. /\ u \in PollRecord /\ Keeps(u, r) /\ u.step = r.step /\ u.copy = r.copy
      /\ u.fetch = r.fetch /\ u.trouble = TRUE
  BY <1>3, TroubleChanges
<1> HIDE DEF q, u
<1>5. Sound(q, t, v)
  BY <1>2 DEF Sound, LossIsCounted, IsFresh, Keeps
<1>6. Sound(u, t, v)
  BY <1>3, <1>4 DEF Sound, LossIsCounted, IsFresh, Keeps
<1>7. QED
  BY <1>2, <1>5, <1>6 DEF q, r, u

(* A poll whose session changes hands or is lost. *)
LEMMA LossSound ==
    ASSUME NInv, NEW d \in Clients, NEW cs \in SUBSET Clients
    PROVE  /\ Sound(N!Loss(loop, d, cs), N!Ended(cs)[d], site.version)
           /\ N!Ended(cs) \in [Clients -> {"none", "live", "dead"}]
           /\ N!Ended(cs)[d] = "none" => session[d] = "none"
<1> DEFINE p == loop[d]
<1>1. Sound(p, session[d], site.version) /\ p \in PollRecord
  BY DEF NInv, Sound
<1>2. N!Ended(cs)[d] = IF d \in cs /\ session[d] = "live" THEN "dead" ELSE session[d]
  BY DEF N!Ended
<1>3. N!Ended(cs) \in [Clients -> {"none", "live", "dead"}]
  BY DEF N!Ended, NInv, SessionShapes
<1>4. CASE d \in cs /\ session[d] = "live" /\ p.step \in {"first", "second"}
  <2>1. p.lost \in Nat
    BY <1>1 DEF PollRecord
  <2> DEFINE q == [p EXCEPT !.lost = p.lost + 1]
  <2>2. N!Loss(loop, d, cs) = q
    BY <1>4 DEF N!Loss
  <2>3. /\ q \in PollRecord /\ Keeps(q, p) /\ q.step = p.step /\ q.copy = p.copy
        /\ q.fetch = p.fetch /\ q.lost = p.lost + 1 /\ q.trouble = p.trouble
    BY <1>1, <2>1, LostChanges
  <2> HIDE DEF q
  <2>4. LossIsCounted(q, "dead")
    BY <1>1, <1>4, <2>1, <2>3 DEF Sound, LossIsCounted
  <2>5. Sound(q, "dead", site.version)
    BY <1>1, <2>3, <2>4 DEF Sound, IsFresh, Keeps
  <2>6. QED
    BY <1>2, <1>3, <1>4, <2>2, <2>5
<1>5. CASE ~(d \in cs /\ session[d] = "live" /\ p.step \in {"first", "second"})
  <2>1. N!Loss(loop, d, cs) = p
    BY <1>5 DEF N!Loss
  <2>2. LossIsCounted(p, N!Ended(cs)[d])
    BY <1>1, <1>2, <1>5 DEF Sound, LossIsCounted
  <2>3. QED
    BY <1>1, <1>2, <1>3, <2>1, <2>2 DEF Sound
<1>6. QED
  BY <1>4, <1>5

(* A fetch that is answered. *)
LEMMA AnswerSound ==
    ASSUME NInv, NEW c \in Clients, loop[c].step \in {"first", "second"},
           NEW q \in N!Answers(loop[c]), NEW t
    PROVE  Sound(q, t, site.version)
<1> DEFINE p == loop[c]
           v == site.version
<1>1. Sound(p, session[c], v) /\ p \in PollRecord /\ v \in Nat /\ v \in N!Readings
  BY ReadingsOfNetEco DEF NInv, Sound, SessionShapes, N!Readings
<1>2. p.copy \in N!Rows /\ p.from \in Nat /\ p.from <= v /\ p.failed \subseteq p.excused
  BY <1>1 DEF Sound, PollRecord
<1>3. Sound(N!Failed(N!Troubled(p)), t, v)
  <2>1. Sound(N!Troubled(p), t, v) /\ N!Troubled(p).step = p.step /\ N!Troubled(p).trouble
    BY <1>1, TroubledSound
  <2>2. QED
    BY <2>1, FailedSound
<1>4. CASE p.fetch = "battery" /\ q = N!AfterFetch(N!applyBatteryStatus(p, N!mapBatteryStatus))
  <2> DEFINE b == N!mapBatteryStatus
             r == N!applyBatteryStatus(p, b)
             copied == [p.copy EXCEPT !.soc = b.soc]
  <2>1. b.soc \in {None, v} /\ b.soc \in N!Readings /\ b.connect \in Texts
    BY <1>1, ReadingsOfNetEco DEF N!mapBatteryStatus, NInv, SessionShapes
  <2> HIDE DEF b
  <2>2. r \in PollRecord /\ Keeps(r, p) /\ r.fetch = p.fetch /\ r.copy = copied
    BY <1>1, <1>2, <2>1, BatteryChanges
  <2>3. copied \in N!Rows /\ copied.soc = b.soc
    BY <1>2, <2>1, RowChanges
  <2> HIDE DEF r, copied
  <2>4. /\ q \in PollRecord /\ Keeps(q, r) /\ q.copy = r.copy
        /\ q.fetch = "energy" /\ q.lost = 0 /\ q.step = "enter"
    BY <1>4, <2>2, FetchChanges DEF r, b
  <2>5. QED
    BY <1>2, <2>1, <2>2, <2>3, <2>4 DEF Sound, LossIsCounted, IsFresh, Keeps
<1>5. CASE p.fetch = "energy" /\ \E x \in N!mapSiteCounterInfo :
               q = N!AfterFetch(N!applyEnergyStatus(p, x))
  <2>1. PICK x \in {None, v} : q = N!AfterFetch(N!applyEnergyStatus(p, x))
    BY <1>5 DEF N!mapSiteCounterInfo, N!Voltage
  <2>2. x \in N!Readings
    BY <1>1, <2>1, ReadingsOfNetEco
  <2> DEFINE r == N!applyEnergyStatus(p, x)
             copied == [p.copy EXCEPT !.volts = x]
  <2>3. r \in PollRecord /\ Keeps(r, p) /\ r.fetch = p.fetch /\ r.copy = copied
    BY <1>1, <1>2, <2>2, EnergyChanges
  <2>4. copied \in N!Rows /\ copied.volts = x /\ copied.soc = p.copy.soc
    BY <1>2, <2>2, RowChanges
  <2> HIDE DEF r, copied
  <2>5. /\ q \in PollRecord /\ Keeps(q, r) /\ q.copy = r.copy
        /\ q.fetch = "energy" /\ q.lost = 0 /\ q.step = "write"
    BY <1>5, <2>1, <2>3, FetchChanges DEF r
  <2>6. IsFresh(p, p.copy.soc, "battery")
    BY <1>1, <1>5 DEF Sound
  <2>7. QED
    BY <1>2, <2>1, <2>3, <2>4, <2>5, <2>6 DEF Sound, LossIsCounted, IsFresh, Keeps
<1>6. QED
  <2>1. p.fetch \in {"battery", "energy"}
    BY <1>1 DEF PollRecord, Fetches
  <2>2. QED
    BY <1>3, <1>4, <1>5, <2>1 DEF N!Answers

-----------------------------------------------------------------------------
(* The steps of NetEco and of its clients keep NInv. *)
LEMMA SiteFields ==
    ASSUME NEW A, NEW B, NEW C, NEW D,
           NEW s \in [version : A, connect : B, dc : C, lacks : D], NEW n \in A, NEW t \in B
    PROVE  LET q == [s EXCEPT !.version = n, !.connect = t]
           IN  q \in [version : A, connect : B, dc : C, lacks : D] /\ q.version = n
OBVIOUS

LEMMA NInvAtFirst == N!Init => NInv
<1> SUFFICES ASSUME N!Init
             PROVE  NInv
  OBVIOUS
<1>1. site.version = 0 /\ site \in N!Sites
  BY DEF N!Init, N!Sites
<1>2. site \in [version : 0 .. MaxChanges, connect : Texts, dc : SUBSET N!DcDevices,
                lacks : {{}, {"data"}, {"batGroupSohDataList"}, {"siteCounterInfo"}}]
  BY <1>1, ReadingsOfNetEco DEF N!Sites
<1>3. energy \in N!Rows
  BY ReadingsOfNetEco DEF N!Init, N!Rows
<1>4. \A c \in Clients : Sound(loop[c], session[c], site.version)
  BY IdleSound DEF N!Init
<1>5. QED
  BY <1>2, <1>3, <1>4, ReadingsOfNetEco DEF N!Init, NInv, SessionShapes

(* One client's poll is replaced by a sound one. *)
LEMMA PollReplaced ==
    ASSUME NInv, NEW c \in Clients, NEW p, Sound(p, session'[c], site.version),
           loop' = [loop EXCEPT ![c] = p], \A d \in Clients \ {c} : session'[d] = session[d],
           session' \in [Clients -> {"none", "live", "dead"}],
           loggedIn' \in [Clients -> BOOLEAN],
           \A d \in Clients \ {c} : loggedIn'[d] = loggedIn[d],
           loggedIn'[c] => session'[c] # "none",
           UNCHANGED <<processes, up, exclusive, site>>,
           energy' \in N!Rows, losses' \in 0 .. MaxFaults
    PROVE  NInv'
<1>1. DOMAIN loop' = Clients /\ loop' = [d \in Clients |-> loop'[d]]
  BY DEF NInv, SessionShapes
<1>2. \A d \in Clients : Sound(loop'[d], session'[d], site.version)
  BY DEF NInv, SessionShapes
<1>3. \A d \in Clients : loggedIn'[d] => session'[d] # "none"
  BY DEF NInv, SessionShapes
<1>4. QED
  BY <1>1, <1>2, <1>3 DEF NInv, SessionShapes

LEMMA FaultsCounted ==
    ASSUME NInv, N!Fault \/ N!NoFault
    PROVE  losses' \in 0 .. MaxFaults
BY ReadingsOfNetEco DEF NInv, SessionShapes, N!Fault, N!NoFault

(* What the client does that is granted a session, besides going on with p. *)
LEMMA GrantedKeepsNInv ==
    ASSUME NInv, NEW c \in Clients, NEW p, Sound(p, "live", site.version),
           N!Granted(c, p), UNCHANGED <<N!net, energy>>
    PROVE  NInv'
<1> DEFINE others == N!Others(c)
<1>1. others \in SUBSET Clients /\ c \notin others
  BY DEF N!Others
<1> HIDE DEF others
<1>2. /\ session' = [N!Ended(others) EXCEPT ![c] = "live"]
      /\ loggedIn' = [loggedIn EXCEPT ![c] = TRUE]
      /\ loop' = [d \in Clients |-> IF d = c THEN p ELSE N!Loss(loop, d, others)]
      /\ losses' = losses
  BY DEF N!Granted, N!NoFault, others
<1>3. \A d \in Clients :
        /\ Sound(N!Loss(loop, d, others), N!Ended(others)[d], site.version)
        /\ N!Ended(others) \in [Clients -> {"none", "live", "dead"}]
        /\ N!Ended(others)[d] = "none" => session[d] = "none"
  BY <1>1, LossSound
<1>4. session' \in [Clients -> {"none", "live", "dead"}]
  BY <1>2, <1>3
<1>5. loggedIn' \in [Clients -> BOOLEAN]
  BY <1>2 DEF NInv, SessionShapes
<1>6. \A d \in Clients : loggedIn'[d] => session'[d] # "none"
  BY <1>2, <1>3 DEF NInv, SessionShapes
<1>7. \A d \in Clients : Sound(loop'[d], session'[d], site.version)
  BY <1>2, <1>3
<1>8. DOMAIN loop' = Clients /\ loop' = [d \in Clients |-> loop'[d]]
  BY <1>2
<1>9. UNCHANGED <<processes, up, exclusive, site, energy>>
  BY DEF N!net
<1>10. QED
  BY <1>2, <1>4, <1>5, <1>6, <1>7, <1>8, <1>9 DEF NInv, SessionShapes

LEMMA UnreachableKeepsNInv ==
    ASSUME NInv, NEW c \in Clients, NEW p, Sound(p, session[c], site.version),
           N!Unreachable(c, p), UNCHANGED <<N!net, energy>>
    PROVE  NInv'
<1>1. /\ loggedIn' = [loggedIn EXCEPT ![c] = FALSE] /\ loop' = [loop EXCEPT ![c] = p]
      /\ session' = session /\ losses' = losses
      /\ UNCHANGED <<processes, up, exclusive, site, energy>>
  BY DEF N!Unreachable, N!NoFault, N!net
<1>2. losses' \in 0 .. MaxFaults /\ energy' \in N!Rows
      /\ session' \in [Clients -> {"none", "live", "dead"}]
  BY <1>1 DEF NInv, SessionShapes
<1>3. loggedIn' \in [Clients -> BOOLEAN] /\ ~loggedIn'[c]
      /\ \A d \in Clients \ {c} : loggedIn'[d] = loggedIn[d]
  BY <1>1 DEF NInv, SessionShapes
<1>4. QED
  BY <1>1, <1>2, <1>3, PollReplaced

LEMMA RefusedKeepsNInv ==
    ASSUME NInv, NEW c \in Clients, NEW p, NEW q, Sound(p, session[c], site.version),
           Sound(q, session[c], site.version),
           N!Refused(c, p, q), UNCHANGED <<N!net, energy>>
    PROVE  NInv'
<1>1. PICK r \in {p, q} : loop' = [loop EXCEPT ![c] = r]
  BY DEF N!Refused
<1>2. /\ loggedIn' = [loggedIn EXCEPT ![c] = session[c] # "none"]
      /\ session' = session /\ N!Fault
      /\ UNCHANGED <<processes, up, exclusive, site, energy>>
  BY DEF N!Refused, N!net
<1>3. energy' \in N!Rows /\ session' \in [Clients -> {"none", "live", "dead"}]
  BY <1>2 DEF NInv, SessionShapes
<1>4. loggedIn' \in [Clients -> BOOLEAN] /\ loggedIn'[c] = (session[c] # "none")
      /\ \A d \in Clients \ {c} : loggedIn'[d] = loggedIn[d]
  BY <1>2 DEF NInv, SessionShapes
<1>5. losses' \in 0 .. MaxFaults
  BY <1>2, FaultsCounted
<1>6. QED
  BY <1>1, <1>2, <1>3, <1>4, <1>5, PollReplaced

(* A login inside doGet, before its first or its second request. *)
LEMMA LoginKeepsNInv ==
    ASSUME NInv, NEW c \in Clients, NEW next,
           \/ loop[c].step = "enter" /\ next = "first"
           \/ loop[c].step = "again" /\ next = "second",
           N!doLogin(c, next), UNCHANGED <<N!net, energy>>
    PROVE  NInv'
<1> DEFINE p == loop[c]
           q == [p EXCEPT !.step = next]
<1>1. Sound(p, session[c], site.version) /\ p \in PollRecord /\ next \in Steps
      /\ p.step \in {"enter", "first", "again", "second"}
      /\ next \in {"enter", "first", "again", "second"}
  BY DEF NInv, Sound, Steps
<1>2. /\ Sound(N!Troubled(p), session[c], site.version)
      /\ N!Troubled(p).step = p.step /\ N!Troubled(p).trouble
      /\ Sound(N!Troubled(q), session[c], site.version)
  BY <1>1, TroubledSound
<1>3. Sound(N!Failed(N!Troubled(p)), session[c], site.version)
  BY <1>1, <1>2, FailedSound
<1>4. Sound(q, "live", site.version)
  <2>1. /\ q \in PollRecord /\ Keeps(q, p) /\ q.step = next /\ q.copy = p.copy
        /\ q.fetch = p.fetch /\ q.lost = p.lost /\ q.trouble = p.trouble
    BY <1>1, StepChanges
  <2> HIDE DEF q
  <2>2. LossIsCounted(q, "live")
    BY <1>1, <2>1 DEF Sound, LossIsCounted
  <2>3. QED
    BY <1>1, <2>1, <2>2 DEF Sound, IsFresh, Keeps
<1>5. CASE N!Granted(c, q)
  BY <1>4, <1>5, GrantedKeepsNInv
<1>6. CASE N!Unreachable(c, N!Failed(N!Troubled(p)))
  BY <1>3, <1>6, UnreachableKeepsNInv
<1>7. CASE N!Refused(c, N!Troubled(q), N!Failed(N!Troubled(p)))
  BY <1>2, <1>3, <1>7, RefusedKeepsNInv
<1>8. QED
  BY <1>5, <1>6, <1>7 DEF N!doLogin

(* A step of a client that only replaces its poll. *)
LEMMA PollMoves ==
    ASSUME NInv, NEW c \in Clients, NEW p, Sound(p, session[c], site.version),
           loop' = [loop EXCEPT ![c] = p],
           UNCHANGED <<N!net, N!client, energy, losses>>
    PROVE  NInv'
<1>1. UNCHANGED <<processes, up, exclusive, site, session, loggedIn, energy, losses>>
  BY DEF N!net, N!client
<1>2. QED
  BY <1>1, PollReplaced DEF NInv, SessionShapes

LEMMA LoopKeepsNInv ==
    ASSUME NInv, NEW c \in Clients, N!Loop(c)
    PROVE  NInv'
<1> DEFINE p == loop[c]
           v == site.version
<1>1. Sound(p, session[c], v) /\ p \in PollRecord /\ v \in Nat
  BY DEF NInv, Sound, SessionShapes
<1>2. CASE N!Login(c)
  <2>1. \A s : Sound(N!Idle("idle"), s, v)
    BY IdleSound
  <2>2. UNCHANGED <<N!net, energy>>
    BY <1>2 DEF N!Login
  <2>3. QED
    BY <1>2, <2>1, <2>2, GrantedKeepsNInv, UnreachableKeepsNInv, RefusedKeepsNInv
    DEF N!Login
<1>3. CASE N!PollEnergyStatus(c)
  <2> DEFINE i == N!Idle("enter")
             q == [i EXCEPT !.copy = energy, !.from = v]
  <2>1. i \in PollRecord /\ i.lost = 0 /\ i.failed = {} /\ i.fetch = "battery"
        /\ i.step = "enter"
    BY DEF N!Idle, PollRecord, Steps, Fetches
  <2>2. energy \in N!Rows
    BY DEF NInv, SessionShapes
  <2> HIDE DEF i
  <2>3. q \in PollRecord /\ q.lost = 0 /\ q.failed = {} /\ q.fetch = "battery"
        /\ q.step = "enter" /\ q.copy = energy /\ q.from = v
    BY <1>1, <2>1, <2>2 DEF PollRecord
  <2>4. loop' = [loop EXCEPT ![c] = q] /\ UNCHANGED <<N!net, N!client, energy, losses>>
    BY <1>3 DEF N!PollEnergyStatus, i
  <2> HIDE DEF q
  <2>5. Sound(q, session[c], v)
    BY <1>1, <2>2, <2>3 DEF Sound, LossIsCounted, IsFresh
  <2>6. QED
    BY <2>4, <2>5, PollMoves
<1>4. CASE N!enter(c)
  <2>1. p.step = "enter" /\ UNCHANGED <<N!net, energy>>
    BY <1>4 DEF N!enter
  <2>2. CASE ~loggedIn[c]
    <3>1. N!doLogin(c, "first")
      BY <1>4, <2>2 DEF N!enter
    <3>2. QED
      BY <2>1, <3>1, LoginKeepsNInv
  <2>3. CASE loggedIn[c]
    <3> DEFINE n == IF session[c] = "live" THEN 0 ELSE 1
               r == [p EXCEPT !.step = "first"]
               q == [r EXCEPT !.lost = n]
    <3>1. loop' = [loop EXCEPT ![c] = q] /\ UNCHANGED <<N!net, N!client, energy, losses>>
      BY <1>4, <2>3 DEF N!enter, N!NoFault
    <3>2. /\ r \in PollRecord /\ Keeps(r, p) /\ r.step = "first" /\ r.copy = p.copy
          /\ r.fetch = p.fetch
      BY <1>1, StepChanges DEF Steps
    <3> HIDE DEF r
    <3>3. /\ q \in PollRecord /\ Keeps(q, r) /\ q.step = r.step /\ q.copy = r.copy
          /\ q.fetch = r.fetch /\ q.lost = n
      BY <3>2, LostChanges
    <3> HIDE DEF q
    <3>4. Sound(q, session[c], v)
      BY <1>1, <2>1, <3>2, <3>3 DEF Sound, LossIsCounted, IsFresh, Keeps
    <3>5. QED
      BY <3>1, <3>4, PollMoves
  <2>4. QED
    BY <2>2, <2>3
<1>5. CASE N!attemptGet(c)
  <2>1. p.step \in {"first", "second"} /\ UNCHANGED <<N!net, N!client, energy, losses>>
    BY <1>5 DEF N!attemptGet
  <2>2. CASE ~up
    <3>1. loop' = [loop EXCEPT ![c] = N!Failed(N!Troubled(p))]
      BY <1>5, <2>2 DEF N!attemptGet
    <3>2. Sound(N!Troubled(p), session[c], v) /\ N!Troubled(p).step = p.step
          /\ N!Troubled(p).trouble
      BY <1>1, <2>1, TroubledSound
    <3>3. Sound(N!Failed(N!Troubled(p)), session[c], v)
      BY <2>1, <3>2, FailedSound
    <3>4. QED
      BY <2>1, <3>1, <3>3, PollMoves
  <2>3. CASE up /\ N!isSessionInvalid(c)
    <3>1. loop' = [loop EXCEPT ![c] = N!Invalid(p)] /\ session[c] # "live"
      BY <1>5, <2>3 DEF N!attemptGet, N!isSessionInvalid
    <3>2. CASE p.step = "first"
      <4> DEFINE q == [p EXCEPT !.step = "again"]
      <4>1. N!Invalid(p) = q
        BY <3>2 DEF N!Invalid
      <4>2. /\ q \in PollRecord /\ Keeps(q, p) /\ q.step = "again" /\ q.copy = p.copy
            /\ q.fetch = p.fetch /\ q.lost = p.lost /\ q.trouble = p.trouble
        BY <1>1, StepChanges DEF Steps
      <4> HIDE DEF q
      <4>3. LossIsCounted(q, session[c])
        BY <1>1, <3>1, <3>2, <4>2 DEF Sound, LossIsCounted
      <4>4. Sound(q, session[c], v)
        BY <1>1, <3>2, <4>2, <4>3 DEF Sound, IsFresh, Keeps
      <4>5. QED
        BY <2>1, <3>1, <4>1, <4>4, PollMoves
    <3>3. CASE p.step = "second"
      <4>1. N!Invalid(p) = N!Failed(p)
        BY <3>3 DEF N!Invalid
      <4>2. p.trouble \/ p.lost = 2
        BY <1>1, <3>1, <3>3 DEF Sound, LossIsCounted
      <4>3. Sound(N!Failed(p), session[c], v)
        BY <1>1, <3>3, <4>2, FailedSound
      <4>4. QED
        BY <2>1, <3>1, <4>1, <4>3, PollMoves
    <3>4. QED
      BY <2>1, <3>2, <3>3
  <2>4. CASE up /\ ~N!isSessionInvalid(c)
    <3>1. PICK q \in N!Answers(p) : loop' = [loop EXCEPT ![c] = q]
      BY <1>5, <2>4 DEF N!attemptGet
    <3>2. Sound(q, session[c], v)
      BY <2>1, AnswerSound
    <3>3. QED
      BY <2>1, <3>1, <3>2, PollMoves
  <2>5. QED
    BY <2>2, <2>3, <2>4
<1>6. CASE N!again(c)
  BY <1>6, LoginKeepsNInv DEF N!again
<1>7. CASE N!Upsert(c)
  <2> DEFINE t == [p.copy EXCEPT !.status = N!Status(p)]
             q == [p EXCEPT !.step = "record", !.copy = t]
  <2>1. p.step = "write" /\ loop' = [loop EXCEPT ![c].step = "record", ![c].copy = t]
        /\ ((energy' = t /\ N!NoFault) \/ (UNCHANGED energy /\ N!Fault))
        /\ UNCHANGED <<N!net, N!client>>
    BY <1>7 DEF N!Upsert
  <2>2. p.copy \in N!Rows
    BY <1>1, <2>1 DEF Sound
  <2>3. t \in N!Rows /\ t.soc = p.copy.soc /\ t.volts = p.copy.volts
    BY <2>2 DEF N!Rows, N!Status
  <2> HIDE DEF t
  <2>4. q \in PollRecord /\ Keeps(q, p) /\ q.step = "record" /\ q.copy = t /\ q.fetch = p.fetch
    BY <1>1, <2>3 DEF PollRecord, Keeps, Steps
  <2>5. loop' = [loop EXCEPT ![c] = q]
    BY <2>1
  <2> HIDE DEF q
  <2>6. Sound(q, session[c], v)
    BY <1>1, <2>1, <2>3, <2>4 DEF Sound, LossIsCounted, IsFresh, Keeps
  <2>7. losses' \in 0 .. MaxFaults
    BY <2>1, FaultsCounted
  <2>8. energy' \in N!Rows
    BY <2>1, <2>3 DEF NInv, SessionShapes
  <2>9. UNCHANGED <<processes, up, exclusive, site, session, loggedIn>>
    BY <2>1 DEF N!net, N!client
  <2>10. QED
    BY <2>5, <2>6, <2>7, <2>8, <2>9, PollReplaced DEF NInv, SessionShapes
<1>8. CASE N!recordMetricSnapshot(c)
  <2>1. Sound(N!Idle("idle"), session[c], v)
    BY IdleSound
  <2>2. QED
    BY <1>8, <2>1, PollMoves DEF N!recordMetricSnapshot
<1>9. QED
  BY <1>2, <1>3, <1>4, <1>5, <1>6, <1>7, <1>8 DEF N!Loop

LEMMA NInvIsKept ==
    ASSUME NInv, N!Next \/ UNCHANGED sessionVars
    PROVE  NInv'
<1>1. CASE UNCHANGED sessionVars
  BY <1>1 DEF sessionVars, NInv, SessionShapes
<1>2. CASE N!SiteChanges
  <2>1. PICK t \in Texts : site' = [site EXCEPT !.version = @ + 1, !.connect = t]
    BY <1>2 DEF N!SiteChanges
  <2>2. site.version \in 0 .. MaxChanges /\ site.version < MaxChanges /\ MaxChanges \in Nat
    BY <1>2, ReadingsOfNetEco DEF N!SiteChanges, NInv, SessionShapes
  <2>3. site.version + 1 \in 0 .. MaxChanges
    BY <2>2
  <2>4. /\ site' \in [version : 0 .. MaxChanges, connect : Texts, dc : SUBSET N!DcDevices,
                   lacks : {{}, {"data"}, {"batGroupSohDataList"}, {"siteCounterInfo"}}]
        /\ site'.version = site.version + 1
    BY <2>1, <2>3, SiteFields DEF NInv, SessionShapes
  <2>5. UNCHANGED <<processes, up, exclusive, session, loggedIn, loop, energy, losses>>
    BY <1>2 DEF N!SiteChanges, N!client
  <2>6. ASSUME NEW c \in Clients
        PROVE  Sound(loop[c], session[c], site'.version)
    <3>1. Sound(loop[c], session[c], site.version) /\ loop[c].from \in Nat
      BY DEF NInv, Sound, PollRecord
    <3>2. QED
      BY <2>2, <2>4, <3>1 DEF Sound
  <2>7. QED
    BY <2>4, <2>5, <2>6 DEF NInv, SessionShapes
<1>3. CASE N!Outage
  <2>1. losses' \in 0 .. MaxFaults
    BY <1>3, FaultsCounted DEF N!Outage
  <2>2. QED
    BY <1>3, <2>1 DEF N!Outage, N!client, NInv, SessionShapes
<1>4. CASE N!Return
  BY <1>4 DEF N!Return, N!client, NInv, SessionShapes
<1>5. ASSUME NEW c \in Clients, N!SessionEnds(c)
      PROVE  NInv'
  <2>1. \A d \in Clients :
          /\ Sound(N!Loss(loop, d, {c}), N!Ended({c})[d], site.version)
          /\ N!Ended({c}) \in [Clients -> {"none", "live", "dead"}]
          /\ N!Ended({c})[d] = "none" => session[d] = "none"
    BY LossSound
  <2>2. /\ session' = N!Ended({c})
        /\ loop' = [d \in Clients |-> N!Loss(loop, d, {c})]
        /\ UNCHANGED <<processes, up, exclusive, site, loggedIn, energy>>
    BY <1>5 DEF N!SessionEnds, N!net
  <2>3. losses' \in 0 .. MaxFaults
    BY <1>5, FaultsCounted DEF N!SessionEnds
  <2>4. DOMAIN loop' = Clients /\ loop' = [d \in Clients |-> loop'[d]]
        /\ \A d \in Clients : Sound(loop'[d], session'[d], site.version)
    BY <2>1, <2>2
  <2>5. session' \in [Clients -> {"none", "live", "dead"}]
        /\ \A d \in Clients : loggedIn'[d] => session'[d] # "none"
    BY <2>1, <2>2 DEF NInv, SessionShapes
  <2>6. QED
    BY <2>2, <2>3, <2>4, <2>5 DEF NInv, SessionShapes
<1>6. ASSUME NEW c \in Clients, N!Restart(c)
      PROVE  NInv'
  <2>1. /\ loop' = [loop EXCEPT ![c] = N!Idle("start")]
        /\ session' = [session EXCEPT ![c] = "none"]
        /\ loggedIn' = [loggedIn EXCEPT ![c] = FALSE]
        /\ UNCHANGED <<processes, up, exclusive, site, energy>>
    BY <1>6 DEF N!Restart, N!net
  <2>2. losses' \in 0 .. MaxFaults
    BY <1>6, FaultsCounted DEF N!Restart
  <2>3. Sound(N!Idle("start"), session'[c], site.version)
    BY IdleSound
  <2>4. /\ session' \in [Clients -> {"none", "live", "dead"}]
        /\ \A d \in Clients \ {c} : session'[d] = session[d]
        /\ loggedIn' \in [Clients -> BOOLEAN] /\ ~loggedIn'[c]
        /\ \A d \in Clients \ {c} : loggedIn'[d] = loggedIn[d]
        /\ energy' \in N!Rows
    BY <2>1 DEF NInv, SessionShapes
  <2>5. QED
    BY <2>1, <2>2, <2>3, <2>4, PollReplaced
<1>7. ASSUME NEW c \in processes, N!Loop(c) \/ N!SessionEnds(c) \/ N!Restart(c)
      PROVE  NInv'
  BY <1>5, <1>6, <1>7, LoopKeepsNInv DEF NInv
<1>8. QED
  BY <1>1, <1>2, <1>3, <1>4, <1>7 DEF N!Next

LEMMA NInvSuffices == NInv => N!SessionInv
<1> SUFFICES ASSUME NInv
             PROVE  N!SessionInv
  OBVIOUS
<1>1. ASSUME NEW c \in Clients
      PROVE  /\ loop[c].step \in Steps
             /\ loop[c].step \notin {"start", "idle"} => loop[c].copy \in N!Rows
             /\ loop[c].failed \subseteq loop[c].excused
  BY DEF NInv, Sound, PollRecord
<1>2. N!TypeOK
  BY <1>1 DEF N!TypeOK, NInv, SessionShapes, Steps
<1>3. N!OneLostSessionIsSurvived
  BY <1>1 DEF N!OneLostSessionIsSurvived
<1>4. N!OldPointHasCause
  BY DEF N!OldPointHasCause, N!Sample, NInv, Sound, IsFresh
<1>5. QED
  BY <1>2, <1>3, <1>4 DEF N!SessionInv

-----------------------------------------------------------------------------
(* The tables of readings. *)
Item == [tag : Tags, measured : R!Instants]
BatchRecord == [kind : R!Kinds, how : {"one", "many", "poll"}, items : Seq(Item \cup {None}),
                done : Nat, answer : {None, "ok", "error", "refused"}, received : 0 .. MaxClock]

(* A batch x as its service lets it pass, at the instant c. *)
BatchSound(x, c) ==
    /\ x \in BatchRecord /\ Len(x.items) <= 2 /\ x.done <= Len(x.items)
    /\ x.answer = None => x.how # "one" /\ x.kind # "radio"
    /\ (x.how = "poll" /\ x.answer \in {None, "ok"}) => x.kind = "backhaul"
    /\ \A i \in DOMAIN x.items : x.items[i] # None =>
          /\ x.kind = "site" => x.items[i].measured <= c + R!Ahead
          /\ (x.kind = "backhaul" /\ x.items[i].measured > x.received + R!Ahead)
                => x.how = "many"

(* What is stored of batch b. *)
StoredSound(b) ==
    /\ sent[b].answer = None => R!StoredOf(b) = {}
    /\ b \notin purged =>
          /\ R!StoredOf(b) \in {{}, R!Present(b)}
          /\ (sent[b].answer = "ok" /\ R!StoredOf(b) # R!Present(b))
                => (sent[b].kind = "backhaul" /\ sent[b].how # "one")

RowsSound ==
    /\ rows \subseteq [batch : DOMAIN sent, item : {1, 2}] /\ IsFiniteSet(rows)
    /\ \A r \in rows : r.item \in R!Present(r.batch)

(* What the statements of a page select, and how many rows of S come before r whatever
   the order of ties. *)
Where(kind, tag) == IF kind = "site" THEN R!SiteWhere ELSE R!BackhaulWhere(tag)
Above(S, r) == {s \in S : R!Reading(s).measured > R!Reading(r).measured}
Rank(S, r) == Cardinality(Above(S, r))

Tied(r, kind) ==
    \E s \in R!Table(kind) \ {r} : R!Reading(s).measured = R!Reading(r).measured

(* A row that the client has not seen is on a page it still asks for, or has a tie. *)
Coming(r) ==
    /\ page.pc \in {"rows", "count"}
    /\ Rank(Where(page.kind, page.tag), r)
          >= IF page.pc = "count" THEN page.offset + PageSize ELSE page.offset

PageShapes ==
    /\ page \in [pc : {"idle", "rows", "count", "done"}, kind : R!Kinds \cup {None},
                 tag : Tags \cup {None}, offset : Nat, had : SUBSET [batch : Nat, item : {1, 2}],
                 seen : SUBSET [batch : Nat, item : {1, 2}], shifted : BOOLEAN]
    /\ page.had \cup page.seen \subseteq [batch : DOMAIN sent, item : {1, 2}]

PageSound ==
    (page.pc # "idle" /\ ~page.shifted) =>
        /\ page.had \subseteq R!Matching(page.kind, page.tag)
        /\ \A r \in page.had \ page.seen : Tied(r, page.kind) \/ Coming(r)

SendingSound ==
    /\ clock \in 0 .. MaxClock
    /\ sent \in Seq(BatchRecord) /\ Len(sent) <= MaxBatches
    /\ \A b \in DOMAIN sent : BatchSound(sent[b], clock) /\ StoredSound(b)
    /\ purged \subseteq DOMAIN sent
    /\ RowsSound

RInv == SendingSound /\ PageShapes /\ PageSound

-----------------------------------------------------------------------------
LEMMA ReadingsOfTower ==
    /\ If0 \in Tags
    /\ MaxClock \in Nat /\ MaxBatches \in Nat /\ PageSize \in Nat /\ StatusRows \in Nat
    /\ None \notin Nat \cup Tags \cup {"ok", "error", "refused"}
    /\ None \notin [tag : Tags, measured : Nat]
    /\ None \notin [tag : Tags, measured : Nat \cup {None}, complete : BOOLEAN]
    /\ R!Ahead = 1 /\ R!Instants = 0 .. MaxClock + 2 /\ R!Instants \subseteq Nat
BY ReadingParameters DEF R!Parameters, R!Ahead, R!Instants

LEMMA SentBatches ==
    ASSUME SendingSound
    PROVE  /\ Len(sent) \in Nat /\ DOMAIN sent = 1 .. Len(sent)
           /\ \A b \in DOMAIN sent :
                 /\ sent[b] \in BatchRecord /\ sent[b].items \in Seq(Item \cup {None})
                 /\ DOMAIN sent[b].items = 1 .. Len(sent[b].items)
                 /\ Len(sent[b].items) \in Nat
                 /\ DOMAIN sent[b].items \subseteq {1, 2}
                 /\ \A i \in DOMAIN sent[b].items : sent[b].items[i] \in Item \cup {None}
<1>1. Len(sent) \in Nat /\ DOMAIN sent = 1 .. Len(sent)
  BY LenProperties DEF SendingSound
<1>2. ASSUME NEW b \in DOMAIN sent
      PROVE  /\ sent[b] \in BatchRecord /\ sent[b].items \in Seq(Item \cup {None})
             /\ DOMAIN sent[b].items = 1 .. Len(sent[b].items)
             /\ Len(sent[b].items) \in Nat
             /\ DOMAIN sent[b].items \subseteq {1, 2}
             /\ \A i \in DOMAIN sent[b].items : sent[b].items[i] \in Item \cup {None}
  <2>1. sent[b] \in BatchRecord /\ Len(sent[b].items) <= 2
    BY DEF SendingSound, BatchSound
  <2>2. sent[b].items \in Seq(Item \cup {None})
    BY <2>1 DEF BatchRecord
  <2>3. /\ DOMAIN sent[b].items = 1 .. Len(sent[b].items) /\ Len(sent[b].items) \in Nat
        /\ sent[b].items \in [1 .. Len(sent[b].items) -> Item \cup {None}]
    BY <2>2, LenProperties
  <2>4. QED
    BY <2>1, <2>2, <2>3
<1>3. QED
  BY <1>1, <1>2

(* What a row says. *)
LEMMA RowReadings ==
    ASSUME SendingSound, NEW r \in rows
    PROVE  /\ r.batch \in DOMAIN sent /\ r.item \in {1, 2}
           /\ r.item \in DOMAIN sent[r.batch].items
           /\ R!Reading(r) \in Item /\ R!Reading(r) = sent[r.batch].items[r.item]
           /\ R!Reading(r).measured \in Nat /\ R!Reading(r).tag \in Tags
           /\ R!Reading(r) # None
           /\ R!Kind(r) \in R!Kinds
<1>1. r.batch \in DOMAIN sent /\ r.item \in {1, 2} /\ r.item \in R!Present(r.batch)
  BY DEF SendingSound, RowsSound
<1>2. /\ r.item \in DOMAIN sent[r.batch].items
      /\ sent[r.batch].items[r.item] # None
      /\ sent[r.batch].items[r.item] \in Item
  BY <1>1, SentBatches DEF R!Present
<1>3. R!Reading(r) = sent[r.batch].items[r.item]
  BY DEF R!Reading
<1>4. \A x \in Item : x.measured \in Nat /\ x.tag \in Tags
  BY ReadingsOfTower DEF Item
<1>5. R!Kind(r) \in R!Kinds
  BY <1>1, SentBatches DEF R!Kind, BatchRecord
<1>6. QED
  BY <1>1, <1>2, <1>3, <1>4, <1>5

LEMMA TablesAreFinite ==
    ASSUME SendingSound, NEW S \in SUBSET rows, NEW r
    PROVE  /\ IsFiniteSet(S) /\ Cardinality(S) \in Nat
           /\ Above(S, r) \subseteq S /\ IsFiniteSet(Above(S, r)) /\ Rank(S, r) \in Nat
<1>1. IsFiniteSet(S)
  BY FS_Subset DEF SendingSound, RowsSound
<1>2. Above(S, r) \in SUBSET S
  BY DEF Above
<1>3. IsFiniteSet(Above(S, r))
  BY <1>1, <1>2, FS_Subset
<1>4. QED
  BY <1>1, <1>2, <1>3, FS_CardinalityType DEF Rank

(* Readings counts as its proofs do. *)
LEMMA SameCardinality == \A S : R!Cardinality(S) = Cardinality(S)
BY DEF R!Cardinality, Cardinality

(* The newest n of a set. *)
LEMMA NewestFacts ==
    ASSUME NEW S, IsFiniteSet(S), NEW n \in Nat, NEW T \in R!Newest(S, n)
    PROVE  /\ T \subseteq S /\ IsFiniteSet(T)
           /\ Cardinality(T) \in Nat /\ Cardinality(T) <= n
           /\ S \ T # {} => Cardinality(T) = n
           /\ \A r \in T, s \in S \ T : R!Reading(r).measured >= R!Reading(s).measured
<1>1. /\ T \in SUBSET S
      /\ Cardinality(T) = (IF Cardinality(S) < n THEN Cardinality(S) ELSE n)
      /\ \A r \in T, s \in S \ T : R!Reading(r).measured >= R!Reading(s).measured
  BY SameCardinality DEF R!Newest
<1>2. IsFiniteSet(T) /\ (Cardinality(S) = Cardinality(T) => S = T)
  BY <1>1, FS_Subset
<1>3. Cardinality(S) \in Nat /\ Cardinality(T) \in Nat
  BY <1>2, FS_CardinalityType
<1>4. QED
  BY <1>1, <1>2, <1>3

(* A row without a tie that o others precede is not among the first o, and if it is not
   on the page that follows them then a page more precedes it. *)
LEMMA PageReaches ==
    ASSUME NEW W, IsFiniteSet(W), \A s \in W : R!Reading(s).measured \in Nat,
           NEW o \in Nat, NEW before \in R!Newest(W, o),
           NEW now \in R!Newest(W \ before, PageSize),
           NEW r \in W, r \notin now, Rank(W, r) >= o,
           \A s \in W \ {r} : R!Reading(s).measured # R!Reading(r).measured
    PROVE  Rank(W, r) >= o + PageSize
<1>1. /\ before \subseteq W /\ IsFiniteSet(before)
      /\ Cardinality(before) \in Nat /\ Cardinality(before) <= o
      /\ W \ before # {} => Cardinality(before) = o
      /\ \A t \in before, s \in W \ before : R!Reading(t).measured >= R!Reading(s).measured
  BY NewestFacts
<1>2. Above(W, r) \in SUBSET W /\ IsFiniteSet(Above(W, r)) /\ Cardinality(Above(W, r)) \in Nat
  BY FS_Subset, FS_CardinalityType DEF Above
<1>3. r \notin before
  <2> SUFFICES ASSUME r \in before
               PROVE  FALSE
    OBVIOUS
  <2>1. Above(W, r) \in SUBSET (before \ {r})
    BY <1>1 DEF Above
  <2>2. IsFiniteSet(before \ {r}) /\ Cardinality(before \ {r}) = Cardinality(before) - 1
    BY <1>1, FS_RemoveElement
  <2>3. Cardinality(Above(W, r)) <= Cardinality(before) - 1
    BY <2>1, <2>2, FS_Subset
  <2>4. QED
    BY <1>1, <1>2, <2>3 DEF Rank
<1>4. IsFiniteSet(W \ before)
  BY FS_Difference
<1>5. /\ now \subseteq W \ before /\ IsFiniteSet(now)
      /\ (W \ before) \ now # {} => Cardinality(now) = PageSize
      /\ \A t \in now, s \in (W \ before) \ now :
            R!Reading(t).measured >= R!Reading(s).measured
  BY <1>4, NewestFacts, ReadingsOfTower
<1>6. Cardinality(before) = o /\ Cardinality(now) = PageSize
  BY <1>1, <1>3, <1>5
<1>7. before \cup now \in SUBSET Above(W, r)
  <2>1. ASSUME NEW t \in before \cup now
        PROVE  t \in Above(W, r)
    <3>1. t \in W /\ t # r /\ R!Reading(t).measured >= R!Reading(r).measured
      BY <1>1, <1>3, <1>5
    <3>2. R!Reading(t).measured # R!Reading(r).measured
      BY <3>1
    <3>3. QED
      BY <3>1, <3>2 DEF Above
  <2>2. QED
    BY <2>1
<1>8. before \cap now = {}
  BY <1>5
<1>9. Cardinality(before \cup now) = o + PageSize
  <2>1. Cardinality(before \cap now) = 0
    BY <1>8, FS_EmptySet
  <2>2. Cardinality(before \cup now)
           = Cardinality(before) + Cardinality(now) - Cardinality(before \cap now)
    BY <1>1, <1>5, FS_Union
  <2>3. QED
    BY <1>6, <2>1, <2>2, ReadingsOfTower
<1>10. Cardinality(before \cup now) <= Cardinality(Above(W, r))
  BY <1>2, <1>7, FS_Subset
<1>11. QED
  BY <1>9, <1>10 DEF Rank

(* Others come before a row, never itself. *)
LEMMA RankIsBelowCount ==
    ASSUME NEW W, IsFiniteSet(W), NEW r \in W, R!Reading(r).measured \in Nat
    PROVE  Rank(W, r) < Cardinality(W)
<1>1. Above(W, r) \in SUBSET (W \ {r})
  BY DEF Above
<1>2. IsFiniteSet(W \ {r}) /\ Cardinality(W \ {r}) = Cardinality(W) - 1
  BY FS_RemoveElement
<1>3. Cardinality(Above(W, r)) <= Cardinality(W) - 1 /\ IsFiniteSet(Above(W, r))
  BY <1>1, <1>2, FS_Subset
<1>4. Cardinality(W) \in Nat /\ Cardinality(Above(W, r)) \in Nat
  BY <1>3, FS_CardinalityType
<1>5. QED
  BY <1>3, <1>4 DEF Rank

-----------------------------------------------------------------------------
(* What is read of rows that are sound. *)
LEMMA StatusShows == SendingSound => R!StatusShowsTheLatest
<1> SUFFICES ASSUME SendingSound,
                    NEW top \in R!Newest(R!Table("backhaul"), StatusRows), NEW tag \in Tags,
                    NEW latest \in R!GetLatestInterface(tag), NEW r \in latest
             PROVE  \/ \E s \in R!TowerStatus(top) :
                          /\ R!Reading(s).tag = tag
                          /\ R!Reading(s).measured = R!Reading(r).measured
                    \/ /\ Cardinality(top) = StatusRows
                       /\ \A s \in top : /\ R!Reading(s).tag # tag
                                         /\ R!Reading(s).measured >= R!Reading(r).measured
  BY SameCardinality DEF R!StatusShowsTheLatest
<1> DEFINE table == R!Table("backhaul")
           mine == R!Named(table, tag)
<1>1. table \in SUBSET rows /\ mine \in SUBSET rows
      /\ (\A s \in table : s \in mine <=> R!Reading(s).tag = tag)
      /\ mine \subseteq table
  BY ReadingsOfTower DEF R!Table, R!Named
<1>2. \A s \in table : R!Reading(s).measured \in Nat
  BY <1>1, RowReadings
<1>3. latest \in R!Newest(mine, 1)
  BY DEF R!GetLatestInterface
<1> HIDE DEF table, mine
<1>4. IsFiniteSet(table) /\ IsFiniteSet(mine)
  BY <1>1, TablesAreFinite
<1>5. /\ latest \subseteq mine /\ IsFiniteSet(latest) /\ Cardinality(latest) <= 1
      /\ \A t \in latest, s \in mine \ latest : R!Reading(t).measured >= R!Reading(s).measured
  BY <1>3, <1>4, NewestFacts
<1>6. latest = {r}
  <2>1. IsFiniteSet({r}) /\ Cardinality({r}) = 1 /\ {r} \in SUBSET latest
    BY FS_Singleton
  <2>2. Cardinality(latest) \in Nat /\ Cardinality({r}) <= Cardinality(latest)
    BY <1>5, <2>1, FS_Subset, FS_CardinalityType
  <2>3. Cardinality(latest) = Cardinality({r})
    BY <1>5, <2>1, <2>2
  <2>4. QED
    BY <1>5, <2>1, <2>3, FS_Subset
<1>7. /\ r \in mine /\ r \in table /\ R!Reading(r).tag = tag
      /\ \A s \in mine : R!Reading(r).measured >= R!Reading(s).measured
  BY <1>1, <1>2, <1>5, <1>6
<1>8. /\ top \subseteq table
      /\ table \ top # {} => Cardinality(top) = StatusRows
      /\ \A t \in top, s \in table \ top : R!Reading(t).measured >= R!Reading(s).measured
  BY <1>4, NewestFacts, ReadingsOfTower DEF table
<1>9. CASE \E q \in top : R!Reading(q).tag = tag
  <2>1. PICK q \in top : /\ R!Reading(q).tag = tag
                         /\ R!Reading(q).measured = R!Reading(r).measured
    <3>1. CASE r \in top
      BY <1>7, <3>1
    <3>2. CASE r \notin top
      <4>1. PICK q \in top : R!Reading(q).tag = tag
        BY <1>9
      <4>2. q \in mine /\ q \in table
        BY <1>1, <1>8, <4>1
      <4>3. R!Reading(q).measured >= R!Reading(r).measured
            /\ R!Reading(r).measured >= R!Reading(q).measured
        BY <1>7, <1>8, <3>2, <4>2
      <4>4. QED
        BY <1>2, <1>7, <4>1, <4>2, <4>3
    <3>3. QED
      BY <3>1, <3>2
  <2>2. \A s \in top : R!Reading(s).tag = tag => R!Reading(s).measured <= R!Reading(q).measured
    BY <1>1, <1>2, <1>7, <1>8, <2>1
  <2>3. q \in R!TowerStatus(top)
    BY <2>1, <2>2 DEF R!TowerStatus
  <2>4. QED
    BY <2>1, <2>3
<1>10. CASE ~\E q \in top : R!Reading(q).tag = tag
  <2>1. r \in table \ top
    BY <1>7, <1>10
  <2>2. QED
    BY <1>8, <1>10, <2>1
<1>11. QED
  BY <1>9, <1>10

LEMMA OnlyBatchesAreAhead == SendingSound => R!FutureOnlyFromBatches
<1> SUFFICES ASSUME SendingSound
             PROVE  R!FutureOnlyFromBatches
  OBVIOUS
<1>1. ASSUME NEW latest \in R!GetLatestEnvironment, NEW r \in latest
      PROVE  R!Reading(r).measured <= clock + R!Ahead
  <2>1. R!Table("site") \in SUBSET rows
    BY DEF R!Table
  <2>2. latest \subseteq R!Table("site")
    BY <2>1, TablesAreFinite, NewestFacts DEF R!GetLatestEnvironment
  <2>3. r \in rows /\ R!Kind(r) = "site"
    BY <2>2 DEF R!Table
  <2>4. /\ r.batch \in DOMAIN sent /\ r.item \in DOMAIN sent[r.batch].items
        /\ R!Reading(r) = sent[r.batch].items[r.item] /\ R!Reading(r) # None
    BY <2>3, RowReadings
  <2>5. QED
    BY <2>3, <2>4 DEF SendingSound, BatchSound, R!Kind
<1>2. ASSUME NEW tag \in Tags, NEW latest \in R!GetLatestInterface(tag), NEW r \in latest,
             R!Reading(r).measured > sent[r.batch].received + R!Ahead
      PROVE  sent[r.batch].how = "many"
  <2>1. R!Named(R!Table("backhaul"), tag) \in SUBSET rows
    BY DEF R!Table, R!Named
  <2>2. latest \subseteq R!Named(R!Table("backhaul"), tag)
    BY <2>1, TablesAreFinite, NewestFacts DEF R!GetLatestInterface
  <2>3. r \in rows /\ R!Kind(r) = "backhaul"
    BY <2>2 DEF R!Table, R!Named
  <2>4. /\ r.batch \in DOMAIN sent /\ r.item \in DOMAIN sent[r.batch].items
        /\ R!Reading(r) = sent[r.batch].items[r.item] /\ R!Reading(r) # None
    BY <2>3, RowReadings
  <2>5. QED
    BY <1>2, <2>3, <2>4 DEF SendingSound, BatchSound, R!Kind
<1>3. QED
  BY <1>1, <1>2 DEF R!FutureOnlyFromBatches

LEMMA RInvSuffices == RInv => R!ReadingsInv
<1> SUFFICES ASSUME RInv
             PROVE  R!ReadingsInv
  OBVIOUS
<1>1. SendingSound /\ PageShapes /\ PageSound
  BY DEF RInv
<1>2. ASSUME NEW b \in DOMAIN sent
      PROVE  /\ sent[b].kind \in R!Kinds
             /\ sent[b].how \in {"one", "many", "poll"}
             /\ sent[b].answer \in {None, "ok", "error", "refused"}
             /\ sent[b].done \in 0 .. Len(sent[b].items)
             /\ sent[b].received \in 0 .. MaxClock
             /\ \A i \in DOMAIN sent[b].items :
                   sent[b].items[i] \in [tag : Tags, measured : R!Instants] \cup {None}
  <2>1. sent[b] \in BatchRecord /\ sent[b].done <= Len(sent[b].items)
        /\ Len(sent[b].items) \in Nat
        /\ \A i \in DOMAIN sent[b].items : sent[b].items[i] \in Item \cup {None}
    BY <1>1, SentBatches DEF SendingSound, BatchSound
  <2>2. sent[b].done \in Nat /\ sent[b].done \in 0 .. Len(sent[b].items)
    BY <2>1 DEF BatchRecord
  <2>3. QED
    BY <2>1, <2>2 DEF BatchRecord, Item
<1>3. R!TypeOK
  BY <1>1, <1>2 DEF R!TypeOK, SendingSound, RowsSound, PageShapes
<1>4. R!BatchIsWhole /\ R!OkIsStored
  BY <1>1 DEF R!BatchIsWhole, R!OkIsStored, SendingSound, StoredSound
<1>5. R!OnlyBackhaulIsPolled
  BY <1>1 DEF R!OnlyBackhaulIsPolled, SendingSound, BatchSound
<1>6. R!PagesMissOnlyTies
  BY <1>1 DEF R!PagesMissOnlyTies, PageSound, Coming, Tied
<1>7. QED
  BY <1>1, <1>3, <1>4, <1>5, <1>6, StatusShows, OnlyBatchesAreAhead DEF R!ReadingsInv

-----------------------------------------------------------------------------
(* Steps that send or store keep RInv. *)

(* Rows are added and keep what they say: a row that waits for its page waits on. *)
LEMMA GrowingTables ==
    ASSUME RInv, SendingSound', rows \subseteq rows', UNCHANGED page,
           DOMAIN sent \subseteq DOMAIN sent',
           \A r \in rows : /\ sent'[r.batch].items[r.item] = sent[r.batch].items[r.item]
                           /\ sent'[r.batch].kind = sent[r.batch].kind
    PROVE  PageShapes' /\ PageSound'
<1>1. PageShapes'
  BY DEF RInv, PageShapes
<1>2. PageSound'
  <2> SUFFICES ASSUME page.pc # "idle", ~page.shifted
               PROVE  /\ page.had \subseteq R!Matching(page.kind, page.tag)'
                      /\ \A r \in page.had \ page.seen : Tied(r, page.kind)' \/ Coming(r)'
    BY DEF PageSound
  <2>1. PICK kind, tag, had, W, V :
           /\ kind = page.kind /\ tag = page.tag /\ had = page.had
           /\ W = Where(kind, tag) /\ V = Where(kind, tag)'
    OBVIOUS
  <2>2. /\ had \subseteq rows
        /\ \A r \in had : sent[r.batch].kind = kind /\ (tag # None => R!Reading(r).tag = tag)
        /\ \A r \in had \ page.seen : Tied(r, kind) \/ Coming(r)
    BY <2>1 DEF RInv, PageSound, R!Matching, R!Named, R!Table, R!Kind
  <2>3. had \subseteq R!Matching(page.kind, page.tag)'
    BY <2>1, <2>2 DEF R!Matching, R!Named, R!Table, R!Kind, R!Reading
  <2>4. ASSUME NEW r \in had \ page.seen, Tied(r, kind)
        PROVE  Tied(r, kind)'
    <3>1. PICK s \in rows \ {r} : /\ sent[s.batch].kind = kind
                                  /\ R!Reading(s).measured = R!Reading(r).measured
      BY <2>4 DEF Tied, R!Table, R!Kind
    <3>2. r \in rows
      BY <2>2
    <3>3. QED
      BY <3>1, <3>2 DEF Tied, R!Table, R!Kind, R!Reading
  <2>5. ASSUME NEW r \in had \ page.seen, Coming(r)
        PROVE  Coming(r)'
    <3>1. W \subseteq V /\ V \in SUBSET rows' /\ W \subseteq rows
      BY <2>1 DEF Where, R!SiteWhere, R!BackhaulWhere, R!Named, R!Table, R!Kind, R!Reading
    <3>2. r \in rows
      BY <2>2
    <3>3. PICK A, B : A = Above(W, r) /\ B = {s \in V : R!Reading(s)'.measured > R!Reading(r)'.measured}
      OBVIOUS
    <3>4. A \in SUBSET B
      BY <3>1, <3>2, <3>3 DEF Above, R!Reading
    <3>5. IsFiniteSet(B)
      <4>1. B \in SUBSET rows' /\ IsFiniteSet(rows')
        BY <3>1, <3>3 DEF SendingSound, RowsSound
      <4>2. QED
        BY <4>1, FS_Subset
    <3>6. Cardinality(A) <= Cardinality(B) /\ IsFiniteSet(A)
      BY <3>4, <3>5, FS_Subset
    <3>7. Cardinality(A) \in Nat /\ Cardinality(B) \in Nat
      BY <3>5, <3>6, FS_CardinalityType
    <3>8. Rank(Where(page.kind, page.tag), r) = Cardinality(A)
      BY <2>1, <3>3 DEF Rank
    <3>9. Rank(Where(page.kind, page.tag), r)' = Cardinality(B)
      BY <2>1, <3>3 DEF Rank, Above
    <3>10. page.offset \in Nat /\ PageSize \in Nat
      BY ReadingsOfTower DEF RInv, PageShapes
    <3>11. QED
      BY <2>5, <3>6, <3>7, <3>8, <3>9, <3>10 DEF Coming
  <2>6. QED
    BY <2>1, <2>2, <2>3, <2>4, <2>5
<1>3. QED
  BY <1>1, <1>2

(* A batch as Accept appends it. *)
NewBatch(kind, how, items, answer) ==
    [kind |-> kind, how |-> how, items |-> items, done |-> 0, answer |-> answer,
     received |-> clock]

(* A batch is accepted; of a single reading that is stored, its row is. *)
LEMMA AcceptedBatch ==
    ASSUME RInv, Len(sent) < MaxBatches, NEW kind, NEW how, NEW items, NEW answer,
           R!Accept(kind, how, items, answer), UNCHANGED <<clock, purged, page>>,
           BatchSound(NewBatch(kind, how, items, answer), clock),
           \/ rows' = rows /\ answer # "ok"
           \/ /\ rows' = rows \cup {[batch |-> Len(sent) + 1, item |-> 1]}
              /\ Len(items) = 1 /\ items[1] # None /\ answer = "ok"
    PROVE  RInv'
<1> DEFINE x == NewBatch(kind, how, items, answer)
<1>1. SendingSound /\ x \in BatchRecord /\ sent' = Append(sent, x)
      /\ x.items = items /\ x.answer = answer
  BY DEF RInv, BatchSound, R!Accept, NewBatch
<1> HIDE DEF x
<1>2. PICK n : n = Len(sent) + 1
  OBVIOUS
<1>3. /\ Len(sent) \in Nat /\ DOMAIN sent = 1 .. Len(sent) /\ n \notin DOMAIN sent
  BY <1>1, <1>2, SentBatches
<1>4. /\ sent' \in Seq(BatchRecord) /\ Len(sent') = n
      /\ \A b \in DOMAIN sent : sent'[b] = sent[b]
      /\ sent'[n] = x
  BY <1>1, <1>2, <1>3, AppendProperties DEF SendingSound
<1>5. DOMAIN sent' = 1 .. n /\ DOMAIN sent' = DOMAIN sent \cup {n}
  BY <1>2, <1>3, <1>4, LenProperties
<1>6. Len(sent') <= MaxBatches
  BY <1>2, <1>3, <1>4, ReadingsOfTower
<1>7. \A b \in DOMAIN sent' : BatchSound(sent'[b], clock)
  BY <1>1, <1>4, <1>5 DEF SendingSound, x
<1>8. \A r \in rows : r.batch \in DOMAIN sent /\ r.batch # n
  BY <1>1, <1>3, RowReadings
<1>9. ASSUME rows' = rows, answer # "ok"
      PROVE  RowsSound' /\ \A b \in DOMAIN sent' : StoredSound(b)'
  <2>1. RowsSound'
    BY <1>1, <1>4, <1>5, <1>8, <1>9 DEF SendingSound, RowsSound, R!Present
  <2>2. ASSUME NEW b \in DOMAIN sent
        PROVE  StoredSound(b)'
    BY <1>1, <1>4, <1>9 DEF SendingSound, StoredSound, R!StoredOf, R!Present
  <2>3. StoredSound(n)'
    <3>1. R!StoredOf(n)' = {}
      BY <1>8, <1>9 DEF R!StoredOf
    <3>2. QED
      BY <1>1, <1>4, <1>9, <3>1 DEF StoredSound
  <2>4. QED
    BY <1>5, <2>1, <2>2, <2>3
<1>10. ASSUME rows' = rows \cup {[batch |-> n, item |-> 1]},
              Len(items) = 1, items[1] # None, answer = "ok"
       PROVE  RowsSound' /\ \A b \in DOMAIN sent' : StoredSound(b)'
  <2>1. items \in Seq(Item \cup {None}) /\ DOMAIN items = {1}
    <3>1. items \in Seq(Item \cup {None})
      BY <1>1 DEF BatchRecord
    <3>2. DOMAIN items = 1 .. 1
      BY <1>10, <3>1, LenProperties
    <3>3. QED
      BY <3>1, <3>2
  <2>2. R!Present(n)' = {1}
    BY <1>1, <1>4, <1>10, <2>1 DEF R!Present
  <2>3. PICK row1 : row1 = [batch |-> n, item |-> 1]
    OBVIOUS
  <2>4. row1.batch = n /\ row1.item = 1 /\ row1 \in [batch : DOMAIN sent', item : {1, 2}]
        /\ rows' = rows \cup {row1}
    BY <1>5, <1>10, <2>3
  <2>5. IsFiniteSet(rows')
    BY <1>1, <2>4, FS_AddElement DEF SendingSound, RowsSound
  <2>6. \A r \in rows : r.item \in R!Present(r.batch)'
    BY <1>1, <1>4, <1>8 DEF SendingSound, RowsSound, R!Present
  <2>7. RowsSound'
    BY <1>1, <1>5, <2>2, <2>4, <2>5, <2>6 DEF SendingSound, RowsSound
  <2>8. ASSUME NEW b \in DOMAIN sent
        PROVE  StoredSound(b)'
    <3>1. R!StoredOf(b)' = R!StoredOf(b)
      BY <1>3, <2>4 DEF R!StoredOf
    <3>2. R!Present(b)' = R!Present(b) /\ sent'[b] = sent[b] /\ purged' = purged
      BY <1>4 DEF R!Present
    <3>3. QED
      BY <1>1, <3>1, <3>2 DEF SendingSound, StoredSound
  <2>9. StoredSound(n)'
    <3>1. R!StoredOf(n)' = {1}
      BY <1>8, <2>4 DEF R!StoredOf
    <3>2. sent'[n].answer # None
      BY <1>1, <1>4, <1>10, ReadingsOfTower
    <3>3. QED
      BY <2>2, <3>1, <3>2 DEF StoredSound
  <2>10. QED
    BY <1>5, <2>7, <2>8, <2>9
<1>11. RowsSound' /\ \A b \in DOMAIN sent' : StoredSound(b)'
  BY <1>2, <1>9, <1>10
<1>12. SendingSound'
  BY <1>1, <1>4, <1>5, <1>6, <1>7, <1>11 DEF SendingSound
<1>13. PageShapes' /\ PageSound'
  BY <1>4, <1>5, <1>8, <1>12, GrowingTables
<1>14. QED
  BY <1>12, <1>13 DEF RInv

(* A batch whose transaction is open becomes y; its rows are stored or not. *)
LEMMA ChangedBatch ==
    ASSUME RInv, NEW b \in DOMAIN sent, sent[b].answer = None, NEW y,
           sent' = [sent EXCEPT ![b] = y], BatchSound(y, clock),
           y.kind = sent[b].kind, y.how = sent[b].how, UNCHANGED <<clock, purged, page>>,
           \/ rows' = rows /\ (y.answer = "ok" => y.kind = "backhaul")
           \/ R!Stores(b) /\ y.items = sent[b].items /\ y.answer # None
    PROVE  RInv'
<1>1. SendingSound /\ BatchSound(sent[b], clock) /\ StoredSound(b)
  BY DEF RInv, SendingSound
<1>2. R!StoredOf(b) = {} /\ sent[b].how # "one"
  BY <1>1 DEF BatchSound, StoredSound
<1>3. \A r \in rows : r.batch # b
  BY <1>2 DEF R!StoredOf
<1>4. /\ sent \in Seq(BatchRecord) /\ Len(sent) \in Nat /\ DOMAIN sent = 1 .. Len(sent)
      /\ sent \in [1 .. Len(sent) -> BatchRecord] /\ y \in BatchRecord
  BY <1>1, LenProperties DEF SendingSound, BatchSound
<1>5. /\ sent' \in Seq(BatchRecord) /\ Len(sent') = Len(sent) /\ DOMAIN sent' = DOMAIN sent
      /\ sent'[b] = y /\ \A c \in DOMAIN sent \ {b} : sent'[c] = sent[c]
  <2>1. sent' \in [1 .. Len(sent) -> BatchRecord]
    BY <1>4
  <2>2. sent' \in Seq(BatchRecord)
    BY <1>4, <2>1
  <2>3. DOMAIN sent' = 1 .. Len(sent') /\ Len(sent') \in Nat
    BY <2>2, LenProperties
  <2>4. QED
    BY <1>4, <2>1, <2>2, <2>3
<1>6. \A c \in DOMAIN sent' : BatchSound(sent'[c], clock)
  BY <1>1, <1>5 DEF SendingSound
<1>7. ASSUME NEW c \in DOMAIN sent \ {b}
      PROVE  R!Present(c)' = R!Present(c)
  BY <1>5 DEF R!Present
<1>8. ASSUME rows' = rows, y.answer = "ok" => y.kind = "backhaul"
      PROVE  RowsSound' /\ \A c \in DOMAIN sent' : StoredSound(c)'
  <2>1. RowsSound'
    BY <1>1, <1>3, <1>5, <1>7, <1>8 DEF SendingSound, RowsSound
  <2>2. ASSUME NEW c \in DOMAIN sent \ {b}
        PROVE  StoredSound(c)'
    <3>1. R!StoredOf(c)' = R!StoredOf(c)
      BY <1>8 DEF R!StoredOf
    <3>2. QED
      BY <1>1, <1>5, <1>7, <3>1 DEF SendingSound, StoredSound
  <2>3. StoredSound(b)'
    <3>1. R!StoredOf(b)' = {}
      BY <1>2, <1>8 DEF R!StoredOf
    <3>2. QED
      BY <1>2, <1>5, <1>8, <3>1 DEF StoredSound
  <2>4. QED
    BY <1>5, <2>1, <2>2, <2>3
<1>9. ASSUME R!Stores(b), y.items = sent[b].items, y.answer # None
      PROVE  /\ RowsSound' /\ rows \subseteq rows'
             /\ \A c \in DOMAIN sent' : StoredSound(c)'
  <2>1. PICK P, new : P = R!Present(b) /\ new = {[batch |-> b, item |-> i] : i \in P}
    OBVIOUS
  <2>2. P \subseteq {1, 2}
    BY <1>1, <2>1, SentBatches DEF R!Present
  <2>3. R!Present(b)' = P
    BY <1>5, <1>9, <2>1 DEF R!Present
  <2>4. rows' = rows \cup new
    BY <1>9, <2>1 DEF R!Stores
  <2>5. \A r \in new : /\ r.batch = b /\ r.item \in P
                       /\ r \in [batch : DOMAIN sent', item : {1, 2}]
    BY <1>5, <2>1, <2>2
  <2>6. IsFiniteSet(rows')
    <3>1. new \in SUBSET ({[batch |-> b, item |-> 1]} \cup {[batch |-> b, item |-> 2]})
      BY <2>1, <2>2
    <3>2. IsFiniteSet({[batch |-> b, item |-> 1]} \cup {[batch |-> b, item |-> 2]})
      BY FS_Singleton, FS_AddElement
    <3>3. IsFiniteSet(new)
      BY <3>1, <3>2, FS_Subset
    <3>4. IsFiniteSet(rows)
      BY <1>1 DEF SendingSound, RowsSound
    <3>5. QED
      BY <2>4, <3>3, <3>4, FS_Union
  <2>7. \A r \in rows' : r.item \in R!Present(r.batch)'
    <3>1. \A r \in rows : r.item \in R!Present(r.batch)'
      BY <1>1, <1>3, <1>7 DEF SendingSound, RowsSound
    <3>2. \A r \in new : r.item \in R!Present(r.batch)'
      BY <2>3, <2>5
    <3>3. QED
      BY <2>4, <3>1, <3>2
  <2>8. RowsSound'
    BY <1>1, <1>5, <2>4, <2>5, <2>6, <2>7 DEF SendingSound, RowsSound
  <2>9. ASSUME NEW c \in DOMAIN sent \ {b}
        PROVE  StoredSound(c)'
    <3>1. R!StoredOf(c)' = R!StoredOf(c)
      BY <2>4, <2>5 DEF R!StoredOf
    <3>2. QED
      BY <1>1, <1>5, <1>7, <3>1 DEF SendingSound, StoredSound
  <2>10. StoredSound(b)'
    <3>1. R!StoredOf(b)' = P
      <4>1. \A r \in rows' : r.batch = b <=> r \in new
        BY <1>3, <2>4, <2>5
      <4>2. \A i \in P : [batch |-> b, item |-> i] \in new
        BY <2>1
      <4>3. R!StoredOf(b)' = {r.item : r \in new}
        BY <2>4, <4>1 DEF R!StoredOf
      <4>4. \A i \in P : [batch |-> b, item |-> i].item = i
        OBVIOUS
      <4>5. P \subseteq {r.item : r \in new}
        BY <4>2, <4>4
      <4>6. {r.item : r \in new} \subseteq P
        BY <2>5
      <4>7. QED
        BY <4>3, <4>5, <4>6
    <3>2. QED
      BY <1>5, <1>9, <2>3, <3>1 DEF StoredSound
  <2>11. QED
    BY <1>5, <2>4, <2>8, <2>9, <2>10
<1>10. /\ RowsSound' /\ rows \subseteq rows'
       /\ \A c \in DOMAIN sent' : StoredSound(c)'
  BY <1>8, <1>9
<1>11. SendingSound'
  BY <1>1, <1>5, <1>6, <1>10 DEF SendingSound
<1>12. \A r \in rows : r.batch \in DOMAIN sent
  BY <1>1, RowReadings
<1>13. PageShapes' /\ PageSound'
  BY <1>3, <1>5, <1>10, <1>11, <1>12, GrowingTables
<1>14. QED
  BY <1>11, <1>13 DEF RInv

-----------------------------------------------------------------------------
(* What the senders and the pollers send. *)
Sender == [tag : Tags, measured : {None, 0, clock, clock + R!Ahead + 1}, complete : BOOLEAN]

LEMMA StampedReadings ==
    ASSUME RInv, NEW x, x # None => x \in Sender
    PROVE  /\ R!Stamped(x) \in Item \cup {None}
           /\ x \in Sender => (R!Stamped(x) # None /\ x # None)
           /\ (R!Stamped(x) # None /\ ~R!Future(x))
                 => R!Stamped(x).measured <= clock + R!Ahead
           /\ R!Stamped(x) # None => x # None
<1>1. clock \in 0 .. MaxClock /\ MaxClock \in Nat /\ None \notin Nat /\ R!Ahead = 1
  BY ReadingsOfTower DEF RInv, SendingSound
<1>2. CASE x = None
  <2>1. None \notin Sender
    <3>1. Sender \subseteq [tag : Tags, measured : Nat \cup {None}, complete : BOOLEAN]
      BY <1>1 DEF Sender
    <3>2. QED
      BY <3>1, ReadingsOfTower
  <2>2. QED
    BY <1>2, <2>1 DEF R!Stamped
<1>3. CASE x # None
  <2>1. x.tag \in Tags /\ x.measured \in {None, 0, clock, clock + R!Ahead + 1}
    BY <1>3 DEF Sender
  <2> DEFINE m == IF x.measured = None THEN clock ELSE x.measured
  <2>2. R!Stamped(x) = [tag |-> x.tag, measured |-> m]
    BY <1>3 DEF R!Stamped
  <2>3. m \in R!Instants /\ m \in Nat /\ (~R!Future(x) => m <= clock + R!Ahead)
    BY <1>1, <2>1, ReadingsOfTower DEF R!Future
  <2> HIDE DEF m
  <2>4. R!Stamped(x) \in Item
    BY <2>1, <2>2, <2>3 DEF Item
  <2>5. Item \subseteq [tag : Tags, measured : Nat]
    BY ReadingsOfTower DEF Item
  <2>6. R!Stamped(x) # None
    BY <2>4, <2>5, ReadingsOfTower
  <2>7. QED
    BY <1>3, <2>2, <2>3, <2>4, <2>6
<1>4. QED
  BY <1>2, <1>3

(* A batch as it is accepted. *)
LEMMA NewBatchSound ==
    ASSUME RInv, NEW kind \in R!Kinds, NEW how \in {"one", "many", "poll"},
           NEW items \in Seq(Item \cup {None}), Len(items) <= 2,
           NEW answer \in {None, "ok", "error", "refused"},
           answer = None => (how # "one" /\ kind # "radio"),
           (how = "poll" /\ answer \in {None, "ok"}) => kind = "backhaul",
           \A i \in DOMAIN items : items[i] # None =>
              (items[i].measured <= clock + R!Ahead \/ (kind = "backhaul" /\ how = "many"))
    PROVE  BatchSound(NewBatch(kind, how, items, answer), clock)
<1>1. clock \in 0 .. MaxClock /\ clock \in Nat /\ R!Ahead = 1
  BY ReadingsOfTower DEF RInv, SendingSound
<1>2. Len(items) \in Nat /\ \A i \in DOMAIN items : items[i] \in Item \cup {None}
  BY LenProperties
<1>3. \A y \in Item : y.measured \in Nat
  BY ReadingsOfTower DEF Item
<1> DEFINE x == NewBatch(kind, how, items, answer)
<1>4. x \in BatchRecord
  BY <1>1 DEF BatchRecord, NewBatch
<1>5. /\ x.kind = kind /\ x.how = how /\ x.items = items /\ x.done = 0
      /\ x.answer = answer /\ x.received = clock
  BY DEF NewBatch
<1> HIDE DEF x
<1>6. BatchSound(x, clock)
  BY <1>1, <1>2, <1>3, <1>4, <1>5 DEF BatchSound
<1>7. QED
  BY <1>6 DEF x

LEMMA EmptyBatchSound ==
    ASSUME RInv, NEW kind \in R!Kinds, NEW how \in {"one", "many", "poll"},
           NEW answer \in {"error", "refused"}
    PROVE  BatchSound(NewBatch(kind, how, <<>>, answer), clock)
<1>1. PICK items : items = <<>>
  OBVIOUS
<1>2. items \in Seq(Item \cup {None}) /\ Len(items) <= 2
  BY <1>1
<1>3. \A i \in DOMAIN items : items[i] # None =>
         (items[i].measured <= clock + R!Ahead \/ (kind = "backhaul" /\ how = "many"))
  BY <1>1
<1>4. answer # None /\ answer # "ok" /\ answer \in {None, "ok", "error", "refused"}
  BY ReadingsOfTower
<1>5. BatchSound(NewBatch(kind, how, items, answer), clock)
  BY <1>2, <1>3, <1>4, NewBatchSound
<1>6. QED
  BY <1>1, <1>5

(* One reading, stored or not. *)
LEMMA InsertKeepsRInv ==
    ASSUME RInv, Len(sent) < MaxBatches, NEW kind \in {"backhaul", "site"}, NEW x \in Sender,
           ~R!Future(x), R!Insert(kind, x), UNCHANGED <<clock, purged, page>>
    PROVE  RInv'
<1>1. R!Stamped(x) \in Item /\ R!Stamped(x) # None
      /\ R!Stamped(x).measured <= clock + R!Ahead
  BY StampedReadings
<1>2. kind \in R!Kinds
  BY DEF R!Kinds
<1>3. CASE /\ R!Accept(kind, "one", <<R!Stamped(x)>>, "ok")
           /\ rows' = rows \cup {[batch |-> Len(sent) + 1, item |-> 1]}
  <2>1. PICK items : items = <<R!Stamped(x)>>
    OBVIOUS
  <2>2. items \in Seq(Item \cup {None}) /\ Len(items) = 1 /\ DOMAIN items = {1}
        /\ items[1] = R!Stamped(x)
    BY <1>1, <2>1
  <2>3. BatchSound(NewBatch(kind, "one", items, "ok"), clock)
    <3>1. "ok" # None /\ Len(items) <= 2
      BY <2>2, ReadingsOfTower
    <3>2. \A i \in DOMAIN items : items[i] # None =>
             (items[i].measured <= clock + R!Ahead \/ (kind = "backhaul" /\ "one" = "many"))
      BY <1>1, <2>2
    <3>3. QED
      BY <1>2, <2>2, <3>1, <3>2, NewBatchSound
  <2>4. R!Accept(kind, "one", items, "ok")
    BY <1>3, <2>1
  <2>5. QED
    BY <1>1, <1>3, <2>2, <2>3, <2>4, AcceptedBatch
<1>4. CASE R!Accept(kind, "one", <<>>, "error") /\ UNCHANGED rows
  <2>1. BatchSound(NewBatch(kind, "one", <<>>, "error"), clock)
    <3>1. "error" # None
      BY ReadingsOfTower
    <3>2. QED
      BY <1>2, <3>1, EmptyBatchSound
  <2>2. QED
    BY <1>4, <2>1, AcceptedBatch
<1>5. QED
  BY <1>3, <1>4 DEF R!Insert

(* A batch that stores nothing. *)
LEMMA RefusalKeepsRInv ==
    ASSUME RInv, Len(sent) < MaxBatches, NEW kind \in R!Kinds, NEW how \in {"many", "poll"},
           NEW answer \in {"error", "refused"}, R!Accept(kind, how, <<>>, answer),
           UNCHANGED <<clock, rows, purged, page>>
    PROVE  RInv'
<1>1. BatchSound(NewBatch(kind, how, <<>>, answer), clock)
  <2>1. answer # None /\ answer # "ok"
    BY ReadingsOfTower
  <2>2. QED
    BY <2>1, EmptyBatchSound
<1>2. QED
  BY <1>1, AcceptedBatch

(* The transaction of a batch begins. *)
LEMMA BeginKeepsRInv ==
    ASSUME RInv, Len(sent) < MaxBatches, NEW kind \in {"backhaul", "site"},
           NEW how \in {"many", "poll"}, how = "poll" => kind = "backhaul",
           NEW items, DOMAIN items \in {{1}, {1, 2}},
           \A i \in DOMAIN items : items[i] # None =>
               /\ items[i] \in Sender
               /\ ~R!Future(items[i]) \/ (kind = "backhaul" /\ how = "many"),
           R!Begin(kind, how, items)
    PROVE  RInv'
<1> DEFINE stamped == [i \in DOMAIN items |-> R!Stamped(items[i])]
<1>1. \A i \in DOMAIN items :
         /\ R!Stamped(items[i]) \in Item \cup {None}
         /\ R!Stamped(items[i]) # None =>
               (R!Stamped(items[i]).measured <= clock + R!Ahead
                  \/ (kind = "backhaul" /\ how = "many"))
  BY StampedReadings
<1>2. PICK n \in {1, 2} : DOMAIN items = 1 .. n
  <2>1. {1} = 1 .. 1 /\ {1, 2} = 1 .. 2
    OBVIOUS
  <2>2. QED
    BY <2>1
<1>3. stamped \in [1 .. n -> Item \cup {None}]
  BY <1>1, <1>2
<1>4. stamped \in Seq(Item \cup {None}) /\ Len(stamped) <= 2
      /\ DOMAIN stamped = DOMAIN items
  <2>1. stamped \in Seq(Item \cup {None})
    BY <1>3
  <2>2. Len(stamped) \in Nat /\ DOMAIN stamped = 1 .. Len(stamped) /\ DOMAIN stamped = 1 .. n
    BY <1>3, <2>1, LenProperties
  <2>3. Len(stamped) = n
    BY <2>2
  <2>4. QED
    BY <1>2, <2>1, <2>2, <2>3
<1>5. R!Accept(kind, how, stamped, None) /\ UNCHANGED <<clock, rows, purged, page>>
  BY DEF R!Begin
<1>6. \A i \in DOMAIN stamped : stamped[i] # None =>
         (stamped[i].measured <= clock + R!Ahead \/ (kind = "backhaul" /\ how = "many"))
  BY <1>1
<1> HIDE DEF stamped
<1>7. kind \in R!Kinds
  BY DEF R!Kinds
<1>8. BatchSound(NewBatch(kind, how, stamped, None), clock)
  BY <1>4, <1>6, <1>7, NewBatchSound
<1>9. None # "ok"
  BY ReadingsOfTower
<1>10. QED
  BY <1>5, <1>8, <1>9, AcceptedBatch

LEMMA SendersKeepRInv ==
    ASSUME RInv, Len(sent) < MaxBatches,
           \/ R!CollectInterface \/ R!CollectEnvironment
           \/ R!CollectMultipleInterfaces \/ R!IngestKPIs \/ R!CollectMultipleEnvironment
           \/ R!BackhaulCollectOnce \/ R!RadioCollectOnce \/ R!SiteCollectOnce
    PROVE  RInv'
<1>1. CASE R!CollectInterface
  <2>1. PICK x \in Sender : ~R!Future(x) /\ R!Insert("backhaul", x)
                            /\ UNCHANGED <<clock, purged, page>>
    BY <1>1 DEF R!CollectInterface, R!BackhaulInterface, Sender
  <2>2. QED
    BY <2>1, InsertKeepsRInv
<1>2. CASE R!CollectEnvironment
  <2>1. PICK x \in Sender : ~R!Future(x) /\ R!Insert("site", x)
                            /\ UNCHANGED <<clock, purged, page>>
    BY <1>2 DEF R!CollectEnvironment, R!SiteEnvironment, R!SiteCreate, Sender
  <2>2. QED
    BY <2>1, InsertKeepsRInv
<1>3. ASSUME NEW S, NEW items \in R!BatchesOf(S)
      PROVE  DOMAIN items \in {{1}, {1, 2}} /\ \A i \in DOMAIN items : items[i] \in S
  BY DEF R!BatchesOf
<1>4. CASE R!CollectMultipleInterfaces
  <2>1. PICK items \in R!BatchesOf(R!BackhaulInterface) : R!Begin("backhaul", "many", items)
    BY <1>4 DEF R!CollectMultipleInterfaces
  <2>2. R!BackhaulInterface \subseteq Sender
    BY DEF R!BackhaulInterface, Sender
  <2>3. DOMAIN items \in {{1}, {1, 2}} /\ \A i \in DOMAIN items : items[i] \in Sender
    BY <1>3, <2>1, <2>2
  <2>4. QED
    BY <2>1, <2>3, BeginKeepsRInv
<1>5. CASE R!IngestKPIs
  BY <1>5, RefusalKeepsRInv DEF R!IngestKPIs, R!RadioCreateMany, R!Kinds
<1>6. CASE R!CollectMultipleEnvironment
  <2>1. PICK items \in R!BatchesOf(R!SiteEnvironment \cup {None}) :
           /\ \A i \in DOMAIN items : items[i] # None => ~R!Future(items[i])
           /\ R!Begin("site", "many", items)
    BY <1>6 DEF R!CollectMultipleEnvironment
  <2>2. DOMAIN items \in {{1}, {1, 2}} /\ \A i \in DOMAIN items : items[i] \in Sender \cup {None}
    BY <1>3, <2>1 DEF R!SiteEnvironment, Sender
  <2>3. QED
    BY <2>1, <2>2, BeginKeepsRInv
<1>7. CASE R!BackhaulCollectOnce
  <2>1. PICK samples \in R!Samples :
           R!Poll("backhaul", R!convertSamplesToBackhaulInterfaces(samples))
    BY <1>7 DEF R!BackhaulCollectOnce
  <2> DEFINE x == [tag |-> If0, measured |-> clock,
                   complete |-> {"admin", "oper"} \subseteq samples]
  <2>2. R!Poll("backhaul", <<x>>)
    BY <2>1 DEF R!Poll, R!convertSamplesToBackhaulInterfaces
  <2>3. CASE R!Begin("backhaul", "poll", <<x>>)
    <3>1. clock \in Nat /\ None \notin Nat /\ R!Ahead = 1 /\ If0 \in Tags
      BY ReadingsOfTower DEF RInv, SendingSound
    <3>2. x \in Sender /\ ~R!Future(x)
      BY <3>1 DEF R!Future, Sender
    <3> HIDE DEF x
    <3>3. DOMAIN <<x>> \in {{1}, {1, 2}} /\ \A i \in DOMAIN <<x>> : <<x>>[i] = x
      OBVIOUS
    <3>4. QED
      BY <2>3, <3>2, <3>3, BeginKeepsRInv
  <2>4. CASE R!Accept("backhaul", "poll", <<>>, "refused")
             /\ UNCHANGED <<clock, rows, purged, page>>
    BY <2>4, RefusalKeepsRInv DEF R!Kinds
  <2>5. QED
    BY <2>2, <2>3, <2>4 DEF R!Poll
<1>8. CASE R!RadioCollectOnce
  <2>1. R!Accept("radio", "poll", <<>>, "refused") /\ UNCHANGED <<clock, rows, purged, page>>
    BY <1>8 DEF R!RadioCollectOnce, R!Poll, R!convertSamplesToRadioKPIs
  <2>2. QED
    BY <2>1, RefusalKeepsRInv DEF R!Kinds
<1>9. CASE R!SiteCollectOnce
  <2>1. R!Accept("site", "poll", <<>>, "refused") /\ UNCHANGED <<clock, rows, purged, page>>
    BY <1>9 DEF R!SiteCollectOnce, R!Poll, R!convertSamplesToSiteEnv
  <2>2. QED
    BY <2>1, RefusalKeepsRInv DEF R!Kinds
<1>10. QED
  BY <1>1, <1>2, <1>4, <1>5, <1>6, <1>7, <1>8, <1>9

-----------------------------------------------------------------------------
(* The transaction of a batch goes on or ends. *)
LEMMA DoneChanges ==
    ASSUME NEW x \in BatchRecord, NEW d \in Nat
    PROVE  LET y == [x EXCEPT !.done = d]
           IN  /\ y \in BatchRecord /\ y.kind = x.kind /\ y.how = x.how
               /\ y.items = x.items /\ y.answer = x.answer /\ y.done = d
               /\ y.received = x.received
BY DEF BatchRecord

LEMMA AnswerChanges ==
    ASSUME NEW x \in BatchRecord, NEW a \in {"ok", "error"}
    PROVE  LET y == [x EXCEPT !.answer = a, !.done = 0]
           IN  /\ y \in BatchRecord /\ y.kind = x.kind /\ y.how = x.how
               /\ y.items = x.items /\ y.answer = a /\ y.done = 0
               /\ y.received = x.received
BY DEF BatchRecord

LEMMA RollbackChanges ==
    ASSUME NEW x \in BatchRecord
    PROVE  LET y == [x EXCEPT !.answer = "error", !.done = 0, !.items = <<>>]
           IN  /\ y \in BatchRecord /\ y.kind = x.kind /\ y.how = x.how
               /\ y.items = <<>> /\ y.answer = "error" /\ y.done = 0
               /\ y.received = x.received
<1>1. <<>> \in Seq(Item \cup {None})
  OBVIOUS
<1>2. QED
  BY <1>1 DEF BatchRecord

LEMMA TransactionsKeepRInv ==
    ASSUME RInv, NEW b \in DOMAIN sent,
           R!ExecContext(b) \/ R!Rollback(b) \/ R!Commit(b) \/ R!CommitFails(b)
    PROVE  RInv'
<1> DEFINE x == sent[b]
<1>1. /\ SendingSound /\ BatchSound(x, clock) /\ x \in BatchRecord /\ x.answer = None
      /\ x.done \in Nat /\ Len(x.items) \in Nat /\ DOMAIN sent = 1 .. Len(sent)
  <2>1. SendingSound /\ BatchSound(x, clock) /\ x \in BatchRecord /\ x.answer = None
    BY DEF RInv, SendingSound, BatchSound, R!ExecContext, R!Rollback, R!Commit, R!CommitFails
  <2>2. QED
    BY <2>1, SentBatches DEF BatchRecord
<1>2. None # "ok" /\ None # "error"
  BY ReadingsOfTower
<1>3. CASE R!ExecContext(b)
  <2> DEFINE y == [x EXCEPT !.done = x.done + 1]
  <2>1. x.done < Len(x.items) /\ sent' = [sent EXCEPT ![b] = y] /\ rows' = rows
        /\ UNCHANGED <<clock, purged, page>>
    BY <1>3 DEF R!ExecContext
  <2>2. /\ y \in BatchRecord /\ y.kind = x.kind /\ y.how = x.how
        /\ y.items = x.items /\ y.answer = x.answer /\ y.done = x.done + 1
        /\ y.received = x.received
    BY <1>1, DoneChanges
  <2> HIDE DEF y
  <2>3. BatchSound(y, clock)
    BY <1>1, <2>1, <2>2 DEF BatchSound
  <2>4. QED
    BY <1>1, <1>2, <2>1, <2>2, <2>3, ChangedBatch
<1>4. CASE R!Rollback(b)
  <2> DEFINE y == [x EXCEPT !.answer = "error", !.done = 0, !.items = <<>>]
  <2>1. sent' = [sent EXCEPT ![b] = y] /\ rows' = rows /\ UNCHANGED <<clock, purged, page>>
    BY <1>4 DEF R!Rollback
  <2>2. /\ y \in BatchRecord /\ y.kind = x.kind /\ y.how = x.how
        /\ y.items = <<>> /\ y.answer = "error" /\ y.done = 0
        /\ y.received = x.received
    BY <1>1, RollbackChanges
  <2> HIDE DEF y
  <2>3. BatchSound(y, clock)
    BY <1>1, <1>2, <2>2 DEF BatchSound
  <2>4. QED
    BY <1>1, <2>1, <2>2, <2>3, ChangedBatch
<1>5. ASSUME NEW a \in {"ok", "error"}, a = "ok" \/ x.kind = "site",
             sent' = [sent EXCEPT ![b] = [x EXCEPT !.answer = a, !.done = 0]],
             UNCHANGED <<clock, purged, page>>,
             R!Stores(b) \/ (rows' = rows /\ (a = "ok" => x.kind = "backhaul"))
      PROVE  RInv'
  <2> DEFINE y == [x EXCEPT !.answer = a, !.done = 0]
  <2>1. /\ y \in BatchRecord /\ y.kind = x.kind /\ y.how = x.how
        /\ y.items = x.items /\ y.answer = a /\ y.done = 0
        /\ y.received = x.received
    <3>1. x \in BatchRecord
      BY <1>1
    <3> HIDE DEF x
    <3>2. QED
      BY <3>1, AnswerChanges
  <2>2. sent' = [sent EXCEPT ![b] = y]
    BY <1>5
  <2> HIDE DEF y
  <2>3. BatchSound(y, clock)
    BY <1>1, <1>2, <2>1 DEF BatchSound
  <2>4. QED
    BY <1>1, <1>2, <1>5, <2>1, <2>2, <2>3, ChangedBatch
<1>6. CASE R!Commit(b)
  BY <1>5, <1>6 DEF R!Commit
<1>7. CASE R!CommitFails(b)
  <2>1. x.kind \in {"backhaul", "site"}
    BY <1>1 DEF BatchSound, BatchRecord, R!Kinds
  <2>2. PICK a : a = R!CommitError(b)
    OBVIOUS
  <2>3. a = IF x.kind = "site" THEN "error" ELSE "ok"
    BY <2>2 DEF R!CommitError
  <2>4. /\ sent' = [sent EXCEPT ![b] = [x EXCEPT !.answer = a, !.done = 0]]
        /\ R!Stores(b) \/ rows' = rows
        /\ UNCHANGED <<clock, purged, page>>
    BY <1>7, <2>2 DEF R!CommitFails
  <2>5. QED
    BY <1>5, <2>1, <2>3, <2>4
<1>8. QED
  BY <1>3, <1>4, <1>6, <1>7

(* A client turns its pages. *)
LEMMA PageTurned ==
    ASSUME RInv, UNCHANGED <<clock, sent, rows, purged>>, PageShapes', NEW k, NEW t,
           page'.kind = k, page'.tag = t,
           (page'.pc # "idle" /\ ~page'.shifted) =>
               /\ page'.had \subseteq R!Matching(k, t)
               /\ \A r \in page'.had \ page'.seen :
                     \/ Tied(r, k)
                     \/ /\ page'.pc \in {"rows", "count"}
                        /\ Rank(Where(k, t), r)
                              >= IF page'.pc = "count" THEN page'.offset + PageSize
                                                       ELSE page'.offset
    PROVE  RInv'
<1>1. SendingSound'
  BY DEF RInv, SendingSound, RowsSound, StoredSound, R!StoredOf, R!Present
<1>2. R!Matching(k, t)' = R!Matching(k, t) /\ Where(k, t)' = Where(k, t)
  BY DEF R!Matching, R!Named, R!Table, R!Kind, R!Reading, Where, R!SiteWhere, R!BackhaulWhere
<1>3. \A r : Tied(r, k)' <=> Tied(r, k)
  BY DEF Tied, R!Table, R!Kind, R!Reading
<1>4. ASSUME NEW r
      PROVE  Rank(Where(page.kind, page.tag), r)' = Rank(Where(k, t), r)
  <2>1. Where(page.kind, page.tag)' = Where(k, t)
    BY <1>2
  <2>2. QED
    BY <2>1 DEF Rank, Above, R!Reading
<1>5. PageSound'
  <2> SUFFICES ASSUME page'.pc # "idle", ~page'.shifted
               PROVE  /\ page'.had \subseteq R!Matching(page.kind, page.tag)'
                      /\ \A r \in page'.had \ page'.seen : Tied(r, page.kind)' \/ Coming(r)'
    BY DEF PageSound
  <2>1. page'.had \subseteq R!Matching(page.kind, page.tag)'
    BY <1>2
  <2>2. ASSUME NEW r \in page'.had \ page'.seen
        PROVE  Tied(r, page.kind)' \/ Coming(r)'
    <3>1. CASE Tied(r, k)
      BY <1>3, <3>1
    <3>2. CASE /\ page'.pc \in {"rows", "count"}
               /\ Rank(Where(k, t), r) >= IF page'.pc = "count" THEN page'.offset + PageSize
                                                                ELSE page'.offset
      BY <1>4, <3>2 DEF Coming
    <3>3. QED
      BY <3>1, <3>2
  <2>3. QED
    BY <2>1, <2>2
<1>6. QED
  BY <1>1, <1>5 DEF RInv

LEMMA TablesOfAPage ==
    ASSUME SendingSound, NEW k, NEW t
    PROVE  /\ R!Matching(k, t) \in SUBSET rows /\ Where(k, t) \in SUBSET rows
           /\ Where(k, t) = IF k = "site" THEN R!SiteWhere ELSE R!BackhaulWhere(t)
           /\ k \in {"backhaul", "site"} => /\ R!Matching(k, t) \subseteq Where(k, t)
                                           /\ Where(k, t) \subseteq R!Table(k)
           /\ IsFiniteSet(Where(k, t)) /\ Cardinality(Where(k, t)) \in Nat
           /\ \A r : Rank(Where(k, t), r) \in Nat
           /\ \A r \in Where(k, t) : R!Reading(r).measured \in Nat
           /\ rows \subseteq [batch : DOMAIN sent, item : {1, 2}] /\ DOMAIN sent \subseteq Nat
<1>1. R!Matching(k, t) \in SUBSET rows /\ Where(k, t) \in SUBSET rows
  BY DEF R!Matching, R!Named, R!Table, Where, R!SiteWhere, R!BackhaulWhere
<1>2. k \in {"backhaul", "site"} => /\ R!Matching(k, t) \subseteq Where(k, t)
                                   /\ Where(k, t) \subseteq R!Table(k)
  BY DEF R!Matching, R!Named, Where, R!SiteWhere, R!BackhaulWhere
<1>3. rows \subseteq [batch : DOMAIN sent, item : {1, 2}] /\ DOMAIN sent \subseteq Nat
  BY SentBatches DEF SendingSound, RowsSound
<1>4. \A r \in Where(k, t) : R!Reading(r).measured \in Nat
  BY <1>1, RowReadings
<1>5. QED
  BY <1>1, <1>2, <1>3, <1>4, TablesAreFinite DEF Where

LEMMA NoPageKeepsRInv ==
    ASSUME RInv, UNCHANGED <<clock, sent, rows, purged>>, page' = R!NoPage
    PROVE  RInv'
<1>1. PageShapes' /\ page'.pc = "idle"
  BY DEF R!NoPage, PageShapes
<1>2. QED
  BY <1>1, PageTurned

LEMMA AskKeepsRInv ==
    ASSUME RInv, NEW k \in R!Kinds, NEW t \in Tags \cup {None}, R!Ask(k, t)
    PROVE  RInv'
<1>1. PICK had : had = R!Matching(k, t)
  OBVIOUS
<1>2. SendingSound /\ had \in SUBSET rows
  BY <1>1, TablesOfAPage DEF RInv
<1>3. page' = [pc |-> "rows", kind |-> k, tag |-> t, offset |-> 0, had |-> had,
               seen |-> {}, shifted |-> FALSE]
      /\ UNCHANGED <<clock, sent, rows, purged>>
  BY <1>1 DEF R!Ask, R!NoPage
<1>4. had \subseteq [batch : DOMAIN sent, item : {1, 2}] /\ DOMAIN sent \subseteq Nat
  BY <1>2, TablesOfAPage
<1>5. had \in SUBSET [batch : Nat, item : {1, 2}]
  BY <1>4
<1>6. PageShapes'
  BY <1>3, <1>4, <1>5 DEF PageShapes
<1>7. \A r : Rank(Where(k, t), r) >= 0
  BY <1>2, TablesOfAPage
<1>8. QED
  BY <1>1, <1>3, <1>6, <1>7, PageTurned

(* The rows of a page: who is not shown on it is not due yet, or has a tie. *)
LEMMA ListKeepsRInv ==
    ASSUME RInv, NEW k \in {"backhaul", "site"}, NEW t, page.kind = k, page.tag = t,
           NEW filter, filter \in {None, t}, R!Page(Where(k, t), filter)
    PROVE  RInv'
<1>1. SendingSound /\ PageShapes /\ PageSound
  BY DEF RInv
<1> DEFINE W == Where(k, t)
<1>2. PICK o, before, now, seen :
         /\ o \in Nat /\ before \in R!Newest(W, o) /\ now \in R!Newest(W \ before, PageSize)
         /\ o = page.offset /\ page.pc = "rows"
         /\ seen = page.seen \cup R!Named(now, filter)
         /\ page' = [page EXCEPT !.pc = "count", !.seen = seen]
         /\ UNCHANGED <<clock, sent, rows, purged>>
  BY <1>1 DEF R!Page, PageShapes
<1>3. W \in SUBSET rows /\ IsFiniteSet(W) /\ R!Matching(k, t) \subseteq W
      /\ W \subseteq R!Table(k) /\ (\A r \in W : R!Reading(r).measured \in Nat)
      /\ rows \subseteq [batch : DOMAIN sent, item : {1, 2}] /\ DOMAIN sent \subseteq Nat
  BY <1>1, TablesOfAPage
<1> HIDE DEF W
<1>4. now \subseteq W
  <2>1. IsFiniteSet(W \ before)
    BY <1>3, FS_Difference
  <2>2. now \subseteq W \ before
    BY <1>2, <2>1, NewestFacts, ReadingsOfTower
  <2>3. QED
    BY <2>2
<1>5. seen \subseteq [batch : DOMAIN sent, item : {1, 2}]
  BY <1>1, <1>2, <1>3, <1>4 DEF PageShapes, R!Named
<1>6. seen \in SUBSET [batch : Nat, item : {1, 2}]
  BY <1>3, <1>5
<1>7. /\ page'.pc = "count" /\ page'.kind = k /\ page'.tag = t /\ page'.offset = o
      /\ page'.had = page.had /\ page'.seen = seen /\ page'.shifted = page.shifted
  BY <1>1, <1>2 DEF PageShapes
<1>8. PageShapes'
  BY <1>1, <1>2, <1>5, <1>6, <1>7 DEF PageShapes
<1>9. ASSUME ~page.shifted
      PROVE  /\ page.had \subseteq R!Matching(k, t)
             /\ \A r \in page.had \ seen : Tied(r, k) \/ Rank(W, r) >= o + PageSize
  <2>1. /\ page.had \subseteq R!Matching(k, t)
        /\ \A r \in page.had \ page.seen : Tied(r, k) \/ Coming(r)
    BY <1>1, <1>2, <1>9 DEF PageSound
  <2>2. ASSUME NEW r \in page.had \ seen, ~Tied(r, k)
        PROVE  Rank(W, r) >= o + PageSize
    <3>1. r \in W /\ Coming(r) /\ r \notin R!Named(now, filter) /\ r \in R!Matching(k, t)
      BY <1>2, <1>3, <2>1, <2>2
    <3>2. Rank(W, r) >= o
      BY <1>2, <3>1 DEF Coming, W
    <3>3. r \notin now
      BY <3>1 DEF R!Named, R!Matching
    <3>4. \A s \in W \ {r} : R!Reading(s).measured # R!Reading(r).measured
      BY <1>3, <2>2 DEF Tied
    <3>5. QED
      BY <1>2, <1>3, <3>1, <3>2, <3>3, <3>4, PageReaches
  <2>3. QED
    BY <2>1, <2>2
<1>10. QED
  BY <1>2, <1>7, <1>8, <1>9, PageTurned DEF W

(* The total: no row is due after the last page. *)
LEMMA TotalKeepsRInv ==
    ASSUME RInv, NEW k \in {"backhaul", "site"}, NEW t, page.kind = k, page.tag = t,
           R!MorePages(Cardinality(Where(k, t)))
    PROVE  RInv'
<1>1. SendingSound /\ PageShapes /\ PageSound
  BY DEF RInv
<1> DEFINE W == Where(k, t)
<1>2. PICK o, n, pc :
         /\ o = page.offset /\ page.pc = "count"
         /\ \/ o + PageSize < Cardinality(W) /\ pc = "rows" /\ n = o + PageSize
            \/ ~(o + PageSize < Cardinality(W)) /\ pc = "done" /\ n = 0
         /\ page' = [page EXCEPT !.pc = pc, !.offset = n]
         /\ UNCHANGED <<clock, sent, rows, purged>>
  BY DEF R!MorePages
<1>3. W \in SUBSET rows /\ IsFiniteSet(W) /\ R!Matching(k, t) \subseteq W
      /\ Cardinality(W) \in Nat /\ (\A r : Rank(W, r) \in Nat)
      /\ (\A r \in W : R!Reading(r).measured \in Nat)
  BY <1>1, TablesOfAPage
<1> HIDE DEF W
<1>4. o \in Nat /\ PageSize \in Nat /\ n \in Nat /\ pc \in {"rows", "done"}
  BY <1>1, <1>2, ReadingsOfTower DEF PageShapes
<1>5. /\ page'.pc = pc /\ page'.kind = k /\ page'.tag = t /\ page'.offset = n
      /\ page'.had = page.had /\ page'.seen = page.seen /\ page'.shifted = page.shifted
  BY <1>1, <1>2 DEF PageShapes
<1>6. PageShapes'
  BY <1>1, <1>2, <1>4, <1>5 DEF PageShapes
<1>7. ASSUME ~page.shifted
      PROVE  /\ page.had \subseteq R!Matching(k, t)
             /\ \A r \in page.had \ page.seen : Tied(r, k) \/ (pc = "rows" /\ Rank(W, r) >= n)
  <2>1. /\ page.had \subseteq R!Matching(k, t)
        /\ \A r \in page.had \ page.seen : Tied(r, k) \/ Coming(r)
    BY <1>1, <1>2, <1>7 DEF PageSound
  <2>2. ASSUME NEW r \in page.had \ page.seen, ~Tied(r, k)
        PROVE  pc = "rows" /\ Rank(W, r) >= n
    <3>1. r \in W /\ Coming(r)
      BY <1>3, <2>1, <2>2
    <3>2. Rank(W, r) >= o + PageSize
      BY <1>2, <3>1 DEF Coming, W
    <3>3. Rank(W, r) < Cardinality(W)
      BY <1>3, <3>1, RankIsBelowCount
    <3>4. QED
      BY <1>2, <1>3, <1>4, <3>2, <3>3
  <2>3. QED
    BY <2>1, <2>2
<1>8. QED
  BY <1>2, <1>5, <1>6, <1>7, PageTurned DEF W

(* Old rows are deleted. *)
LEMMA DeleteKeepsRInv ==
    ASSUME RInv, NEW k, NEW t, R!Delete(k, t)
    PROVE  RInv'
<1>1. PICK gone :
         /\ gone \subseteq rows /\ rows' = rows \ gone
         /\ purged' = purged \cup {r.batch : r \in gone}
         /\ page' = [page EXCEPT !.shifted = page.pc # "idle"]
         /\ UNCHANGED <<clock, sent>>
  BY DEF R!Delete, R!Table
<1>2. SendingSound /\ PageShapes
  BY DEF RInv
<1>3. /\ page'.pc = page.pc /\ page'.shifted = (page.pc # "idle") /\ page'.had = page.had
      /\ page'.seen = page.seen /\ PageShapes'
  BY <1>1, <1>2 DEF PageShapes
<1>4. PageSound'
  BY <1>3 DEF PageSound
<1>5. RowsSound'
  <2>1. IsFiniteSet(rows')
    BY <1>1, <1>2, FS_Difference DEF SendingSound, RowsSound
  <2>2. QED
    BY <1>1, <1>2, <2>1 DEF SendingSound, RowsSound, R!Present
<1>6. purged' \subseteq DOMAIN sent'
  BY <1>1, <1>2 DEF SendingSound, RowsSound
<1>7. ASSUME NEW b \in DOMAIN sent
      PROVE  StoredSound(b)'
  <2>1. StoredSound(b) /\ R!Present(b)' = R!Present(b) /\ sent' = sent
    BY <1>1, <1>2 DEF SendingSound, R!Present
  <2>2. R!StoredOf(b)' \subseteq R!StoredOf(b)
    BY <1>1 DEF R!StoredOf
  <2>3. CASE b \in purged'
    BY <2>1, <2>2, <2>3 DEF StoredSound
  <2>4. CASE b \notin purged'
    <3>1. b \notin purged /\ \A r \in gone : r.batch # b
      BY <1>1, <2>4
    <3>2. R!StoredOf(b)' = R!StoredOf(b)
      BY <1>1, <3>1 DEF R!StoredOf
    <3>3. QED
      BY <2>1, <3>1, <3>2 DEF StoredSound
  <2>5. QED
    BY <2>3, <2>4
<1>8. SendingSound'
  BY <1>1, <1>2, <1>5, <1>6, <1>7 DEF SendingSound
<1>9. QED
  BY <1>3, <1>4, <1>8 DEF RInv

LEMMA TickKeepsRInv ==
    ASSUME RInv, R!Tick
    PROVE  RInv'
<1>1. clock' = clock + 1 /\ clock < MaxClock /\ UNCHANGED <<sent, rows, purged, page>>
  BY DEF R!Tick
<1>2. SendingSound /\ clock \in 0 .. MaxClock /\ MaxClock \in Nat /\ R!Ahead = 1
  BY ReadingsOfTower DEF RInv, SendingSound
<1>3. clock' \in 0 .. MaxClock
  BY <1>1, <1>2
<1>4. ASSUME NEW b \in DOMAIN sent
      PROVE  BatchSound(sent[b], clock')
  <2>1. BatchSound(sent[b], clock)
        /\ \A i \in DOMAIN sent[b].items : sent[b].items[i] \in Item \cup {None}
    BY <1>2, SentBatches DEF SendingSound
  <2>2. \A y \in Item : y.measured \in Nat
    BY ReadingsOfTower DEF Item
  <2>3. QED
    BY <1>1, <1>2, <2>1, <2>2 DEF BatchSound
<1>5. SendingSound'
  BY <1>1, <1>2, <1>3, <1>4
  DEF SendingSound, RowsSound, StoredSound, R!StoredOf, R!Present
<1>6. \A r \in rows : /\ sent'[r.batch].items[r.item] = sent[r.batch].items[r.item]
                      /\ sent'[r.batch].kind = sent[r.batch].kind
  BY <1>1
<1>7. PageShapes' /\ PageSound'
  BY <1>1, <1>5, <1>6, GrowingTables
<1>8. QED
  BY <1>5, <1>7 DEF RInv

LEMMA RInvAtFirst == R!Init => RInv
<1> SUFFICES ASSUME R!Init
             PROVE  RInv
  OBVIOUS
<1>1. clock = 0 /\ sent = <<>> /\ rows = {} /\ purged = {} /\ page = R!NoPage
  BY DEF R!Init
<1>2. sent \in Seq(BatchRecord) /\ Len(sent) = 0 /\ DOMAIN sent = {}
  BY <1>1
<1>3. IsFiniteSet(rows)
  BY <1>1, FS_EmptySet
<1>4. SendingSound
  BY <1>1, <1>2, <1>3, ReadingsOfTower DEF SendingSound, RowsSound
<1>5. PageShapes /\ PageSound
  BY <1>1 DEF PageShapes, PageSound, R!NoPage
<1>6. QED
  BY <1>4, <1>5 DEF RInv

LEMMA RInvIsKept ==
    ASSUME RInv, R!Next \/ UNCHANGED readingVars
    PROVE  RInv'
<1>1. CASE UNCHANGED readingVars
  <2>1. UNCHANGED <<clock, sent, rows, purged>> /\ page' = page
    BY <1>1 DEF readingVars
  <2>2. SendingSound'
    BY <2>1 DEF RInv, SendingSound, RowsSound, StoredSound, R!StoredOf, R!Present
  <2>3. PageShapes' /\ PageSound'
    BY <2>1, <2>2, GrowingTables
  <2>4. QED
    BY <2>2, <2>3 DEF RInv
<1>2. CASE R!BackhaulAsk \/ R!RadioAsk \/ R!SiteAsk
  BY <1>2, AskKeepsRInv, ReadingsOfTower DEF R!BackhaulAsk, R!RadioAsk, R!SiteAsk, R!Kinds
<1>3. PICK k, t : k = page.kind /\ t = page.tag
  OBVIOUS
<1>4. CASE R!BackhaulList
  <2>1. k = "backhaul" /\ Where(k, t) = R!BackhaulWhere(t)
    BY <1>3, <1>4 DEF R!BackhaulList, Where
  <2>2. R!Page(Where(k, t), None)
    BY <1>3, <1>4, <2>1 DEF R!BackhaulList
  <2>3. QED
    BY <1>3, <2>1, <2>2, ListKeepsRInv
<1>5. CASE R!SiteList
  <2>1. k = "site" /\ Where(k, t) = R!SiteWhere
    BY <1>3, <1>5 DEF R!SiteList, Where
  <2>2. R!Page(Where(k, t), t)
    BY <1>3, <1>5, <2>1 DEF R!SiteList
  <2>3. QED
    BY <1>3, <2>1, <2>2, ListKeepsRInv
<1>6. CASE R!RadioList \/ R!Leave
  BY <1>6, NoPageKeepsRInv DEF R!RadioList, R!Leave
<1>7. CASE R!BackhaulTotal
  <2>1. k = "backhaul" /\ Where(k, t) = R!BackhaulWhere(t)
    BY <1>3, <1>7 DEF R!BackhaulTotal, Where
  <2>2. R!MorePages(Cardinality(Where(k, t)))
    BY <1>3, <1>7, <2>1, SameCardinality DEF R!BackhaulTotal, R!BackhaulCount
  <2>3. QED
    BY <1>3, <2>1, <2>2, TotalKeepsRInv
<1>8. CASE R!SiteTotal
  <2>1. k = "site" /\ Where(k, t) = R!SiteWhere
    BY <1>3, <1>8 DEF R!SiteTotal, Where
  <2>2. R!MorePages(Cardinality(Where(k, t)))
    BY <1>3, <1>8, <2>1, SameCardinality DEF R!SiteTotal, R!SiteCount
  <2>3. QED
    BY <1>3, <2>1, <2>2, TotalKeepsRInv
<1>9. CASE R!BackhaulDeleteOlderThan \/ R!SiteDeleteOlderThan
  BY <1>9, DeleteKeepsRInv DEF R!BackhaulDeleteOlderThan, R!SiteDeleteOlderThan
<1>10. QED
  BY <1>1, <1>2, <1>4, <1>5, <1>6, <1>7, <1>8, <1>9, SendersKeepRInv, TransactionsKeepRInv,
     TickKeepsRInv DEF R!Next, R!Send, R!Proceed

-----------------------------------------------------------------------------
\* The tables of readings and the polls of NetEco.  A batch is stored whole or not at
\* all, who is told that his readings are stored finds them unless the commit of a
\* backhaul batch failed, only such batches bring the latest reading of an interface
\* from the future, a tower's status shows the latest readings, and a client sees every
\* row that was there when it began except ties.  A poll of NetEco survives the loss of
\* one session, and a point of the history is only as old as a fetch that failed.
THEOREM ReadingsAreKept == TablesSpec => []TablesInv
<1>1. TablesInit => NInv /\ RInv
  BY NInvAtFirst, RInvAtFirst DEF TablesInit
<1>2. NInv /\ RInv /\ [TablesNext]_all => NInv' /\ RInv'
  <2> SUFFICES ASSUME NInv, RInv, [TablesNext]_all
               PROVE  NInv' /\ RInv'
    OBVIOUS
  <2>1. \/ N!Next
        \/ UNCHANGED sessionVars
    BY DEF TablesNext, all
  <2>2. \/ R!Next
        \/ UNCHANGED readingVars
    BY DEF TablesNext, R!Next, all
  <2>3. QED
    BY <2>1, <2>2, NInvIsKept, RInvIsKept
<1>3. NInv /\ RInv => TablesInv
  BY NInvSuffices, RInvSuffices DEF TablesInv
<1>4. QED
  BY <1>1, <1>2, <1>3, PTL DEF TablesSpec
=============================================================================
