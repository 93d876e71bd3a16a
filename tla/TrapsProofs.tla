----------------------------- MODULE TrapsProofs -----------------------------
(***************************************************************************)
(* The theorem about NetEco's traps (NetEcoTraps), the third of the feeds  *)
(* that MCFeeds puts side by side.                                         *)
(*                                                                         *)
(* The invariant, TrInv, speaks of the traps on the wires: what an event   *)
(* or an alarm lacks is still to come, behind everything that would undo   *)
(* it.  Sequences come first, then what the invariant says, then the steps *)
(* that keep each of its parts.                                            *)
(***************************************************************************)
EXTENDS FeedsProofs

(* Sequences of traps.                                                       *)
Has(s, R) == \E i \in 1 .. Len(s) : s[i] \in R

(* After each of R there is one of U.                                        *)
Followed(s, R, U) ==
    \A i \in 1 .. Len(s) : s[i] \in R => \E j \in 1 .. Len(s) : j > i /\ s[j] \in U

(* How many of U there are before place i.                                   *)
Places(s, U, i) == {j \in 1 .. Len(s) : j < i /\ s[j] \in U}
CountBefore(s, U, i) == Cardinality(Places(s, U, i))
CountOf(s, U) == CountBefore(s, U, Len(s) + 1)

LEMMA AppendHas ==
    ASSUME NEW S, NEW s \in Seq(S), NEW e \in S, NEW R
    PROVE  Has(Append(s, e), R) <=> Has(s, R) \/ e \in R
<1> DEFINE a == Append(s, e)
<1>1. /\ Len(a) = Len(s) + 1
      /\ \A i \in 1 .. Len(s) : a[i] = s[i]
      /\ a[Len(s) + 1] = e
  BY AppendProperties
<1> HIDE DEF a
<1>2. Len(s) \in Nat
  OBVIOUS
<1>3. 1 .. Len(a) = (1 .. Len(s)) \cup {Len(s) + 1}
  BY <1>1, <1>2
<1>4. Has(a, R) <=> Has(s, R) \/ e \in R
  BY <1>1, <1>3 DEF Has
<1>5. QED
  BY <1>4 DEF a

LEMMA TailHas ==
    ASSUME NEW S, NEW s \in Seq(S), s # <<>>, NEW R
    PROVE  Has(s, R) <=> Has(Tail(s), R) \/ Head(s) \in R
<1> DEFINE r == Tail(s)
<1>1. /\ Len(r) = Len(s) - 1 /\ Len(s) \in Nat /\ Len(s) # 0
      /\ \A i \in 1 .. Len(r) : r[i] = s[i + 1]
  BY HeadTailProperties
<1>2. Head(s) = s[1]
  OBVIOUS
<1> HIDE DEF r
<1>3. 1 \in 1 .. Len(s) /\ \A i \in 1 .. Len(r) : i + 1 \in 1 .. Len(s)
  BY <1>1
<1>4. \A i \in 1 .. Len(s) : i = 1 \/ (i - 1 \in 1 .. Len(r) /\ (i - 1) + 1 = i)
  BY <1>1
<1>5. Has(s, R) => Has(r, R) \/ Head(s) \in R
  BY <1>1, <1>2, <1>4 DEF Has
<1>6. Has(r, R) \/ Head(s) \in R => Has(s, R)
  BY <1>1, <1>2, <1>3 DEF Has
<1>7. QED
  BY <1>5, <1>6 DEF r

LEMMA AppendFollowed ==
    ASSUME NEW S, NEW s \in Seq(S), NEW e \in S, NEW R, NEW U, R \cap U = {},
           e \in U \/ (e \notin R /\ Followed(s, R, U))
    PROVE  Followed(Append(s, e), R, U)
<1> DEFINE a == Append(s, e)
<1>1. /\ Len(a) = Len(s) + 1
      /\ \A i \in 1 .. Len(s) : a[i] = s[i]
      /\ a[Len(s) + 1] = e
  BY AppendProperties
<1> HIDE DEF a
<1>2. Len(s) \in Nat
  OBVIOUS
<1>3. 1 .. Len(a) = (1 .. Len(s)) \cup {Len(s) + 1} /\ \A i \in 1 .. Len(s) : Len(s) + 1 > i
  BY <1>1, <1>2
<1>4. ASSUME e \in U
      PROVE  Followed(a, R, U)
  BY <1>1, <1>3, <1>4 DEF Followed
<1>5. ASSUME e \notin R, Followed(s, R, U)
      PROVE  Followed(a, R, U)
  BY <1>1, <1>3, <1>5 DEF Followed
<1>6. Followed(a, R, U)
  BY <1>4, <1>5
<1>7. QED
  BY <1>6 DEF a

LEMMA TailFollowed ==
    ASSUME NEW S, NEW s \in Seq(S), s # <<>>, NEW R, NEW U, R \cap U = {}, Followed(s, R, U)
    PROVE  /\ Followed(Tail(s), R, U)
           /\ Head(s) \in R => Has(Tail(s), U)
<1> DEFINE r == Tail(s)
<1>1. /\ Len(r) = Len(s) - 1 /\ Len(s) \in Nat /\ Len(s) # 0
      /\ \A i \in 1 .. Len(r) : r[i] = s[i + 1]
  BY HeadTailProperties
<1>2. Head(s) = s[1]
  OBVIOUS
<1> HIDE DEF r
<1>3. 1 \in 1 .. Len(s) /\ \A i \in 1 .. Len(r) : i \in Nat /\ i + 1 \in 1 .. Len(s)
  BY <1>1
<1>4. \A j \in 1 .. Len(s) : j # 1 => j - 1 \in 1 .. Len(r) /\ r[j - 1] = s[j] /\ j \in Nat
  <2>1. \A j \in 1 .. Len(s) : j # 1 => j - 1 \in 1 .. Len(r) /\ (j - 1) + 1 = j /\ j \in Nat
    BY <1>1
  <2>2. QED
    BY <1>1, <2>1
<1>5. Followed(r, R, U)
  <2> SUFFICES ASSUME NEW i \in 1 .. Len(r), r[i] \in R
               PROVE  \E j \in 1 .. Len(r) : j > i /\ r[j] \in U
    BY DEF Followed
  <2>1. s[i + 1] \in R
    BY <1>1
  <2>2. PICK j \in 1 .. Len(s) : j > i + 1 /\ s[j] \in U
    BY <1>3, <2>1 DEF Followed
  <2>3. j # 1 /\ j - 1 > i
    BY <1>3, <2>2
  <2>4. QED
    BY <1>4, <2>2, <2>3
<1>6. Head(s) \in R => Has(r, U)
  <2> SUFFICES ASSUME s[1] \in R PROVE Has(r, U)
    BY <1>2
  <2>1. PICK j \in 1 .. Len(s) : j > 1 /\ s[j] \in U
    BY <1>3 DEF Followed
  <2>2. QED
    BY <1>4, <2>1 DEF Has
<1>7. QED
  BY <1>5, <1>6 DEF r

LEMMA CountType ==
    ASSUME NEW S, NEW s \in Seq(S), NEW U, NEW i
    PROVE  IsFiniteSet(Places(s, U, i)) /\ CountBefore(s, U, i) \in Nat
<1>1. Places(s, U, i) \in SUBSET (1 .. Len(s)) /\ Len(s) \in Nat
  BY DEF Places
<1>2. IsFiniteSet(1 .. Len(s))
  <2>1. 1 \in Int /\ Len(s) \in Int
    BY <1>1
  <2>2. QED
    BY <2>1, FS_Interval
<1>3. IsFiniteSet(Places(s, U, i))
  BY <1>1, <1>2, FS_Subset
<1>4. QED
  BY <1>3, FS_CardinalityType DEF CountBefore

LEMMA AppendCount ==
    ASSUME NEW S, NEW s \in Seq(S), NEW e \in S, NEW U
    PROVE  /\ \A i \in 1 .. Len(s) + 1 : CountBefore(Append(s, e), U, i) = CountBefore(s, U, i)
           /\ CountOf(Append(s, e), U) = CountOf(s, U) + (IF e \in U THEN 1 ELSE 0)
<1> DEFINE a == Append(s, e)
           last == Len(s) + 1
<1>1. /\ Len(a) = Len(s) + 1
      /\ \A i \in 1 .. Len(s) : a[i] = s[i]
      /\ a[Len(s) + 1] = e
  BY AppendProperties
<1> HIDE DEF a
<1>2. Len(s) \in Nat
  OBVIOUS
<1>3. 1 .. Len(a) = (1 .. Len(s)) \cup {last} /\ \A i \in 1 .. last : ~(last < i)
  BY <1>1, <1>2
<1>4. \A i \in 1 .. last : Places(a, U, i) = Places(s, U, i)
  BY <1>1, <1>3 DEF Places
<1>5. \A i \in 1 .. last : CountBefore(a, U, i) = CountBefore(s, U, i)
  BY <1>4 DEF CountBefore
<1>6. Places(a, U, last + 1) = Places(s, U, last) \cup (IF e \in U THEN {last} ELSE {})
  <2>1. last < last + 1 /\ \A j \in 1 .. Len(s) : j < last + 1 /\ j < last
    BY <1>2
  <2>2. QED
    BY <1>1, <1>3, <2>1 DEF Places
<1>7. last \notin Places(s, U, last)
  BY <1>2 DEF Places
<1>8. IsFiniteSet(Places(s, U, last)) /\ CountBefore(s, U, last) \in Nat
  BY CountType
<1>9. CountBefore(a, U, last + 1) = CountBefore(s, U, last) + (IF e \in U THEN 1 ELSE 0)
  <2>1. CASE e \in U
    <3>1. Cardinality(Places(s, U, last) \cup {last}) = Cardinality(Places(s, U, last)) + 1
      BY <1>7, <1>8, FS_AddElement
    <3>2. QED
      BY <1>6, <2>1, <3>1 DEF CountBefore
  <2>2. CASE e \notin U
    <3>1. Places(a, U, last + 1) = Places(s, U, last)
      BY <1>6, <2>2
    <3>2. QED
      BY <1>8, <2>2, <3>1 DEF CountBefore
  <2>3. QED
    BY <2>1, <2>2
<1>10. CountOf(a, U) = CountBefore(a, U, last + 1) /\ CountOf(s, U) = CountBefore(s, U, last)
  BY <1>1 DEF CountOf
<1>11. QED
  BY <1>5, <1>9, <1>10 DEF a

LEMMA TailCount ==
    ASSUME NEW S, NEW s \in Seq(S), s # <<>>, NEW U
    PROVE  /\ \A i \in 1 .. Len(s) :
                CountBefore(s, U, i + 1) = CountBefore(Tail(s), U, i) + (IF Head(s) \in U THEN 1 ELSE 0)
           /\ CountOf(s, U) = CountOf(Tail(s), U) + (IF Head(s) \in U THEN 1 ELSE 0)
<1> DEFINE r == Tail(s)
<1>1. /\ Len(r) = Len(s) - 1 /\ Len(s) \in Nat /\ Len(s) # 0
      /\ r \in Seq(S)
      /\ \A i \in 1 .. Len(r) : r[i] = s[i + 1]
  BY HeadTailProperties
<1>2. Head(s) = s[1]
  OBVIOUS
<1> HIDE DEF r
<1>3. ASSUME NEW i \in 1 .. Len(s)
      PROVE  CountBefore(s, U, i + 1) = CountBefore(r, U, i) + (IF Head(s) \in U THEN 1 ELSE 0)
  <2> DEFINE P == Places(r, U, i)
             Q == {j + 1 : j \in P}
             f == [j \in P |-> j + 1]
  <2>1. P \in SUBSET Nat /\ IsFiniteSet(P) /\ CountBefore(r, U, i) \in Nat
    <3>1. P \in SUBSET Nat
      BY DEF Places
    <3>2. QED
      BY <1>1, <3>1, CountType
  <2>2. IsFiniteSet(Q) /\ Cardinality(Q) = Cardinality(P)
    <3>1. f \in [P -> Q] /\ (\A j, k \in P : f[j] = f[k] => j = k) /\ \A q \in Q : \E j \in P : f[j] = q
      BY <2>1
    <3>2. f \in Bijection(P, Q)
      <4> HIDE DEF f, P, Q
      <4>1. QED
        BY <3>1 DEF Bijection, Injection, Surjection, IsInjective
    <3>3. ExistsBijection(P, Q)
      BY <3>2 DEF ExistsBijection
    <3>4. QED
      BY <2>1, <3>3, FS_Bijection
  <2>3. \A j \in 1 .. Len(s) : j = 1 \/ (j - 1 \in 1 .. Len(r) /\ r[j - 1] = s[j] /\ (j - 1) + 1 = j
                                          /\ (j < i + 1 => j - 1 < i))
    <3>1. \A j \in 1 .. Len(s) : j = 1 \/ (j - 1 \in 1 .. Len(r) /\ (j - 1) + 1 = j
                                            /\ (j < i + 1 => j - 1 < i))
      BY <1>1
    <3>2. QED
      BY <1>1, <3>1
  <2>4. \A j \in 1 .. Len(r) : j + 1 \in 1 .. Len(s) /\ j + 1 # 1 /\ (j < i => j + 1 < i + 1)
    BY <1>1
  <2>5. 1 \in 1 .. Len(s) /\ 1 < i + 1
    BY <1>1
  <2>6. Places(s, U, i + 1) = Q \cup (IF Head(s) \in U THEN {1} ELSE {}) /\ 1 \notin Q
    <3>1. Places(s, U, i + 1) \subseteq Q \cup (IF Head(s) \in U THEN {1} ELSE {})
      BY <1>2, <2>3 DEF Places
    <3>2. Q \subseteq Places(s, U, i + 1) /\ 1 \notin Q
      BY <1>1, <2>4 DEF Places
    <3>3. Head(s) \in U => 1 \in Places(s, U, i + 1)
      BY <1>2, <2>5 DEF Places
    <3>4. QED
      BY <3>1, <3>2, <3>3
  <2> HIDE DEF P, Q
  <2>7. CASE Head(s) \in U
    <3>1. Cardinality(Q \cup {1}) = Cardinality(Q) + 1
      BY <2>2, <2>6, FS_AddElement
    <3>2. QED
      BY <2>2, <2>6, <2>7, <3>1 DEF CountBefore, P
  <2>8. CASE Head(s) \notin U
    <3>1. Places(s, U, i + 1) = Q
      BY <2>6, <2>8
    <3>2. QED
      BY <2>1, <2>2, <2>8, <3>1 DEF CountBefore, P
  <2>9. QED
    BY <2>7, <2>8
<1>4. CountOf(s, U) = CountBefore(s, U, Len(s) + 1) /\ CountOf(r, U) = CountBefore(r, U, Len(s))
  <2>1. Len(r) + 1 = Len(s)
    BY <1>1
  <2>2. QED
    BY <2>1 DEF CountOf
<1>5. Len(s) \in 1 .. Len(s)
  BY <1>1
<1>6. QED
  BY <1>3, <1>4, <1>5 DEF r

-----------------------------------------------------------------------------
(* NetEco's traps.                                                           *)
Alarms == {T!Trap(p, k, no) : p \in Problems, k \in {1, 2}, no \in 1 .. MaxTraps}
Noise ==
    {[agent |-> TRUE, EventType |-> 0, NEID |-> None, AlarmNo |-> 0]} \cup
    {[agent |-> FALSE, EventType |-> 0, NEID |-> None, AlarmNo |-> no] : no \in 1 .. MaxTraps}

RaisesOf(K) == {t \in Alarms : t.EventType = 1 /\ T!buildNetEcoAlarmKey(t) = K}
ClearsOf(K) == {t \in Alarms : t.EventType = 2 /\ T!buildNetEcoAlarmKey(t) = K}

FaultKey(n) == <<n, <<"fault", 0>>>>
ActiveFaults(n) == {p \in Problems : T!IsFault(p) /\ problem[p].neid = n /\ active[p] # 0}
EventOf(K) == <<T!resolveTowerID(K[1]), K>>
IsOpen(K) == EventOf(K) \in open
OpenCount(K) == IF IsOpen(K) THEN 1 ELSE 0

TrapTypes ==
    /\ crew \in SUBSET Listeners /\ crew # {}
    /\ problem \in [Problems -> TrapKinds]
    /\ active \in [Problems -> 0 .. MaxTraps]
    /\ towers \in [1 .. 2 -> NEIDs \cup {None}]
    /\ wire \in [Listeners -> Seq(Alarms \cup Noise)]

(* An event is of a tower, of a problem's site and text.                     *)
IsOf(K, p) ==
    /\ problem[p].neid = K[1]
    /\ \/ K = FaultKey(K[1]) /\ T!IsFault(p)
       \/ K[2][1] = "" /\ problem[p].text = ""

EventShape == \A e \in open : e[1] \in 1 .. 2 /\ \E p \in Problems : IsOf(e[2], p)

EventsOfTowers == mishaps = {} => \A e \in open : e = EventOf(e[2])

SpareType == spare \in [NEIDs -> Int]

(* Numbers are used once.                                                    *)
NumbersAreNew ==
    /\ number \in 0 .. MaxTraps
    /\ \A p \in Problems : active[p] <= number
    /\ \A p, q \in Problems : active[p] = active[q] /\ active[p] # 0 => p = q

(* One listener and no disorder: each ticket is paid for by a beginning.     *)
Orderly == (\A l, k \in crew : l = k) /\ mishaps \subseteq {"lost"}

TicketsArePaid(l, n) ==
    LET K == FaultKey(n)
        credit == spare[n] + OpenCount(K)
    IN  /\ spare[n] >= 0
        /\ credit >= Cardinality(ActiveFaults(n)) + CountOf(wire[l], ClearsOf(K))
        /\ \A i \in 1 .. Len(wire[l]) :
              wire[l][i] \in RaisesOf(K) => credit >= 1 + CountBefore(wire[l], ClearsOf(K), i)

Paid == Orderly => \A l \in crew, n \in NEIDs : TicketsArePaid(l, n)

(* Nothing went wrong: what is open though its fault is over is about to be  *)
(* closed ...                                                                *)
IsOver(K) ==
    /\ \A l \in crew : Followed(wire[l], RaisesOf(K), ClearsOf(K))
    /\ IsOpen(K) => \E l \in crew : Has(wire[l], ClearsOf(K))

OversClose == mishaps = {} => \A n \in NEIDs : ActiveFaults(n) = {} => IsOver(FaultKey(n))

(* ... and what persists and is not open is about to be opened.              *)
Eligible(p) ==
    /\ active[p] # 0 /\ T!resolveTowerID(problem[p].neid) # 0
    /\ problem[p].severity \in 1 .. 4 /\ problem[p].text # "sem descricao"
    /\ \A q \in Problems \ {p} : problem[q].neid # problem[p].neid \/ ~T!IsFault(q)

KeyOf(p) == T!buildNetEcoAlarmKey(T!Trap(p, 1, active[p]))

Persists(K) ==
    /\ \A l \in crew : Followed(wire[l], ClearsOf(K), RaisesOf(K))
    /\ IsOpen(K) \/ \E l \in crew : Has(wire[l], RaisesOf(K))

PersistentOpen == mishaps = {} => \A p \in Problems : Eligible(p) => Persists(KeyOf(p))

TrInv ==
    /\ TrapTypes /\ EventShape /\ SpareType /\ NumbersAreNew /\ EventsOfTowers
    /\ Paid /\ OversClose /\ PersistentOpen

LEMMA TrapConstants ==
    /\ IsFiniteSet(Problems) /\ None \notin NEIDs
    /\ TowerLimit \in Nat /\ MaxTraps \in Nat /\ MaxMishaps \in Nat
BY TrapParameters DEF T!Parameters, T!IsFiniteSet, IsFiniteSet

LEMMA KindFacts ==
    ASSUME TrapTypes, NEW p \in Problems
    PROVE  /\ problem[p].neid \in NEIDs
           /\ problem[p].text \in {"fault", "FAULT!", "", "sem descricao"}
           /\ problem[p].severity \in {2, 4, 6}
           /\ problem[p].text = "" => problem[p].severity = 4
<1>1. problem[p] \in TrapKinds
  BY DEF TrapTypes
<1>2. QED
  BY <1>1 DEF TrapKinds

(* What an alarm's key says.                                                 *)
LEMMA KeyFacts ==
    ASSUME TrapTypes, NEW p \in Problems, NEW k, NEW no
    PROVE  LET K == T!buildNetEcoAlarmKey(T!Trap(p, k, no))
           IN  /\ T!IsFault(p) => K = FaultKey(problem[p].neid)
               /\ ~T!IsFault(p) => K = <<problem[p].neid, <<problem[p].text, no>>>>
               /\ K[1] = problem[p].neid
               /\ K[2][1] = "fault" <=> T!IsFault(p)
<1> DEFINE t == T!Trap(p, k, no)
           K == T!buildNetEcoAlarmKey(t)
<1>1. t.NEID = problem[p].neid /\ t.Description = problem[p].text /\ t.AlarmNo = no
  BY DEF T!Trap
<1> HIDE DEF t
<1>2. K = <<problem[p].neid, IF problem[p].text \in {"fault", "FAULT!"}
                               THEN <<"fault", 0>> ELSE <<problem[p].text, no>>>>
  BY <1>1 DEF T!buildNetEcoAlarmKey, T!alarmTypeKey
<1>3. QED
  BY <1>2 DEF T!IsFault, FaultKey, t

LEMMA AlarmFacts ==
    ASSUME TrapTypes, NEW t \in Alarms
    PROVE  /\ T!ParseTrap(t)
           /\ \E p \in Problems, k \in {1, 2}, no \in 1 .. MaxTraps : t = T!Trap(p, k, no)
<1>1. PICK p \in Problems, k \in {1, 2}, no \in 1 .. MaxTraps : t = T!Trap(p, k, no)
  BY DEF Alarms
<1>2. t.agent = FALSE /\ t.NEID = problem[p].neid /\ t.AlarmNo = no
  BY <1>1 DEF T!Trap
<1>3. problem[p].neid \in NEIDs
  BY KindFacts
<1>a. no # 0
  OBVIOUS
<1>4. QED
  BY <1>1, <1>2, <1>3, <1>a, TrapConstants DEF T!ParseTrap, T!isHeartbeat

LEMMA NoiseFacts ==
    ASSUME NEW t \in Noise
    PROVE  /\ ~T!ParseTrap(t)
           /\ t.EventType = 0
           /\ \A K : t \notin RaisesOf(K) /\ t \notin ClearsOf(K)
<1>1. ~T!ParseTrap(t) /\ t.EventType = 0
  BY DEF Noise, T!ParseTrap, T!isHeartbeat
<1>2. QED
  BY <1>1 DEF RaisesOf, ClearsOf

LEMMA RaisesAndClears ==
    ASSUME NEW K
    PROVE  RaisesOf(K) \cap ClearsOf(K) = {} /\ ClearsOf(K) \cap RaisesOf(K) = {}
BY DEF RaisesOf, ClearsOf

LEMMA ResolveType ==
    ASSUME TrapTypes, NEW n
    PROVE  T!resolveTowerID(n) \in {0, 1, 2}
<1> DEFINE found == {i \in DOMAIN towers : i <= TowerLimit /\ towers[i] = n}
<1>1. T!resolveTowerID(n) = IF found = {} THEN 0
                            ELSE CHOOSE i \in found : \A j \in found : i <= j
  BY DEF T!resolveTowerID
<1>2. found \subseteq {1, 2}
  BY DEF TrapTypes
<1>3. found # {} => \E i \in found : \A j \in found : i <= j
  <2>1. found \in SUBSET Nat
    BY <1>2
  <2> HIDE DEF found
  <2>2. QED
    BY <2>1, SmallestNumber
<1> HIDE DEF found
<1>4. QED
  BY <1>1, <1>2, <1>3

(* Nothing of what a trap means changes while the problems and towers stay.  *)
LEMMA MeaningStays ==
    ASSUME UNCHANGED problem
    PROVE  /\ Alarms' = Alarms
           /\ \A K : RaisesOf(K)' = RaisesOf(K) /\ ClearsOf(K)' = ClearsOf(K)
           /\ \A p : T!IsFault(p)' <=> T!IsFault(p)
           /\ \A p, k, no : T!Trap(p, k, no)' = T!Trap(p, k, no)
BY DEF Alarms, RaisesOf, ClearsOf, T!IsFault, T!Trap

LEMMA EventsStay ==
    ASSUME UNCHANGED towers
    PROVE  /\ \A n : T!resolveTowerID(n)' = T!resolveTowerID(n)
           /\ \A K : EventOf(K)' = EventOf(K)
           /\ open' = open => \A K : (IsOpen(K)' <=> IsOpen(K)) /\ OpenCount(K)' = OpenCount(K)
<1>1. \A n : T!resolveTowerID(n)' = T!resolveTowerID(n)
  BY DEF T!resolveTowerID
<1>2. \A K : EventOf(K)' = EventOf(K)
  BY <1>1 DEF EventOf
<1>3. QED
  BY <1>1, <1>2 DEF IsOpen, OpenCount

(* What handling an alarm does to the events, by the alarm's key.            *)
LEMMA Handling ==
    ASSUME TrapTypes, EventShape, NEW t \in Alarms, T!HandleTrap(t), NEW K, K = T!buildNetEcoAlarmKey(t)
    PROVE  /\ K[1] = t.NEID
           /\ open' \in {open, open \cup {EventOf(K)}, open \ {EventOf(K)}}
           /\ t.EventType = 2 => EventOf(K) \notin open'
           /\ t.EventType = 1 => open \subseteq open'
           /\ t.EventType = 1 /\ T!Opens(t) /\ T!resolveTowerID(K[1]) # 0 => EventOf(K) \in open'
           /\ EventOf(K) \in open' \ open => T!resolveTowerID(K[1]) # 0 /\ T!Opens(t)
           /\ spare' = [spare EXCEPT ![t.NEID] = IF EventOf(K) \in open' \ open /\ K[2][1] = "fault"
                                                 THEN @ - 1 ELSE @]
<1> DEFINE n == T!resolveTowerID(t.NEID)
<1>1. K[1] = t.NEID
  BY DEF T!buildNetEcoAlarmKey
<1>2. EventOf(K) = <<n, K>> /\ EventOf(K)[1] = n /\ EventOf(K)[2] = K
  BY <1>1 DEF EventOf
<1>3. /\ open' = IF n = 0 THEN open
                 ELSE IF t.EventType = 2 THEN open \ {<<n, K>>}
                 ELSE IF T!Opens(t) THEN open \cup {<<n, K>>} ELSE open
      /\ spare' = [spare EXCEPT ![t.NEID] = IF <<n, K>> \in open' \ open /\ <<n, K>>[2][2][1] = "fault"
                                            THEN @ - 1 ELSE @]
  BY DEF T!HandleTrap
<1>4. n = 0 => <<n, K>> \notin open
  <2>1. \A e \in open : e[1] \in 1 .. 2
    BY DEF EventShape
  <2>2. QED
    BY <1>2, <2>1
<1>5. spare' = [spare EXCEPT ![t.NEID] = IF EventOf(K) \in open' \ open /\ K[2][1] = "fault"
                                         THEN @ - 1 ELSE @]
  BY <1>2, <1>3
<1> HIDE DEF n
<1>6. open' \in {open, open \cup {EventOf(K)}, open \ {EventOf(K)}}
  BY <1>2, <1>3
<1>7. /\ t.EventType = 2 => EventOf(K) \notin open'
      /\ t.EventType = 1 => open \subseteq open'
  BY <1>2, <1>3, <1>4
<1>8. /\ t.EventType = 1 /\ T!Opens(t) /\ n # 0 => EventOf(K) \in open'
      /\ EventOf(K) \in open' \ open => n # 0 /\ T!Opens(t)
  BY <1>2, <1>3
<1>9. n = T!resolveTowerID(K[1])
  BY <1>1 DEF n
<1>10. QED
  BY <1>1, <1>5, <1>6, <1>7, <1>8, <1>9

(* The listener l handles the trap t.                                        *)
Receives(l, t) ==
    /\ t = Head(wire[l]) /\ wire[l] # <<>>
    /\ wire' = [wire EXCEPT ![l] = Tail(@)]
    /\ UNCHANGED <<crew, problem, active, number, towers, mishaps>>
    /\ IF t \in Alarms THEN T!HandleTrap(t) ELSE t \in Noise /\ UNCHANGED <<open, spare>>

LEMMA WireFacts ==
    ASSUME TrapTypes, NEW l \in Listeners
    PROVE  /\ wire[l] \in Seq(Alarms \cup Noise)
           /\ wire[l] # <<>> => Head(wire[l]) \in Alarms \cup Noise /\ Tail(wire[l]) \in Seq(Alarms \cup Noise)
<1>1. wire[l] \in Seq(Alarms \cup Noise)
  BY DEF TrapTypes
<1>2. QED
  BY <1>1, HeadTailProperties

LEMMA ReceiveFacts ==
    ASSUME TrInv, NEW l \in crew, T!OnNewTrap(l)
    PROVE  \E t \in Alarms \cup Noise : Receives(l, t)
<1> DEFINE t == Head(wire[l])
<1>1. TrapTypes /\ l \in Listeners
  BY DEF TrInv, TrapTypes
<1>2. /\ wire[l] # <<>> /\ wire' = [wire EXCEPT ![l] = Tail(@)]
      /\ IF T!ParseTrap(t) THEN T!HandleTrap(t) ELSE UNCHANGED <<open, spare>>
      /\ UNCHANGED <<crew, problem, active, number, towers, mishaps>>
  BY DEF T!OnNewTrap
<1>3. t \in Alarms \cup Noise
  BY <1>1, <1>2, WireFacts
<1>4. t \in Alarms => T!ParseTrap(t)
  BY <1>1, AlarmFacts
<1>5. t \in Noise => ~T!ParseTrap(t)
  BY NoiseFacts
<1> HIDE DEF t
<1>6. QED
  BY <1>2, <1>3, <1>4, <1>5 DEF Receives, t

(* What is left on the wires: one trap less for l.                           *)
LEMMA ReceivedWire ==
    ASSUME TrapTypes, NEW l \in Listeners, wire[l] # <<>>, wire' = [wire EXCEPT ![l] = Tail(@)]
    PROVE  /\ wire'[l] = Tail(wire[l])
           /\ \A k \in Listeners \ {l} : wire'[k] = wire[k]
           /\ wire' \in [Listeners -> Seq(Alarms \cup Noise)]
<1>1. Tail(wire[l]) \in Seq(Alarms \cup Noise)
  BY WireFacts
<1>2. QED
  BY <1>1 DEF TrapTypes

LEMMA ReceiveEvent ==
    ASSUME TrapTypes, EventShape, NEW l, NEW t \in Alarms \cup Noise, Receives(l, t), NEW K
    PROVE  /\ t \in ClearsOf(K) => ~IsOpen(K)'
           /\ t \in RaisesOf(K) => /\ IsOpen(K) => IsOpen(K)'
                                   /\ T!Opens(t) /\ T!resolveTowerID(K[1]) # 0 => IsOpen(K)'
           /\ t \notin ClearsOf(K) /\ t \notin RaisesOf(K) => (IsOpen(K)' <=> IsOpen(K))
<1>1. EventOf(K)' = EventOf(K)
  BY EventsStay DEF Receives
<1>2. CASE t \in Alarms
  <2> DEFINE k == T!buildNetEcoAlarmKey(t)
  <2>1. T!HandleTrap(t)
    BY <1>2 DEF Receives
  <2>2. /\ open' \in {open, open \cup {EventOf(k)}, open \ {EventOf(k)}}
        /\ t.EventType = 2 => EventOf(k) \notin open'
        /\ t.EventType = 1 => open \subseteq open'
        /\ t.EventType = 1 /\ T!Opens(t) /\ T!resolveTowerID(k[1]) # 0 => EventOf(k) \in open'
    BY <1>2, <2>1, Handling
  <2>3. t.EventType \in {1, 2}
    BY <1>2 DEF Alarms, T!Trap
  <2>4. k = K \/ EventOf(k) # EventOf(K)
    BY DEF EventOf
  <2> HIDE DEF k
  <2>5. CASE k = K
    <3>1. /\ t \in ClearsOf(K) <=> t.EventType = 2
          /\ t \in RaisesOf(K) <=> t.EventType = 1
      BY <1>2, <2>5 DEF ClearsOf, RaisesOf, k
    <3>2. QED
      BY <1>1, <2>2, <2>3, <2>5, <3>1 DEF IsOpen
  <2>6. CASE k # K
    <3>1. t \notin ClearsOf(K) /\ t \notin RaisesOf(K)
      BY <2>6 DEF ClearsOf, RaisesOf, k
    <3>2. EventOf(K) \in open' <=> EventOf(K) \in open
      BY <2>2, <2>4, <2>6
    <3>3. QED
      BY <1>1, <3>1, <3>2 DEF IsOpen
  <2>7. QED
    BY <2>5, <2>6
<1>3. CASE t \notin Alarms
  BY <1>1, <1>3 DEF Receives, IsOpen, RaisesOf, ClearsOf
<1>4. QED
  BY <1>2, <1>3

(* A ticket is paid when it is opened.                                       *)
LEMMA ReceiveSpare ==
    ASSUME TrapTypes, EventShape, SpareType, NEW l, NEW t \in Alarms \cup Noise, Receives(l, t),
           NEW n \in NEIDs
    PROVE  LET K == FaultKey(n)
           IN  \/ spare'[n] = spare[n]
               \/ /\ t \in RaisesOf(K) /\ ~IsOpen(K) /\ IsOpen(K)'
                  /\ spare'[n] = spare[n] - 1
<1> DEFINE K == FaultKey(n)
<1>1. EventOf(K)' = EventOf(K)
  BY EventsStay DEF Receives
<1>2. CASE t \in Alarms
  <2> DEFINE k == T!buildNetEcoAlarmKey(t)
  <2>1. T!HandleTrap(t)
    BY <1>2 DEF Receives
  <2>2. /\ k[1] = t.NEID
        /\ t.EventType = 2 => EventOf(k) \notin open'
        /\ spare' = [spare EXCEPT ![t.NEID] = IF EventOf(k) \in open' \ open /\ k[2][1] = "fault"
                                              THEN @ - 1 ELSE @]
    BY <1>2, <2>1, Handling
  <2>3. PICK p \in Problems, y \in {1, 2}, no \in 1 .. MaxTraps : t = T!Trap(p, y, no)
    BY <1>2 DEF Alarms
  <2>4. t.NEID = problem[p].neid /\ t.EventType \in {1, 2}
    BY <2>3 DEF T!Trap
  <2>5. k[2][1] = "fault" => k = FaultKey(problem[p].neid)
    BY <2>3, KeyFacts
  <2> HIDE DEF k
  <2>6. CASE EventOf(k) \in open' \ open /\ k[2][1] = "fault" /\ t.NEID = n
    <3>1. k = K
      BY <2>4, <2>5, <2>6
    <3>2. t \in RaisesOf(K)
      BY <1>2, <2>2, <2>4, <2>6, <3>1 DEF RaisesOf, k
    <3>3. ~IsOpen(K) /\ IsOpen(K)'
      BY <1>1, <2>6, <3>1 DEF IsOpen
    <3>4. spare'[n] = spare[n] - 1
      BY <2>2, <2>6 DEF SpareType
    <3>5. QED
      BY <3>2, <3>3, <3>4
  <2>7. CASE ~(EventOf(k) \in open' \ open /\ k[2][1] = "fault" /\ t.NEID = n)
    BY <2>2, <2>7 DEF SpareType
  <2>8. QED
    BY <2>6, <2>7
<1>3. CASE t \notin Alarms
  BY <1>3 DEF Receives
<1>4. QED
  BY <1>2, <1>3

TrBase == TrapTypes /\ EventShape /\ SpareType /\ NumbersAreNew

LEMMA TypesStay ==
    ASSUME TrapTypes, UNCHANGED <<crew, problem>>,
           active' \in [Problems -> 0 .. MaxTraps],
           towers' \in [1 .. 2 -> NEIDs \cup {None}],
           wire' \in [Listeners -> Seq(Alarms \cup Noise)]
    PROVE  TrapTypes'
<1>1. Alarms' = Alarms /\ Noise' = Noise
  BY MeaningStays DEF Noise
<1>2. QED
  BY <1>1 DEF TrapTypes

LEMMA EventsKeepShape ==
    ASSUME EventShape, UNCHANGED <<problem, open>>
    PROVE  EventShape'
BY DEF EventShape, IsOf, T!IsFault, FaultKey

LEMMA NumbersStayNew ==
    ASSUME NumbersAreNew, UNCHANGED <<active, number>>
    PROVE  NumbersAreNew'
BY DEF NumbersAreNew

(* NetEco sends a trap to the listeners of the crew.                         *)
Sends(t) == T!Send(t) /\ UNCHANGED <<crew, problem, towers, open, mishaps>>

LEMMA SendWire ==
    ASSUME TrapTypes, NEW t \in Alarms \cup Noise, T!Send(t)
    PROVE  /\ wire' \in [Listeners -> Seq(Alarms \cup Noise)]
           /\ \A l \in crew : l \in Listeners /\ wire'[l] = Append(wire[l], t)
<1>1. wire' = [l \in Listeners |-> IF l \in crew THEN Append(wire[l], t) ELSE wire[l]]
  BY DEF T!Send
<1>2. \A l \in Listeners : wire[l] \in Seq(Alarms \cup Noise) /\ Append(wire[l], t) \in Seq(Alarms \cup Noise)
  BY AppendProperties DEF TrapTypes
<1>3. QED
  BY <1>1, <1>2 DEF TrapTypes

LEMMA RaiseFacts ==
    ASSUME TrBase, NEW p \in Problems, T!Raise(p)
    PROVE  /\ T!Trap(p, 1, number + 1) \in Alarms /\ Sends(T!Trap(p, 1, number + 1))
           /\ number + 1 \in 1 .. MaxTraps /\ number' = number + 1
           /\ active' = [active EXCEPT ![p] = number + 1]
           /\ spare' = [spare EXCEPT ![problem[p].neid] = IF T!IsFault(p) /\ active[p] = 0 THEN @ + 1 ELSE @]
<1>1. number \in 0 .. MaxTraps /\ number < MaxTraps
  BY DEF TrBase, NumbersAreNew, T!Raise
<1>2. number + 1 \in 1 .. MaxTraps
  BY <1>1, TrapConstants
<1>3. QED
  BY <1>2 DEF T!Raise, Sends, Alarms

LEMMA ClearFacts ==
    ASSUME TrBase, NEW p \in Problems, T!Clear(p)
    PROVE  /\ T!Trap(p, 2, active[p]) \in Alarms /\ Sends(T!Trap(p, 2, active[p]))
           /\ number' \in 0 .. MaxTraps /\ number' = number + 1 /\ number \in Nat
           /\ active[p] # 0 /\ active' = [active EXCEPT ![p] = 0]
           /\ UNCHANGED spare
<1>1. number \in 0 .. MaxTraps /\ number < MaxTraps /\ active[p] # 0
  BY DEF TrBase, NumbersAreNew, T!Clear
<1>2. active[p] \in 1 .. MaxTraps
  <2>1. active[p] \in 0 .. MaxTraps
    BY DEF TrBase, TrapTypes
  <2>2. QED
    BY <1>1, <2>1
<1>3. number + 1 \in 0 .. MaxTraps
  BY <1>1, TrapConstants
<1>4. number' = number + 1 /\ number \in Nat
  BY <1>1 DEF T!Clear
<1>5. QED
  BY <1>1, <1>2, <1>3, <1>4 DEF T!Clear, Sends, Alarms

LEMMA ChatterFacts ==
    ASSUME TrBase, T!Chatter
    PROVE  /\ \E t \in Noise : Sends(t)
           /\ number' \in 0 .. MaxTraps /\ number' = number + 1 /\ number \in Nat
           /\ UNCHANGED <<active, spare>>
<1>1. number \in 0 .. MaxTraps /\ number < MaxTraps
  BY DEF TrBase, NumbersAreNew, T!Chatter
<1>2. number + 1 \in 1 .. MaxTraps /\ number + 1 \in 0 .. MaxTraps /\ number \in Nat
  BY <1>1, TrapConstants
<1>3. \E t \in Noise : Sends(t)
  BY <1>2 DEF T!Chatter, Sends, Noise
<1>4. number' = number + 1 /\ UNCHANGED <<active, spare>>
  BY DEF T!Chatter
<1>5. QED
  BY <1>2, <1>3, <1>4

LEMMA RaiseBase ==
    ASSUME TrBase, NEW p \in Problems, T!Raise(p)
    PROVE  TrBase'
<1> DEFINE m == number + 1
<1>1. /\ T!Trap(p, 1, m) \in Alarms /\ Sends(T!Trap(p, 1, m))
      /\ m \in 1 .. MaxTraps /\ number' = m
      /\ active' = [active EXCEPT ![p] = m]
      /\ spare' = [spare EXCEPT ![problem[p].neid] = IF T!IsFault(p) /\ active[p] = 0 THEN @ + 1 ELSE @]
  BY RaiseFacts
<1>a. number \in Nat /\ \A q \in Problems : active[q] \in Nat /\ active[q] <= number
  <2>1. number \in 0 .. MaxTraps /\ active \in [Problems -> 0 .. MaxTraps]
    BY DEF TrBase, NumbersAreNew, TrapTypes
  <2>2. QED
    BY <2>1, TrapConstants DEF TrBase, NumbersAreNew
<1>b. \A q \in Problems : active[q] < m
  BY <1>a
<1> HIDE DEF m
<1>2. active' \in [Problems -> 0 .. MaxTraps] /\ active'[p] = m /\ \A q \in Problems \ {p} : active'[q] = active[q]
  <2>1. m \in 0 .. MaxTraps
    BY <1>1
  <2>2. QED
    BY <1>1, <2>1 DEF TrBase, TrapTypes
<1>3. TrapTypes'
  BY <1>1, <1>2, SendWire, TypesStay DEF TrBase, TrapTypes, Sends
<1>4. EventShape'
  BY <1>1, EventsKeepShape DEF TrBase, Sends
<1>5. SpareType'
  <2>1. \A n \in NEIDs : spare[n] + 1 \in Int
    BY DEF TrBase, SpareType
  <2>2. QED
    BY <1>1, <2>1 DEF TrBase, SpareType
<1>6. NumbersAreNew'
  <2>1. m \in 0 .. MaxTraps /\ \A q \in Problems : active'[q] <= m
    <3>1. m \in Nat /\ \A q \in Problems \ {p} : active[q] <= m
      BY <1>1, <1>a, <1>b
    <3>2. QED
      BY <1>1, <1>2, <3>1
  <2>2. \A q, r \in Problems : active'[q] = active'[r] /\ active'[q] # 0 => q = r
    <3>1. \A q \in Problems \ {p} : active'[q] # m
      BY <1>2, <1>a, <1>b
    <3>2. QED
      BY <1>2, <3>1 DEF TrBase, NumbersAreNew
  <2>3. QED
    BY <1>1, <2>1, <2>2 DEF NumbersAreNew
<1>7. QED
  BY <1>3, <1>4, <1>5, <1>6 DEF TrBase

LEMMA ClearBase ==
    ASSUME TrBase, NEW p \in Problems, T!Clear(p)
    PROVE  TrBase'
<1>1. /\ T!Trap(p, 2, active[p]) \in Alarms /\ Sends(T!Trap(p, 2, active[p]))
      /\ number' \in 0 .. MaxTraps /\ number' = number + 1 /\ number \in Nat
      /\ active[p] # 0 /\ active' = [active EXCEPT ![p] = 0]
      /\ UNCHANGED spare
  BY ClearFacts
<1>2. active' \in [Problems -> 0 .. MaxTraps] /\ active'[p] = 0 /\ \A q \in Problems \ {p} : active'[q] = active[q]
  <2>1. 0 \in 0 .. MaxTraps
    BY TrapConstants
  <2>2. QED
    BY <1>1, <2>1 DEF TrBase, TrapTypes
<1>3. TrapTypes'
  BY <1>1, <1>2, SendWire, TypesStay DEF TrBase, TrapTypes, Sends
<1>4. EventShape' /\ SpareType'
  BY <1>1, EventsKeepShape DEF TrBase, Sends, SpareType
<1>5. NumbersAreNew'
  <2>1. \A q \in Problems : active'[q] <= number + 1
    <3>1. \A q \in Problems : active[q] \in Nat /\ active[q] <= number
      <4>1. active \in [Problems -> 0 .. MaxTraps]
        BY DEF TrBase, TrapTypes
      <4>2. QED
        BY <4>1, TrapConstants DEF TrBase, NumbersAreNew
    <3>2. QED
      BY <1>1, <1>2, <3>1
  <2>2. \A q, r \in Problems : active'[q] = active'[r] /\ active'[q] # 0 => q = r
    BY <1>2 DEF TrBase, NumbersAreNew
  <2>3. QED
    BY <1>1, <2>1, <2>2 DEF NumbersAreNew
<1>6. QED
  BY <1>3, <1>4, <1>5 DEF TrBase

LEMMA ChatterBase ==
    ASSUME TrBase, T!Chatter
    PROVE  TrBase'
<1>1. PICK t \in Noise : Sends(t)
  BY ChatterFacts
<1>2. number' \in 0 .. MaxTraps /\ number' = number + 1 /\ number \in Nat /\ UNCHANGED <<active, spare>>
  BY ChatterFacts
<1>3. TrapTypes'
  BY <1>1, <1>2, SendWire, TypesStay DEF TrBase, TrapTypes, Sends
<1>4. EventShape' /\ SpareType'
  BY <1>1, <1>2, EventsKeepShape DEF TrBase, Sends, SpareType
<1>5. NumbersAreNew'
  <2>1. \A q \in Problems : active[q] <= number + 1
    <3>1. \A q \in Problems : active[q] \in Nat /\ active[q] <= number
      <4>1. active \in [Problems -> 0 .. MaxTraps]
        BY DEF TrBase, TrapTypes
      <4>2. QED
        BY <4>1, TrapConstants DEF TrBase, NumbersAreNew
    <3>2. QED
      BY <1>2, <3>1
  <2>2. QED
    BY <1>2, <2>1 DEF TrBase, NumbersAreNew
<1>6. QED
  BY <1>3, <1>4, <1>5 DEF TrBase

LEMMA LoseBase ==
    ASSUME TrBase, NEW l \in crew, T!Lose(l)
    PROVE  TrBase'
<1>1. /\ wire[l] # <<>> /\ wire' = [wire EXCEPT ![l] = Tail(@)]
      /\ UNCHANGED <<crew, problem, active, number, towers, open, spare>>
  BY DEF T!Lose
<1>2. l \in Listeners
  BY DEF TrBase, TrapTypes
<1>3. TrapTypes'
  BY <1>1, <1>2, ReceivedWire, TypesStay DEF TrBase, TrapTypes
<1>4. EventShape' /\ SpareType' /\ NumbersAreNew'
  BY <1>1, EventsKeepShape, NumbersStayNew DEF TrBase, SpareType
<1>5. QED
  BY <1>3, <1>4 DEF TrBase

LEMMA SwapBase ==
    ASSUME TrBase, NEW l \in crew, T!Swap(l)
    PROVE  TrBase'
<1>1. /\ Len(wire[l]) > 1
      /\ wire' = [wire EXCEPT ![l] = <<@[2], @[1]>> \o SubSeq(@, 3, Len(@))]
      /\ UNCHANGED <<crew, problem, active, number, towers, open, spare>>
  BY DEF T!Swap
<1>2. l \in Listeners
  BY DEF TrBase, TrapTypes
<1> DEFINE s == wire[l]
           X == Alarms \cup Noise
<1>3. s \in Seq(X)
  BY <1>2, WireFacts DEF TrBase
<1> HIDE DEF s, X
<1>4. <<s[2], s[1]>> \o SubSeq(s, 3, Len(s)) \in Seq(X)
  <2>1. Len(s) \in Nat /\ Len(s) > 1
    BY <1>1, <1>3 DEF s
  <2>2. s[1] \in X /\ s[2] \in X
    BY <1>3, <2>1
  <2>3. \A i \in 3 .. Len(s) : s[i] \in X
    BY <1>3, <2>1
  <2>4. SubSeq(s, 3, Len(s)) \in Seq(X)
    BY <2>1, <2>3, SubSeqProperties
  <2>5. <<s[2], s[1]>> \in Seq(X)
    BY <2>2
  <2>6. QED
    BY <2>4, <2>5, ConcatProperties
<1>5. wire' \in [Listeners -> Seq(Alarms \cup Noise)]
  BY <1>1, <1>2, <1>4 DEF TrBase, TrapTypes, s, X
<1>6. TrapTypes'
  BY <1>1, <1>5, TypesStay DEF TrBase, TrapTypes
<1>7. EventShape' /\ SpareType' /\ NumbersAreNew'
  BY <1>1, EventsKeepShape, NumbersStayNew DEF TrBase, SpareType
<1>8. QED
  BY <1>6, <1>7 DEF TrBase

LEMMA ConfigureBase ==
    ASSUME TrBase, NEW i \in DOMAIN towers, T!Configure(i)
    PROVE  TrBase'
<1>1. PICK n \in NEIDs \cup {None} : towers' = [towers EXCEPT ![i] = n]
  BY DEF T!Configure
<1>2. UNCHANGED <<crew, problem, active, number, wire, open, spare>>
  BY DEF T!Configure
<1>3. towers' \in [1 .. 2 -> NEIDs \cup {None}]
  BY <1>1 DEF TrBase, TrapTypes
<1>4. TrapTypes'
  BY <1>2, <1>3, TypesStay DEF TrBase, TrapTypes
<1>5. EventShape' /\ SpareType' /\ NumbersAreNew'
  BY <1>2, EventsKeepShape, NumbersStayNew DEF TrBase, SpareType
<1>6. QED
  BY <1>4, <1>5 DEF TrBase

LEMMA ReceiveBase ==
    ASSUME TrBase, NEW l \in crew, NEW t \in Alarms \cup Noise, Receives(l, t)
    PROVE  TrBase'
<1>1. TrapTypes /\ EventShape /\ SpareType /\ l \in Listeners
  BY DEF TrBase, TrapTypes
<1>2. /\ wire[l] # <<>> /\ wire' = [wire EXCEPT ![l] = Tail(@)]
      /\ UNCHANGED <<crew, problem, active, number, towers>>
  BY DEF Receives
<1>3. TrapTypes'
  BY <1>1, <1>2, ReceivedWire, TypesStay DEF TrapTypes
<1>4. NumbersAreNew'
  BY <1>2, NumbersStayNew DEF TrBase
<1>5. CASE t \in Alarms
  <2> DEFINE K == T!buildNetEcoAlarmKey(t)
  <2>1. T!HandleTrap(t)
    BY <1>5 DEF Receives
  <2>2. /\ open' \in {open, open \cup {EventOf(K)}, open \ {EventOf(K)}}
        /\ EventOf(K) \in open' \ open => T!resolveTowerID(K[1]) # 0 /\ T!Opens(t)
        /\ spare' = [spare EXCEPT ![t.NEID] = IF EventOf(K) \in open' \ open /\ K[2][1] = "fault"
                                              THEN @ - 1 ELSE @]
    BY <1>1, <1>5, <2>1, Handling
  <2>3. PICK p \in Problems, y \in {1, 2}, no \in 1 .. MaxTraps : t = T!Trap(p, y, no)
    BY <1>5 DEF Alarms
  <2>4. /\ T!IsFault(p) => K = FaultKey(problem[p].neid)
        /\ ~T!IsFault(p) => K = <<problem[p].neid, <<problem[p].text, no>>>>
        /\ K[1] = problem[p].neid
    BY <1>1, <2>3, KeyFacts
  <2>5. t.Description = problem[p].text
    BY <2>3 DEF T!Trap
  <2> HIDE DEF K
  <2>6. SpareType'
    <3>1. \A n \in NEIDs : spare[n] - 1 \in Int
      BY <1>1 DEF SpareType
    <3>2. QED
      BY <1>1, <2>2, <3>1 DEF SpareType
  <2>7. ASSUME EventOf(K) \in open' \ open
        PROVE  EventOf(K)[1] \in 1 .. 2 /\ IsOf(EventOf(K)[2], p)
    <3>1. T!resolveTowerID(K[1]) \in {0, 1, 2} /\ T!resolveTowerID(K[1]) # 0
      BY <1>1, <2>2, <2>7, ResolveType
    <3>2. T!resolveTowerID(K[1]) \in 1 .. 2
      BY <3>1
    <3>3. EventOf(K)[1] = T!resolveTowerID(K[1]) /\ EventOf(K)[2] = K
      BY DEF EventOf
    <3>4. t.Description # "sem descricao"
      BY <2>2, <2>7 DEF T!Opens
    <3>5. CASE T!IsFault(p)
      BY <2>4, <3>2, <3>3, <3>5 DEF FaultKey, IsOf
    <3>6. CASE ~T!IsFault(p)
      <4>1. problem[p].text = ""
        BY <1>1, <2>5, <3>4, <3>6, KindFacts DEF T!IsFault
      <4>2. K[2][1] = ""
        <5>1. K = <<problem[p].neid, <<problem[p].text, no>>>>
          BY <2>4, <3>6
        <5>2. K[2] = <<problem[p].text, no>>
          BY <5>1
        <5>3. K[2][1] = problem[p].text
          BY <5>2
        <5>4. QED
          BY <4>1, <5>3
      <4>3. QED
        BY <2>4, <3>2, <3>3, <4>1, <4>2 DEF IsOf
    <3>7. QED
      BY <3>5, <3>6
  <2>8. EventShape'
    <3>1. \A e \in open' : e \in open \/ (e = EventOf(K) /\ e \in open' \ open)
      BY <2>2
    <3>2. \A e \in open' : e[1] \in 1 .. 2 /\ \E q \in Problems : IsOf(e[2], q)
      BY <1>1, <2>7, <3>1 DEF EventShape
    <3>3. UNCHANGED problem
      BY <1>2
    <3>4. QED
      BY <3>2, <3>3 DEF EventShape, IsOf, T!IsFault, FaultKey
  <2>9. QED
    BY <1>3, <1>4, <2>6, <2>8 DEF TrBase
<1>6. CASE t \notin Alarms
  <2>1. UNCHANGED <<open, spare>>
    BY <1>6 DEF Receives
  <2>2. EventShape' /\ SpareType'
    BY <1>1, <1>2, <2>1, EventsKeepShape DEF SpareType
  <2>3. QED
    BY <1>3, <1>4, <2>2 DEF TrBase
<1>7. QED
  BY <1>5, <1>6

LEMMA BaseOfInv == TrInv => TrBase
BY DEF TrInv, TrBase

(* What the crew's wires hold after a trap is sent.                          *)
LEMMA SentHas ==
    ASSUME TrapTypes, NEW t \in Alarms \cup Noise, T!Send(t), NEW l \in crew,
           NEW R, NEW U, R \cap U = {}
    PROVE  /\ Has(wire'[l], R) <=> Has(wire[l], R) \/ t \in R
           /\ t \in U \/ (t \notin R /\ Followed(wire[l], R, U)) => Followed(wire'[l], R, U)
<1>1. l \in Listeners /\ wire'[l] = Append(wire[l], t) /\ wire[l] \in Seq(Alarms \cup Noise)
  BY SendWire, WireFacts
<1>2. QED
  BY <1>1, AppendHas, AppendFollowed

LEMMA SendOver ==
    ASSUME TrapTypes, NEW t \in Alarms \cup Noise, Sends(t), NEW K,
           t \in ClearsOf(K) \/ (IsOver(K) /\ t \notin RaisesOf(K))
    PROVE  IsOver(K)'
<1>1. /\ T!Send(t) /\ crew' = crew /\ crew # {}
      /\ RaisesOf(K)' = RaisesOf(K) /\ ClearsOf(K)' = ClearsOf(K) /\ (IsOpen(K)' <=> IsOpen(K))
  BY MeaningStays, EventsStay DEF Sends, TrapTypes
<1>2. \A l \in crew : /\ Has(wire'[l], ClearsOf(K)) <=> Has(wire[l], ClearsOf(K)) \/ t \in ClearsOf(K)
                      /\ t \in ClearsOf(K) \/ (t \notin RaisesOf(K) /\ Followed(wire[l], RaisesOf(K), ClearsOf(K)))
                            => Followed(wire'[l], RaisesOf(K), ClearsOf(K))
  BY <1>1, SentHas, RaisesAndClears
<1>3. CASE t \in ClearsOf(K)
  BY <1>1, <1>2, <1>3 DEF IsOver
<1>4. CASE IsOver(K) /\ t \notin RaisesOf(K)
  BY <1>1, <1>2, <1>4 DEF IsOver
<1>5. QED
  BY <1>3, <1>4

LEMMA SendPersists ==
    ASSUME TrapTypes, NEW t \in Alarms \cup Noise, Sends(t), NEW K,
           t \in RaisesOf(K) \/ (Persists(K) /\ t \notin ClearsOf(K))
    PROVE  Persists(K)'
<1>1. /\ T!Send(t) /\ crew' = crew /\ crew # {}
      /\ RaisesOf(K)' = RaisesOf(K) /\ ClearsOf(K)' = ClearsOf(K) /\ (IsOpen(K)' <=> IsOpen(K))
  BY MeaningStays, EventsStay DEF Sends, TrapTypes
<1>2. \A l \in crew : /\ Has(wire'[l], RaisesOf(K)) <=> Has(wire[l], RaisesOf(K)) \/ t \in RaisesOf(K)
                      /\ t \in RaisesOf(K) \/ (t \notin ClearsOf(K) /\ Followed(wire[l], ClearsOf(K), RaisesOf(K)))
                            => Followed(wire'[l], ClearsOf(K), RaisesOf(K))
  BY <1>1, SentHas, RaisesAndClears
<1>3. CASE t \in RaisesOf(K)
  BY <1>1, <1>2, <1>3 DEF Persists
<1>4. CASE Persists(K) /\ t \notin ClearsOf(K)
  BY <1>1, <1>2, <1>4 DEF Persists
<1>5. QED
  BY <1>3, <1>4

(* What they hold after one is received.                                     *)
LEMMA ReceivedHas ==
    ASSUME TrapTypes, NEW l \in crew, NEW t, Receives(l, t), NEW k \in crew, NEW R, NEW U, R \cap U = {}
    PROVE  /\ Has(wire[k], R) => Has(wire'[k], R) \/ (k = l /\ t \in R)
           /\ Followed(wire[k], R, U) => /\ Followed(wire'[k], R, U)
                                         /\ k = l /\ t \in R => Has(wire'[k], U)
<1>1. wire[l] # <<>> /\ wire' = [wire EXCEPT ![l] = Tail(@)] /\ t = Head(wire[l])
  BY DEF Receives
<1>2. k \in Listeners /\ l \in Listeners
  BY DEF TrapTypes
<1>3. wire[k] \in Seq(Alarms \cup Noise) /\ wire'[l] = Tail(wire[l]) /\ (k # l => wire'[k] = wire[k])
  BY <1>1, <1>2, WireFacts, ReceivedWire
<1>4. CASE k = l
  BY <1>1, <1>3, <1>4, TailHas, TailFollowed
<1>5. CASE k # l
  BY <1>3, <1>5
<1>6. QED
  BY <1>4, <1>5

LEMMA ReceiveOver ==
    ASSUME TrBase, NEW l \in crew, NEW t \in Alarms \cup Noise, Receives(l, t), NEW K, IsOver(K)
    PROVE  IsOver(K)'
<1>1. TrapTypes /\ EventShape
  BY DEF TrBase
<1>2. crew' = crew /\ RaisesOf(K)' = RaisesOf(K) /\ ClearsOf(K)' = ClearsOf(K)
  BY MeaningStays DEF Receives
<1>3. /\ t \in ClearsOf(K) => ~IsOpen(K)'
      /\ t \notin ClearsOf(K) /\ t \notin RaisesOf(K) => (IsOpen(K)' <=> IsOpen(K))
  BY <1>1, ReceiveEvent
<1>4. \A k \in crew : /\ Followed(wire'[k], RaisesOf(K), ClearsOf(K))
                      /\ k = l /\ t \in RaisesOf(K) => Has(wire'[k], ClearsOf(K))
  <2>1. \A k \in crew : Followed(wire[k], RaisesOf(K), ClearsOf(K))
    BY DEF IsOver
  <2>2. QED
    BY <1>1, <2>1, ReceivedHas, RaisesAndClears
<1>5. \A k \in crew : Has(wire[k], ClearsOf(K)) => Has(wire'[k], ClearsOf(K)) \/ t \in ClearsOf(K)
  BY <1>1, ReceivedHas, RaisesAndClears
<1>6. IsOpen(K)' => \E k \in crew : Has(wire'[k], ClearsOf(K))
  <2>1. CASE t \in RaisesOf(K)
    BY <1>4, <2>1
  <2>2. CASE t \notin RaisesOf(K)
    BY <1>3, <1>5, <2>2 DEF IsOver
  <2>3. QED
    BY <2>1, <2>2
<1>7. QED
  BY <1>2, <1>4, <1>6 DEF IsOver

LEMMA ReceivePersists ==
    ASSUME TrBase, NEW l \in crew, NEW t \in Alarms \cup Noise, Receives(l, t), NEW K, Persists(K),
           t \in RaisesOf(K) => T!Opens(t) /\ T!resolveTowerID(K[1]) # 0
    PROVE  Persists(K)'
<1>1. TrapTypes /\ EventShape
  BY DEF TrBase
<1>2. crew' = crew /\ RaisesOf(K)' = RaisesOf(K) /\ ClearsOf(K)' = ClearsOf(K)
  BY MeaningStays DEF Receives
<1>3. /\ t \in RaisesOf(K) => IsOpen(K)'
      /\ t \notin ClearsOf(K) /\ t \notin RaisesOf(K) => (IsOpen(K)' <=> IsOpen(K))
  BY <1>1, ReceiveEvent
<1>4. \A k \in crew : /\ Followed(wire'[k], ClearsOf(K), RaisesOf(K))
                      /\ k = l /\ t \in ClearsOf(K) => Has(wire'[k], RaisesOf(K))
  <2>1. \A k \in crew : Followed(wire[k], ClearsOf(K), RaisesOf(K))
    BY DEF Persists
  <2>2. QED
    BY <1>1, <2>1, ReceivedHas, RaisesAndClears
<1>5. \A k \in crew : Has(wire[k], RaisesOf(K)) => Has(wire'[k], RaisesOf(K)) \/ t \in RaisesOf(K)
  BY <1>1, ReceivedHas, RaisesAndClears
<1>6. IsOpen(K)' \/ \E k \in crew : Has(wire'[k], RaisesOf(K))
  <2>1. CASE t \in ClearsOf(K)
    BY <1>4, <2>1
  <2>2. CASE t \notin ClearsOf(K)
    BY <1>3, <1>5, <2>2 DEF Persists
  <2>3. QED
    BY <2>1, <2>2
<1>7. QED
  BY <1>2, <1>4, <1>6 DEF Persists

LEMMA MishapFacts ==
    ASSUME NEW CONSTANT what, T!Mishap(what)
    PROVE  mishaps' # {} /\ what \in mishaps' /\ mishaps \subseteq mishaps'
BY DEF T!Mishap

LEMMA ActiveStay ==
    ASSUME UNCHANGED <<problem, active>>, NEW n
    PROVE  ActiveFaults(n)' = ActiveFaults(n)
BY DEF ActiveFaults, T!IsFault

(* A trap of a problem is about a site's fault only if the problem is one.   *)
LEMMA FaultTraps ==
    ASSUME TrapTypes, NEW p \in Problems, NEW k \in {1, 2}, NEW no, NEW n, T!Trap(p, k, no) \in Alarms
    PROVE  LET t == T!Trap(p, k, no)
               K == FaultKey(n)
           IN  /\ t \in RaisesOf(K) <=> k = 1 /\ T!IsFault(p) /\ problem[p].neid = n
               /\ t \in ClearsOf(K) <=> k = 2 /\ T!IsFault(p) /\ problem[p].neid = n
<1> DEFINE t == T!Trap(p, k, no)
           K == FaultKey(n)
           key == T!buildNetEcoAlarmKey(t)
<1>1. /\ T!IsFault(p) => key = FaultKey(problem[p].neid)
      /\ key[1] = problem[p].neid
      /\ key[2][1] = "fault" <=> T!IsFault(p)
  BY KeyFacts
<1>2. t.EventType = k
  BY DEF T!Trap
<1> HIDE DEF t
<1>3. K[1] = n /\ K[2][1] = "fault"
  BY DEF FaultKey
<1> HIDE DEF key
<1>4. key = K <=> T!IsFault(p) /\ problem[p].neid = n
  BY <1>1, <1>3
<1>5. QED
  BY <1>2, <1>4 DEF RaisesOf, ClearsOf, key, t

LEMMA OversStep ==
    ASSUME TrInv, T!Next
    PROVE  OversClose'
<1>0. TrBase /\ TrapTypes /\ OversClose
  BY DEF TrInv, TrBase
<1> SUFFICES ASSUME mishaps' = {}, NEW n \in NEIDs, ActiveFaults(n)' = {}
             PROVE  IsOver(FaultKey(n))'
  BY DEF OversClose
<1> DEFINE K == FaultKey(n)
<1>1. ASSUME NEW p \in Problems, T!Raise(p)
      PROVE  IsOver(K)'
  <2> DEFINE t == T!Trap(p, 1, number + 1)
  <2>1. t \in Alarms /\ Sends(t) /\ active' = [active EXCEPT ![p] = number + 1] /\ number + 1 \in 1 .. MaxTraps
    BY <1>0, <1>1, RaiseFacts
  <2>2. active'[p] # 0 /\ \A q \in Problems : active[q] # 0 => active'[q] # 0
    <3>1. number + 1 # 0
      BY <2>1
    <3>2. QED
      BY <1>0, <2>1, <3>1 DEF TrapTypes
  <2>3. problem' = problem /\ \A q : T!IsFault(q)' <=> T!IsFault(q)
    BY <2>1, MeaningStays DEF Sends
  <2>4. ActiveFaults(n) = {} /\ ~(T!IsFault(p) /\ problem[p].neid = n)
    BY <2>2, <2>3 DEF ActiveFaults
  <2>5. t \notin RaisesOf(K)
    BY <1>0, <2>1, <2>4, FaultTraps
  <2>6. IsOver(K)
    BY <1>0, <2>1, <2>4 DEF OversClose, Sends
  <2>7. QED
    BY <1>0, <2>1, <2>5, <2>6, SendOver
<1>2. ASSUME NEW p \in Problems, T!Clear(p)
      PROVE  IsOver(K)'
  <2> DEFINE t == T!Trap(p, 2, active[p])
  <2>1. t \in Alarms /\ Sends(t) /\ active' = [active EXCEPT ![p] = 0]
    BY <1>0, <1>2, ClearFacts
  <2>2. CASE T!IsFault(p) /\ problem[p].neid = n
    <3>1. t \in ClearsOf(K)
      BY <1>0, <2>1, <2>2, FaultTraps
    <3>2. QED
      BY <1>0, <2>1, <3>1, SendOver
  <2>3. CASE ~(T!IsFault(p) /\ problem[p].neid = n)
    <3>1. \A q \in Problems \ {p} : active'[q] = active[q]
      BY <1>0, <2>1 DEF TrapTypes
    <3>2. problem' = problem /\ \A q : T!IsFault(q)' <=> T!IsFault(q)
      BY <2>1, MeaningStays DEF Sends
    <3>3. ActiveFaults(n) = {}
      BY <2>3, <3>1, <3>2 DEF ActiveFaults
    <3>4. IsOver(K)
      BY <1>0, <2>1, <3>3 DEF OversClose, Sends
    <3>5. t \notin RaisesOf(K)
      BY <1>0, <2>1, <2>3, FaultTraps
    <3>6. QED
      BY <1>0, <2>1, <3>4, <3>5, SendOver
  <2>4. QED
    BY <2>2, <2>3
<1>3. ASSUME T!Chatter
      PROVE  IsOver(K)'
  <2>1. PICK t \in Noise : Sends(t)
    BY <1>0, <1>3, ChatterFacts
  <2>2. UNCHANGED <<problem, active, mishaps>>
    BY <1>0, <1>3, <2>1, ChatterFacts DEF Sends
  <2>3. IsOver(K)
    BY <1>0, <2>2, ActiveStay DEF OversClose
  <2>4. t \notin RaisesOf(K)
    BY NoiseFacts
  <2>5. QED
    BY <1>0, <2>1, <2>3, <2>4, SendOver
<1>4. ASSUME NEW l \in crew, T!Lose(l) \/ T!Swap(l)
      PROVE  FALSE
  BY <1>4, MishapFacts DEF T!Lose, T!Swap
<1>5. ASSUME NEW i \in DOMAIN towers, T!Configure(i)
      PROVE  FALSE
  BY <1>5, MishapFacts DEF T!Configure
<1>6. ASSUME NEW l \in crew, T!OnNewTrap(l)
      PROVE  IsOver(K)'
  <2>1. PICK t \in Alarms \cup Noise : Receives(l, t)
    BY <1>6, ReceiveFacts
  <2>2. UNCHANGED <<problem, active, mishaps>>
    BY <2>1 DEF Receives
  <2>3. IsOver(K)
    BY <1>0, <2>2, ActiveStay DEF OversClose
  <2>4. QED
    BY <1>0, <2>1, <2>3, ReceiveOver
<1>7. QED
  BY <1>1, <1>2, <1>3, <1>4, <1>5, <1>6 DEF T!Next

LEMMA EventsStep ==
    ASSUME TrInv, T!Next
    PROVE  EventsOfTowers'
<1>0. TrBase /\ TrapTypes /\ EventShape /\ EventsOfTowers
  BY DEF TrInv, TrBase
<1> SUFFICES ASSUME mishaps' = {}, NEW e \in open'
             PROVE  e = EventOf(e[2])'
  BY DEF EventsOfTowers
<1>1. ASSUME NEW t, Sends(t)
      PROVE  e = EventOf(e[2])'
  <2>1. e \in open /\ mishaps = {} /\ towers' = towers
    BY <1>1 DEF Sends
  <2>2. QED
    BY <1>0, <2>1, EventsStay DEF EventsOfTowers
<1>2. ASSUME NEW p \in Problems, T!Raise(p) \/ T!Clear(p)
      PROVE  \E t : Sends(t)
  BY <1>0, <1>2, RaiseFacts, ClearFacts
<1>3. ASSUME T!Chatter
      PROVE  \E t : Sends(t)
  BY <1>0, <1>3, ChatterFacts
<1>4. ASSUME NEW l \in crew, T!Lose(l) \/ T!Swap(l)
      PROVE  FALSE
  BY <1>4, MishapFacts DEF T!Lose, T!Swap
<1>5. ASSUME NEW i \in DOMAIN towers, T!Configure(i)
      PROVE  FALSE
  BY <1>5, MishapFacts DEF T!Configure
<1>6. ASSUME NEW l \in crew, T!OnNewTrap(l)
      PROVE  e = EventOf(e[2])'
  <2>1. PICK t \in Alarms \cup Noise : Receives(l, t)
    BY <1>6, ReceiveFacts
  <2>2. mishaps = {} /\ \A K : EventOf(K)' = EventOf(K)
    BY <2>1, EventsStay DEF Receives
  <2>3. CASE e \in open
    BY <1>0, <2>2, <2>3 DEF EventsOfTowers
  <2>4. CASE e \notin open
    <3>1. t \in Alarms /\ T!HandleTrap(t)
      BY <2>1, <2>4 DEF Receives
    <3>2. PICK K : K = T!buildNetEcoAlarmKey(t)
      OBVIOUS
    <3>3. open' \in {open, open \cup {EventOf(K)}, open \ {EventOf(K)}}
      BY <1>0, <3>1, <3>2, Handling
    <3>4. e = EventOf(K) /\ EventOf(K)[2] = K
      BY <2>4, <3>3 DEF EventOf
    <3>5. QED
      BY <2>2, <3>4
  <2>5. QED
    BY <2>3, <2>4
<1>7. QED
  BY <1>1, <1>2, <1>3, <1>4, <1>5, <1>6 DEF T!Next

(* The state predicate of a key, at the key a problem has next.              *)
LEMMA PersistsOfKey ==
    ASSUME NEW K, NEW p, KeyOf(p)' = K, Persists(K)'
    PROVE  Persists(KeyOf(p))'
BY DEF Persists, IsOpen, EventOf, RaisesOf, ClearsOf

LEMMA PersistsStep ==
    ASSUME TrInv, T!Next
    PROVE  PersistentOpen'
<1>0. TrBase /\ TrapTypes /\ PersistentOpen
  BY DEF TrInv, TrBase
<1> SUFFICES ASSUME mishaps' = {}, NEW p \in Problems, Eligible(p)'
             PROVE  Persists(KeyOf(p))'
  BY DEF PersistentOpen
<1>a. ASSUME UNCHANGED <<problem, towers>>, active'[p] = active[p]
      PROVE  Eligible(p) /\ KeyOf(p)' = KeyOf(p)
  <2>1. /\ \A q : T!IsFault(q)' <=> T!IsFault(q)
        /\ \A m : T!resolveTowerID(m)' = T!resolveTowerID(m)
        /\ \A q, k, no : T!Trap(q, k, no)' = T!Trap(q, k, no)
    BY <1>a, MeaningStays, EventsStay
  <2>2. Eligible(p)
    BY <1>a, <2>1 DEF Eligible
  <2>3. KeyOf(p)' = KeyOf(p)
    BY <1>a DEF KeyOf, T!Trap, T!buildNetEcoAlarmKey, T!alarmTypeKey
  <2>4. QED
    BY <2>2, <2>3
<1>1. ASSUME NEW p0 \in Problems, T!Raise(p0)
      PROVE  Persists(KeyOf(p))'
  <2> DEFINE t == T!Trap(p0, 1, number + 1)
  <2>1. t \in Alarms /\ Sends(t) /\ active' = [active EXCEPT ![p0] = number + 1]
    BY <1>0, <1>1, RaiseFacts
  <2>2. t.EventType = 1
    BY DEF T!Trap
  <2>3. CASE p = p0
    <3>1. active'[p] = number + 1
      BY <1>0, <2>1, <2>3 DEF TrapTypes
    <3>2. KeyOf(p)' = T!buildNetEcoAlarmKey(t)
      BY <2>1, <2>3, <3>1 DEF KeyOf, Sends, T!Trap, T!buildNetEcoAlarmKey, T!alarmTypeKey
    <3>3. PICK K : K = T!buildNetEcoAlarmKey(t)
      OBVIOUS
    <3>4. t \in RaisesOf(K)
      BY <2>1, <2>2, <3>3 DEF RaisesOf
    <3>5. Persists(K)'
      BY <1>0, <2>1, <3>4, SendPersists
    <3>6. QED
      BY <3>2, <3>3, <3>5, PersistsOfKey
  <2>4. CASE p # p0
    <3>1. active'[p] = active[p]
      BY <1>0, <2>1, <2>4 DEF TrapTypes
    <3>2. Eligible(p) /\ KeyOf(p)' = KeyOf(p) /\ mishaps = {}
      BY <1>a, <2>1, <3>1 DEF Sends
    <3>3. PICK K : K = KeyOf(p)
      OBVIOUS
    <3>4. Persists(K)
      BY <1>0, <3>2, <3>3 DEF PersistentOpen
    <3>5. t \notin ClearsOf(K)
      BY <2>2 DEF ClearsOf
    <3>6. Persists(K)'
      BY <1>0, <2>1, <3>4, <3>5, SendPersists
    <3>7. QED
      BY <3>2, <3>3, <3>6, PersistsOfKey
  <2>5. QED
    BY <2>3, <2>4
<1>2. ASSUME NEW p0 \in Problems, T!Clear(p0)
      PROVE  Persists(KeyOf(p))'
  <2> DEFINE t == T!Trap(p0, 2, active[p0])
  <2>1. t \in Alarms /\ Sends(t) /\ active[p0] # 0 /\ active' = [active EXCEPT ![p0] = 0]
    BY <1>0, <1>2, ClearFacts
  <2>2. active'[p] # 0
    BY DEF Eligible
  <2>3. p # p0 /\ active'[p] = active[p]
    BY <1>0, <2>1, <2>2 DEF TrapTypes
  <2>4. Eligible(p) /\ KeyOf(p)' = KeyOf(p) /\ mishaps = {}
    BY <1>a, <2>1, <2>3 DEF Sends
  <2>5. PICK K : K = KeyOf(p)
    OBVIOUS
  <2>6. Persists(K)
    BY <1>0, <2>4, <2>5 DEF PersistentOpen
  <2>7. t \notin ClearsOf(K)
    <3> SUFFICES ASSUME T!buildNetEcoAlarmKey(t) = K PROVE FALSE
      BY DEF ClearsOf
    <3>1. /\ ~T!IsFault(p) => K = <<problem[p].neid, <<problem[p].text, active[p]>>>>
          /\ K[1] = problem[p].neid /\ (K[2][1] = "fault" <=> T!IsFault(p))
      BY <1>0, <2>5, KeyFacts DEF KeyOf
    <3>2. /\ ~T!IsFault(p0) => K = <<problem[p0].neid, <<problem[p0].text, active[p0]>>>>
          /\ K[1] = problem[p0].neid /\ (K[2][1] = "fault" <=> T!IsFault(p0))
      BY <1>0, KeyFacts
    <3>3. ~T!IsFault(p0)
      BY <2>3, <2>4, <3>1, <3>2 DEF Eligible
    <3>4. active[p] = active[p0]
      <4>1. K[2] = <<problem[p].text, active[p]>> /\ K[2] = <<problem[p0].text, active[p0]>>
        BY <3>1, <3>2, <3>3
      <4>2. QED
        BY <4>1
    <3>5. QED
      BY <1>0, <2>1, <2>3, <3>4 DEF TrBase, NumbersAreNew
  <2>8. Persists(K)'
    BY <1>0, <2>1, <2>6, <2>7, SendPersists
  <2>9. QED
    BY <2>4, <2>5, <2>8, PersistsOfKey
<1>3. ASSUME T!Chatter
      PROVE  Persists(KeyOf(p))'
  <2>1. PICK t \in Noise : Sends(t)
    BY <1>0, <1>3, ChatterFacts
  <2>2. UNCHANGED active
    BY <1>0, <1>3, ChatterFacts
  <2>3. Eligible(p) /\ KeyOf(p)' = KeyOf(p) /\ mishaps = {}
    BY <1>a, <2>1, <2>2 DEF Sends
  <2>4. PICK K : K = KeyOf(p)
    OBVIOUS
  <2>5. Persists(K)
    BY <1>0, <2>3, <2>4 DEF PersistentOpen
  <2>6. Persists(K)'
    BY <1>0, <2>1, <2>5, NoiseFacts, SendPersists
  <2>7. QED
    BY <2>3, <2>4, <2>6, PersistsOfKey
<1>4. ASSUME NEW l \in crew, T!Lose(l) \/ T!Swap(l)
      PROVE  FALSE
  BY <1>4, MishapFacts DEF T!Lose, T!Swap
<1>5. ASSUME NEW i \in DOMAIN towers, T!Configure(i)
      PROVE  FALSE
  BY <1>5, MishapFacts DEF T!Configure
<1>6. ASSUME NEW l \in crew, T!OnNewTrap(l)
      PROVE  Persists(KeyOf(p))'
  <2>1. PICK t \in Alarms \cup Noise : Receives(l, t)
    BY <1>6, ReceiveFacts
  <2>2. Eligible(p) /\ KeyOf(p)' = KeyOf(p) /\ mishaps = {}
    BY <1>a, <2>1 DEF Receives
  <2>3. PICK K : K = KeyOf(p)
    OBVIOUS
  <2>4. Persists(K)
    BY <1>0, <2>2, <2>3 DEF PersistentOpen
  <2>5. /\ ~T!IsFault(p) => K = <<problem[p].neid, <<problem[p].text, active[p]>>>>
        /\ K[1] = problem[p].neid /\ (K[2][1] = "fault" <=> T!IsFault(p))
    BY <1>0, <2>3, KeyFacts DEF KeyOf
  <2>6. T!resolveTowerID(K[1]) # 0
    BY <2>2, <2>5 DEF Eligible
  <2>7. ASSUME t \in RaisesOf(K)
        PROVE  T!Opens(t)
    <3>1. t \in Alarms /\ t.EventType = 1 /\ T!buildNetEcoAlarmKey(t) = K
      BY <2>7 DEF RaisesOf
    <3>2. PICK q \in Problems, k \in {1, 2}, no \in 1 .. MaxTraps : t = T!Trap(q, k, no)
      BY <3>1 DEF Alarms
    <3>3. t.Severity = problem[q].severity /\ t.Description = problem[q].text
      BY <3>2 DEF T!Trap
    <3>4. /\ ~T!IsFault(q) => K = <<problem[q].neid, <<problem[q].text, no>>>>
          /\ K[1] = problem[q].neid /\ (K[2][1] = "fault" <=> T!IsFault(q))
      BY <1>0, <3>1, <3>2, KeyFacts
    <3>5. problem[q].severity \in 1 .. 4 /\ problem[q].text # "sem descricao"
      <4>1. CASE T!IsFault(p)
        <5>1. q = p
          BY <2>2, <2>5, <3>4, <4>1 DEF Eligible
        <5>2. QED
          BY <2>2, <5>1 DEF Eligible
      <4>2. CASE ~T!IsFault(p)
        <5>1. K[2] = <<problem[p].text, active[p]>> /\ K[2] = <<problem[q].text, no>>
          BY <2>5, <3>4, <4>2
        <5>2. problem[q].text = problem[p].text
          BY <5>1
        <5>3. problem[p].text = ""
          BY <1>0, <2>2, <4>2, KindFacts DEF T!IsFault, Eligible
        <5>4. problem[q].severity = 4
          BY <1>0, <5>2, <5>3, KindFacts
        <5>5. problem[q].severity \in 1 .. 4
          BY <5>4
        <5>6. QED
          BY <5>2, <5>3, <5>5
      <4>3. QED
        BY <4>1, <4>2
    <3>6. T!mapSeverity(t.Severity) # "info"
      <4>1. \A x \in 1 .. 4 : x \in {1, 2} \/ x \in {3, 4}
        OBVIOUS
      <4>2. t.Severity \in 1 .. 4
        BY <3>3, <3>5
      <4>3. t.Severity \in {1, 2} \/ t.Severity \in {3, 4}
        BY <4>1, <4>2
      <4>4. QED
        BY <4>3 DEF T!mapSeverity
    <3>7. t.EventType # 2
      BY <3>1
    <3>8. t.Description # "sem descricao"
      BY <3>3, <3>5
    <3>9. QED
      BY <3>6, <3>7, <3>8 DEF T!Opens
  <2>8. Persists(K)'
    BY <1>0, <2>1, <2>4, <2>6, <2>7, ReceivePersists
  <2>9. QED
    BY <2>2, <2>3, <2>8, PersistsOfKey
<1>7. QED
  BY <1>1, <1>2, <1>3, <1>4, <1>5, <1>6 DEF T!Next

(* The tickets of a fault are paid for, if there is one listener and traps   *)
(* are at most lost.                                                         *)
LEMMA FaultsType ==
    ASSUME NEW n
    PROVE  ActiveFaults(n) \in SUBSET Problems /\ IsFiniteSet(ActiveFaults(n)) /\ Cardinality(ActiveFaults(n)) \in Nat
<1>1. ActiveFaults(n) \in SUBSET Problems
  BY DEF ActiveFaults
<1>2. IsFiniteSet(ActiveFaults(n))
  BY <1>1, TrapConstants, FS_Subset
<1>3. QED
  BY <1>1, <1>2, FS_CardinalityType

FaultsOf(n) == Cardinality(ActiveFaults(n)) \in Nat
LEMMA FaultsNow ==
    ASSUME NEW CONSTANT n
    PROVE  FaultsOf(n)
BY FaultsType DEF FaultsOf

(* Sending: the credit grows with the faults, and covers what is sent.       *)
LEMMA SendPaid ==
    ASSUME TrBase, NEW t \in Alarms \cup Noise, Sends(t), NEW l \in crew, NEW n \in NEIDs,
           TicketsArePaid(l, n), NEW d \in Nat,
           spare'[n] = spare[n] + d,
           Cardinality(ActiveFaults(n))' + (IF t \in ClearsOf(FaultKey(n)) THEN 1 ELSE 0)
               <= Cardinality(ActiveFaults(n)) + d,
           t \in RaisesOf(FaultKey(n)) => Cardinality(ActiveFaults(n))' >= 1
    PROVE  TicketsArePaid(l, n)'
<1> DEFINE K == FaultKey(n)
           U == ClearsOf(K)
           R == RaisesOf(K)
           w == wire[l]
           v == wire'[l]
           A == Cardinality(ActiveFaults(n))
           B == Cardinality(ActiveFaults(n))'
           open1 == OpenCount(K)
           one == IF t \in U THEN 1 ELSE 0
<1>1. /\ T!Send(t) /\ U' = U /\ R' = R /\ OpenCount(K)' = open1
  BY MeaningStays, EventsStay DEF Sends
<1>2. TrapTypes /\ spare[n] \in Int
  BY DEF TrBase, SpareType
<1>3. l \in Listeners /\ v = Append(w, t) /\ w \in Seq(Alarms \cup Noise)
  BY <1>1, <1>2, SendWire, WireFacts
<1>4. /\ spare[n] >= 0
      /\ spare[n] + open1 >= A + CountOf(w, U)
      /\ \A i \in 1 .. Len(w) : w[i] \in R => spare[n] + open1 >= 1 + CountBefore(w, U, i)
  BY DEF TicketsArePaid
<1>5. A \in Nat /\ B \in Nat /\ open1 \in Nat
  <2>1. A \in Nat
    BY FaultsType
  <2>2. B \in Nat
    <3>1. FaultsOf(n)'
      BY FaultsNow, PTL
    <3>2. QED
      BY <3>1 DEF FaultsOf
  <2>3. QED
    BY <2>1, <2>2 DEF OpenCount
<1>6. /\ \A i \in 1 .. Len(w) + 1 : CountBefore(v, U, i) = CountBefore(w, U, i)
      /\ CountOf(v, U) = CountOf(w, U) + one
  BY <1>3, AppendCount
<1>7. /\ v[Len(w) + 1] = t /\ Len(v) = Len(w) + 1 /\ Len(w) \in Nat
      /\ \A i \in 1 .. Len(w) : v[i] = w[i]
  BY <1>3, AppendProperties
<1>8. CountOf(w, U) \in Nat /\ \A i \in 1 .. Len(w) + 1 : CountBefore(w, U, i) \in Nat
  BY <1>3, CountType DEF CountOf
<1>9. B + one <= A + d /\ (t \in R => B >= 1) /\ spare'[n] = spare[n] + d
  OBVIOUS
<1>10. one \in {0, 1} /\ CountOf(w, U) = CountBefore(w, U, Len(w) + 1)
  BY DEF CountOf
<1>11. (t \in R) => one = 0
  BY RaisesAndClears
<1> HIDE DEF K, U, R, w, v, A, B, open1, one
<1>12. spare'[n] >= 0 /\ spare'[n] + open1 >= B + CountOf(v, U)
  <2>1. spare[n] \in Int /\ spare[n] >= 0 /\ spare[n] + open1 >= A + CountOf(w, U)
    BY <1>2, <1>4
  <2>2. CountOf(v, U) = CountOf(w, U) + one /\ CountOf(w, U) \in Nat /\ one \in Nat
    BY <1>6, <1>8, <1>10
  <2>3. spare'[n] = spare[n] + d /\ B + one <= A + d
    BY <1>9
  <2> DEFINE s == spare[n]
             c == CountOf(w, U)
  <2>4. s \in Int /\ s >= 0 /\ s + open1 >= A + c /\ c \in Nat
    BY <2>1, <2>2
  <2>5. spare'[n] = s + d /\ CountOf(v, U) = c + one
    BY <2>2, <2>3
  <2> HIDE DEF s, c
  <2>6. s + d >= 0 /\ s + d + open1 >= B + (c + one)
    BY <1>5, <2>2, <2>3, <2>4
  <2>7. QED
    BY <2>5, <2>6
<1>13. ASSUME NEW i \in 1 .. Len(v), v[i] \in R
       PROVE  spare'[n] + open1 >= 1 + CountBefore(v, U, i)
  <2>1. CASE i = Len(w) + 1
    <3>1. t \in R
      BY <1>7, <1>13, <2>1
    <3>2. CountBefore(v, U, i) = CountOf(w, U) /\ i \in 1 .. Len(w) + 1
      BY <1>6, <1>7, <1>10, <2>1
    <3>3. B >= 1 /\ CountOf(v, U) = CountOf(w, U)
      BY <1>6, <1>8, <1>9, <1>11, <3>1
    <3>4. QED
      BY <1>2, <1>5, <1>8, <1>9, <1>12, <3>2, <3>3
  <2>2. CASE i # Len(w) + 1
    <3>1. i \in 1 .. Len(w) /\ i \in 1 .. Len(w) + 1
      BY <1>7, <2>2
    <3>2. w[i] \in R
      BY <1>7, <1>13, <3>1
    <3>3. spare[n] + open1 >= 1 + CountBefore(w, U, i) /\ CountBefore(v, U, i) = CountBefore(w, U, i)
      BY <1>4, <1>6, <3>1, <3>2
    <3>4. CountBefore(w, U, i) \in Nat
      BY <1>8, <3>1
    <3>5. QED
      BY <1>2, <1>5, <1>9, <3>3, <3>4
  <2>3. QED
    BY <2>1, <2>2
<1>14. QED
  BY <1>1, <1>12, <1>13 DEF TicketsArePaid, K, U, R, v, B, open1

(* A wire loses its first trap: the credit may shrink by a clear.            *)
LEMMA TailPaid ==
    ASSUME TrBase, NEW l \in crew, NEW n \in NEIDs, TicketsArePaid(l, n),
           wire[l] # <<>>, wire'[l] = Tail(wire[l]), UNCHANGED <<problem, active>>,
           spare'[n] \in Int, spare'[n] >= 0, OpenCount(FaultKey(n))' \in Nat,
           spare'[n] + OpenCount(FaultKey(n))' >=
               (spare[n] + OpenCount(FaultKey(n))) - (IF Head(wire[l]) \in ClearsOf(FaultKey(n)) THEN 1 ELSE 0)
    PROVE  TicketsArePaid(l, n)'
<1> DEFINE K == FaultKey(n)
           U == ClearsOf(K)
           R == RaisesOf(K)
           w == wire[l]
           v == wire'[l]
           A == Cardinality(ActiveFaults(n))
           one == IF Head(wire[l]) \in ClearsOf(FaultKey(n)) THEN 1 ELSE 0
           c == spare[n] + OpenCount(FaultKey(n))
           e == spare'[n] + OpenCount(FaultKey(n))'
<1>1. U' = U /\ R' = R /\ Cardinality(ActiveFaults(n))' = A
  BY MeaningStays, ActiveStay
<1>2. l \in Listeners /\ w \in Seq(Alarms \cup Noise) /\ spare[n] \in Int
  BY WireFacts DEF TrBase, TrapTypes, SpareType
<1>3. /\ c >= A + CountOf(w, U)
      /\ \A i \in 1 .. Len(w) : w[i] \in R => c >= 1 + CountBefore(w, U, i)
  BY DEF TicketsArePaid
<1>4. A \in Nat /\ c \in Int /\ e \in Int
  BY <1>2, FaultsType DEF OpenCount
<1>5. e >= c - one /\ one \in {0, 1} /\ v = Tail(w) /\ w # <<>> /\ spare'[n] >= 0
  <2>1. e >= c - one
    OBVIOUS
  <2>2. one \in {0, 1}
    OBVIOUS
  <2>3. v = Tail(w) /\ w # <<>> /\ spare'[n] >= 0
    OBVIOUS
  <2>4. QED
    BY <2>1, <2>2, <2>3
<1> HIDE DEF U, R, w, v, A, one, c, e
<1>6. /\ \A i \in 1 .. Len(w) : CountBefore(w, U, i + 1) = CountBefore(v, U, i) + one
      /\ CountOf(w, U) = CountOf(v, U) + one
  BY <1>2, <1>5, TailCount DEF one, w, U, v
<1>7. /\ v \in Seq(Alarms \cup Noise) /\ Len(v) = Len(w) - 1 /\ Len(w) \in Nat
      /\ \A i \in 1 .. Len(v) : v[i] = w[i + 1]
  BY <1>2, <1>5, HeadTailProperties
<1>8. CountOf(v, U) \in Nat /\ \A i \in 1 .. Len(v) : CountBefore(v, U, i) \in Nat
  BY <1>7, CountType DEF CountOf
<1>9. e >= A + CountOf(v, U)
  BY <1>3, <1>4, <1>5, <1>6, <1>8
<1>10. ASSUME NEW i \in 1 .. Len(v), v[i] \in R
       PROVE  e >= 1 + CountBefore(v, U, i)
  <2>1. i \in 1 .. Len(w) /\ i + 1 \in 1 .. Len(w)
    BY <1>7
  <2>2. c >= 1 + CountBefore(w, U, i + 1)
    BY <1>3, <1>7, <1>10, <2>1
  <2>3. CountBefore(w, U, i + 1) = CountBefore(v, U, i) + one /\ CountBefore(v, U, i) \in Nat
    BY <1>6, <1>8, <2>1
  <2>4. QED
    BY <1>4, <1>5, <2>2, <2>3
<1>11. QED
  BY <1>1, <1>5, <1>9, <1>10 DEF TicketsArePaid, U, R, v, A, e

LEMMA LosePaid ==
    ASSUME TrBase, NEW l \in crew, T!Lose(l), NEW n \in NEIDs, TicketsArePaid(l, n)
    PROVE  TicketsArePaid(l, n)'
<1>1. /\ wire[l] # <<>> /\ wire' = [wire EXCEPT ![l] = Tail(@)]
      /\ UNCHANGED <<problem, active, towers, open, spare>>
  BY DEF T!Lose
<1>2. l \in Listeners /\ wire'[l] = Tail(wire[l])
  BY <1>1, ReceivedWire DEF TrBase, TrapTypes
<1>3. OpenCount(FaultKey(n))' = OpenCount(FaultKey(n)) /\ OpenCount(FaultKey(n)) \in Nat
  BY <1>1, EventsStay DEF OpenCount
<1>4. spare'[n] = spare[n] /\ spare[n] \in Int /\ spare[n] >= 0
  BY <1>1 DEF TrBase, SpareType, TicketsArePaid
<1>5. spare'[n] + OpenCount(FaultKey(n))' >=
          (spare[n] + OpenCount(FaultKey(n))) - (IF Head(wire[l]) \in ClearsOf(FaultKey(n)) THEN 1 ELSE 0)
  BY <1>3, <1>4
<1>6. QED
  BY <1>1, <1>2, <1>3, <1>4, <1>5, TailPaid

LEMMA ReceivePaid ==
    ASSUME TrBase, NEW l \in crew, NEW t \in Alarms \cup Noise, Receives(l, t), NEW n \in NEIDs,
           TicketsArePaid(l, n)
    PROVE  TicketsArePaid(l, n)'
<1> DEFINE K == FaultKey(n)
           U == ClearsOf(K)
           R == RaisesOf(K)
<1>1. /\ t = Head(wire[l]) /\ wire[l] # <<>> /\ wire' = [wire EXCEPT ![l] = Tail(@)]
      /\ UNCHANGED <<problem, active, towers>>
  BY DEF Receives
<1>2. TrapTypes /\ EventShape /\ SpareType /\ l \in Listeners /\ spare[n] \in Int
  BY DEF TrBase, TrapTypes, SpareType
<1>3. wire'[l] = Tail(wire[l]) /\ wire[l] \in Seq(Alarms \cup Noise)
  BY <1>1, <1>2, ReceivedWire, WireFacts
<1>4. /\ t \in U => ~IsOpen(K)'
      /\ t \in R => (IsOpen(K) => IsOpen(K)')
      /\ t \notin U /\ t \notin R => (IsOpen(K)' <=> IsOpen(K))
  BY <1>2, ReceiveEvent
<1>5. \/ spare'[n] = spare[n]
      \/ t \in R /\ ~IsOpen(K) /\ IsOpen(K)' /\ spare'[n] = spare[n] - 1
  BY <1>2, ReceiveSpare
<1>6. ~(t \in R /\ t \in U)
  BY RaisesAndClears
<1>7. spare[n] >= 0 /\ (t \in R => spare[n] + OpenCount(K) >= 1)
  <2>1. spare[n] >= 0 /\ \A i \in 1 .. Len(wire[l]) :
            wire[l][i] \in R => spare[n] + OpenCount(K) >= 1 + CountBefore(wire[l], U, i)
    BY DEF TicketsArePaid
  <2>2. 1 \in 1 .. Len(wire[l]) /\ wire[l][1] = t
    BY <1>1, <1>3, HeadTailProperties
  <2>3. CountBefore(wire[l], U, 1) \in Nat
    BY <1>3, CountType
  <2>4. OpenCount(K) \in Nat
    BY DEF OpenCount
  <2>5. QED
    BY <1>2, <2>1, <2>2, <2>3, <2>4
<1>8. /\ OpenCount(K) = IF IsOpen(K) THEN 1 ELSE 0
      /\ OpenCount(K)' = IF IsOpen(K)' THEN 1 ELSE 0
  BY DEF OpenCount
<1> DEFINE a == OpenCount(K)
           b == OpenCount(K)'
           one == IF t \in U THEN 1 ELSE 0
<1>9. /\ a \in {0, 1} /\ b \in {0, 1} /\ one \in {0, 1}
      /\ b < a => one = 1
      /\ spare'[n] = spare[n] \/ (spare'[n] = spare[n] - 1 /\ a = 0 /\ b = 1 /\ spare[n] >= 1)
  <2>1. a \in {0, 1} /\ b \in {0, 1} /\ one \in {0, 1}
    BY <1>8
  <2>2. b < a => IsOpen(K) /\ ~IsOpen(K)'
    BY <1>8
  <2>3. b < a => one = 1
    BY <1>4, <1>6, <2>2
  <2>4. ASSUME spare'[n] # spare[n]
        PROVE  spare'[n] = spare[n] - 1 /\ a = 0 /\ b = 1 /\ spare[n] >= 1
    <3>1. t \in R /\ ~IsOpen(K) /\ IsOpen(K)' /\ spare'[n] = spare[n] - 1
      BY <1>5, <2>4
    <3>2. a = 0 /\ b = 1
      BY <1>8, <3>1
    <3>3. spare[n] + a >= 1
      BY <1>7, <3>1
    <3>4. QED
      BY <1>2, <3>1, <3>2, <3>3
  <2>5. QED
    BY <2>1, <2>3, <2>4
<1> HIDE DEF a, b, one
<1>10. /\ spare'[n] \in Int /\ spare'[n] >= 0 /\ b \in Nat
       /\ spare'[n] + b >= (spare[n] + a) - one
  BY <1>2, <1>7, <1>9
<1>11. QED
  BY <1>1, <1>3, <1>10, TailPaid DEF a, b, one

LEMMA RaisePaid ==
    ASSUME TrBase, NEW p \in Problems, T!Raise(p), NEW l \in crew, NEW n \in NEIDs, TicketsArePaid(l, n)
    PROVE  TicketsArePaid(l, n)'
<1> DEFINE t == T!Trap(p, 1, number + 1)
           K == FaultKey(n)
           A == ActiveFaults(n)
           B == ActiveFaults(n)'
<1>1. /\ t \in Alarms /\ Sends(t)
      /\ number + 1 \in 1 .. MaxTraps
      /\ active' = [active EXCEPT ![p] = number + 1]
      /\ spare' = [spare EXCEPT ![problem[p].neid] = IF T!IsFault(p) /\ active[p] = 0 THEN @ + 1 ELSE @]
  BY RaiseFacts
<1>2. TrapTypes /\ spare \in [NEIDs -> Int] /\ active \in [Problems -> 0 .. MaxTraps]
  BY DEF TrBase, SpareType, TrapTypes
<1>3. t \notin ClearsOf(K) /\ (t \in RaisesOf(K) <=> T!IsFault(p) /\ problem[p].neid = n)
  BY <1>1, <1>2, FaultTraps
<1>4. active'[p] # 0 /\ \A q \in Problems \ {p} : active'[q] = active[q]
  BY <1>1, <1>2
<1>5. \A q : T!IsFault(q)' <=> T!IsFault(q)
  BY <1>1, MeaningStays DEF Sends
<1>6. B = IF t \in RaisesOf(K) THEN A \cup {p} ELSE A
  <2>1. \A q \in Problems : q \in B <=> q \in A \/ (q = p /\ t \in RaisesOf(K))
    BY <1>1, <1>3, <1>4, <1>5 DEF Sends, ActiveFaults
  <2>2. A \subseteq Problems /\ B \subseteq Problems
    BY DEF ActiveFaults
  <2> HIDE DEF A, B, K, t
  <2>3. QED
    BY <2>1, <2>2
<1>7. t \in RaisesOf(K) => (p \in A <=> active[p] # 0)
  BY <1>3 DEF ActiveFaults
<1>8. t \notin RaisesOf(K) => p \notin A
  BY <1>3 DEF ActiveFaults
<1>9. IsFiniteSet(A) /\ Cardinality(A) \in Nat
  BY FaultsType
<1> HIDE DEF A, B, K, t
<1>10. CASE t \in RaisesOf(K) /\ active[p] = 0
  <2>1. Cardinality(B) = Cardinality(A) + 1
    BY <1>6, <1>7, <1>9, <1>10, FS_AddElement
  <2>2. spare'[n] = spare[n] + 1
    BY <1>1, <1>2, <1>3, <1>10
  <2>3. /\ Cardinality(B) + (IF t \in ClearsOf(K) THEN 1 ELSE 0) <= Cardinality(A) + 1
        /\ t \in RaisesOf(K) => Cardinality(B) >= 1
    BY <1>3, <1>9, <2>1
  <2>4. QED
    BY <1>1, <2>2, <2>3, SendPaid DEF A, B, K
<1>11. CASE ~(t \in RaisesOf(K) /\ active[p] = 0)
  <2>1. B = A /\ (t \in RaisesOf(K) => Cardinality(A) >= 1)
    <3>1. B = A
      BY <1>6, <1>7, <1>8, <1>11
    <3>2. t \in RaisesOf(K) => A # {}
      BY <1>7, <1>11
    <3>3. QED
      BY <1>9, <3>1, <3>2, FS_EmptySet
  <2>2. spare'[n] = spare[n]
    BY <1>1, <1>2, <1>3, <1>11
  <2>3. spare'[n] = spare[n] + 0
    BY <1>2, <2>2
  <2>4. /\ Cardinality(B) + (IF t \in ClearsOf(K) THEN 1 ELSE 0) <= Cardinality(A) + 0
        /\ t \in RaisesOf(K) => Cardinality(B) >= 1
    BY <1>3, <1>9, <2>1
  <2>5. QED
    BY <1>1, <2>3, <2>4, SendPaid DEF A, B, K
<1>12. QED
  BY <1>10, <1>11

LEMMA ClearPaid ==
    ASSUME TrBase, NEW p \in Problems, T!Clear(p), NEW l \in crew, NEW n \in NEIDs, TicketsArePaid(l, n)
    PROVE  TicketsArePaid(l, n)'
<1> DEFINE t == T!Trap(p, 2, active[p])
           K == FaultKey(n)
           A == ActiveFaults(n)
           B == ActiveFaults(n)'
<1>1. /\ t \in Alarms /\ Sends(t)
      /\ active[p] # 0 /\ active' = [active EXCEPT ![p] = 0]
      /\ UNCHANGED spare
  BY ClearFacts
<1>2. TrapTypes /\ spare \in [NEIDs -> Int] /\ active \in [Problems -> 0 .. MaxTraps]
  BY DEF TrBase, SpareType, TrapTypes
<1>3. t \notin RaisesOf(K) /\ (t \in ClearsOf(K) <=> T!IsFault(p) /\ problem[p].neid = n)
  BY <1>1, <1>2, FaultTraps
<1>4. active'[p] = 0 /\ \A q \in Problems \ {p} : active'[q] = active[q]
  BY <1>1, <1>2
<1>5. \A q : T!IsFault(q)' <=> T!IsFault(q)
  BY <1>1, MeaningStays DEF Sends
<1>6. B = A \ {p}
  <2>1. \A q \in Problems : q \in B <=> q \in A /\ q # p
    BY <1>1, <1>4, <1>5 DEF Sends, ActiveFaults
  <2>2. A \subseteq Problems /\ B \subseteq Problems
    BY DEF ActiveFaults
  <2> HIDE DEF A, B, K, t
  <2>3. QED
    BY <2>1, <2>2
<1>7. t \in ClearsOf(K) <=> p \in A
  BY <1>1, <1>3 DEF ActiveFaults
<1>8. IsFiniteSet(A) /\ Cardinality(A) \in Nat
  BY FaultsType
<1>9. spare'[n] = spare[n] + 0
  BY <1>1, <1>2
<1> HIDE DEF A, B, K, t
<1>10. Cardinality(B) = IF p \in A THEN Cardinality(A) - 1 ELSE Cardinality(A)
  BY <1>6, <1>8, FS_RemoveElement
<1>11. /\ Cardinality(B) + (IF t \in ClearsOf(K) THEN 1 ELSE 0) <= Cardinality(A) + 0
       /\ t \in RaisesOf(K) => Cardinality(B) >= 1
  BY <1>3, <1>7, <1>8, <1>10
<1>12. QED
  BY <1>1, <1>9, <1>11, SendPaid DEF A, B, K

LEMMA ChatterPaid ==
    ASSUME TrBase, T!Chatter, NEW l \in crew, NEW n \in NEIDs, TicketsArePaid(l, n)
    PROVE  TicketsArePaid(l, n)'
<1>1. PICK t \in Noise : Sends(t)
  BY ChatterFacts
<1>2. UNCHANGED <<problem, active, spare>>
  BY <1>1, ChatterFacts DEF Sends
<1>3. t \notin ClearsOf(FaultKey(n)) /\ t \notin RaisesOf(FaultKey(n))
  BY NoiseFacts
<1>4. ActiveFaults(n)' = ActiveFaults(n) /\ Cardinality(ActiveFaults(n)) \in Nat
  BY <1>2, ActiveStay, FaultsType
<1>5. spare'[n] = spare[n] + 0
  BY <1>2 DEF TrBase, SpareType
<1>6. Cardinality(ActiveFaults(n))' + (IF t \in ClearsOf(FaultKey(n)) THEN 1 ELSE 0)
          <= Cardinality(ActiveFaults(n)) + 0
  BY <1>3, <1>4
<1>7. QED
  BY <1>1, <1>3, <1>5, <1>6, SendPaid

LEMMA NextKeepsCrew ==
    ASSUME T!Next
    PROVE  crew' = crew /\ mishaps \subseteq mishaps'
<1>1. ASSUME NEW p \in Problems, T!Raise(p) \/ T!Clear(p)
      PROVE  crew' = crew /\ mishaps \subseteq mishaps'
  BY <1>1 DEF T!Raise, T!Clear
<1>2. ASSUME T!Chatter
      PROVE  crew' = crew /\ mishaps \subseteq mishaps'
  BY <1>2 DEF T!Chatter
<1>3. ASSUME NEW l \in crew, T!Lose(l) \/ T!Swap(l)
      PROVE  crew' = crew /\ mishaps \subseteq mishaps'
  BY <1>3 DEF T!Lose, T!Swap, T!Mishap
<1>4. ASSUME NEW i \in DOMAIN towers, T!Configure(i)
      PROVE  crew' = crew /\ mishaps \subseteq mishaps'
  BY <1>4 DEF T!Configure, T!Mishap
<1>5. ASSUME NEW l \in crew, T!OnNewTrap(l)
      PROVE  crew' = crew /\ mishaps \subseteq mishaps'
  BY <1>5 DEF T!OnNewTrap
<1>6. QED
  BY <1>1, <1>2, <1>3, <1>4, <1>5 DEF T!Next

LEMMA PaidStep ==
    ASSUME TrInv, T!Next
    PROVE  Paid'
<1>0. TrBase /\ Paid
  BY DEF TrInv, TrBase
<1>1. crew' = crew /\ mishaps \subseteq mishaps'
  BY NextKeepsCrew
<1> SUFFICES ASSUME Orderly', NEW l \in crew, NEW n \in NEIDs
             PROVE  TicketsArePaid(l, n)'
  BY <1>1 DEF Paid
<1>2. Orderly /\ TicketsArePaid(l, n)
  BY <1>0, <1>1 DEF Orderly, Paid
<1>3. \A k \in crew : k = l
  BY <1>2 DEF Orderly
<1>4. ASSUME NEW p \in Problems, T!Raise(p)
      PROVE  TicketsArePaid(l, n)'
  BY <1>0, <1>2, <1>4, RaisePaid
<1>5. ASSUME NEW p \in Problems, T!Clear(p)
      PROVE  TicketsArePaid(l, n)'
  BY <1>0, <1>2, <1>5, ClearPaid
<1>6. ASSUME T!Chatter
      PROVE  TicketsArePaid(l, n)'
  BY <1>0, <1>2, <1>6, ChatterPaid
<1>7. ASSUME T!Lose(l)
      PROVE  TicketsArePaid(l, n)'
  BY <1>0, <1>2, <1>7, LosePaid
<1>8. ASSUME T!Swap(l)
      PROVE  FALSE
  <2>1. "swapped" \in mishaps'
    BY <1>8, MishapFacts DEF T!Swap
  <2>2. QED
    BY <2>1 DEF Orderly
<1>9. ASSUME NEW i \in DOMAIN towers, T!Configure(i)
      PROVE  FALSE
  <2>1. "moved" \in mishaps'
    BY <1>9, MishapFacts DEF T!Configure
  <2>2. QED
    BY <2>1 DEF Orderly
<1>10. ASSUME T!OnNewTrap(l)
       PROVE  TicketsArePaid(l, n)'
  <2>1. PICK t \in Alarms \cup Noise : Receives(l, t)
    BY <1>10, ReceiveFacts
  <2>2. QED
    BY <1>0, <1>2, <2>1, ReceivePaid
<1>11. QED
  BY <1>3, <1>4, <1>5, <1>6, <1>7, <1>8, <1>9, <1>10 DEF T!Next

LEMMA TrapsStep ==
    ASSUME TrInv, T!Next
    PROVE  TrInv'
<1>0. TrBase
  BY BaseOfInv
<1>1. TrBase'
  <2>1. ASSUME NEW l \in crew, T!OnNewTrap(l)
        PROVE  TrBase'
    <3>1. PICK t \in Alarms \cup Noise : Receives(l, t)
      BY <2>1, ReceiveFacts
    <3>2. QED
      BY <1>0, <3>1, ReceiveBase
  <2>2. QED
    BY <1>0, <2>1, RaiseBase, ClearBase, ChatterBase, LoseBase, SwapBase, ConfigureBase DEF T!Next
<1>2. EventsOfTowers' /\ Paid' /\ OversClose' /\ PersistentOpen'
  BY EventsStep, PaidStep, OversStep, PersistsStep
<1>3. QED
  BY <1>1, <1>2 DEF TrInv, TrBase

(* The traps stand still while the feed or a cycle runs.                     *)
LEMMA TrapsStand ==
    ASSUME TrInv, UNCHANGED trapVars
    PROVE  TrInv'
<1>1. UNCHANGED <<crew, problem, active, number, wire, towers, open, spare, mishaps>>
  BY DEF trapVars
<1>2. UNCHANGED problem /\ UNCHANGED towers /\ UNCHANGED <<active, number>> /\ UNCHANGED <<problem, active>>
  BY <1>1
<1>3. Alarms' = Alarms /\ Noise' = Noise
  BY <1>2, MeaningStays DEF Noise
<1>4. TrapTypes' /\ SpareType' /\ NumbersAreNew' /\ EventShape'
  BY <1>1, <1>3, EventsKeepShape, NumbersStayNew DEF TrInv, TrapTypes, SpareType
<1>5. /\ \A n : T!resolveTowerID(n)' = T!resolveTowerID(n)
      /\ \A K : EventOf(K)' = EventOf(K) /\ RaisesOf(K)' = RaisesOf(K) /\ ClearsOf(K)' = ClearsOf(K)
      /\ \A K : (IsOpen(K)' <=> IsOpen(K)) /\ OpenCount(K)' = OpenCount(K)
      /\ \A n : ActiveFaults(n)' = ActiveFaults(n)
      /\ \A p : T!IsFault(p)' <=> T!IsFault(p)
  BY <1>1, <1>2, MeaningStays, EventsStay, ActiveStay
<1>6. EventsOfTowers'
  BY <1>1, <1>5 DEF TrInv, EventsOfTowers
<1>7. Paid'
  BY <1>1, <1>5 DEF TrInv, Paid, Orderly, TicketsArePaid
<1>8. OversClose'
  BY <1>1, <1>5 DEF TrInv, OversClose, IsOver
<1>9. PersistentOpen'
  <2>1. \A p \in Problems : KeyOf(p)' = KeyOf(p) /\ (Eligible(p)' => Eligible(p))
    BY <1>1, <1>5 DEF KeyOf, Eligible, T!Trap, T!buildNetEcoAlarmKey, T!alarmTypeKey
  <2>2. \A K : Persists(K) => Persists(K)'
    BY <1>1, <1>5 DEF Persists
  <2> SUFFICES ASSUME mishaps' = {}, NEW p \in Problems, Eligible(p)'
               PROVE  Persists(KeyOf(p))'
    BY DEF PersistentOpen
  <2>3. Persists(KeyOf(p))
    BY <1>1, <2>1 DEF TrInv, PersistentOpen
  <2>4. PICK K : K = KeyOf(p)
    OBVIOUS
  <2>5. KeyOf(p)' = K
    BY <2>1, <2>4
  <2>6. Persists(K)'
    BY <2>2, <2>3, <2>4
  <2>7. QED
    BY <2>5, <2>6, PersistsOfKey
<1>10. QED
  BY <1>4, <1>6, <1>7, <1>8, <1>9 DEF TrInv

LEMMA TrapsStart ==
    ASSUME FeedsInit
    PROVE  TrInv
<1>1. /\ crew \in (SUBSET Listeners) \ {{}}
      /\ problem \in [Problems -> TrapKinds]
      /\ active = [p \in Problems |-> 0]
      /\ number = 0
      /\ wire = [l \in Listeners |-> <<>>]
      /\ towers \in [1 .. 2 -> NEIDs \cup {None}]
      /\ open = {}
      /\ spare = [n \in NEIDs |-> 0]
      /\ mishaps = {}
  BY DEF FeedsInit, T!Init
<1>2. \A n : ActiveFaults(n) = {}
  BY <1>1 DEF ActiveFaults
<1>3. Cardinality({}) = 0
  BY FS_EmptySet
<1>4. \A l \in crew : l \in Listeners /\ wire[l] = <<>> /\ Len(wire[l]) = 0
  BY <1>1
<1>5. TrapTypes
  <2>1. <<>> \in Seq(Alarms \cup Noise) /\ 0 \in 0 .. MaxTraps
    BY TrapConstants
  <2> DEFINE S == Seq(Alarms \cup Noise)
  <2>2. wire \in [Listeners -> S]
    <3>1. <<>> \in S
      BY <2>1
    <3> HIDE DEF S
    <3>2. QED
      BY <1>1, <3>1
  <2>3. active \in [Problems -> 0 .. MaxTraps]
    BY <1>1, <2>1
  <2>4. crew \in SUBSET Listeners /\ crew # {}
    BY <1>1
  <2>5. problem \in [Problems -> TrapKinds] /\ towers \in [1 .. 2 -> NEIDs \cup {None}]
    BY <1>1
  <2>6. QED
    BY <2>2, <2>3, <2>4, <2>5 DEF TrapTypes
<1>6. EventShape /\ EventsOfTowers /\ SpareType
  BY <1>1 DEF EventShape, EventsOfTowers, SpareType
<1>7. NumbersAreNew
  BY <1>1, TrapConstants DEF NumbersAreNew
<1>8. Paid
  <2> SUFFICES ASSUME NEW l \in crew, NEW n \in NEIDs
               PROVE  TicketsArePaid(l, n)
    BY DEF Paid
  <2>1. Places(wire[l], ClearsOf(FaultKey(n)), Len(wire[l]) + 1) = {}
    BY <1>4 DEF Places
  <2>2. CountOf(wire[l], ClearsOf(FaultKey(n))) = 0
    BY <1>3, <2>1 DEF CountOf, CountBefore
  <2>3. spare[n] = 0 /\ OpenCount(FaultKey(n)) = 0 /\ Cardinality(ActiveFaults(n)) = 0
    BY <1>1, <1>2, <1>3 DEF OpenCount, IsOpen
  <2>4. QED
    BY <1>4, <2>2, <2>3 DEF TicketsArePaid
<1>9. OversClose
  BY <1>1, <1>4 DEF OversClose, IsOver, Followed, IsOpen
<1>10. PersistentOpen
  BY <1>1 DEF PersistentOpen, Eligible
<1>11. QED
  BY <1>5, <1>6, <1>7, <1>8, <1>9, <1>10 DEF TrInv

(* What the invariant says of the traps' properties.                         *)
LEMMA TrapsMeaning ==
    ASSUME TrInv
    PROVE  T!TrapsInv
<1>0. TrapTypes /\ EventShape /\ SpareType /\ NumbersAreNew /\ EventsOfTowers /\ Paid /\ OversClose /\ PersistentOpen
  BY DEF TrInv
<1>1. T!TypeOK
  <2>1. ASSUME NEW e \in open
        PROVE  e[1] \in DOMAIN towers /\ e[2][1] \in NEIDs
    <3>1. PICK p \in Problems : IsOf(e[2], p)
      BY <1>0 DEF EventShape
    <3>2. e[1] \in 1 .. 2 /\ DOMAIN towers = 1 .. 2
      BY <1>0 DEF EventShape, TrapTypes
    <3>3. problem[p].neid = e[2][1] /\ problem[p].neid \in NEIDs
      BY <1>0, <3>1, KindFacts DEF IsOf
    <3>4. QED
      BY <3>2, <3>3
  <2>2. active \in [Problems -> 0 .. MaxTraps] /\ spare \in [NEIDs -> Int]
    BY <1>0 DEF TrapTypes, SpareType
  <2>3. QED
    BY <2>1, <2>2 DEF T!TypeOK
<1>2. T!OneTicketPerFault
  BY <1>0 DEF TrapTypes, Paid, Orderly, TicketsArePaid, T!OneTicketPerFault
<1> SUFFICES T!OpenEventHasCause /\ T!ActiveAlarmIsOpen
  BY <1>1, <1>2 DEF T!TrapsInv
<1>3. ASSUME T!Quiet
      PROVE  mishaps = {} /\ \A l \in crew : \A R : ~Has(wire[l], R)
  BY <1>3 DEF T!Quiet, Has
<1>4. ASSUME T!Quiet, NEW e \in open
      PROVE  \E p \in Problems :
                 /\ problem[p].neid = e[2][1]
                 /\ IF e[2][2][1] = "fault" THEN T!IsFault(p) /\ active[p] # 0 ELSE problem[p].text = ""
  <2>1. PICK p \in Problems : IsOf(e[2], p)
    BY <1>0 DEF EventShape
  <2>2. problem[p].neid = e[2][1] /\ e[2][1] \in NEIDs
    BY <1>0, <2>1, KindFacts DEF IsOf
  <2>3. CASE e[2] = FaultKey(e[2][1])
    <3>1. IsOpen(e[2])
      BY <1>0, <1>3, <1>4 DEF EventsOfTowers, IsOpen
    <3>2. ActiveFaults(e[2][1]) # {}
      <4>1. ~IsOver(FaultKey(e[2][1]))
        BY <1>3, <1>4, <2>3, <3>1 DEF IsOver
      <4>2. QED
        BY <1>0, <1>3, <1>4, <2>2, <4>1 DEF OversClose
    <3>3. PICK q \in Problems : T!IsFault(q) /\ problem[q].neid = e[2][1] /\ active[q] # 0
      BY <3>2 DEF ActiveFaults
    <3>4. e[2][2][1] = "fault"
      <4>1. PICK K : K = e[2]
        OBVIOUS
      <4>2. K = <<K[1], <<"fault", 0>>>>
        BY <2>3, <4>1 DEF FaultKey
      <4>3. K[2] = <<"fault", 0>>
        BY <4>2
      <4>4. QED
        BY <4>1, <4>3
    <3>5. QED
      BY <3>3, <3>4
  <2>4. CASE e[2] # FaultKey(e[2][1])
    BY <2>1, <2>2, <2>4 DEF IsOf
  <2>5. QED
    BY <2>3, <2>4
<1>5. ASSUME T!Quiet, NEW p \in Problems, Eligible(p)
      PROVE  \E e \in open : e[2] = KeyOf(p)
  <2>1. Persists(KeyOf(p))
    BY <1>0, <1>3, <1>5 DEF PersistentOpen
  <2>2. IsOpen(KeyOf(p))
    BY <1>3, <1>5, <2>1 DEF Persists
  <2>3. EventOf(KeyOf(p))[2] = KeyOf(p)
    BY DEF EventOf
  <2>4. QED
    BY <2>2, <2>3 DEF IsOpen
<1>6. T!OpenEventHasCause
  BY <1>4 DEF T!OpenEventHasCause
<1>7. T!ActiveAlarmIsOpen
  BY <1>5 DEF T!ActiveAlarmIsOpen, Eligible, KeyOf
<1>8. QED
  BY <1>6, <1>7

(* NetEco's traps: one ticket for each time a fault begins, whatever the     *)
(* number and the wording of its traps, if one listener is sent them in      *)
(* order, and, when all traps have been handled and nothing went wrong, the  *)
(* open events and the alarms that persist agree.                            *)
THEOREM TrapsAgree == FeedsSpec => []TrapsInv
<1>1. FeedsInit => TrInv
  BY TrapsStart
<1>2. TrInv /\ [FeedsNext]_all => TrInv'
  <2> SUFFICES ASSUME TrInv, [FeedsNext]_all
               PROVE  TrInv'
    OBVIOUS
  <2>1. CASE UNCHANGED trapVars
    BY <2>1, TrapsStand
  <2>2. CASE T!Next
    BY <2>2, TrapsStep
  <2>3. [FeedsNext]_all => UNCHANGED trapVars \/ T!Next
    BY DEF FeedsNext, Feeds, Collects, OfTraps, all
  <2>4. QED
    BY <2>1, <2>2, <2>3
<1>3. TrInv => TrapsInv
  BY TrapsMeaning DEF TrapsInv
<1>4. QED
  BY <1>1, <1>2, <1>3, PTL DEF FeedsSpec
=============================================================================
