----------------------------- MODULE FeedsProofs -----------------------------
(***************************************************************************)
(* Theorems about two of the three feeds that MCFeeds puts side by side:   *)
(* the ingestion cycle of the analytics platform (MetricFeed) and the      *)
(* collection cycle of the schedulers (CollectionCycle).                   *)
(***************************************************************************)
EXTENDS MCFeeds, FiniteSetTheorems, SequenceTheorems, WellFoundedInduction, TLAPS

-----------------------------------------------------------------------------
(* Pages, newest first.  A bounded set of numbers has a largest member.      *)
LEMMA LessPairs == OpToRel(<, Nat) = {p \in Nat \X Nat : p[1] < p[2]}
BY DEF OpToRel

LEMMA SmallestNumber ==
    ASSUME NEW S \in SUBSET Nat, S # {}
    PROVE  \E m \in S : \A x \in S : m <= x
<1> DEFINE Less == OpToRel(<, Nat)
<1>1. IsWellFoundedOn(Less, Nat)
  BY NatLessThanWellFounded, Zenon
<1>2. \A a, b \in Nat : a < b => <<a, b>> \in Less
  BY LessPairs, Zenon
<1> HIDE DEF Less
<1>3. PICK m \in S : \A x \in S : <<x, m>> \notin Less
  BY <1>1, WFMin
<1>4. \A x \in S : ~(x < m)
  BY <1>2, <1>3
<1>5. QED
  BY <1>4

LEMMA LargestOfBounded ==
    ASSUME NEW S \in SUBSET Nat, NEW n \in Nat, S # {}, \A x \in S : x <= n
    PROVE  \E m \in S : \A x \in S : m >= x
<1> DEFINE Gaps == {n - x : x \in S}
<1>1. Gaps \subseteq Nat /\ Gaps # {}
  <2>1. \A x \in S : x \in Nat /\ n - x \in Nat
    OBVIOUS
  <2>2. PICK x \in S : TRUE
    OBVIOUS
  <2>3. QED
    BY <2>1, <2>2
<1> HIDE DEF Gaps
<1>2. PICK d \in Gaps : \A e \in Gaps : d <= e
  BY <1>1, SmallestNumber
<1>3. PICK m \in S : d = n - m
  BY DEF Gaps
<1>4. \A x \in S : n - m <= n - x
  BY <1>2, <1>3 DEF Gaps
<1>5. QED
  BY <1>4

Above(S, x) == {y \in S : y > x}
Ahead(S, x) == Cardinality(Above(S, x))

LEMMA AheadType ==
    ASSUME NEW S \in SUBSET Nat, IsFiniteSet(S), NEW x
    PROVE  IsFiniteSet(Above(S, x)) /\ Ahead(S, x) \in Nat
<1>1. Above(S, x) \subseteq S
  BY DEF Above
<1>2. IsFiniteSet(Above(S, x))
  BY <1>1, FS_Subset
<1>3. QED
  BY <1>2, FS_CardinalityType DEF Ahead

(* At most k rows have less than k rows before them ...                      *)
LEMMA FewRows ==
    ASSUME NEW S \in SUBSET Nat, IsFiniteSet(S), NEW k \in Nat
    PROVE  Cardinality({y \in S : Ahead(S, y) < k}) <= k
<1> DEFINE A == {y \in S : Ahead(S, y) < k}
<1>1. IsFiniteSet(A) /\ Cardinality(A) \in Nat
  BY FS_Subset, FS_CardinalityType
<1>2. CASE A = {}
  BY <1>2, FS_EmptySet
<1>3. CASE A # {}
  <2>1. PICK m \in A : \A y \in A : m <= y
    BY <1>3, SmallestNumber
  <2>2. A \subseteq Above(S, m) \cup {m} /\ m \notin Above(S, m)
    <3>1. m \in Nat /\ A \subseteq S /\ S \subseteq Nat
      OBVIOUS
    <3> HIDE DEF A
    <3>2. QED
      BY <2>1, <3>1 DEF Above
  <2>3. IsFiniteSet(Above(S, m)) /\ Ahead(S, m) \in Nat
    BY AheadType
  <2>4. /\ IsFiniteSet(Above(S, m) \cup {m})
        /\ Cardinality(Above(S, m) \cup {m}) = Ahead(S, m) + 1
    BY <2>2, <2>3, FS_AddElement DEF Ahead
  <2>5. Cardinality(A) <= Ahead(S, m) + 1
    BY <2>2, <2>4, FS_Subset
  <2>6. Ahead(S, m) < k
    OBVIOUS
  <2> HIDE DEF A
  <2>7. QED
    BY <1>1, <2>3, <2>5, <2>6 DEF A
<1>4. QED
  BY <1>2, <1>3

(* ... and k rows at least, when one has k rows before it.                   *)
LEMMA ManyRows ==
    ASSUME NEW S \in SUBSET Nat, IsFiniteSet(S), NEW n \in Nat, \A y \in S : y <= n,
           NEW k \in Nat, NEW x \in S, Ahead(S, x) >= k
    PROVE  Cardinality({y \in S : Ahead(S, y) < k}) >= k
<1> DEFINE A == {y \in S : Ahead(S, y) < k}
           B == {y \in S : Ahead(S, y) >= k}
<1>1. IsFiniteSet(A) /\ Cardinality(A) \in Nat
  BY FS_Subset, FS_CardinalityType
<1>2. \E m \in B : \A y \in B : m >= y
  <2>1. B \in SUBSET Nat /\ B # {} /\ \A y \in B : y <= n
    OBVIOUS
  <2> HIDE DEF B
  <2>2. QED
    BY <2>1, LargestOfBounded
<1>3. PICK m \in B : \A y \in B : m >= y
  BY <1>2
<1>4. Above(S, m) \subseteq A
  <2> SUFFICES ASSUME NEW y \in S, y > m
               PROVE  Ahead(S, y) < k
    BY DEF Above
  <2>1. y \notin B
    BY <1>3
  <2>2. QED
    BY <2>1, AheadType
<1>5. Ahead(S, m) <= Cardinality(A)
  BY <1>1, <1>4, FS_Subset DEF Ahead
<1>6. Ahead(S, m) \in Nat /\ Ahead(S, m) >= k
  BY AheadType
<1> HIDE DEF A, B
<1>7. QED
  BY <1>1, <1>5, <1>6 DEF A

(* A page that is not full is the last one.                                  *)
LEMMA FullPage ==
    ASSUME NEW S \in SUBSET Nat, IsFiniteSet(S), NEW last \in Nat, \A y \in S : y <= last,
           NEW n \in Nat, NEW from \in Nat, NEW x \in S, Ahead(S, x) >= from + n
    PROVE  Cardinality(Newest(S, n, from)) >= n
<1> DEFINE A == {y \in S : Ahead(S, y) < from}
           B == {y \in S : Ahead(S, y) < from + n}
<1>1. Newest(S, n, from) = B \ A
  BY AheadType DEF Newest, Ahead, Above
<1>2. A \subseteq B
  BY AheadType
<1>3. IsFiniteSet(B) /\ IsFiniteSet(A)
  BY FS_Subset
<1>4. Cardinality(A) <= from
  BY FewRows
<1>5. Cardinality(B) >= from + n
  <2>1. from + n \in Nat
    OBVIOUS
  <2>2. QED
    BY <2>1, ManyRows
<1> HIDE DEF A, B
<1>6. Cardinality(A) \in Nat /\ Cardinality(B) \in Nat
  BY <1>3, FS_CardinalityType
<1>7. Cardinality(B \ A) = Cardinality(B) - Cardinality(A)
  <2>1. B \cap A = A
    BY <1>2
  <2>2. QED
    BY <1>3, <2>1, FS_Difference
<1>8. QED
  BY <1>1, <1>4, <1>5, <1>6, <1>7

-----------------------------------------------------------------------------
(* The feed.                                                                 *)
Reached == {m \in metrics : m >= From(since)}

(* Between two cycles Collect holds nothing, and a page holds what it read.  *)
HandShape ==
    /\ pc = "idle" => start = 0 /\ late = {}
    /\ pc # "idle" => since <= start
    /\ pc \notin {"page", "save"} => got = Nothing /\ unsaved = {} /\ offset = 0
    /\ pc = "page" => unsaved = {m \in Time : got[m] > 0}
    /\ pc \in {"events", "save events", "incidents"} => since = start /\ late \subseteq excused
    /\ \A m \in unsaved : got[m] > 0
    /\ \A m \in Time : got[m] > 0 => m \in Reached

(* A metric that was in the table when the cycle began is in hand, or below  *)
(* the pages read so far: rows that come meanwhile push it down, never up.   *)
NoneSkipped ==
    pc \in {"page", "save"} =>
        \A m \in Reached \ late : m < start =>
            got[m] > 0 \/ (pc = "page" /\ Ahead(Reached, m) >= offset)

HandIsStored == pc = "save" => \A m \in Time \ unsaved : got[m] > 0 => features[m] > 0

(* What is read and already stored has a reason to be read again.            *)
ReadAgain ==
    \A m \in Time :
        /\ got[m] > 1 \/ (got[m] > 0 /\ m >= From(start)) => m \in again
        /\ features[m] > 0 => m \in metrics
        /\ features[m] > 0 /\ m >= From(since) =>
              m \in again \/ (pc = "save" /\ got[m] > 0 /\ m \notin unsaved)

IncidentShape ==
    /\ pc = "incidents" => listed \subseteq ai_events
    /\ \A e \in Events : Incidents(e) <= 2

LEMMA FeedConstants ==
    /\ PageSize \in Nat /\ PageSize > 0 /\ EventLimit \in Nat
    /\ Second \in Nat /\ Second > 0 /\ Lookback \in Nat /\ MaxTime \in Nat /\ MaxFaults \in Nat
BY FeedAssumption

LEMMA FromType ==
    ASSUME NEW x \in Nat
    PROVE  From(x) \in Int /\ From(x) <= x
<1>1. Second \in Nat /\ Second > 0
  BY FeedConstants
<1>2. x % Second \in 0 .. Second - 1
  BY <1>1
<1>3. QED
  BY <1>1, <1>2 DEF From

(* A second does not begin before one that began earlier.                    *)
LEMMA FromMonotone ==
    ASSUME NEW x \in Nat, NEW y \in Nat, x <= y
    PROVE  From(x) <= From(y)
<1>1. Second \in Nat /\ Second > 0
  BY FeedConstants
<1> DEFINE a == x \div Second
           b == y \div Second
<1>2. a \in Int /\ b \in Int /\ From(x) = Second * a /\ From(y) = Second * b
  BY <1>1 DEF From
<1>3. Second * a <= x /\ y < Second * b + Second
  BY <1>1
<1> HIDE DEF a, b
<1>4. a <= b
  BY <1>1, <1>2, <1>3
<1>5. QED
  BY <1>1, <1>2, <1>4

TimeTypes ==
    /\ clock \in Nat /\ clock <= MaxTime
    /\ since \in Nat /\ since <= clock /\ start \in Nat /\ start <= clock /\ offset \in Nat
    /\ \A m \in stamped \cup metrics : m \in Nat /\ 0 < m /\ m <= clock

HandTypes ==
    /\ pc \in {"idle", "page", "save", "events", "save events", "incidents"}
    /\ got \in [Time -> Nat] /\ features \in [Time -> 0 .. 2]
    /\ unsaved \subseteq metrics /\ evaluated \subseteq metrics

EventTypes ==
    /\ events \subseteq Events /\ listed \subseteq events /\ ai_events \subseteq Events
    /\ incidents \in [Events -> [pending : 0 .. 2, decided : 0 .. 2]]

FaultType == faults \in Nat /\ faults <= MaxFaults

FInv ==
    /\ TimeTypes /\ HandTypes /\ EventTypes /\ FaultType
    /\ HandShape /\ NoneSkipped /\ HandIsStored /\ ReadAgain /\ IncidentShape
    /\ PassedIsStored /\ StoredAgainHasCause /\ IncidentsAreOfStoredEvents

LEMMA FeedTypes == TypeOK <=> TimeTypes /\ HandTypes /\ EventTypes /\ FaultType
<1>1. MaxTime \in Nat /\ MaxFaults \in Nat
  BY FeedConstants
<1>2. clock \in Time <=> clock \in Nat /\ clock <= MaxTime
  BY <1>1 DEF Time
<1>3. ASSUME clock \in Nat
      PROVE  /\ since \in 0 .. clock <=> since \in Nat /\ since <= clock
             /\ start \in 0 .. clock <=> start \in Nat /\ start <= clock
             /\ stamped \subseteq 1 .. clock /\ metrics \subseteq 1 .. clock <=>
                    \A m \in stamped \cup metrics : m \in Nat /\ 0 < m /\ m <= clock
  BY <1>3
<1>4. faults \in 0 .. MaxFaults <=> FaultType
  BY <1>1 DEF FaultType
<1> HIDE DEF FaultType
<1>5. QED
  BY <1>2, <1>3, <1>4 DEF TypeOK, TimeTypes, HandTypes, EventTypes

LEMMA TableTypes ==
    ASSUME TimeTypes
    PROVE  metrics \in SUBSET Nat /\ metrics \subseteq Time /\ IsFiniteSet(metrics)
<1>1. MaxTime \in Nat
  BY FeedConstants
<1>2. metrics \subseteq 1 .. MaxTime
  BY <1>1 DEF TimeTypes
<1>3. IsFiniteSet(metrics)
  <2>1. IsFiniteSet(1 .. MaxTime)
    BY <1>1, FS_Interval
  <2>2. QED
    BY <1>2, <2>1, FS_Subset
<1>4. QED
  BY <1>1, <1>2, <1>3 DEF Time

LEMMA FeedInit == Init => FInv
<1> SUFFICES ASSUME Init PROVE FInv
  OBVIOUS
<1> USE FeedConstants
<1>1. TypeOK
  BY DEF Init, TypeOK, Time, Nothing
<1>2. \A e \in Events : Incidents(e) = 0
  BY DEF Init, Incidents
<1>3. HandShape /\ NoneSkipped /\ HandIsStored /\ ReadAgain
  BY DEF Init, HandShape, NoneSkipped, HandIsStored, ReadAgain, Nothing
<1>4. IncidentShape /\ IncidentsAreOfStoredEvents
  BY <1>2 DEF Init, IncidentShape, IncidentsAreOfStoredEvents
<1>5. PassedIsStored /\ StoredAgainHasCause
  BY DEF Init, PassedIsStored, StoredAgainHasCause, Nothing
<1>6. QED
  BY <1>1, <1>3, <1>4, <1>5, FeedTypes DEF FInv

LEMMA FailFacts ==
    ASSUME Fail
    PROVE  /\ pc \in {"page", "save", "events", "save events"}
           /\ faults < MaxFaults /\ faults' = faults + 1
           /\ UNCHANGED features \/ (pc = "save" /\ \E S \in Chunks : features' = Stored(S))
           /\ UNCHANGED <<towercore, since, evaluated, ai_events, incidents, excused>>
           /\ Return
           /\ again' = again \cup {m \in metrics : features'[m] > 0 /\ m >= From(since')}
BY DEF Fail, Abandon

(* A batch is stored at most twice over, as far as the table is told apart.  *)
LEMMA StoredType ==
    ASSUME HandTypes, NEW S
    PROVE  /\ Stored(S) \in [Time -> 0 .. 2]
           /\ \A m \in Time : Stored(S)[m] = IF m \in S THEN Upto2(features[m] + got[m]) ELSE features[m]
<1>1. \A m \in Time : features[m] \in 0 .. 2 /\ got[m] \in Nat
  BY DEF HandTypes
<1>2. \A n \in Nat : Upto2(n) \in 0 .. 2
  BY DEF Upto2
<1>3. \A m \in Time : features[m] + got[m] \in Nat
  BY <1>1
<1>4. \A m \in Time : Upto2(features[m] + got[m]) \in 0 .. 2
  BY <1>2, <1>3
<1>5. QED
  BY <1>1, <1>4 DEF Stored

LEMMA PageRows == Page = Newest(Reached, PageSize, offset) /\ Page \subseteq Reached
BY DEF Page, Reached, Newest

LEMMA FeedTimeStep ==
    ASSUME FInv, [Next]_vars
    PROVE  TimeTypes'
<1>0. TimeTypes /\ MaxTime \in Nat /\ PageSize \in Nat /\ Lookback \in Nat
  BY FeedConstants DEF FInv
<1>1. ASSUME Tick
      PROVE  TimeTypes'
  BY <1>0, <1>1 DEF Tick, cycle, tables, ghosts, TimeTypes
<1>2. ASSUME NEW m \in stamped, CommitMetric(m)
      PROVE  TimeTypes'
  BY <1>0, <1>2 DEF CommitMetric, cycle, tables, TimeTypes
<1>3. ASSUME NEW e \in Events, CommitEvent(e)
      PROVE  TimeTypes'
  BY <1>0, <1>3 DEF CommitEvent, cycle, tables, ghosts, TimeTypes
<1>4. ASSUME Begin
      PROVE  TimeTypes'
  BY <1>0, <1>4 DEF Begin, towercore, tables, ghosts, TimeTypes
<1>5. ASSUME GetPage
      PROVE  TimeTypes'
  BY <1>0, <1>5 DEF GetPage, towercore, tables, TimeTypes
<1>6. ASSUME NEW S \in Chunks, SaveChunk(S)
      PROVE  TimeTypes'
  BY <1>0, <1>6 DEF SaveChunk, towercore, ghosts, TimeTypes
<1>7. ASSUME Evaluate
      PROVE  TimeTypes'
  BY <1>0, <1>7 DEF Evaluate, towercore, Marker, TimeTypes
<1>8. ASSUME GetEvents
      PROVE  TimeTypes'
  BY <1>0, <1>8 DEF GetEvents, towercore, tables, ghosts, TimeTypes
<1>9. ASSUME SaveEvents
      PROVE  TimeTypes'
  BY <1>0, <1>9 DEF SaveEvents, towercore, ghosts, TimeTypes
<1>10. ASSUME NEW e \in listed, CreateIncident(e)
       PROVE  TimeTypes'
  BY <1>0, <1>10 DEF CreateIncident, towercore, ghosts, TimeTypes
<1>11. ASSUME NEW e \in listed, IncidentFails(e)
       PROVE  TimeTypes'
  BY <1>0, <1>11 DEF IncidentFails, towercore, tables, ghosts, TimeTypes
<1>12. ASSUME Finish
       PROVE  TimeTypes'
  BY <1>0, <1>12 DEF Finish, towercore, tables, Return, TimeTypes
<1>13. ASSUME NEW e \in Events, Confirm(e)
       PROVE  TimeTypes'
  BY <1>0, <1>13 DEF Confirm, towercore, cycle, ghosts, TimeTypes
<1>14. ASSUME Fail
       PROVE  TimeTypes'
  <2>1. Return /\ UNCHANGED <<towercore, since, ai_events, incidents>>
    BY <1>14, FailFacts
  <2>2. QED
    BY <1>0, <2>1 DEF towercore, Return, TimeTypes
<1>15. ASSUME Restart
       PROVE  TimeTypes'
  BY <1>0, <1>15 DEF Restart, towercore, Abandon, Return, FirstMarker, TimeTypes
<1>16. ASSUME UNCHANGED vars
       PROVE  TimeTypes'
  BY <1>0, <1>16 DEF vars, towercore, cycle, tables, ghosts, TimeTypes
<1>17. QED
  BY <1>1, <1>2, <1>3, <1>4, <1>5, <1>6, <1>7, <1>8, <1>9, <1>10, <1>11, <1>12, <1>13, <1>14, <1>15, <1>16 DEF Next, Collect

LEMMA FeedHandStep ==
    ASSUME FInv, [Next]_vars
    PROVE  HandTypes'
<1>0. HandTypes /\ Nothing \in [Time -> Nat]
  BY DEF FInv, Nothing
<1>1. ASSUME Tick
      PROVE  HandTypes'
  BY <1>0, <1>1 DEF Tick, cycle, tables, ghosts, HandTypes
<1>2. ASSUME NEW m \in stamped, CommitMetric(m)
      PROVE  HandTypes'
  BY <1>0, <1>2 DEF CommitMetric, cycle, tables, HandTypes
<1>3. ASSUME NEW e \in Events, CommitEvent(e)
      PROVE  HandTypes'
  BY <1>0, <1>3 DEF CommitEvent, cycle, tables, ghosts, HandTypes
<1>4. ASSUME Begin
      PROVE  HandTypes'
  BY <1>0, <1>4 DEF Begin, towercore, tables, ghosts, HandTypes
<1>5. ASSUME GetPage
      PROVE  HandTypes'
  <2>0. got \in [Time -> Nat]
    BY <1>0 DEF HandTypes
  <2>1. \A m \in Time : got[m] \in Nat /\ got[m] + 1 \in Nat
    BY <2>0
  <2>2. got' = [m \in Time |-> IF m \in Page THEN got[m] + 1 ELSE got[m]]
    BY <1>5 DEF GetPage
  <2>3. got' \in [Time -> Nat]
    BY <2>1, <2>2
  <2>4. \A m \in Time : got'[m] > 0 => m \in Page \/ got[m] > 0
    BY <2>2
  <2>5. unsaved' \subseteq metrics
    BY <1>5, <2>4, PageRows DEF GetPage, FInv, HandShape, Reached
  <2>6. pc' \in {"page", "save"}
    BY <1>5 DEF GetPage, AfterPage
  <2>7. UNCHANGED <<features, metrics, evaluated>>
    BY <1>5 DEF GetPage, towercore, tables
  <2>8. QED
    BY <1>0, <2>3, <2>5, <2>6, <2>7 DEF HandTypes
<1>6. ASSUME NEW S \in Chunks, SaveChunk(S)
      PROVE  HandTypes'
  <2>1. features' \in [Time -> 0 .. 2]
    BY <1>0, <1>6, StoredType DEF SaveChunk
  <2>2. QED
    BY <1>0, <1>6, <2>1 DEF SaveChunk, towercore, HandTypes
<1>7. ASSUME Evaluate
      PROVE  HandTypes'
  <2>1. {m \in Time : got[m] > 0} \subseteq metrics
    BY DEF FInv, HandShape, Reached
  <2>2. QED
    BY <1>0, <1>7, <2>1 DEF Evaluate, towercore, HandTypes
<1>8. ASSUME GetEvents
      PROVE  HandTypes'
  BY <1>0, <1>8 DEF GetEvents, towercore, tables, ghosts, HandTypes
<1>9. ASSUME SaveEvents
      PROVE  HandTypes'
  BY <1>0, <1>9 DEF SaveEvents, towercore, ghosts, HandTypes
<1>10. ASSUME NEW e \in listed, CreateIncident(e)
       PROVE  HandTypes'
  BY <1>0, <1>10 DEF CreateIncident, towercore, ghosts, HandTypes
<1>11. ASSUME NEW e \in listed, IncidentFails(e)
       PROVE  HandTypes'
  BY <1>0, <1>11 DEF IncidentFails, towercore, tables, ghosts, HandTypes
<1>12. ASSUME Finish
       PROVE  HandTypes'
  BY <1>0, <1>12 DEF Finish, towercore, tables, Return, HandTypes
<1>13. ASSUME NEW e \in Events, Confirm(e)
       PROVE  HandTypes'
  BY <1>0, <1>13 DEF Confirm, towercore, cycle, ghosts, HandTypes
<1>14. ASSUME Fail
       PROVE  HandTypes'
  <2>1. UNCHANGED features \/ \E S \in Chunks : features' = Stored(S)
    BY <1>14, FailFacts
  <2>2. \A S : Stored(S) \in [Time -> 0 .. 2]
    BY <1>0, StoredType
  <2>3. features \in [Time -> 0 .. 2]
    BY <1>0 DEF HandTypes
  <2>4. Return /\ UNCHANGED <<towercore, evaluated>>
    BY <1>14, FailFacts
  <2>5. QED
    BY <1>0, <2>1, <2>2, <2>3, <2>4 DEF towercore, Return, HandTypes
<1>15. ASSUME Restart
       PROVE  HandTypes'
  <2>1. Return /\ UNCHANGED <<features, metrics, evaluated>>
    BY <1>15 DEF Restart, Abandon, towercore, tables
  <2>2. QED
    BY <1>0, <2>1 DEF Return, HandTypes
<1>16. ASSUME UNCHANGED vars
       PROVE  HandTypes'
  BY <1>0, <1>16 DEF vars, towercore, cycle, tables, ghosts, HandTypes
<1>17. QED
  BY <1>1, <1>2, <1>3, <1>4, <1>5, <1>6, <1>7, <1>8, <1>9, <1>10, <1>11, <1>12, <1>13, <1>14, <1>15, <1>16 DEF Next, Collect

LEMMA IncidentTypes ==
    ASSUME EventTypes, IncidentShape, NEW e \in Events
    PROVE  /\ incidents[e].pending \in 0 .. 2 /\ incidents[e].decided \in 0 .. 2
           /\ incidents[e].pending + incidents[e].decided <= 2
<1>1. incidents[e] \in [pending : 0 .. 2, decided : 0 .. 2]
  BY DEF EventTypes
<1>2. QED
  BY <1>1 DEF IncidentShape, Incidents

LEMMA FeedEventStep ==
    ASSUME FInv, [Next]_vars
    PROVE  EventTypes'
<1>0. EventTypes /\ IncidentShape
  BY DEF FInv
<1>1. ASSUME Tick
      PROVE  EventTypes'
  BY <1>0, <1>1 DEF Tick, cycle, tables, ghosts, EventTypes
<1>2. ASSUME NEW m \in stamped, CommitMetric(m)
      PROVE  EventTypes'
  BY <1>0, <1>2 DEF CommitMetric, cycle, tables, EventTypes
<1>3. ASSUME NEW e \in Events, CommitEvent(e)
      PROVE  EventTypes'
  BY <1>0, <1>3 DEF CommitEvent, cycle, tables, ghosts, EventTypes
<1>4. ASSUME Begin
      PROVE  EventTypes'
  BY <1>0, <1>4 DEF Begin, towercore, tables, ghosts, EventTypes
<1>5. ASSUME GetPage
      PROVE  EventTypes'
  BY <1>0, <1>5 DEF GetPage, towercore, tables, EventTypes
<1>6. ASSUME NEW S \in Chunks, SaveChunk(S)
      PROVE  EventTypes'
  BY <1>0, <1>6 DEF SaveChunk, towercore, ghosts, EventTypes
<1>7. ASSUME Evaluate
      PROVE  EventTypes'
  BY <1>0, <1>7 DEF Evaluate, towercore, EventTypes
<1>8. ASSUME GetEvents
      PROVE  EventTypes'
  <2>1. Newest(events, EventLimit, 0) \subseteq events
    BY DEF Newest
  <2>2. QED
    BY <1>0, <1>8, <2>1 DEF GetEvents, towercore, tables, EventTypes
<1>9. ASSUME SaveEvents
      PROVE  EventTypes'
  BY <1>0, <1>9 DEF SaveEvents, towercore, ghosts, EventTypes
<1>10. ASSUME NEW e \in listed, CreateIncident(e)
       PROVE  EventTypes'
  <2>1. e \in Events
    BY <1>0 DEF EventTypes
  <2>2. PICK n : n = incidents[e].pending + 1
    OBVIOUS
  <2>3. Incidents(e) < 2 => n \in 0 .. 2
    BY <1>0, <2>1, <2>2, IncidentTypes DEF Incidents
  <2>4. PICK row : row = [incidents[e] EXCEPT !.pending = n]
    OBVIOUS
  <2>5. incidents[e] \in [pending : 0 .. 2, decided : 0 .. 2]
    BY <1>0, <2>1 DEF EventTypes
  <2>6. Incidents(e) < 2 => row \in [pending : 0 .. 2, decided : 0 .. 2]
    BY <2>3, <2>4, <2>5
  <2>7. incidents' = incidents \/ (Incidents(e) < 2 /\ incidents' = [incidents EXCEPT ![e] = row])
    BY <1>10, <2>2, <2>4 DEF CreateIncident
  <2>8. incidents' \in [Events -> [pending : 0 .. 2, decided : 0 .. 2]]
    BY <1>0, <2>6, <2>7 DEF EventTypes
  <2>9. listed' \subseteq listed /\ UNCHANGED <<events, ai_events>>
    BY <1>10 DEF CreateIncident, towercore
  <2>10. QED
    BY <1>0, <2>8, <2>9 DEF EventTypes
<1>11. ASSUME NEW e \in listed, IncidentFails(e)
       PROVE  EventTypes'
  BY <1>0, <1>11 DEF IncidentFails, towercore, tables, ghosts, EventTypes
<1>12. ASSUME Finish
       PROVE  EventTypes'
  BY <1>0, <1>12 DEF Finish, towercore, tables, Return, EventTypes
<1>13. ASSUME NEW e \in Events, Confirm(e)
       PROVE  EventTypes'
  <2>1. PICK row : row = [pending |-> incidents[e].pending - 1, decided |-> incidents[e].decided + 1]
    OBVIOUS
  <2>2. row.pending \in 0 .. 2 /\ row.decided \in 0 .. 2
    BY <1>0, <1>13, <2>1, IncidentTypes DEF Confirm
  <2>3. row \in [pending : 0 .. 2, decided : 0 .. 2]
    BY <2>1, <2>2
  <2>4. incidents' = [incidents EXCEPT ![e] = row]
    BY <1>13, <2>1 DEF Confirm
  <2>5. UNCHANGED <<events, listed, ai_events>>
    BY <1>13 DEF Confirm, towercore, cycle
  <2>6. QED
    BY <1>0, <2>3, <2>4, <2>5 DEF EventTypes
<1>14. ASSUME Fail
       PROVE  EventTypes'
  <2>1. Return /\ UNCHANGED <<towercore, since, ai_events, incidents>>
    BY <1>14, FailFacts
  <2>2. QED
    BY <1>0, <2>1 DEF towercore, Return, EventTypes
<1>15. ASSUME Restart
       PROVE  EventTypes'
  BY <1>0, <1>15 DEF Restart, towercore, tables, Abandon, Return, EventTypes
<1>16. ASSUME UNCHANGED vars
       PROVE  EventTypes'
  BY <1>0, <1>16 DEF vars, towercore, cycle, tables, ghosts, EventTypes
<1>17. QED
  BY <1>1, <1>2, <1>3, <1>4, <1>5, <1>6, <1>7, <1>8, <1>9, <1>10, <1>11, <1>12, <1>13, <1>14, <1>15, <1>16 DEF Next, Collect

LEMMA FeedFaultStep ==
    ASSUME FInv, [Next]_vars
    PROVE  FaultType'
<1>0. FaultType /\ MaxFaults \in Nat
  BY FeedConstants DEF FInv
<1>1. ASSUME Tick
      PROVE  FaultType'
  BY <1>0, <1>1 DEF Tick, cycle, tables, ghosts, FaultType
<1>2. ASSUME NEW m \in stamped, CommitMetric(m)
      PROVE  FaultType'
  BY <1>0, <1>2 DEF CommitMetric, cycle, tables, FaultType
<1>3. ASSUME NEW e \in Events, CommitEvent(e)
      PROVE  FaultType'
  BY <1>0, <1>3 DEF CommitEvent, cycle, tables, ghosts, FaultType
<1>4. ASSUME Begin
      PROVE  FaultType'
  BY <1>0, <1>4 DEF Begin, towercore, tables, ghosts, FaultType
<1>5. ASSUME GetPage
      PROVE  FaultType'
  BY <1>0, <1>5 DEF GetPage, towercore, tables, FaultType
<1>6. ASSUME NEW S \in Chunks, SaveChunk(S)
      PROVE  FaultType'
  BY <1>0, <1>6 DEF SaveChunk, towercore, ghosts, FaultType
<1>7. ASSUME Evaluate
      PROVE  FaultType'
  BY <1>0, <1>7 DEF Evaluate, towercore, FaultType
<1>8. ASSUME GetEvents
      PROVE  FaultType'
  BY <1>0, <1>8 DEF GetEvents, towercore, tables, ghosts, FaultType
<1>9. ASSUME SaveEvents
      PROVE  FaultType'
  BY <1>0, <1>9 DEF SaveEvents, towercore, ghosts, FaultType
<1>10. ASSUME NEW e \in listed, CreateIncident(e)
       PROVE  FaultType'
  BY <1>0, <1>10 DEF CreateIncident, towercore, ghosts, FaultType
<1>11. ASSUME NEW e \in listed, IncidentFails(e)
       PROVE  FaultType'
  BY <1>0, <1>11 DEF IncidentFails, towercore, tables, ghosts, FaultType
<1>12. ASSUME Finish
       PROVE  FaultType'
  BY <1>0, <1>12 DEF Finish, towercore, tables, Return, FaultType
<1>13. ASSUME NEW e \in Events, Confirm(e)
       PROVE  FaultType'
  BY <1>0, <1>13 DEF Confirm, towercore, cycle, ghosts, FaultType
<1>14. ASSUME Fail
       PROVE  FaultType'
  <2>1. faults < MaxFaults /\ faults' = faults + 1
    BY <1>14, FailFacts
  <2>2. QED
    BY <1>0, <2>1 DEF FaultType
<1>15. ASSUME Restart
       PROVE  FaultType'
  BY <1>0, <1>15 DEF Restart, towercore, tables, Abandon, Return, FaultType
<1>16. ASSUME UNCHANGED vars
       PROVE  FaultType'
  BY <1>0, <1>16 DEF vars, towercore, cycle, tables, ghosts, FaultType
<1>17. QED
  BY <1>1, <1>2, <1>3, <1>4, <1>5, <1>6, <1>7, <1>8, <1>9, <1>10, <1>11, <1>12, <1>13, <1>14, <1>15, <1>16 DEF Next, Collect

LEMMA FeedFacts ==
    ASSUME FInv
    PROVE  /\ TimeTypes /\ HandTypes /\ HandShape /\ NoneSkipped /\ HandIsStored /\ ReadAgain
           /\ PassedIsStored /\ StoredAgainHasCause
           /\ got \in [Time -> Nat] /\ features \in [Time -> Nat] /\ metrics \subseteq Time
           /\ since \in Nat /\ start \in Nat /\ From(since) <= since
<1>1. TimeTypes /\ HandTypes
  BY DEF FInv
<1>2. features \in [Time -> 0 .. 2] /\ got \in [Time -> Nat]
  BY <1>1 DEF HandTypes
<1>3. features \in [Time -> Nat]
  BY <1>2
<1>4. since \in Nat /\ start \in Nat
  BY <1>1 DEF TimeTypes
<1>5. QED
  BY <1>1, <1>2, <1>3, <1>4, TableTypes, FromType DEF FInv

LEMMA HandShapeStep ==
    ASSUME FInv, [Next]_vars
    PROVE  HandShape'
<1>0. HandShape /\ \A m \in Time : Nothing[m] = 0
  BY FeedFacts DEF Nothing
<1>1. ASSUME Tick
      PROVE  HandShape'
  BY <1>0, <1>1 DEF Tick, cycle, tables, ghosts, HandShape, Reached
<1>2. ASSUME NEW m \in stamped, CommitMetric(m)
      PROVE  HandShape'
  <2>1. UNCHANGED <<pc, start, since, got, unsaved, offset>> /\ metrics \subseteq metrics'
    BY <1>2 DEF CommitMetric, cycle
  <2>2. Reached \subseteq Reached'
    BY <2>1 DEF Reached, From
  <2>3. pc = "idle" => late' = {}
    BY <1>0, <1>2, FeedFacts DEF CommitMetric, HandShape, TimeTypes
  <2>4. pc \in {"events", "save events", "incidents"} => late' \subseteq excused'
    BY <1>0, <1>2 DEF CommitMetric, HandShape
  <2>5. QED
    BY <1>0, <2>1, <2>2, <2>3, <2>4 DEF HandShape
<1>3. ASSUME NEW e \in Events, CommitEvent(e)
      PROVE  HandShape'
  BY <1>0, <1>3 DEF CommitEvent, cycle, tables, ghosts, HandShape, Reached
<1>4. ASSUME Begin
      PROVE  HandShape'
  <2>1. since <= start'
    BY <1>4, FeedFacts DEF Begin, TimeTypes
  <2>2. UNCHANGED Reached
    BY <1>4 DEF Begin, Reached, towercore, From
  <2>3. unsaved' = {m \in Time : got'[m] > 0}
    BY <1>0, <1>4 DEF Begin, HandShape
  <2>4. QED
    BY <1>0, <1>4, <2>1, <2>2, <2>3 DEF Begin, HandShape
<1>5. ASSUME GetPage
      PROVE  HandShape'
  <2>1. got' = [m \in Time |-> IF m \in Page THEN got[m] + 1 ELSE got[m]]
    BY <1>5 DEF GetPage
  <2>2. UNCHANGED Reached
    BY <1>5 DEF GetPage, Reached, towercore, From
  <2>3. \A m \in Time : got'[m] > 0 => m \in Reached'
    BY <1>0, <2>1, <2>2, PageRows DEF HandShape
  <2>4. pc = "page" /\ pc' \in {"page", "save"} /\ unsaved' = {m \in Time : got'[m] > 0}
    BY <1>5 DEF GetPage, AfterPage
  <2>5. UNCHANGED <<since, start>>
    BY <1>5 DEF GetPage
  <2>6. QED
    BY <1>0, <2>3, <2>4, <2>5 DEF HandShape
<1>6. ASSUME NEW S \in Chunks, SaveChunk(S)
      PROVE  HandShape'
  BY <1>0, <1>6 DEF SaveChunk, towercore, ghosts, HandShape, Reached
<1>7. ASSUME Evaluate
      PROVE  HandShape'
  <2>1. start <= start'
    BY <1>7, FeedFacts DEF Evaluate
  <2>2. QED
    BY <1>0, <1>7, <2>1 DEF Evaluate, Marker, HandShape
<1>8. ASSUME GetEvents
      PROVE  HandShape'
  BY <1>0, <1>8 DEF GetEvents, towercore, tables, ghosts, HandShape, Reached
<1>9. ASSUME SaveEvents
      PROVE  HandShape'
  BY <1>0, <1>9 DEF SaveEvents, towercore, ghosts, HandShape, Reached
<1>10. ASSUME NEW e \in listed, CreateIncident(e)
       PROVE  HandShape'
  BY <1>0, <1>10 DEF CreateIncident, towercore, ghosts, HandShape, Reached
<1>11. ASSUME NEW e \in listed, IncidentFails(e)
       PROVE  HandShape'
  BY <1>0, <1>11 DEF IncidentFails, towercore, tables, ghosts, HandShape, Reached
<1>12. ASSUME Finish
       PROVE  HandShape'
  <2>1. Return
    BY <1>12 DEF Finish
  <2>2. QED
    BY <2>1 DEF Return, Nothing, HandShape
<1>13. ASSUME NEW e \in Events, Confirm(e)
       PROVE  HandShape'
  BY <1>0, <1>13 DEF Confirm, towercore, cycle, ghosts, HandShape, Reached
<1>14. ASSUME Fail
       PROVE  HandShape'
  <2>1. Return
    BY <1>14, FailFacts
  <2>2. QED
    BY <2>1 DEF Return, Nothing, HandShape
<1>15. ASSUME Restart
       PROVE  HandShape'
  <2>1. Return
    BY <1>15 DEF Restart, Abandon
  <2>2. QED
    BY <2>1 DEF Return, Nothing, HandShape
<1>16. ASSUME UNCHANGED vars
       PROVE  HandShape'
  BY <1>0, <1>16 DEF vars, towercore, cycle, tables, ghosts, HandShape, Reached
<1>17. QED
  BY <1>1, <1>2, <1>3, <1>4, <1>5, <1>6, <1>7, <1>8, <1>9, <1>10, <1>11, <1>12, <1>13, <1>14, <1>15, <1>16 DEF Next, Collect

LEMMA ReachedRows ==
    ASSUME FInv
    PROVE  Reached \in SUBSET Nat /\ IsFiniteSet(Reached) /\ \A m \in Reached : m <= clock
<1>1. TimeTypes
  BY FeedFacts
<1>2. metrics \in SUBSET Nat /\ IsFiniteSet(metrics)
  BY <1>1, TableTypes
<1>3. Reached \subseteq metrics
  BY DEF Reached
<1>4. QED
  BY <1>1, <1>2, <1>3, FS_Subset DEF TimeTypes

LEMMA NoneSkippedStep ==
    ASSUME FInv, [Next]_vars
    PROVE  NoneSkipped'
<1>0. NoneSkipped
  BY FeedFacts
<1>1. ASSUME Tick
      PROVE  NoneSkipped'
  BY <1>0, <1>1 DEF Tick, cycle, tables, ghosts, NoneSkipped, Reached
<1>2. ASSUME NEW m \in stamped, CommitMetric(m)
      PROVE  NoneSkipped'
  <2> SUFFICES ASSUME pc \in {"page", "save"}, NEW x \in Reached', x \notin late', x < start
               PROVE  got[x] > 0 \/ (pc = "page" /\ Ahead(Reached', x) >= offset)
    BY <1>2 DEF CommitMetric, cycle, NoneSkipped
  <2>1. Reached \subseteq Reached' /\ late \subseteq late' /\ x \in Reached
    BY <1>2 DEF CommitMetric, cycle, Reached, From
  <2>2. IsFiniteSet(Reached') /\ Reached' \in SUBSET Nat
    <3>1. metrics \in SUBSET Nat /\ IsFiniteSet(metrics) /\ m \in Nat
      BY FeedFacts, TableTypes DEF TimeTypes
    <3>2. metrics' = metrics \cup {m}
      BY <1>2 DEF CommitMetric
    <3>3. metrics' \in SUBSET Nat /\ IsFiniteSet(metrics')
      BY <3>1, <3>2, FS_AddElement
    <3>4. Reached' \subseteq metrics'
      BY DEF Reached
    <3>5. QED
      BY <3>3, <3>4, FS_Subset
  <2>3. Above(Reached, x) \subseteq Above(Reached', x)
    BY <2>1 DEF Above
  <2>4. IsFiniteSet(Above(Reached', x))
    BY <2>2, AheadType
  <2>5. Ahead(Reached, x) <= Ahead(Reached', x)
    BY <2>3, <2>4, FS_Subset DEF Ahead
  <2>6. Ahead(Reached, x) \in Nat /\ Ahead(Reached', x) \in Nat /\ offset \in Nat
    BY <2>2, ReachedRows, AheadType, FeedFacts DEF TimeTypes
  <2>7. got[x] > 0 \/ (pc = "page" /\ Ahead(Reached, x) >= offset)
    BY <1>0, <2>1 DEF NoneSkipped
  <2>8. QED
    BY <2>5, <2>6, <2>7
<1>3. ASSUME NEW e \in Events, CommitEvent(e)
      PROVE  NoneSkipped'
  BY <1>0, <1>3 DEF CommitEvent, cycle, tables, ghosts, NoneSkipped, Reached
<1>4. ASSUME Begin
      PROVE  NoneSkipped'
  <2>1. offset' = 0 /\ pc' = "page" /\ UNCHANGED Reached
    BY <1>4, FeedFacts DEF Begin, HandShape, Reached, towercore, From
  <2>2. \A x \in Reached : Ahead(Reached, x) \in Nat
    BY ReachedRows, AheadType
  <2>3. QED
    BY <2>1, <2>2 DEF NoneSkipped
<1>5. ASSUME GetPage
      PROVE  NoneSkipped'
  <2>1. UNCHANGED <<Reached, late, start>> /\ pc = "page" /\ offset' = offset + PageSize
    BY <1>5 DEF GetPage, Reached, towercore, From
  <2>2. got' = [m \in Time |-> IF m \in Page THEN got[m] + 1 ELSE got[m]]
    BY <1>5 DEF GetPage
  <2> SUFFICES ASSUME NEW x \in Reached, x \notin late, x < start
               PROVE  got'[x] > 0 \/ (pc' = "page" /\ Ahead(Reached, x) >= offset')
    BY <2>1 DEF NoneSkipped
  <2>3. x \in Time /\ got[x] \in Nat
    BY FeedFacts DEF Reached
  <2>4. got'[x] = IF x \in Page THEN got[x] + 1 ELSE got[x]
    BY <2>2, <2>3
  <2>5. CASE got[x] > 0 \/ x \in Page
    BY <2>3, <2>4, <2>5
  <2>6. CASE got[x] = 0 /\ x \notin Page
    <3>1. Ahead(Reached, x) >= offset
      BY <1>0, <2>1, <2>6 DEF NoneSkipped
    <3>2. Ahead(Reached, x) \in Nat /\ offset \in Nat /\ PageSize \in Nat /\ clock \in Nat
      BY ReachedRows, AheadType, FeedFacts, FeedConstants DEF TimeTypes
    <3>3. Ahead(Reached, x) >= offset + PageSize
      BY <2>6, <3>1, <3>2, PageRows DEF Newest, Ahead, Above
    <3>4. Cardinality(Page) >= PageSize
      BY <3>2, <3>3, ReachedRows, FullPage, PageRows
    <3>5. ~(Cardinality(Page) < PageSize)
      <4>1. Cardinality(Page) \in Nat
        BY ReachedRows, PageRows, FS_Subset, FS_CardinalityType
      <4>2. QED
        BY <3>2, <3>4, <4>1
    <3>6. pc' = "page"
      BY <1>5, <3>5 DEF GetPage, AfterPage
    <3>7. QED
      BY <2>1, <3>3, <3>6
  <2>7. QED
    BY <2>3, <2>5, <2>6
<1>6. ASSUME NEW S \in Chunks, SaveChunk(S)
      PROVE  NoneSkipped'
  BY <1>0, <1>6 DEF SaveChunk, towercore, ghosts, NoneSkipped, Reached
<1>7. ASSUME Evaluate
      PROVE  NoneSkipped'
  BY <1>0, <1>7 DEF Evaluate, towercore, NoneSkipped, Reached
<1>8. ASSUME GetEvents
      PROVE  NoneSkipped'
  BY <1>0, <1>8 DEF GetEvents, towercore, tables, ghosts, NoneSkipped, Reached
<1>9. ASSUME SaveEvents
      PROVE  NoneSkipped'
  BY <1>0, <1>9 DEF SaveEvents, towercore, ghosts, NoneSkipped, Reached
<1>10. ASSUME NEW e \in listed, CreateIncident(e)
       PROVE  NoneSkipped'
  BY <1>0, <1>10 DEF CreateIncident, towercore, ghosts, NoneSkipped, Reached
<1>11. ASSUME NEW e \in listed, IncidentFails(e)
       PROVE  NoneSkipped'
  BY <1>0, <1>11 DEF IncidentFails, towercore, tables, ghosts, NoneSkipped, Reached
<1>12. ASSUME Finish
       PROVE  NoneSkipped'
  <2>1. Return
    BY <1>12 DEF Finish
  <2>2. QED
    BY <2>1 DEF Return, NoneSkipped
<1>13. ASSUME NEW e \in Events, Confirm(e)
       PROVE  NoneSkipped'
  BY <1>0, <1>13 DEF Confirm, towercore, cycle, ghosts, NoneSkipped, Reached
<1>14. ASSUME Fail
       PROVE  NoneSkipped'
  <2>1. Return
    BY <1>14, FailFacts
  <2>2. QED
    BY <2>1 DEF Return, NoneSkipped
<1>15. ASSUME Restart
       PROVE  NoneSkipped'
  <2>1. Return
    BY <1>15 DEF Restart, Abandon
  <2>2. QED
    BY <2>1 DEF Return, NoneSkipped
<1>16. ASSUME UNCHANGED vars
       PROVE  NoneSkipped'
  BY <1>0, <1>16 DEF vars, towercore, cycle, tables, ghosts, NoneSkipped, Reached
<1>17. QED
  BY <1>1, <1>2, <1>3, <1>4, <1>5, <1>6, <1>7, <1>8, <1>9, <1>10, <1>11, <1>12, <1>13, <1>14, <1>15, <1>16 DEF Next, Collect

(* What a batch does to the count of a metric.                               *)
LEMMA StoredFacts ==
    ASSUME FInv, NEW S, NEW m \in Time
    PROVE  /\ features[m] > 0 => Stored(S)[m] > 0
           /\ m \in S /\ got[m] > 0 => Stored(S)[m] > 0
           /\ m \notin S => Stored(S)[m] = features[m]
           /\ Stored(S)[m] > 0 => features[m] > 0 \/ (m \in S /\ got[m] > 0)
           /\ Stored(S)[m] > 1 =>
                 features[m] > 1 \/ (m \in S /\ (got[m] > 1 \/ (features[m] > 0 /\ got[m] > 0)))
<1>1. features[m] \in Nat /\ got[m] \in Nat
  BY FeedFacts
<1>2. Stored(S)[m] = IF m \in S THEN Upto2(features[m] + got[m]) ELSE features[m]
  BY FeedFacts, StoredType
<1>3. QED
  BY <1>1, <1>2 DEF Upto2

LEMMA HandIsStoredStep ==
    ASSUME FInv, [Next]_vars
    PROVE  HandIsStored'
<1>0. HandIsStored
  BY FeedFacts
<1>1. ASSUME Tick
      PROVE  HandIsStored'
  BY <1>0, <1>1 DEF Tick, cycle, tables, ghosts, HandIsStored
<1>2. ASSUME NEW m \in stamped, CommitMetric(m)
      PROVE  HandIsStored'
  BY <1>0, <1>2 DEF CommitMetric, cycle, tables, HandIsStored
<1>3. ASSUME NEW e \in Events, CommitEvent(e)
      PROVE  HandIsStored'
  BY <1>0, <1>3 DEF CommitEvent, cycle, tables, ghosts, HandIsStored
<1>4. ASSUME Begin
      PROVE  HandIsStored'
  BY <1>0, <1>4 DEF Begin, towercore, tables, ghosts, HandIsStored
<1>5. ASSUME GetPage
      PROVE  HandIsStored'
  BY <1>0, <1>5 DEF GetPage, towercore, tables, HandIsStored
<1>6. ASSUME NEW S \in Chunks, SaveChunk(S)
      PROVE  HandIsStored'
  <2>1. features' = Stored(S) /\ unsaved' = unsaved \ S /\ got' = got /\ pc = "save"
    BY <1>6 DEF SaveChunk
  <2>2. \A m \in Time : m \notin unsaved' /\ got[m] > 0 => features'[m] > 0
    BY <1>0, <2>1, StoredFacts DEF HandIsStored
  <2>3. QED
    BY <2>1, <2>2 DEF HandIsStored
<1>7. ASSUME Evaluate
      PROVE  HandIsStored'
  BY <1>0, <1>7 DEF Evaluate, towercore, HandIsStored
<1>8. ASSUME GetEvents
      PROVE  HandIsStored'
  BY <1>0, <1>8 DEF GetEvents, towercore, tables, ghosts, HandIsStored
<1>9. ASSUME SaveEvents
      PROVE  HandIsStored'
  BY <1>0, <1>9 DEF SaveEvents, towercore, ghosts, HandIsStored
<1>10. ASSUME NEW e \in listed, CreateIncident(e)
       PROVE  HandIsStored'
  BY <1>0, <1>10 DEF CreateIncident, towercore, ghosts, HandIsStored
<1>11. ASSUME NEW e \in listed, IncidentFails(e)
       PROVE  HandIsStored'
  BY <1>0, <1>11 DEF IncidentFails, towercore, tables, ghosts, HandIsStored
<1>12. ASSUME Finish
       PROVE  HandIsStored'
  <2>1. Return
    BY <1>12 DEF Finish
  <2>2. QED
    BY <2>1 DEF Return, HandIsStored
<1>13. ASSUME NEW e \in Events, Confirm(e)
       PROVE  HandIsStored'
  BY <1>0, <1>13 DEF Confirm, towercore, cycle, ghosts, HandIsStored
<1>14. ASSUME Fail
       PROVE  HandIsStored'
  <2>1. Return
    BY <1>14, FailFacts
  <2>2. QED
    BY <2>1 DEF Return, HandIsStored
<1>15. ASSUME Restart
       PROVE  HandIsStored'
  <2>1. Return
    BY <1>15 DEF Restart, Abandon
  <2>2. QED
    BY <2>1 DEF Return, HandIsStored
<1>16. ASSUME UNCHANGED vars
       PROVE  HandIsStored'
  BY <1>0, <1>16 DEF vars, towercore, cycle, tables, ghosts, HandIsStored
<1>17. QED
  BY <1>1, <1>2, <1>3, <1>4, <1>5, <1>6, <1>7, <1>8, <1>9, <1>10, <1>11, <1>12, <1>13, <1>14, <1>15, <1>16 DEF Next, Collect

LEMMA ReadAgainStep ==
    ASSUME FInv, [Next]_vars
    PROVE  ReadAgain'
<1>0. ReadAgain
  BY FeedFacts
<1>1. ASSUME Tick
      PROVE  ReadAgain'
  BY <1>0, <1>1 DEF Tick, cycle, tables, ghosts, ReadAgain, From
<1>2. ASSUME NEW m \in stamped, CommitMetric(m)
      PROVE  ReadAgain'
  BY <1>0, <1>2 DEF CommitMetric, cycle, tables, ReadAgain, From
<1>3. ASSUME NEW e \in Events, CommitEvent(e)
      PROVE  ReadAgain'
  BY <1>0, <1>3 DEF CommitEvent, cycle, tables, ghosts, ReadAgain, From
<1>4. ASSUME Begin
      PROVE  ReadAgain'
  <2>1. \A m \in Time : got[m] = 0
    BY <1>4, FeedFacts DEF Begin, HandShape, Nothing
  <2>2. UNCHANGED <<got, features, since, metrics, again>> /\ pc = "idle"
    BY <1>4 DEF Begin, towercore, tables, ghosts
  <2>3. \A m \in Time : ~(got'[m] > 1 \/ got'[m] > 0)
    BY <2>1, <2>2
  <2>4. QED
    BY <1>0, <2>2, <2>3 DEF ReadAgain, From
<1>5. ASSUME GetPage
      PROVE  ReadAgain'
  <2>1. got' = [m \in Time |-> IF m \in Page THEN got[m] + 1 ELSE got[m]]
    BY <1>5 DEF GetPage
  <2>2. again' = again \cup {m \in Page : got[m] > 0 \/ m >= From(start)}
    BY <1>5 DEF GetPage
  <2>3. UNCHANGED <<features, since, start, metrics>> /\ pc = "page"
    BY <1>5 DEF GetPage, towercore, tables
  <2>4. \A m \in Time : got[m] \in Nat /\ got'[m] = IF m \in Page THEN got[m] + 1 ELSE got[m]
    BY <2>1, FeedFacts
  <2>5. \A m \in Time : got'[m] > 1 \/ (got'[m] > 0 /\ m >= From(start)) => m \in again'
    BY <1>0, <2>2, <2>4 DEF ReadAgain
  <2>6. QED
    BY <1>0, <2>2, <2>3, <2>5 DEF ReadAgain, From
<1>6. ASSUME NEW S \in Chunks, SaveChunk(S)
      PROVE  ReadAgain'
  <2>1. /\ features' = Stored(S) /\ unsaved' = unsaved \ S /\ pc = "save" /\ pc' = "save"
        /\ UNCHANGED <<got, since, start, metrics, again>>
    BY <1>6 DEF SaveChunk, towercore, ghosts
  <2>2. S \subseteq unsaved /\ unsaved \subseteq metrics /\ \A m \in unsaved : got[m] > 0
    BY <1>6, FeedFacts DEF Chunks, HandTypes, HandShape
  <2>3. \A m \in Time : features'[m] > 0 => features[m] > 0 \/ m \in S
    BY <2>1, StoredFacts
  <2>4. \A m \in Time : features'[m] > 0 => m \in metrics
    BY <1>0, <2>2, <2>3 DEF ReadAgain
  <2>5. \A m \in Time : features'[m] > 0 /\ m >= From(since) =>
            m \in again \/ (got[m] > 0 /\ m \notin unsaved')
    BY <1>0, <2>1, <2>2, <2>3 DEF ReadAgain
  <2>6. QED
    BY <1>0, <2>1, <2>4, <2>5 DEF ReadAgain, From
<1>7. ASSUME Evaluate
      PROVE  ReadAgain'
  <2>1. /\ since' = start /\ unsaved = {} /\ pc = "save" /\ pc' = "events"
        /\ UNCHANGED <<start, features, metrics, again>> /\ \A m \in Time : got'[m] = 0
    BY <1>7 DEF Evaluate, Marker, Nothing, towercore
  <2>2. From(since) <= From(start) /\ From(since) \in Int /\ From(start) \in Int
    BY <2>1, FeedFacts, FromMonotone, FromType DEF HandShape
  <2>3. \A m \in Time : m \in Nat
    BY DEF Time
  <2>4. \A m \in Time : features[m] > 0 /\ m >= From(start) => m \in again
    BY <1>0, <2>2, <2>3 DEF ReadAgain
  <2>5. \A m \in Time : ~(got'[m] > 1 \/ got'[m] > 0)
    BY <2>1
  <2>6. QED
    BY <1>0, <2>1, <2>4, <2>5 DEF ReadAgain, From
<1>8. ASSUME GetEvents
      PROVE  ReadAgain'
  BY <1>0, <1>8 DEF GetEvents, towercore, tables, ghosts, ReadAgain, From
<1>9. ASSUME SaveEvents
      PROVE  ReadAgain'
  BY <1>0, <1>9 DEF SaveEvents, towercore, ghosts, ReadAgain, From
<1>10. ASSUME NEW e \in listed, CreateIncident(e)
       PROVE  ReadAgain'
  BY <1>0, <1>10 DEF CreateIncident, towercore, ghosts, ReadAgain, From
<1>11. ASSUME NEW e \in listed, IncidentFails(e)
       PROVE  ReadAgain'
  BY <1>0, <1>11 DEF IncidentFails, towercore, tables, ghosts, ReadAgain, From
<1>12. ASSUME Finish
       PROVE  ReadAgain'
  <2>1. /\ pc = "incidents" /\ \A m \in Time : got'[m] = 0
        /\ UNCHANGED <<features, metrics, again, since>>
    BY <1>12 DEF Finish, Return, Nothing, towercore, tables
  <2>2. \A m \in Time : ~(got'[m] > 1 \/ got'[m] > 0)
    BY <2>1
  <2>3. QED
    BY <1>0, <2>1, <2>2 DEF ReadAgain, From
<1>13. ASSUME NEW e \in Events, Confirm(e)
       PROVE  ReadAgain'
  BY <1>0, <1>13 DEF Confirm, towercore, cycle, ghosts, ReadAgain, From
<1>14. ASSUME Fail
       PROVE  ReadAgain'
  <2>1. UNCHANGED features \/ (pc = "save" /\ \E S \in Chunks : features' = Stored(S))
    BY <1>14, FailFacts
  <2>2. /\ \A m \in Time : got'[m] = 0
        /\ UNCHANGED <<metrics, since>>
        /\ again' = again \cup {m \in metrics : features'[m] > 0 /\ m >= From(since')}
    BY <1>14, FailFacts DEF Return, Nothing, towercore
  <2>3. \A m \in Time : features'[m] > 0 => m \in metrics
    <3>1. CASE UNCHANGED features
      BY <1>0, <3>1 DEF ReadAgain
    <3>2. ASSUME NEW S \in Chunks, features' = Stored(S)
          PROVE  \A m \in Time : features'[m] > 0 => m \in metrics
      <4>1. S \subseteq metrics
        BY FeedFacts DEF Chunks, HandTypes
      <4>2. QED
        BY <1>0, <3>2, <4>1, StoredFacts DEF ReadAgain
    <3>3. QED
      BY <2>1, <3>1, <3>2
  <2>4. \A m \in Time : ~(got'[m] > 1 \/ got'[m] > 0)
    BY <2>2
  <2>5. QED
    BY <2>2, <2>3, <2>4 DEF ReadAgain, From
<1>15. ASSUME Restart
       PROVE  ReadAgain'
  <2>1. /\ \A m \in Time : got'[m] = 0
        /\ UNCHANGED <<features, metrics>>
        /\ again' = again \cup {m \in metrics : features'[m] > 0 /\ m >= From(since')}
    BY <1>15 DEF Restart, Abandon, Return, Nothing, towercore, tables
  <2>2. \A m \in Time : ~(got'[m] > 1 \/ got'[m] > 0)
    BY <2>1
  <2>3. QED
    BY <1>0, <2>1, <2>2 DEF ReadAgain, From
<1>16. ASSUME UNCHANGED vars
       PROVE  ReadAgain'
  BY <1>0, <1>16 DEF vars, towercore, cycle, tables, ghosts, ReadAgain, From
<1>17. QED
  BY <1>1, <1>2, <1>3, <1>4, <1>5, <1>6, <1>7, <1>8, <1>9, <1>10, <1>11, <1>12, <1>13, <1>14, <1>15, <1>16 DEF Next, Collect

LEMMA PassedStep ==
    ASSUME FInv, [Next]_vars
    PROVE  PassedIsStored'
<1>0. PassedIsStored /\ metrics \subseteq Time
  BY FeedFacts
<1>1. ASSUME Tick
      PROVE  PassedIsStored'
  BY <1>0, <1>1 DEF Tick, cycle, tables, ghosts, PassedIsStored
<1>2. ASSUME NEW m \in stamped, CommitMetric(m)
      PROVE  PassedIsStored'
  BY <1>0, <1>2 DEF CommitMetric, cycle, tables, PassedIsStored
<1>3. ASSUME NEW e \in Events, CommitEvent(e)
      PROVE  PassedIsStored'
  BY <1>0, <1>3 DEF CommitEvent, cycle, tables, ghosts, PassedIsStored
<1>4. ASSUME Begin
      PROVE  PassedIsStored'
  BY <1>0, <1>4 DEF Begin, towercore, tables, ghosts, PassedIsStored
<1>5. ASSUME GetPage
      PROVE  PassedIsStored'
  BY <1>0, <1>5 DEF GetPage, towercore, tables, PassedIsStored
<1>6. ASSUME NEW S \in Chunks, SaveChunk(S)
      PROVE  PassedIsStored'
  <2>1. features' = Stored(S) /\ UNCHANGED <<metrics, excused, since, evaluated>>
    BY <1>6 DEF SaveChunk, towercore, ghosts
  <2>2. \A m \in metrics : features[m] > 0 => features'[m] > 0
    BY <1>0, <2>1, StoredFacts
  <2>3. QED
    BY <1>0, <2>1, <2>2 DEF PassedIsStored
<1>7. ASSUME Evaluate
      PROVE  PassedIsStored'
  <2>1. /\ pc = "save" /\ unsaved = {} /\ since' = start /\ excused' = excused \cup late
        /\ evaluated' = evaluated \cup {m \in Time : got[m] > 0}
        /\ UNCHANGED <<metrics, features>>
    BY <1>7 DEF Evaluate, Marker, towercore
  <2> SUFFICES ASSUME NEW m \in metrics, m \notin excused, m \notin late, m < start
               PROVE  features[m] > 0 /\ m \in evaluated'
    BY <2>1 DEF PassedIsStored
  <2>2. CASE m < since
    BY <1>0, <2>1, <2>2 DEF PassedIsStored
  <2>3. CASE ~(m < since)
    <3>1. m \in Time /\ m \in Nat /\ since \in Nat /\ From(since) \in Int /\ From(since) <= since
      BY FeedFacts, FromType DEF Time
    <3>2. m \in Reached
      BY <2>3, <3>1 DEF Reached
    <3>3. got[m] > 0
      BY <2>1, <3>2, FeedFacts DEF NoneSkipped
    <3>4. features[m] > 0
      BY <2>1, <3>1, <3>3, FeedFacts DEF HandIsStored
    <3>5. QED
      BY <2>1, <3>1, <3>3, <3>4
  <2>4. QED
    BY <2>2, <2>3
<1>8. ASSUME GetEvents
      PROVE  PassedIsStored'
  BY <1>0, <1>8 DEF GetEvents, towercore, tables, ghosts, PassedIsStored
<1>9. ASSUME SaveEvents
      PROVE  PassedIsStored'
  BY <1>0, <1>9 DEF SaveEvents, towercore, ghosts, PassedIsStored
<1>10. ASSUME NEW e \in listed, CreateIncident(e)
       PROVE  PassedIsStored'
  BY <1>0, <1>10 DEF CreateIncident, towercore, ghosts, PassedIsStored
<1>11. ASSUME NEW e \in listed, IncidentFails(e)
       PROVE  PassedIsStored'
  BY <1>0, <1>11 DEF IncidentFails, towercore, tables, ghosts, PassedIsStored
<1>12. ASSUME Finish
       PROVE  PassedIsStored'
  BY <1>0, <1>12 DEF Finish, towercore, tables, Return, PassedIsStored
<1>13. ASSUME NEW e \in Events, Confirm(e)
       PROVE  PassedIsStored'
  BY <1>0, <1>13 DEF Confirm, towercore, cycle, ghosts, PassedIsStored
<1>14. ASSUME Fail
       PROVE  PassedIsStored'
  <2>1. UNCHANGED features \/ \E S \in Chunks : features' = Stored(S)
    BY <1>14, FailFacts
  <2>2. UNCHANGED <<metrics, since, evaluated, excused>>
    BY <1>14, FailFacts DEF towercore
  <2>3. \A m \in metrics : features[m] > 0 => features'[m] > 0
    BY <1>0, <2>1, StoredFacts
  <2>4. QED
    BY <1>0, <2>2, <2>3 DEF PassedIsStored
<1>15. ASSUME Restart
       PROVE  PassedIsStored'
  <2>1. excused' = excused \cup {m \in metrics : m < since'} /\ UNCHANGED metrics
    BY <1>15 DEF Restart, towercore
  <2>2. QED
    BY <2>1 DEF PassedIsStored
<1>16. ASSUME UNCHANGED vars
       PROVE  PassedIsStored'
  BY <1>0, <1>16 DEF vars, towercore, cycle, tables, ghosts, PassedIsStored
<1>17. QED
  BY <1>1, <1>2, <1>3, <1>4, <1>5, <1>6, <1>7, <1>8, <1>9, <1>10, <1>11, <1>12, <1>13, <1>14, <1>15, <1>16 DEF Next, Collect

LEMMA StoredAgainStep ==
    ASSUME FInv, [Next]_vars
    PROVE  StoredAgainHasCause'
<1>0. StoredAgainHasCause
  BY FeedFacts
<1>a. ASSUME NEW S \in Chunks, NEW m \in Time, Stored(S)[m] > 1, pc = "save"
      PROVE  m \in again
  <2>1. CASE features[m] > 1
    BY <1>0, <2>1 DEF StoredAgainHasCause
  <2>2. CASE m \in S /\ got[m] > 1
    BY <2>2, FeedFacts DEF ReadAgain
  <2>3. CASE m \in S /\ features[m] > 0 /\ got[m] > 0
    <3>1. m \in unsaved /\ m >= From(since)
      BY <2>3, FeedFacts DEF Chunks, HandShape, Reached
    <3>2. QED
      BY <2>3, <3>1, FeedFacts DEF ReadAgain
  <2>4. QED
    BY <1>a, <2>1, <2>2, <2>3, StoredFacts
<1>1. ASSUME Tick
      PROVE  StoredAgainHasCause'
  BY <1>0, <1>1 DEF Tick, cycle, tables, ghosts, StoredAgainHasCause
<1>2. ASSUME NEW m \in stamped, CommitMetric(m)
      PROVE  StoredAgainHasCause'
  BY <1>0, <1>2 DEF CommitMetric, cycle, tables, StoredAgainHasCause
<1>3. ASSUME NEW e \in Events, CommitEvent(e)
      PROVE  StoredAgainHasCause'
  BY <1>0, <1>3 DEF CommitEvent, cycle, tables, ghosts, StoredAgainHasCause
<1>4. ASSUME Begin
      PROVE  StoredAgainHasCause'
  BY <1>0, <1>4 DEF Begin, towercore, tables, ghosts, StoredAgainHasCause
<1>5. ASSUME GetPage
      PROVE  StoredAgainHasCause'
  BY <1>0, <1>5 DEF GetPage, towercore, tables, StoredAgainHasCause
<1>6. ASSUME NEW S \in Chunks, SaveChunk(S)
      PROVE  StoredAgainHasCause'
  BY <1>a, <1>6 DEF SaveChunk, ghosts, StoredAgainHasCause
<1>7. ASSUME Evaluate
      PROVE  StoredAgainHasCause'
  BY <1>0, <1>7 DEF Evaluate, towercore, StoredAgainHasCause
<1>8. ASSUME GetEvents
      PROVE  StoredAgainHasCause'
  BY <1>0, <1>8 DEF GetEvents, towercore, tables, ghosts, StoredAgainHasCause
<1>9. ASSUME SaveEvents
      PROVE  StoredAgainHasCause'
  BY <1>0, <1>9 DEF SaveEvents, towercore, ghosts, StoredAgainHasCause
<1>10. ASSUME NEW e \in listed, CreateIncident(e)
       PROVE  StoredAgainHasCause'
  BY <1>0, <1>10 DEF CreateIncident, towercore, ghosts, StoredAgainHasCause
<1>11. ASSUME NEW e \in listed, IncidentFails(e)
       PROVE  StoredAgainHasCause'
  BY <1>0, <1>11 DEF IncidentFails, towercore, tables, ghosts, StoredAgainHasCause
<1>12. ASSUME Finish
       PROVE  StoredAgainHasCause'
  BY <1>0, <1>12 DEF Finish, towercore, tables, Return, StoredAgainHasCause
<1>13. ASSUME NEW e \in Events, Confirm(e)
       PROVE  StoredAgainHasCause'
  BY <1>0, <1>13 DEF Confirm, towercore, cycle, ghosts, StoredAgainHasCause
<1>14. ASSUME Fail
       PROVE  StoredAgainHasCause'
  <2>1. UNCHANGED features \/ (pc = "save" /\ \E S \in Chunks : features' = Stored(S))
    BY <1>14, FailFacts
  <2>2. again \subseteq again'
    BY <1>14, FailFacts
  <2>3. QED
    BY <1>0, <1>a, <2>1, <2>2 DEF StoredAgainHasCause
<1>15. ASSUME Restart
       PROVE  StoredAgainHasCause'
  <2>1. again \subseteq again' /\ UNCHANGED features
    BY <1>15 DEF Restart, Abandon, tables
  <2>2. QED
    BY <1>0, <2>1 DEF StoredAgainHasCause
<1>16. ASSUME UNCHANGED vars
       PROVE  StoredAgainHasCause'
  BY <1>0, <1>16 DEF vars, towercore, cycle, tables, ghosts, StoredAgainHasCause
<1>17. QED
  BY <1>1, <1>2, <1>3, <1>4, <1>5, <1>6, <1>7, <1>8, <1>9, <1>10, <1>11, <1>12, <1>13, <1>14, <1>15, <1>16 DEF Next, Collect

LEMMA IncidentStep ==
    ASSUME FInv, [Next]_vars
    PROVE  IncidentShape' /\ IncidentsAreOfStoredEvents'
<1>0. IncidentShape /\ IncidentsAreOfStoredEvents /\ EventTypes
  BY DEF FInv
<1>1. ASSUME Tick
      PROVE  IncidentShape' /\ IncidentsAreOfStoredEvents'
  BY <1>0, <1>1 DEF Tick, cycle, tables, ghosts, IncidentShape, IncidentsAreOfStoredEvents, Incidents
<1>2. ASSUME NEW m \in stamped, CommitMetric(m)
      PROVE  IncidentShape' /\ IncidentsAreOfStoredEvents'
  BY <1>0, <1>2 DEF CommitMetric, cycle, tables, IncidentShape, IncidentsAreOfStoredEvents, Incidents
<1>3. ASSUME NEW e \in Events, CommitEvent(e)
      PROVE  IncidentShape' /\ IncidentsAreOfStoredEvents'
  BY <1>0, <1>3 DEF CommitEvent, cycle, tables, ghosts, IncidentShape, IncidentsAreOfStoredEvents, Incidents
<1>4. ASSUME Begin
      PROVE  IncidentShape' /\ IncidentsAreOfStoredEvents'
  BY <1>0, <1>4 DEF Begin, towercore, tables, ghosts, IncidentShape, IncidentsAreOfStoredEvents, Incidents
<1>5. ASSUME GetPage
      PROVE  IncidentShape' /\ IncidentsAreOfStoredEvents'
  BY <1>0, <1>5 DEF GetPage, AfterPage, towercore, tables, IncidentShape, IncidentsAreOfStoredEvents, Incidents
<1>6. ASSUME NEW S \in Chunks, SaveChunk(S)
      PROVE  IncidentShape' /\ IncidentsAreOfStoredEvents'
  BY <1>0, <1>6 DEF SaveChunk, towercore, ghosts, IncidentShape, IncidentsAreOfStoredEvents, Incidents
<1>7. ASSUME Evaluate
      PROVE  IncidentShape' /\ IncidentsAreOfStoredEvents'
  BY <1>0, <1>7 DEF Evaluate, towercore, IncidentShape, IncidentsAreOfStoredEvents, Incidents
<1>8. ASSUME GetEvents
      PROVE  IncidentShape' /\ IncidentsAreOfStoredEvents'
  BY <1>0, <1>8 DEF GetEvents, towercore, tables, ghosts, IncidentShape, IncidentsAreOfStoredEvents, Incidents
<1>9. ASSUME SaveEvents
      PROVE  IncidentShape' /\ IncidentsAreOfStoredEvents'
  BY <1>0, <1>9 DEF SaveEvents, towercore, ghosts, IncidentShape, IncidentsAreOfStoredEvents, Incidents
<1>10. ASSUME NEW e \in listed, CreateIncident(e)
       PROVE  IncidentShape' /\ IncidentsAreOfStoredEvents'
  <2>1. e \in Events /\ e \in ai_events
    BY <1>0, <1>10 DEF CreateIncident, EventTypes, IncidentShape
  <2>2. PICK n : n = incidents[e].pending + 1
    OBVIOUS
  <2>3. PICK row : row = [incidents[e] EXCEPT !.pending = n]
    OBVIOUS
  <2>4. incidents[e] \in [pending : 0 .. 2, decided : 0 .. 2]
    BY <1>0, <2>1 DEF EventTypes
  <2>5. row.pending = n /\ row.decided = incidents[e].decided
    BY <2>3, <2>4
  <2>6. incidents' = incidents \/ (e \in Down /\ Incidents(e) < 2 /\ incidents' = [incidents EXCEPT ![e] = row])
    BY <1>10, <2>2, <2>3 DEF CreateIncident
  <2>7. pc' = pc /\ listed' \subseteq listed /\ ai_events' = ai_events
    BY <1>10 DEF CreateIncident
  <2>8. CASE incidents' = incidents
    BY <1>0, <2>7, <2>8 DEF IncidentShape, IncidentsAreOfStoredEvents, Incidents
  <2>9. CASE e \in Down /\ Incidents(e) < 2 /\ incidents' = [incidents EXCEPT ![e] = row]
    <3>1. incidents'[e] = row /\ \A d \in Events \ {e} : incidents'[d] = incidents[d]
      BY <1>0, <2>9 DEF EventTypes
    <3>2. Incidents(e)' <= 2
      BY <1>0, <2>1, <2>2, <2>5, <2>9, <3>1, IncidentTypes DEF Incidents
    <3>3. \A d \in Events \ {e} : Incidents(d)' = Incidents(d)
      BY <3>1 DEF Incidents
    <3>4. QED
      BY <1>0, <2>1, <2>7, <2>9, <3>2, <3>3 DEF IncidentShape, IncidentsAreOfStoredEvents
  <2>10. QED
    BY <2>6, <2>8, <2>9
<1>11. ASSUME NEW e \in listed, IncidentFails(e)
       PROVE  IncidentShape' /\ IncidentsAreOfStoredEvents'
  BY <1>0, <1>11 DEF IncidentFails, towercore, tables, ghosts, IncidentShape, IncidentsAreOfStoredEvents, Incidents
<1>12. ASSUME Finish
       PROVE  IncidentShape' /\ IncidentsAreOfStoredEvents'
  <2>1. Return /\ UNCHANGED <<incidents, ai_events>>
    BY <1>12 DEF Finish, tables
  <2>2. QED
    BY <1>0, <2>1 DEF Return, IncidentShape, IncidentsAreOfStoredEvents, Incidents
<1>13. ASSUME NEW e \in Events, Confirm(e)
       PROVE  IncidentShape' /\ IncidentsAreOfStoredEvents'
  <2>1. PICK row : row = [pending |-> incidents[e].pending - 1, decided |-> incidents[e].decided + 1]
    OBVIOUS
  <2>2. incidents' = [incidents EXCEPT ![e] = row] /\ UNCHANGED <<pc, listed, ai_events>>
    BY <1>13, <2>1 DEF Confirm, cycle
  <2>3. incidents'[e] = row /\ \A d \in Events \ {e} : incidents'[d] = incidents[d]
    BY <1>0, <2>2 DEF EventTypes
  <2>4. Incidents(e)' = Incidents(e)
    BY <1>0, <2>1, <2>3, IncidentTypes DEF Incidents
  <2>5. \A d \in Events : Incidents(d)' = Incidents(d)
    BY <2>3, <2>4 DEF Incidents
  <2>6. QED
    BY <1>0, <2>2, <2>5 DEF IncidentShape, IncidentsAreOfStoredEvents
<1>14. ASSUME Fail
       PROVE  IncidentShape' /\ IncidentsAreOfStoredEvents'
  <2>1. Return /\ UNCHANGED <<incidents, ai_events>>
    BY <1>14, FailFacts
  <2>2. QED
    BY <1>0, <2>1 DEF Return, IncidentShape, IncidentsAreOfStoredEvents, Incidents
<1>15. ASSUME Restart
       PROVE  IncidentShape' /\ IncidentsAreOfStoredEvents'
  <2>1. Return /\ UNCHANGED <<incidents, ai_events>>
    BY <1>15 DEF Restart, Abandon, tables
  <2>2. QED
    BY <1>0, <2>1 DEF Return, IncidentShape, IncidentsAreOfStoredEvents, Incidents
<1>16. ASSUME UNCHANGED vars
       PROVE  IncidentShape' /\ IncidentsAreOfStoredEvents'
  BY <1>0, <1>16 DEF vars, towercore, cycle, tables, ghosts, IncidentShape, IncidentsAreOfStoredEvents, Incidents
<1>17. QED
  BY <1>1, <1>2, <1>3, <1>4, <1>5, <1>6, <1>7, <1>8, <1>9, <1>10, <1>11, <1>12, <1>13, <1>14, <1>15, <1>16 DEF Next, Collect

(* MetricFeed, Collect: whatever fails or restarts, the marker passes only   *)
(* metrics that are stored and evaluated or came too late; what is stored    *)
(* twice was read twice for a reason; incidents are of stored events.        *)
THEOREM FeedMissesNothing == Spec => []FeedInv
<1>1. Init => FInv
  BY FeedInit
<1>2. FInv /\ [Next]_vars => FInv'
  <2> SUFFICES ASSUME FInv, [Next]_vars PROVE FInv'
    OBVIOUS
  <2>1. QED
    BY FeedTimeStep, FeedHandStep, FeedEventStep, FeedFaultStep, HandShapeStep, NoneSkippedStep,
       HandIsStoredStep, ReadAgainStep, PassedStep, StoredAgainStep, IncidentStep DEF FInv
<1>3. FInv => FeedInv
  BY FeedTypes DEF FInv, FeedInv
<1>4. QED
  BY <1>1, <1>2, <1>3, PTL DEF Spec

-----------------------------------------------------------------------------
(* Rows in the order of a stamp.                                             *)
Before(S, f, t) == {u \in S : f[u] < f[t]}
Rank(S, f, t) == Cardinality(Before(S, f, t))
Stamps(S, f) ==
    /\ \A t \in S : f[t] \in Nat
    /\ \A t, u \in S : f[t] = f[u] => t = u

LEMMA RankType ==
    ASSUME NEW S, IsFiniteSet(S), NEW f, NEW t \in S
    PROVE  Rank(S, f, t) \in Nat
<1>1. IsFiniteSet(Before(S, f, t))
  <2>1. Before(S, f, t) \in SUBSET S
    BY DEF Before
  <2>2. QED
    BY <2>1, FS_Subset
<1>2. QED
  BY <1>1, FS_CardinalityType DEF Rank

(* A row's rank is below the number of rows ...                              *)
LEMMA RankBelow ==
    ASSUME NEW S, IsFiniteSet(S), NEW f, Stamps(S, f), NEW t \in S
    PROVE  Rank(S, f, t) \in 0 .. Cardinality(S) - 1
<1>1. Before(S, f, t) \in SUBSET (S \ {t})
  BY DEF Before, Stamps
<1>2. IsFiniteSet(S \ {t}) /\ Cardinality(S \ {t}) = Cardinality(S) - 1
  BY FS_RemoveElement
<1>3. Cardinality(Before(S, f, t)) <= Cardinality(S \ {t})
  BY <1>1, <1>2, FS_Subset
<1>4. Cardinality(S) \in Nat /\ Rank(S, f, t) \in Nat
  BY FS_CardinalityType, RankType
<1>5. QED
  BY <1>2, <1>3, <1>4 DEF Rank

LEMMA RankGrows ==
    ASSUME NEW S, IsFiniteSet(S), NEW f, Stamps(S, f), NEW t \in S, NEW u \in S, f[t] < f[u]
    PROVE  Rank(S, f, t) < Rank(S, f, u)
<1>1. Before(S, f, t) \in SUBSET Before(S, f, u) /\ t \in Before(S, f, u) /\ t \notin Before(S, f, t)
  BY DEF Before, Stamps
<1>2. IsFiniteSet(Before(S, f, u))
  <2>1. Before(S, f, u) \in SUBSET S
    BY DEF Before
  <2>2. QED
    BY <2>1, FS_Subset
<1>3. Before(S, f, t) \in SUBSET (Before(S, f, u) \ {t})
  BY <1>1
<1>4. IsFiniteSet(Before(S, f, u) \ {t}) /\ Cardinality(Before(S, f, u) \ {t}) = Rank(S, f, u) - 1
  BY <1>1, <1>2, FS_RemoveElement DEF Rank
<1>5. Rank(S, f, t) <= Rank(S, f, u) - 1
  BY <1>3, <1>4, FS_Subset DEF Rank
<1>6. QED
  BY <1>5, RankType

(* ... no two rows have the same, and each number below is some row's.       *)
LEMMA RankInjective ==
    ASSUME NEW S, IsFiniteSet(S), NEW f, Stamps(S, f), NEW t \in S, NEW u \in S,
           Rank(S, f, t) = Rank(S, f, u)
    PROVE  t = u
<1>1. f[t] \in Nat /\ f[u] \in Nat /\ Rank(S, f, t) \in Nat
  BY RankType DEF Stamps
<1>2. CASE f[t] < f[u]
  BY <1>1, <1>2, RankGrows
<1>3. CASE f[u] < f[t]
  <2>1. Rank(S, f, u) < Rank(S, f, t)
    BY <1>3, RankGrows
  <2>2. QED
    BY <1>1, <2>1
<1>4. CASE f[t] = f[u]
  BY <1>4 DEF Stamps
<1>5. QED
  BY <1>1, <1>2, <1>3, <1>4

LEMMA RankSurjective ==
    ASSUME NEW S, IsFiniteSet(S), NEW f, Stamps(S, f), NEW k \in 0 .. Cardinality(S) - 1
    PROVE  \E t \in S : Rank(S, f, t) = k
<1> DEFINE Below == 0 .. Cardinality(S) - 1
           g == [t \in S |-> Rank(S, f, t)]
<1>1. Cardinality(S) \in Nat
  BY FS_CardinalityType
<1>2. g \in [S -> Below] /\ \A t, u \in S : g[t] = g[u] => t = u
  BY RankBelow, RankInjective
<1>3. g \in Injection(S, Below)
  <2> HIDE DEF g, Below
  <2>1. QED
    BY <1>2 DEF Injection, IsInjective
<1>4. IsFiniteSet(Below) /\ Cardinality(Below) = Cardinality(S)
  <2>1. IsFiniteSet(Below) /\ Cardinality(Below) = IF 0 > Cardinality(S) - 1 THEN 0 ELSE Cardinality(S) - 1 - 0 + 1
    <3>1. 0 \in Int /\ Cardinality(S) - 1 \in Int
      BY <1>1
    <3>2. QED
      BY <3>1, FS_Interval
  <2>2. QED
    BY <1>1, <2>1
<1>5. g \in Surjection(S, Below)
  <2> HIDE DEF g, Below
  <2>1. QED
    BY <1>3, <1>4, FS_Injection
<1>6. \A n \in Below : \E t \in S : g[t] = n
  <2> HIDE DEF g, Below
  <2>1. QED
    BY <1>5 DEF Surjection
<1>7. QED
  BY <1>6

(* The elements of a sequence whose elements may have to differ.             *)
Elements(s) == {s[i] : i \in 1 .. Len(s)}
Distinct(s) == \A i, j \in 1 .. Len(s) : s[i] = s[j] => i = j

LEMMA EmptyElements == Len(<<>>) = 0 /\ Elements(<<>>) = {} /\ Distinct(<<>>)
<1>1. Len(<<>>) = 0
  OBVIOUS
<1>2. QED
  BY <1>1 DEF Elements, Distinct

LEMMA AppendedElements ==
    ASSUME NEW S, NEW s \in Seq(S), NEW e \in S
    PROVE  /\ Append(s, e) \in Seq(S) /\ Len(Append(s, e)) = Len(s) + 1 /\ Len(s) \in Nat
           /\ Elements(Append(s, e)) = Elements(s) \cup {e}
<1> DEFINE a == Append(s, e)
<1>1. /\ a \in Seq(S) /\ Len(a) = Len(s) + 1
      /\ \A i \in 1 .. Len(s) : a[i] = s[i]
      /\ a[Len(s) + 1] = e
  BY AppendProperties
<1> HIDE DEF a
<1>2. Len(s) \in Nat
  OBVIOUS
<1>3. 1 .. Len(a) = (1 .. Len(s)) \cup {Len(s) + 1}
  BY <1>1, <1>2
<1>4. Elements(a) = Elements(s) \cup {e}
  BY <1>1, <1>3 DEF Elements
<1>5. QED
  BY <1>1, <1>2, <1>4 DEF a

LEMMA HeadElements ==
    ASSUME NEW S, NEW s \in Seq(S), s # <<>>, Distinct(s)
    PROVE  /\ Head(s) \in S /\ Tail(s) \in Seq(S)
           /\ Len(Tail(s)) = Len(s) - 1 /\ Len(s) \in Nat
           /\ Elements(s) = Elements(Tail(s)) \cup {Head(s)} /\ Head(s) \notin Elements(Tail(s))
           /\ Distinct(Tail(s))
<1> DEFINE h == Head(s)
           r == Tail(s)
<1>1. /\ h \in S /\ r \in Seq(S) /\ Len(r) = Len(s) - 1
      /\ \A i \in 1 .. Len(r) : r[i] = s[i + 1]
  BY HeadTailProperties
<1>2. h = s[1]
  OBVIOUS
<1>3. Len(s) \in Nat /\ Len(s) # 0
  OBVIOUS
<1> HIDE DEF h, r
<1>4. \A i \in 1 .. Len(r) : i \in Nat /\ i + 1 \in 1 .. Len(s) /\ i + 1 # 1
  BY <1>1, <1>3
<1>5. 1 \in 1 .. Len(s) /\ \A j \in 1 .. Len(s) : j = 1 \/ (j - 1 \in 1 .. Len(r) /\ (j - 1) + 1 = j)
  BY <1>1, <1>3
<1>6. \A j \in 1 .. Len(s) : j = 1 \/ (j - 1 \in 1 .. Len(r) /\ r[j - 1] = s[j])
  BY <1>1, <1>5
<1>7. Elements(s) = Elements(r) \cup {h}
  BY <1>1, <1>2, <1>4, <1>5, <1>6 DEF Elements
<1>8. h \notin Elements(r)
  BY <1>1, <1>2, <1>4, <1>5 DEF Elements, Distinct
<1>9. Distinct(r)
  <2>1. \A i, j \in 1 .. Len(r) : r[i] = r[j] => i + 1 = j + 1
    BY <1>1, <1>4 DEF Distinct
  <2>2. QED
    BY <1>4, <2>1 DEF Distinct
<1>10. QED
  BY <1>1, <1>3, <1>7, <1>8, <1>9 DEF h, r

(* CollectionCycle counts, and names its sets of rows, as this module does.  *)
LEMMA CycleCounts == \A S : C!Cardinality(S) = Cardinality(S)
BY DEF C!Cardinality, Cardinality

Busy == {t \in Towers : running[t] > 0}
StampedTowers == {t \in Towers : c_stamped[t] # 0}
Handed == Elements(started)
OnPage == Elements(page)
InCycle == c_pc \in {"count", "list", "hand out", "done"}

(* A late commit has put a row before that of t.                             *)
Pushed(t) == \E u \in committed \ atStart : c_stamped[u] < c_stamped[t]

CycleSets ==
    /\ committed \subseteq StampedTowers
    /\ atStart \subseteq committed

CycleHand ==
    /\ page \in Seq(Towers)
    /\ started \in Seq(Towers)
    /\ running \in [Towers -> Nat]

CycleNumbers ==
    /\ c_offset \in Nat
    /\ total \in 0 .. Cardinality(Towers)
    /\ counted \in Nat
    /\ c_offset = Len(started) + Len(page)

CyclePc == c_pc \in {"idle", "count", "list", "hand out", "done", "failed", "stopped"}

StampsDiffer ==
    /\ c_stamped \in [Towers -> 0 .. Cardinality(Towers)]
    /\ \A t \in StampedTowers : c_stamped[t] <= Cardinality(StampedTowers)
    /\ \A t, u \in StampedTowers : c_stamped[t] = c_stamped[u] => t = u

(* The page's towers differ, and none is being collected.                    *)
PageIsFree ==
    /\ c_pc # "hand out" => page = <<>> /\ Busy = {}
    /\ Distinct(page)
    /\ \A t \in OnPage : running[t] = 0
    /\ \A t \in Towers : running[t] <= 1

AllCounted == counted + Cardinality(Busy) = Len(started)

(* A tower of the start that nothing pushed is on a page so far, or its rank *)
(* is among those still to list.                                             *)
NoneMissed ==
    /\ InCycle =>
        \A t \in atStart :
            ~Pushed(t) =>
                /\ Rank(committed, c_stamped, t) < c_offset => t \in Handed \cup OnPage
                /\ c_pc # "count" => Rank(committed, c_stamped, t) < total
    /\ c_pc = "done" => c_offset >= total

CyInv ==
    /\ CycleSets /\ CycleHand /\ CycleNumbers /\ CyclePc
    /\ StampsDiffer /\ PageIsFree /\ AllCounted /\ NoneMissed

LEMMA CycleConstants ==
    /\ IsFiniteSet(Towers) /\ Cardinality(Towers) \in Nat
    /\ BatchSize \in Nat \ {0}
<1>1. IsFiniteSet(Towers) /\ BatchSize \in Nat \ {0}
  BY CycleParameters DEF C!Parameters, C!IsFiniteSet, IsFiniteSet
<1>2. QED
  BY <1>1, FS_CardinalityType

(* Any part of the towers is finite and no larger.                           *)
LEMMA SomeTowers ==
    ASSUME NEW S \in SUBSET Towers
    PROVE  IsFiniteSet(S) /\ Cardinality(S) \in 0 .. Cardinality(Towers)
<1>1. IsFiniteSet(S) /\ Cardinality(S) <= Cardinality(Towers)
  BY CycleConstants, FS_Subset
<1>2. Cardinality(S) \in Nat
  BY <1>1, FS_CardinalityType
<1>3. QED
  BY <1>1, <1>2, CycleConstants

LEMMA CommittedAreStamped ==
    ASSUME CyInv
    PROVE  Stamps(committed, c_stamped) /\ committed \in SUBSET Towers /\ IsFiniteSet(committed)
<1>1. committed \subseteq StampedTowers /\ StampsDiffer
  BY DEF CyInv, CycleSets
<1>2. committed \in SUBSET Towers
  BY <1>1 DEF StampedTowers
<1>3. \A t \in Towers : c_stamped[t] \in Nat
  <2>1. Cardinality(Towers) \in Nat
    BY CycleConstants
  <2>2. QED
    BY <1>1, <2>1 DEF StampsDiffer
<1>4. QED
  BY <1>1, <1>2, <1>3, SomeTowers DEF Stamps, StampsDiffer

LEMMA BusyType == Busy \in SUBSET Towers /\ IsFiniteSet(Busy) /\ Cardinality(Busy) \in Nat
<1>1. Busy \in SUBSET Towers
  BY DEF Busy
<1>2. QED
  BY <1>1, SomeTowers

(* The query orders the rows by their stamps.                                *)
LEMMA RowsByRank ==
    ASSUME CyInv
    PROVE  /\ C!Rows \in Seq(committed)
           /\ Len(C!Rows) = Cardinality(committed)
           /\ \A n \in 1 .. Cardinality(committed) : Rank(committed, c_stamped, C!Rows[n]) = n - 1
<1> DEFINE K == Cardinality(committed)
           row(n) == CHOOSE t \in committed : C!Cardinality(C!Earlier(t)) = n - 1
<1>1. K \in Nat
  BY CommittedAreStamped, FS_CardinalityType
<1>2. C!Rows = [n \in 1 .. K |-> row(n)]
  <2>1. C!Cardinality(committed) = K
    BY CycleCounts
  <2>2. QED
    BY <2>1 DEF C!Rows
<1>a. \A t : C!Cardinality(C!Earlier(t)) = Rank(committed, c_stamped, t)
  BY CycleCounts DEF C!Earlier, C!Precedes, Rank, Before
<1>3. \A n \in 1 .. K : row(n) \in committed /\ Rank(committed, c_stamped, row(n)) = n - 1
  <2>1. SUFFICES ASSUME NEW n \in 1 .. K
                 PROVE  \E t \in committed : Rank(committed, c_stamped, t) = n - 1
    BY <1>a
  <2>2. n - 1 \in 0 .. K - 1
    BY <1>1
  <2>3. QED
    BY <2>2, CommittedAreStamped, RankSurjective
<1> HIDE DEF row, K
<1>4. C!Rows \in [1 .. K -> committed]
  BY <1>2, <1>3
<1>5. C!Rows \in Seq(committed) /\ Len(C!Rows) = K
  BY <1>1, <1>4
<1>6. QED
  BY <1>2, <1>3, <1>5 DEF K

(* A page holds the rows whose ranks it covers.                              *)
LEMMA PageByRank ==
    ASSUME CyInv, C!List
    PROVE  \E n \in Nat :
              /\ page' \in Seq(committed) /\ Len(page') = n
              /\ c_offset' = c_offset + n
              /\ \A i \in 1 .. n : page'[i] \in committed
                                  /\ Rank(committed, c_stamped, page'[i]) = c_offset + i - 1
<1> DEFINE K == Cardinality(committed)
<1>1. K \in Nat /\ c_offset \in Nat /\ BatchSize \in Nat
  BY CommittedAreStamped, FS_CardinalityType, CycleConstants DEF CyInv, CycleNumbers
<1>2. PICK last \in Nat : last <= K /\ page' = SubSeq(C!Rows, c_offset + 1, last)
  <2>1. page' = SubSeq(C!Rows, c_offset + 1, IF c_offset + BatchSize < Len(C!Rows)
                                              THEN c_offset + BatchSize ELSE Len(C!Rows))
    BY DEF C!List
  <2>2. CASE c_offset + BatchSize < K
    BY <1>1, <2>1, <2>2, RowsByRank
  <2>3. CASE ~(c_offset + BatchSize < K)
    BY <1>1, <2>1, <2>3, RowsByRank
  <2>4. QED
    BY <2>2, <2>3
<1> DEFINE first == c_offset + 1
<1>3. first \in Int /\ last \in Int /\ first .. last \subseteq 1 .. K
  BY <1>1, <1>2
<1>4. \A i \in first .. last : C!Rows[i] \in committed
  <2>1. C!Rows \in [1 .. K -> committed]
    BY RowsByRank
  <2>2. QED
    BY <1>3, <2>1
<1> HIDE DEF first, K
<1>5. /\ page' \in Seq(committed)
      /\ Len(page') = IF first <= last THEN last - first + 1 ELSE 0
      /\ \A i \in 1 .. last - first + 1 : page'[i] = C!Rows[first + i - 1]
  BY <1>2, <1>3, <1>4, SubSeqProperties DEF first
<1>6. Len(page') \in Nat /\ 1 .. Len(page') \subseteq 1 .. last - first + 1
  BY <1>3, <1>5
<1>7. \A i \in 1 .. Len(page') : /\ page'[i] = C!Rows[first + i - 1] /\ first + i - 1 \in first .. last
  BY <1>3, <1>5, <1>6
<1>8. \A i \in 1 .. Len(page') : Rank(committed, c_stamped, C!Rows[first + i - 1]) = first + i - 1 - 1
  BY <1>3, <1>7, RowsByRank DEF K
<1>9. c_offset' = c_offset + Len(page')
  BY DEF C!List
<1>10. \A i \in 1 .. Len(page') : first + i - 1 - 1 = c_offset + i - 1
  BY <1>1 DEF first
<1>11. QED
  BY <1>4, <1>5, <1>6, <1>7, <1>8, <1>9, <1>10

(* The steps of the cycle.  Those that leave the tables, the goroutines and  *)
(* the page alone disturb only what depends on pc.                           *)
CyTable == CycleSets /\ StampsDiffer
CyPool == CycleHand /\ AllCounted

LEMMA TableStays ==
    ASSUME CyInv, UNCHANGED <<c_stamped, committed, atStart>>
    PROVE  CyTable'
BY DEF CyInv, CyTable, CycleSets, StampsDiffer, StampedTowers

LEMMA PoolStays ==
    ASSUME CyInv, UNCHANGED <<page, started, running, counted>>
    PROVE  CyPool'
BY DEF CyInv, CyPool, CycleHand, AllCounted, Busy

LEMMA NumbersStay ==
    ASSUME CyInv, UNCHANGED <<page, started, counted, c_offset, total>>
    PROVE  CycleNumbers'
BY DEF CyInv, CycleNumbers

LEMMA PageStays ==
    ASSUME CyInv, UNCHANGED <<c_pc, page, running>>
    PROVE  CyclePc' /\ PageIsFree'
<1>1. Busy' = Busy /\ OnPage' = OnPage
  BY DEF Busy, OnPage
<1>2. CyclePc /\ PageIsFree
  BY DEF CyInv
<1>3. QED
  BY <1>1, <1>2 DEF CyclePc, PageIsFree

(* Towers that are stamped or committed late change no rank that counts.     *)
LEMMA RanksStay ==
    ASSUME UNCHANGED <<c_stamped, committed, atStart>>, NEW t
    PROVE  /\ Pushed(t)' <=> Pushed(t)
           /\ Rank(committed, c_stamped, t)' = Rank(committed, c_stamped, t)
BY DEF Pushed, Rank, Before

LEMMA StampCycle ==
    ASSUME CyInv, NEW t \in Towers, C!Stamp(t)
    PROVE  CyInv'
<1> DEFINE n == Cardinality(StampedTowers)
<1>1. CycleSets /\ StampsDiffer
  BY DEF CyInv
<1>2. /\ t \in Towers \ StampedTowers
      /\ c_stamped' = [c_stamped EXCEPT ![t] = n + 1]
  BY CycleCounts DEF C!Stamp, C!Stamped, StampedTowers
<1>3. UNCHANGED <<committed, c_pc, c_offset, total, page, running, counted, started, atStart>>
  BY DEF C!Stamp, C!pool
<1>4. StampedTowers \in SUBSET Towers
  BY DEF StampedTowers
<1>5. IsFiniteSet(StampedTowers) /\ n \in Nat /\ Cardinality(StampedTowers \cup {t}) = n + 1
  BY <1>2, <1>4, SomeTowers, FS_AddElement
<1>6. Cardinality(StampedTowers \cup {t}) \in 0 .. Cardinality(Towers)
  <2>1. StampedTowers \cup {t} \in SUBSET Towers
    BY <1>4
  <2>2. QED
    BY <2>1, SomeTowers
<1>7. /\ c_stamped'[t] = n + 1
      /\ \A u \in Towers \ {t} : c_stamped'[u] = c_stamped[u]
  BY <1>1, <1>2 DEF StampsDiffer
<1>8. StampedTowers' = StampedTowers \cup {t}
  <2>1. n + 1 # 0
    BY <1>5
  <2>2. QED
    BY <1>2, <1>7, <2>1 DEF StampedTowers
<1>9. CyTable'
  <2>1. CycleSets'
    BY <1>1, <1>3, <1>8 DEF CycleSets
  <2>2. c_stamped' \in [Towers -> 0 .. Cardinality(Towers)]
    BY <1>1, <1>2, <1>5, <1>6 DEF StampsDiffer
  <2>3. \A u \in StampedTowers : u # t /\ c_stamped'[u] = c_stamped[u] /\ c_stamped[u] \in Nat /\ c_stamped[u] <= n
    <3>1. Cardinality(Towers) \in Nat
      BY CycleConstants
    <3>2. \A u \in Towers : c_stamped[u] \in Nat
      BY <1>1, <3>1 DEF StampsDiffer
    <3>3. QED
      BY <1>1, <1>2, <1>4, <1>7, <3>2 DEF StampsDiffer
  <2>4. \A u \in StampedTowers' : c_stamped'[u] <= Cardinality(StampedTowers')
    BY <1>5, <1>7, <1>8, <2>3
  <2>5. \A u, v \in StampedTowers' : c_stamped'[u] = c_stamped'[v] => u = v
    <3>1. \A u, v \in StampedTowers : c_stamped'[u] = c_stamped'[v] => u = v
      BY <1>1, <2>3 DEF StampsDiffer
    <3>2. \A u \in StampedTowers : c_stamped'[u] # c_stamped'[t]
      BY <1>5, <1>7, <2>3
    <3>3. QED
      BY <1>8, <3>1, <3>2
  <2>6. QED
    BY <2>1, <2>2, <2>4, <2>5 DEF CyTable, StampsDiffer
<1>10. \A u \in committed : u # t /\ c_stamped'[u] = c_stamped[u]
  BY <1>1, <1>2, <1>4, <1>7 DEF CycleSets
<1>11. \A u \in atStart : /\ Pushed(u)' <=> Pushed(u)
                          /\ Rank(committed, c_stamped, u)' = Rank(committed, c_stamped, u)
  <2>1. atStart \subseteq committed
    BY <1>1 DEF CycleSets
  <2>2. \A u \in atStart : Before(committed, c_stamped, u)' = Before(committed, c_stamped, u)
    BY <1>3, <1>10, <2>1 DEF Before
  <2>3. \A u \in atStart : Pushed(u)' <=> Pushed(u)
    BY <1>3, <1>10, <2>1 DEF Pushed
  <2>4. QED
    BY <2>2, <2>3 DEF Rank
<1>12. NoneMissed'
  BY <1>3, <1>11 DEF CyInv, NoneMissed, InCycle, Handed, OnPage
<1>13. CyPool' /\ CycleNumbers' /\ CyclePc' /\ PageIsFree'
  BY <1>3, PoolStays, NumbersStay, PageStays
<1>14. QED
  BY <1>9, <1>12, <1>13 DEF CyInv, CyTable, CyPool

LEMMA CommitCycle ==
    ASSUME CyInv, NEW t \in Towers, C!Commit(t)
    PROVE  CyInv'
<1>1. CycleSets /\ StampsDiffer
  BY DEF CyInv
<1>2. t \in StampedTowers \ committed /\ committed' = committed \cup {t}
  BY DEF C!Commit, C!Stamped, StampedTowers
<1>3. UNCHANGED <<c_stamped, c_pc, c_offset, total, page, running, counted, started, atStart>>
  BY DEF C!Commit, C!pool
<1>4. CyTable'
  BY <1>1, <1>2, <1>3 DEF CyTable, CycleSets, StampsDiffer, StampedTowers
<1>5. \A u \in atStart : ~Pushed(u)' => /\ ~Pushed(u)
                                        /\ Rank(committed, c_stamped, u)' = Rank(committed, c_stamped, u)
  <2> SUFFICES ASSUME NEW u \in atStart, ~Pushed(u)'
               PROVE  ~Pushed(u) /\ Rank(committed, c_stamped, u)' = Rank(committed, c_stamped, u)
    OBVIOUS
  <2>1. t \notin atStart /\ t \in committed'
    BY <1>1, <1>2 DEF CycleSets
  <2>2. ~Pushed(u) /\ ~(c_stamped[t] < c_stamped[u])
    BY <1>2, <1>3, <2>1 DEF Pushed
  <2>3. Before(committed, c_stamped, u)' = Before(committed, c_stamped, u)
    BY <1>2, <1>3, <2>2 DEF Before
  <2>4. QED
    BY <2>2, <2>3 DEF Rank
<1>6. NoneMissed'
  BY <1>3, <1>5 DEF CyInv, NoneMissed, InCycle, Handed, OnPage
<1>7. CyPool' /\ CycleNumbers' /\ CyclePc' /\ PageIsFree'
  BY <1>3, PoolStays, NumbersStay, PageStays
<1>8. QED
  BY <1>4, <1>6, <1>7 DEF CyInv, CyTable, CyPool

LEMMA CollectCycle ==
    ASSUME CyInv, NEW t \in Towers, C!Collect(t)
    PROVE  CyInv'
<1>1. CycleHand /\ PageIsFree /\ AllCounted /\ CycleNumbers
  BY DEF CyInv
<1>2. running[t] = 1
  <2>1. running[t] \in Nat
    BY <1>1 DEF CycleHand
  <2>2. running[t] <= 1
    BY <1>1 DEF PageIsFree
  <2>3. running[t] > 0
    BY DEF C!Collect
  <2>4. QED
    BY <2>1, <2>2, <2>3
<1>3. running' = [running EXCEPT ![t] = 0] /\ counted' = counted + 1
  BY <1>2 DEF C!Collect
<1>4. UNCHANGED <<c_stamped, committed, c_pc, c_offset, total, page, started, atStart>>
  BY DEF C!Collect, C!table
<1>5. running'[t] = 0 /\ \A u \in Towers \ {t} : running'[u] = running[u]
  BY <1>1, <1>3 DEF CycleHand
<1>6. Busy' = Busy \ {t} /\ t \in Busy
  BY <1>2, <1>5 DEF Busy
<1>7. Cardinality(Busy') = Cardinality(Busy) - 1
  BY <1>6, BusyType, FS_RemoveElement
<1>8. CyPool'
  <2>1. CycleHand'
    BY <1>1, <1>3, <1>4 DEF CycleHand
  <2>2. counted \in Nat /\ Cardinality(Busy) \in Nat
    BY <1>1, BusyType DEF CycleNumbers
  <2>3. AllCounted'
    BY <1>1, <1>3, <1>4, <1>7, <2>2 DEF AllCounted
  <2>4. QED
    BY <2>1, <2>3 DEF CyPool
<1>9. CycleNumbers'
  BY <1>1, <1>3, <1>4 DEF CycleNumbers
<1>10. PageIsFree'
  <2>1. OnPage' = OnPage
    BY <1>4 DEF OnPage
  <2>2. c_pc = "hand out"
    BY <1>1, <1>6 DEF PageIsFree
  <2>3. \A u \in OnPage : running'[u] = 0
    <3>1. \A u \in OnPage : running[u] = 0 /\ u \in Towers
      <4>1. OnPage \subseteq Towers
        BY <1>1 DEF CycleHand, OnPage, Elements
      <4>2. QED
        BY <1>1, <4>1 DEF PageIsFree
    <3>2. QED
      BY <1>5, <3>1
  <2>4. \A u \in Towers : running'[u] <= 1
    <3>1. \A u \in Towers : running[u] <= 1
      BY <1>1 DEF PageIsFree
    <3>2. QED
      BY <1>5, <3>1
  <2>5. QED
    BY <1>1, <1>4, <2>1, <2>2, <2>3, <2>4 DEF PageIsFree
<1>11. NoneMissed'
  BY <1>4, RanksStay DEF CyInv, NoneMissed, InCycle, Handed, OnPage
<1>12. CyTable' /\ CyclePc'
  <2>1. CyclePc
    BY DEF CyInv
  <2>2. QED
    BY <1>4, <2>1, TableStays DEF CyclePc
<1>13. QED
  BY <1>8, <1>9, <1>10, <1>11, <1>12 DEF CyInv, CyTable, CyPool

LEMMA BeginCycle ==
    ASSUME CyInv, C!Begin
    PROVE  CyInv'
<1>1. /\ c_pc = "idle" /\ c_pc' = "count"
      /\ c_offset' = 0 /\ counted' = 0 /\ started' = <<>> /\ atStart' = committed
      /\ UNCHANGED <<c_stamped, committed, total, page, running>>
  BY DEF C!Begin, C!table
<1>2. page = <<>> /\ Busy = {}
  BY <1>1 DEF CyInv, PageIsFree
<1>3. CyTable'
  BY <1>1 DEF CyInv, CyTable, CycleSets, StampsDiffer, StampedTowers
<1>4. CyPool'
  <2>1. Busy' = {}
    BY <1>1, <1>2 DEF Busy
  <2>2. AllCounted'
    BY <1>1, <2>1, FS_EmptySet DEF AllCounted
  <2>3. CycleHand'
    BY <1>1 DEF CyInv, CycleHand
  <2>4. QED
    BY <2>2, <2>3 DEF CyPool
<1>5. CycleNumbers'
  BY <1>1, <1>2 DEF CyInv, CycleNumbers
<1>6. CyclePc'
  BY <1>1 DEF CyclePc
<1>7. PageIsFree'
  <2>1. Busy' = Busy /\ OnPage' = OnPage
    BY <1>1 DEF Busy, OnPage
  <2>2. QED
    BY <1>1, <1>2, <2>1 DEF CyInv, PageIsFree
<1>8. NoneMissed'
  <2>1. \A t \in atStart' : Rank(committed, c_stamped, t)' \in Nat
    <3>1. \A t \in committed : Rank(committed, c_stamped, t) \in Nat
      BY CommittedAreStamped, RankType
    <3>2. \A t : Rank(committed, c_stamped, t)' = Rank(committed, c_stamped, t)
      BY <1>1 DEF Rank, Before
    <3>3. QED
      BY <1>1, <3>1, <3>2
  <2>2. \A t \in atStart' : ~(Rank(committed, c_stamped, t)' < c_offset')
    BY <1>1, <2>1
  <2>3. QED
    BY <1>1, <2>2 DEF NoneMissed
<1>9. QED
  BY <1>3, <1>4, <1>5, <1>6, <1>7, <1>8 DEF CyInv, CyTable, CyPool

LEMMA CountCycle ==
    ASSUME CyInv, C!Count
    PROVE  CyInv'
<1>1. /\ c_pc = "count" /\ c_pc' = "list" /\ total' = Cardinality(committed)
      /\ UNCHANGED <<c_stamped, committed, c_offset, page, running, counted, started, atStart>>
  BY CycleCounts DEF C!Count, C!table, C!pool
<1>2. CyTable' /\ CyPool'
  BY <1>1, TableStays, PoolStays
<1>3. CycleNumbers'
  <2>1. total' \in 0 .. Cardinality(Towers)
    BY <1>1, CommittedAreStamped, SomeTowers
  <2>2. QED
    BY <1>1, <2>1 DEF CyInv, CycleNumbers
<1>4. CyclePc'
  BY <1>1 DEF CyclePc
<1>5. PageIsFree'
  <2>1. Busy' = Busy /\ OnPage' = OnPage
    BY <1>1 DEF Busy, OnPage
  <2>2. QED
    BY <1>1, <2>1 DEF CyInv, PageIsFree
<1>6. NoneMissed'
  <2>1. \A t \in atStart : Rank(committed, c_stamped, t) < total'
    <3>1. \A t \in committed : Rank(committed, c_stamped, t) \in 0 .. Cardinality(committed) - 1
      BY CommittedAreStamped, RankBelow
    <3>2. Cardinality(committed) \in Nat
      BY CommittedAreStamped, FS_CardinalityType
    <3>3. atStart \subseteq committed
      BY DEF CyInv, CycleSets
    <3>4. QED
      BY <1>1, <3>1, <3>2, <3>3
  <2>2. Handed' = Handed /\ OnPage' = OnPage
    BY <1>1 DEF Handed, OnPage
  <2>3. InCycle
    BY <1>1 DEF InCycle
  <2>4. QED
    BY <1>1, <2>1, <2>2, <2>3, RanksStay DEF CyInv, NoneMissed
<1>7. QED
  BY <1>2, <1>3, <1>4, <1>5, <1>6 DEF CyInv, CyTable, CyPool

LEMMA ListCycle ==
    ASSUME CyInv, C!List
    PROVE  CyInv'
<1>1. /\ c_pc = "list" /\ c_pc' = "hand out"
      /\ UNCHANGED <<c_stamped, committed, total, running, counted, started, atStart>>
  BY DEF C!List, C!table, C!pool
<1>2. PICK n \in Nat :
        /\ page' \in Seq(committed) /\ Len(page') = n
        /\ c_offset' = c_offset + n
        /\ \A i \in 1 .. n : page'[i] \in committed
                            /\ Rank(committed, c_stamped, page'[i]) = c_offset + i - 1
  BY PageByRank
<1>3. page = <<>> /\ Busy = {}
  BY <1>1 DEF CyInv, PageIsFree
<1>4. committed \in SUBSET Towers
  BY CommittedAreStamped
<1>5. CyTable'
  BY <1>1, TableStays
<1>6. CyPool'
  <2>1. page' \in Seq(Towers)
    BY <1>2, <1>4
  <2>2. CycleHand'
    BY <1>1, <2>1 DEF CyInv, CycleHand
  <2>3. AllCounted'
    BY <1>1 DEF CyInv, AllCounted, Busy
  <2>4. QED
    BY <2>2, <2>3 DEF CyPool
<1>7. c_offset \in Nat /\ c_offset = Len(started)
  BY <1>3 DEF CyInv, CycleNumbers, CycleHand
<1>8. CycleNumbers'
  <2>1. c_offset' \in Nat /\ c_offset' = Len(started') + Len(page')
    <3>1. Len(started') = Len(started)
      BY <1>1
    <3>2. Len(page') = n /\ c_offset' = c_offset + n
      BY <1>2
    <3>3. QED
      BY <1>7, <3>1, <3>2
  <2>2. QED
    BY <1>1, <2>1 DEF CyInv, CycleNumbers
<1>9. CyclePc'
  BY <1>1 DEF CyclePc
<1>10. PageIsFree'
  <2>1. \A i, j \in 1 .. n : page'[i] = page'[j] => i = j
    <3>1. SUFFICES ASSUME NEW i \in 1 .. n, NEW j \in 1 .. n, page'[i] = page'[j]
                   PROVE  i = j
      OBVIOUS
    <3>2. c_offset + i - 1 = c_offset + j - 1
      BY <1>2, <3>1
    <3>3. QED
      BY <1>7, <3>2
  <2>2. \A t \in Towers : running'[t] = 0
    <3>1. \A t \in Towers : running[t] \in Nat /\ ~(running[t] > 0)
      BY <1>3 DEF CyInv, CycleHand, Busy
    <3>2. \A t \in Towers : running[t] = 0
      BY <3>1
    <3>3. QED
      BY <1>1, <3>2
  <2>3. OnPage' \subseteq Towers
    BY <1>2, <1>4 DEF OnPage, Elements
  <2>4. Distinct(page')
    BY <1>2, <2>1 DEF Distinct
  <2>5. \A t \in Towers : running'[t] <= 1
    BY <2>2
  <2>6. QED
    BY <1>1, <2>2, <2>3, <2>4, <2>5 DEF PageIsFree
<1>11. NoneMissed'
  <2>1. Handed' = Handed /\ OnPage = {}
    BY <1>1, <1>3, EmptyElements DEF Handed, OnPage
  <2>2. ASSUME NEW t \in atStart, ~Pushed(t)
        PROVE  /\ Rank(committed, c_stamped, t) < c_offset + n => t \in Handed \cup OnPage'
               /\ Rank(committed, c_stamped, t) < total
    <3>1. InCycle
      BY <1>1 DEF InCycle
    <3>2. /\ Rank(committed, c_stamped, t) < c_offset => t \in Handed
          /\ Rank(committed, c_stamped, t) < total
      BY <1>1, <2>1, <2>2, <3>1 DEF CyInv, NoneMissed
    <3>3. t \in committed
      BY DEF CyInv, CycleSets
    <3>4. PICK r \in Nat : r = Rank(committed, c_stamped, t)
      BY <3>3, CommittedAreStamped, RankType
    <3>5. ASSUME c_offset <= r, r < c_offset + n
          PROVE  t \in OnPage'
      <4>1. PICK i \in 1 .. n : c_offset + i - 1 = r
        <5>1. r - c_offset + 1 \in 1 .. n /\ c_offset + (r - c_offset + 1) - 1 = r
          BY <1>7, <3>5
        <5>2. QED
          BY <5>1
      <4>2. page'[i] \in committed /\ Rank(committed, c_stamped, page'[i]) = Rank(committed, c_stamped, t)
        BY <1>2, <3>4, <4>1
      <4>3. page'[i] = t
        BY <3>3, <4>2, CommittedAreStamped, RankInjective
      <4>4. QED
        BY <1>2, <4>3 DEF OnPage, Elements
    <3>6. QED
      BY <1>7, <3>2, <3>4, <3>5
  <2>3. QED
    BY <1>1, <1>2, <2>1, <2>2, RanksStay DEF NoneMissed
<1>12. QED
  BY <1>5, <1>6, <1>8, <1>9, <1>10, <1>11 DEF CyInv, CyTable, CyPool

LEMMA HandOutCycle ==
    ASSUME CyInv, C!HandOut
    PROVE  CyInv'
<1> DEFINE t == Head(page)
<1>1. /\ c_pc = "hand out" /\ page # <<>>
      /\ running' = [running EXCEPT ![t] = @ + 1]
      /\ started' = Append(started, t)
      /\ page' = Tail(page)
      /\ UNCHANGED <<c_stamped, committed, c_pc, c_offset, total, counted, atStart>>
  BY DEF C!HandOut, C!table
<1>2. page \in Seq(Towers) /\ started \in Seq(Towers) /\ running \in [Towers -> Nat]
  BY DEF CyInv, CycleHand
<1>3. /\ t \in Towers /\ page' \in Seq(Towers)
      /\ Len(page') = Len(page) - 1 /\ Len(page) \in Nat
      /\ OnPage = OnPage' \cup {t} /\ t \notin OnPage'
      /\ Distinct(page')
  <2>1. Distinct(page)
    BY DEF CyInv, PageIsFree
  <2>2. QED
    BY <1>1, <1>2, <2>1, HeadElements DEF OnPage
<1> HIDE DEF t
<1>4. /\ started' \in Seq(Towers) /\ Len(started') = Len(started) + 1 /\ Len(started) \in Nat
      /\ Handed' = Handed \cup {t}
  <2>1. /\ Append(started, t) \in Seq(Towers)
        /\ Len(Append(started, t)) = Len(started) + 1 /\ Len(started) \in Nat
        /\ Elements(Append(started, t)) = Elements(started) \cup {t}
    BY <1>2, <1>3, AppendedElements
  <2>2. QED
    BY <1>1, <2>1 DEF Handed
<1>8. running[t] = 0 /\ running'[t] = 1 /\ \A u \in Towers \ {t} : running'[u] = running[u]
  <2>1. running[t] = 0
    BY <1>3 DEF CyInv, PageIsFree
  <2>2. running' = [running EXCEPT ![t] = 1]
    <3>1. running[t] + 1 = 1
      BY <2>1
    <3>2. QED
      BY <1>1, <3>1
  <2>3. QED
    BY <1>2, <1>3, <2>1, <2>2
<1>9. Busy' = Busy \cup {t} /\ t \notin Busy
  BY <1>3, <1>8 DEF Busy
<1>10. Cardinality(Busy') = Cardinality(Busy) + 1 /\ Cardinality(Busy) \in Nat
  BY <1>9, BusyType, FS_AddElement
<1>11. CyTable'
  BY <1>1, TableStays
<1>12. CyPool'
  <2>1. running' \in [Towers -> Nat]
    <3>1. running[t] + 1 \in Nat
      BY <1>2, <1>3
    <3>2. QED
      BY <1>1, <1>2, <1>3, <3>1
  <2>2. CycleHand'
    BY <1>3, <1>4, <2>1 DEF CycleHand
  <2>3. counted \in Nat /\ counted' = counted /\ counted + Cardinality(Busy) = Len(started)
    BY <1>1 DEF CyInv, CycleNumbers, AllCounted
  <2>4. AllCounted'
    BY <1>4, <1>10, <2>3 DEF AllCounted
  <2>5. QED
    BY <2>2, <2>4 DEF CyPool
<1>13. CycleNumbers'
  <2>1. Len(started') + Len(page') = Len(started) + Len(page)
    BY <1>3, <1>4
  <2>2. QED
    BY <1>1, <2>1 DEF CyInv, CycleNumbers
<1>14. CyclePc'
  BY <1>1 DEF CyclePc
<1>15. PageIsFree'
  <2>1. \A u \in OnPage' : running'[u] = 0
    <3>1. OnPage' \subseteq Towers
      BY <1>3 DEF OnPage, Elements
    <3>2. \A u \in OnPage : running[u] = 0
      BY DEF CyInv, PageIsFree
    <3>3. QED
      BY <1>3, <1>8, <3>1, <3>2
  <2>2. \A u \in Towers : running'[u] <= 1
    <3>1. \A u \in Towers : running[u] <= 1
      BY DEF CyInv, PageIsFree
    <3>2. QED
      BY <1>8, <3>1
  <2>3. QED
    BY <1>1, <1>3, <2>1, <2>2 DEF PageIsFree
<1>16. NoneMissed'
  <2>1. Handed' \cup OnPage' = Handed \cup OnPage
    BY <1>3, <1>4
  <2>2. InCycle
    BY <1>1 DEF InCycle
  <2>3. QED
    BY <1>1, <2>1, <2>2, RanksStay DEF CyInv, NoneMissed
<1>17. QED
  BY <1>11, <1>12, <1>13, <1>14, <1>15, <1>16 DEF CyInv, CyTable, CyPool

LEMMA WaitCycle ==
    ASSUME CyInv, C!Wait
    PROVE  CyInv'
<1>1. /\ c_pc = "hand out" /\ page = <<>> /\ Cardinality(Busy) = 0
      /\ c_pc' = IF c_offset < total THEN "count" ELSE "done"
      /\ UNCHANGED <<c_stamped, committed, c_offset, total, page, running, counted, started, atStart>>
  BY CycleCounts DEF C!Wait, C!AfterPage, C!InFlight, C!table, C!pool, Busy
<1>2. Busy = {}
  BY <1>1, BusyType, FS_EmptySet
<1>3. CyTable' /\ CyPool' /\ CycleNumbers'
  BY <1>1, TableStays, PoolStays, NumbersStay
<1>4. CyclePc'
  BY <1>1 DEF CyclePc
<1>5. PageIsFree'
  <2>1. Busy' = Busy /\ OnPage' = OnPage
    BY <1>1 DEF Busy, OnPage
  <2>2. QED
    BY <1>1, <1>2, <2>1 DEF CyInv, PageIsFree
<1>6. NoneMissed'
  <2>1. Handed' = Handed /\ OnPage' = OnPage
    BY <1>1 DEF Handed, OnPage
  <2>2. InCycle
    BY <1>1 DEF InCycle
  <2>3. c_pc' = "done" => c_offset >= total
    <3>1. c_offset \in Nat /\ total \in 0 .. Cardinality(Towers)
      BY DEF CyInv, CycleNumbers
    <3>2. total \in Nat
      BY <3>1, CycleConstants
    <3>3. ~(c_offset < total) => c_offset >= total
      BY <3>1, <3>2
    <3>4. QED
      BY <1>1, <3>3
  <2>4. QED
    BY <1>1, <2>1, <2>2, <2>3, RanksStay DEF CyInv, NoneMissed
<1>7. QED
  BY <1>3, <1>4, <1>5, <1>6 DEF CyInv, CyTable, CyPool

(* A tick, a failed query and a stop leave everything but pc.                *)
LEMMA PauseCycle ==
    ASSUME CyInv, C!Tick \/ C!ListFails \/ C!Stop
    PROVE  CyInv'
<1>1. /\ c_pc # "hand out" /\ c_pc' \in {"idle", "failed", "stopped"}
      /\ UNCHANGED <<c_stamped, committed, c_offset, total, page, running, counted, started, atStart>>
  BY DEF C!Tick, C!ListFails, C!Stop, C!table, C!pool
<1>2. CyTable' /\ CyPool' /\ CycleNumbers'
  BY <1>1, TableStays, PoolStays, NumbersStay
<1>3. CyclePc'
  BY <1>1 DEF CyclePc
<1>4. PageIsFree'
  <2>1. Busy' = Busy /\ OnPage' = OnPage
    BY <1>1 DEF Busy, OnPage
  <2>2. QED
    BY <1>1, <2>1 DEF CyInv, PageIsFree
<1>5. NoneMissed'
  BY <1>1 DEF NoneMissed, InCycle
<1>6. QED
  BY <1>2, <1>3, <1>4, <1>5 DEF CyInv, CyTable, CyPool

LEMMA CycleStays ==
    ASSUME CyInv, UNCHANGED collection
    PROVE  CyInv'
<1>1. UNCHANGED <<c_stamped, committed, c_pc, c_offset, total, page, running, counted, started, atStart>>
  BY DEF collection
<1>2. CyTable' /\ CyPool' /\ CycleNumbers' /\ CyclePc' /\ PageIsFree'
  BY <1>1, TableStays, PoolStays, NumbersStay, PageStays
<1>3. NoneMissed'
  <2>1. Handed' = Handed /\ OnPage' = OnPage /\ (InCycle' <=> InCycle)
    BY <1>1 DEF Handed, OnPage, InCycle
  <2>2. QED
    BY <1>1, <2>1, RanksStay DEF CyInv, NoneMissed
<1>4. QED
  BY <1>2, <1>3 DEF CyInv, CyTable, CyPool

LEMMA CycleInit ==
    ASSUME C!Init
    PROVE  CyInv
<1>1. /\ c_stamped = [t \in Towers |-> 0] /\ committed = {} /\ c_pc = "idle"
      /\ c_offset = 0 /\ total = 0 /\ page = <<>>
      /\ running = [t \in Towers |-> 0] /\ counted = 0 /\ started = <<>> /\ atStart = {}
  BY DEF C!Init
<1>2. StampedTowers = {} /\ Busy = {} /\ Elements(<<>>) = {} /\ Len(<<>>) = 0 /\ Distinct(<<>>)
  BY <1>1, EmptyElements DEF StampedTowers, Busy
<1>3. Cardinality({}) = 0 /\ 0 \in 0 .. Cardinality(Towers)
  BY CycleConstants, FS_EmptySet
<1>4. CycleSets /\ CyclePc /\ NoneMissed
  BY <1>1, <1>2 DEF CycleSets, CyclePc, NoneMissed, InCycle
<1>5. CycleHand
  BY <1>1 DEF CycleHand
<1>6. CycleNumbers /\ AllCounted
  BY <1>1, <1>2, <1>3 DEF CycleNumbers, AllCounted
<1>7. StampsDiffer
  <2>1. c_stamped \in [Towers -> 0 .. Cardinality(Towers)]
    BY <1>1, <1>3
  <2>2. QED
    BY <1>2, <2>1 DEF StampsDiffer
<1>8. PageIsFree
  <2>1. \A t \in Towers : running[t] <= 1
    BY <1>1
  <2>2. QED
    BY <1>1, <1>2, <2>1 DEF PageIsFree, OnPage
<1>9. QED
  BY <1>4, <1>5, <1>6, <1>7, <1>8 DEF CyInv

LEMMA CycleStep ==
    ASSUME CyInv, [FeedsNext]_all
    PROVE  CyInv'
<1>1. C!Next \/ UNCHANGED collection
  BY DEF FeedsNext, Feeds, Collects, OfTraps, all
<1>2. CASE C!Next
  BY <1>2, StampCycle, CommitCycle, CollectCycle, BeginCycle, CountCycle, ListCycle, HandOutCycle,
     WaitCycle, PauseCycle DEF C!Next, C!Cycle
<1>3. CASE UNCHANGED collection
  BY <1>3, CycleStays
<1>4. QED
  BY <1>1, <1>2, <1>3

LEMMA CycleIsSafe ==
    ASSUME CyInv
    PROVE  CycleInv
<1>1. CycleSets /\ CycleHand /\ CycleNumbers /\ CyclePc /\ StampsDiffer /\ PageIsFree
  BY DEF CyInv
<1>2. C!TypeOK
  <2>1. C!Stamped = StampedTowers
    BY DEF C!Stamped, StampedTowers
  <2>2. C!Cardinality(Towers) = Cardinality(Towers)
    BY CycleCounts
  <2>3. /\ c_stamped \in [Towers -> 0 .. C!Cardinality(Towers)] /\ committed \subseteq C!Stamped
        /\ atStart \subseteq committed
    BY <1>1, <2>1, <2>2 DEF CycleSets, StampsDiffer
  <2>4. total \in 0 .. C!Cardinality(Towers) /\ c_offset \in Nat /\ counted \in Nat
    BY <1>1, <2>2 DEF CycleNumbers
  <2>5. c_offset = Len(started) + Len(page)
    BY <1>1 DEF CycleNumbers
  <2>6. QED
    BY <1>1, <2>3, <2>4, <2>5 DEF C!TypeOK, CycleHand, CyclePc
<1>3. C!OneGoroutinePerTower
  BY <1>1 DEF C!OneGoroutinePerTower, PageIsFree
<1>4. C!EveryTowerIsCounted
  <2> SUFFICES ASSUME c_pc = "done" PROVE counted = Len(started)
    BY DEF C!EveryTowerIsCounted
  <2>1. Busy = {}
    BY <1>1 DEF PageIsFree
  <2>2. counted + Cardinality({}) = Len(started)
    BY <2>1 DEF CyInv, AllCounted
  <2>3. counted \in Nat /\ Cardinality({}) = 0
    BY <1>1, FS_EmptySet DEF CycleNumbers
  <2>4. QED
    BY <2>2, <2>3
<1>5. C!MissesOnlyForLateCommits
  <2> SUFFICES ASSUME c_pc = "done", NEW t \in atStart \ C!ToSet(started)
               PROVE  \E u \in committed \ atStart : C!Precedes(u, t)
    BY DEF C!MissesOnlyForLateCommits
  <2>1. page = <<>> /\ OnPage = {}
    BY <1>1, EmptyElements DEF PageIsFree, OnPage
  <2>2. Handed = C!ToSet(started)
    <3>1. DOMAIN started = 1 .. Len(started)
      BY <1>1 DEF CycleHand
    <3>2. QED
      BY <3>1 DEF Handed, Elements, C!ToSet
  <2>3. Pushed(t)
    <3> SUFFICES ASSUME ~Pushed(t) PROVE FALSE
      OBVIOUS
    <3>1. /\ Rank(committed, c_stamped, t) < c_offset => t \in Handed \cup OnPage
          /\ Rank(committed, c_stamped, t) < total
          /\ c_offset >= total
      BY DEF CyInv, NoneMissed, InCycle
    <3>2. Rank(committed, c_stamped, t) \in Nat
      <4>1. t \in committed
        BY <1>1 DEF CycleSets
      <4>2. QED
        BY <4>1, CommittedAreStamped, RankType
    <3>3. c_offset \in Nat /\ total \in Nat
      BY <1>1, CycleConstants DEF CycleNumbers
    <3>4. Rank(committed, c_stamped, t) < c_offset
      BY <3>1, <3>2, <3>3
    <3>5. QED
      BY <2>1, <2>2, <3>1, <3>4
  <2>4. QED
    BY <2>3 DEF Pushed, C!Precedes
<1>6. QED
  BY <1>2, <1>3, <1>4, <1>5 DEF CycleInv, C!CycleInv

(* SNMPScheduler.CollectOnce: no tower is collected twice at once, every     *)
(* result is counted, and a tower of the start is missed only for a late     *)
(* commit, for any number of towers, any page size and any concurrency.      *)
THEOREM CyclesMissNothing == FeedsSpec => []CycleInv
<1>1. FeedsInit => CyInv
  BY CycleInit DEF FeedsInit
<1>2. CyInv /\ [FeedsNext]_all => CyInv'
  BY CycleStep
<1>3. CyInv => CycleInv
  BY CycleIsSafe
<1>4. QED
  BY <1>1, <1>2, <1>3, PTL DEF FeedsSpec
=============================================================================
