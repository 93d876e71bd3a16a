---------------------------- MODULE FollowProofs ----------------------------
(***************************************************************************)
(* Proofs about the processes (ServiceLife) and the link poller            *)
(* (LinkStatus), as parts of the sum, for any number of processes,         *)
(* scripts, requests, pollers and links.                                   *)
(***************************************************************************)
EXTENDS MCFollow, FiniteSetTheorems, TLAPS

(***************************************************************************)
(* The processes.  What is recorded is a prefix of the scripts, and a      *)
(* process of cmd/api is past exactly the scripts it saw recorded or       *)
(* recorded itself: the next one it applies is the next of the prefix, and *)
(* it comes to listen when there is none.                                  *)
(***************************************************************************)
ScriptsAreAhead ==
    /\ \A p \in L!Processes : stage[p] = "applying" => p \in Apis /\ script[p] \in L!Scripts
    /\ \A p \in Collectors : stage[p] = "migrating" => script[p] = LastScript + 1
    /\ \A p \in Apis : stage[p] \in {"migrating", "applying"} => 1 .. script[p] - 1 \subseteq recorded
    /\ \A p \in Apis : stage[p] \in {"starting", "waiting"} => recorded = L!Scripts

LfInv == L!LifeInv /\ ScriptsAreAhead

LEMMA LifeStarts == FollowInit => LfInv
<1> SUFFICES ASSUME L!Init PROVE LfInv
  BY DEF FollowInit
<1>1. LastScript \in Nat /\ MaxStarts \in Nat
  BY LifeParameters DEF L!Parameters
<1>2. L!TypeOK
  <2>1. script \in [L!Processes -> 1 .. LastScript + 1]
    BY <1>1 DEF L!Init
  <2>2. starts \in 0 .. MaxStarts
    BY <1>1 DEF L!Init
  <2>3. recorded \subseteq L!Scripts /\ effects \in [L!Scripts -> 0 .. 2]
    BY DEF L!Init
  <2>4. QED
    BY <2>1, <2>2, <2>3 DEF L!Init, L!TypeOK
<1>3. L!ScriptsTakeEffectOnce
  <2>1. recorded = 1 .. 0 /\ 0 \in 0 .. LastScript
    BY <1>1 DEF L!Init
  <2>2. QED
    BY <2>1 DEF L!Init, L!ScriptsTakeEffectOnce
<1>4. L!ServesTheWholeSchema /\ L!CleanExitCutsNoRequest /\ L!OnlyOverflowPanics
  BY DEF L!Init, L!ServesTheWholeSchema, L!Listens, L!CleanExitCutsNoRequest, L!OnlyOverflowPanics, L!Processes
<1>5. ScriptsAreAhead
  BY DEF L!Init, ScriptsAreAhead, L!Processes
<1>6. QED
  BY <1>2, <1>3, <1>4, <1>5 DEF LfInv, L!LifeInv

LEMMA LifeStutters == LfInv /\ UNCHANGED lifeVars => LfInv'
<1> SUFFICES ASSUME LfInv, UNCHANGED lifeVars PROVE LfInv'
  OBVIOUS
<1>1. UNCHANGED recorded /\ UNCHANGED effects /\ UNCHANGED stage /\ UNCHANGED script
  BY DEF lifeVars
<1>2. UNCHANGED signalled /\ UNCHANGED work /\ UNCHANGED request /\ UNCHANGED starts
      /\ UNCHANGED culprit
  BY DEF lifeVars
<1>3. L!LifeInv'
  BY <1>1, <1>2 DEF LfInv, L!LifeInv, L!TypeOK, L!ScriptsTakeEffectOnce,
     L!ServesTheWholeSchema, L!Listens, L!CleanExitCutsNoRequest, L!OnlyOverflowPanics
<1>4. ScriptsAreAhead'
  BY <1>1 DEF LfInv, ScriptsAreAhead
<1>5. QED
  BY <1>3, <1>4 DEF LfInv

(* What the steps of a process leave alone: the schema, or the requests.    *)
Schema == <<recorded, effects>>

(* A process exits.                                                         *)
LEMMA ExitKeeps ==
    ASSUME LfInv, NEW p \in L!Processes, NEW how \in {"clean", "fatal", "killed", "panic"},
           L!Exit(p, how), UNCHANGED Schema,
           how = "clean" => \A q \in Requests : request[q] # p,
           culprit' \in [L!Processes -> EnvValues \cup {None}],
           \A r \in L!Processes \ {p} : culprit'[r] = culprit[r],
           how = "panic" => L!Overflows(culprit'[p])
    PROVE  LfInv'
<1>1. /\ UNCHANGED recorded /\ UNCHANGED effects /\ UNCHANGED script /\ UNCHANGED starts
      /\ stage' = [stage EXCEPT ![p] = IF how = "panic" THEN how ELSE "off"]
      /\ signalled' = signalled \ {p}
      /\ work' = [work EXCEPT ![p] = [w \in LifeWorkers |-> "off"]]
      /\ request' = [q \in Requests |-> IF request[q] = p THEN how ELSE request[q]]
  BY DEF L!Exit, Schema
<1>2. L!TypeOK
  BY DEF LfInv, L!LifeInv
<1>3. L!TypeOK'
  <2>1. stage' \in [L!Processes ->
            {"off", "migrating", "applying", "starting", "waiting", "closing", "panic"}]
    BY <1>1, <1>2 DEF L!TypeOK
  <2>2. work' \in [L!Processes -> [LifeWorkers -> {"off", "on", "ended"}]]
    BY <1>1, <1>2 DEF L!TypeOK
  <2>3. request' \in [Requests -> Apis \cup {"none", "answered", "clean", "fatal", "killed", "panic"}]
    BY <1>1, <1>2 DEF L!TypeOK
  <2>4. signalled' \subseteq L!Processes
    BY <1>1, <1>2 DEF L!TypeOK
  <2>5. QED
    BY <1>1, <1>2, <2>1, <2>2, <2>3, <2>4 DEF L!TypeOK
<1>4. \A r \in L!Processes : stage'[r] = IF r = p THEN (IF how = "panic" THEN how ELSE "off") ELSE stage[r]
  BY <1>1, <1>2 DEF L!TypeOK
<1>5. L!ScriptsTakeEffectOnce'
  BY <1>1 DEF LfInv, L!LifeInv, L!ScriptsTakeEffectOnce
<1>6. L!ServesTheWholeSchema' /\ L!OnlyOverflowPanics' /\ ScriptsAreAhead'
  BY <1>1, <1>4 DEF LfInv, L!LifeInv, L!ServesTheWholeSchema, L!Listens, L!OnlyOverflowPanics,
     ScriptsAreAhead, L!Processes
<1>7. L!CleanExitCutsNoRequest'
  BY <1>1 DEF LfInv, L!LifeInv, L!CleanExitCutsNoRequest
<1>8. QED
  BY <1>3, <1>5, <1>6, <1>7 DEF LfInv, L!LifeInv

(* A process goes on to another stage, with the schema as it is.            *)
LEMMA MovesOn ==
    ASSUME LfInv, NEW p \in L!Processes, NEW to \in {"migrating", "applying", "starting", "waiting", "closing"},
           NEW n \in 1 .. LastScript + 1,
           UNCHANGED Schema, UNCHANGED request,
           stage' = [stage EXCEPT ![p] = to],
           script' = [script EXCEPT ![p] = n],
           signalled' \subseteq L!Processes,
           work' \in [L!Processes -> [LifeWorkers -> {"off", "on", "ended"}]],
           starts' \in 0 .. MaxStarts,
           culprit' \in [L!Processes -> EnvValues \cup {None}],
           \A r \in L!Processes \ {p} : culprit'[r] = culprit[r],
           to = "applying" => p \in Apis /\ n \in L!Scripts,
           to = "migrating" /\ p \in Collectors => n = LastScript + 1,
           to \in {"migrating", "applying"} /\ p \in Apis => 1 .. n - 1 \subseteq recorded,
           to \in {"starting", "waiting"} /\ p \in Apis => recorded = L!Scripts
    PROVE  LfInv'
<1>1. UNCHANGED recorded /\ UNCHANGED effects
  BY DEF Schema
<1>2. L!TypeOK
  BY DEF LfInv, L!LifeInv
<1>3. L!TypeOK'
  <2>1. stage' \in [L!Processes ->
            {"off", "migrating", "applying", "starting", "waiting", "closing", "panic"}]
    BY <1>2 DEF L!TypeOK
  <2>2. script' \in [L!Processes -> 1 .. LastScript + 1]
    BY <1>2 DEF L!TypeOK
  <2>3. QED
    BY <1>1, <1>2, <2>1, <2>2 DEF L!TypeOK
<1>4. /\ \A r \in L!Processes : stage'[r] = IF r = p THEN to ELSE stage[r]
      /\ \A r \in L!Processes : script'[r] = IF r = p THEN n ELSE script[r]
  BY <1>2 DEF L!TypeOK
<1>5. L!ScriptsTakeEffectOnce' /\ L!CleanExitCutsNoRequest'
  BY <1>1 DEF LfInv, L!LifeInv, L!ScriptsTakeEffectOnce, L!CleanExitCutsNoRequest
<1>6. L!ServesTheWholeSchema' /\ L!OnlyOverflowPanics'
  BY <1>1, <1>4 DEF LfInv, L!LifeInv, L!ServesTheWholeSchema, L!Listens, L!OnlyOverflowPanics, L!Processes
<1>7. ScriptsAreAhead'
  BY <1>1, <1>4 DEF LfInv, ScriptsAreAhead, L!Processes
<1>8. QED
  BY <1>3, <1>5, <1>6, <1>7 DEF LfInv, L!LifeInv

(* The stages stay: a request, a signal or a worker.                        *)
LEMMA StagesStay ==
    ASSUME LfInv, UNCHANGED Schema, UNCHANGED stage, UNCHANGED script, UNCHANGED culprit, L!TypeOK', L!CleanExitCutsNoRequest'
    PROVE  LfInv'
<1>1. UNCHANGED recorded /\ UNCHANGED effects
  BY DEF Schema
<1>2. QED
  BY <1>1 DEF LfInv, L!LifeInv, ScriptsAreAhead, L!ScriptsTakeEffectOnce, L!ServesTheWholeSchema, L!Listens,
     L!OnlyOverflowPanics

-----------------------------------------------------------------------------
(* The steps of a process.                                                  *)
LEMMA StartKeeps ==
    ASSUME LfInv, NEW p \in L!Processes, L!StartApi(p) \/ L!StartCollector(p)
    PROVE  LfInv'
<1>1. LastScript \in Nat /\ MaxStarts \in Nat /\ Apis \cap Collectors = {}
  BY LifeParameters DEF L!Parameters
<1>2. L!TypeOK
  BY DEF LfInv, L!LifeInv
<1>3. PICK n \in {1, LastScript + 1} :
        \/ L!Start(p, n) /\ p \in Apis /\ n = 1
        \/ L!Start(p, n) /\ p \in Collectors /\ n = LastScript + 1
  BY DEF L!StartApi, L!StartCollector
<1>4. n \in 1 .. LastScript + 1
  BY <1>1, <1>3
<1>5. starts' \in 0 .. MaxStarts
  <2>1. starts \in 0 .. MaxStarts /\ starts < MaxStarts /\ starts' = starts + 1
    BY <1>2, <1>3 DEF L!Start, L!TypeOK
  <2>2. QED
    BY <1>1, <2>1
<1>6. UNCHANGED Schema /\ UNCHANGED request /\ UNCHANGED signalled /\ UNCHANGED work
  BY <1>3 DEF L!Start, L!schema, Schema
<1>7. stage' = [stage EXCEPT ![p] = "migrating"] /\ script' = [script EXCEPT ![p] = n]
  BY <1>3 DEF L!Start
<1>8. p \in Apis => 1 .. n - 1 \subseteq recorded
  BY <1>1, <1>3
<1>9. culprit' = [culprit EXCEPT ![p] = None]
  BY <1>3 DEF L!Start
<1>10. /\ culprit' \in [L!Processes -> EnvValues \cup {None}]
       /\ \A r \in L!Processes \ {p} : culprit'[r] = culprit[r]
  BY <1>2, <1>9 DEF L!TypeOK
<1>11. QED
  BY <1>1, <1>2, <1>3, <1>4, <1>5, <1>6, <1>7, <1>8, <1>10, MovesOn DEF L!TypeOK

LEMMA LooksKeep ==
    ASSUME LfInv, NEW p \in L!Processes, NEW s \in L!Scripts, L!IsApplied(p, s) \/ L!IsNotApplied(p, s)
    PROVE  LfInv'
<1>1. LastScript \in Nat
  BY LifeParameters DEF L!Parameters
<1>2. L!TypeOK
  BY DEF LfInv, L!LifeInv
<1>3. /\ UNCHANGED Schema /\ UNCHANGED signalled /\ UNCHANGED work /\ UNCHANGED request /\ UNCHANGED starts
      /\ UNCHANGED culprit
      /\ stage[p] = "migrating" /\ script[p] = s
  BY DEF L!IsApplied, L!IsNotApplied, L!At, L!schema, Schema
<1>4. s \in 1 .. LastScript /\ s + 1 \in 1 .. LastScript + 1 /\ s # LastScript + 1 /\ s \in 1 .. LastScript + 1
  BY <1>1 DEF L!Scripts
<1>5. p \in Apis /\ p \notin Collectors
  BY <1>3, <1>4, LifeParameters DEF LfInv, ScriptsAreAhead, L!Processes, L!Parameters
<1>6. 1 .. s - 1 \subseteq recorded
  BY <1>3, <1>5 DEF LfInv, ScriptsAreAhead
<1>7. CASE L!IsApplied(p, s)
  <2>1. stage' = [stage EXCEPT ![p] = "migrating"]
    BY <1>2, <1>3, <1>7 DEF L!IsApplied, L!TypeOK
  <2>2. script' = [script EXCEPT ![p] = s + 1]
    BY <1>2, <1>3, <1>7 DEF L!IsApplied, L!TypeOK
  <2>3. 1 .. (s + 1) - 1 \subseteq recorded
    <3>1. s \in recorded
      BY <1>7 DEF L!IsApplied
    <3>2. \A i \in 1 .. (s + 1) - 1 : i \in 1 .. s - 1 \/ i = s
      BY <1>4
    <3>3. QED
      BY <1>6, <3>1, <3>2
  <2>4. QED
    BY <1>2, <1>3, <1>4, <1>5, <2>1, <2>2, <2>3, MovesOn DEF L!TypeOK
<1>8. CASE L!IsNotApplied(p, s)
  <2>1. stage' = [stage EXCEPT ![p] = "applying"]
    BY <1>8 DEF L!IsNotApplied
  <2>2. script' = [script EXCEPT ![p] = s]
    BY <1>2, <1>3, <1>8 DEF L!IsNotApplied, L!TypeOK
  <2>3. QED
    BY <1>2, <1>3, <1>4, <1>5, <1>6, <2>1, <2>2, MovesOn DEF L!TypeOK
<1>9. QED
  BY <1>7, <1>8

(* The script that is applied is the next of the prefix.                    *)
LEMMA ApplyKeeps ==
    ASSUME LfInv, NEW p \in L!Processes, L!Apply(p)
    PROVE  LfInv'
<1>1. LastScript \in Nat
  BY LifeParameters DEF L!Parameters
<1>2. L!TypeOK
  BY DEF LfInv, L!LifeInv
<1>3. PICK s \in 1 .. LastScript : s = script[p] /\ p \in Apis
  BY DEF L!Apply, LfInv, ScriptsAreAhead, L!Scripts
<1>4. /\ stage[p] = "applying" /\ s \notin recorded
      /\ L!TookEffect(s) /\ recorded' = recorded \cup {s}
      /\ stage' = [stage EXCEPT ![p] = "migrating"]
      /\ script' = [script EXCEPT ![p] = s + 1]
      /\ UNCHANGED <<signalled, work, request, starts, culprit>>
  BY <1>2, <1>3 DEF L!Apply, L!TypeOK
<1>5. PICK n \in 0 .. LastScript : recorded = 1 .. n
  BY DEF LfInv, L!LifeInv, L!ScriptsTakeEffectOnce
<1>6. 1 .. s - 1 \subseteq recorded
  BY <1>3, <1>4 DEF LfInv, ScriptsAreAhead
<1>7. n = s - 1
  <2>1. n < s
    BY <1>4, <1>5
  <2>2. ASSUME n < s - 1 PROVE FALSE
    <3>1. s - 1 \in 1 .. s - 1 /\ s - 1 \notin 1 .. n
      BY <2>2
    <3>2. QED
      BY <1>5, <1>6, <3>1
  <2>3. QED
    BY <2>1, <2>2
<1>8. recorded' = 1 .. s
  BY <1>4, <1>5, <1>7
<1>9. \A r \in L!Scripts : effects'[r] = IF r = s THEN 1 ELSE effects[r]
  <2>1. effects[s] = 0
    BY <1>3, <1>4 DEF LfInv, L!LifeInv, L!ScriptsTakeEffectOnce, L!Scripts
  <2>2. QED
    BY <1>2, <1>3, <1>4, <2>1 DEF L!TookEffect, L!TypeOK
<1>10. L!TypeOK'
  <2>1. recorded' \subseteq L!Scripts
    BY <1>2, <1>3, <1>4 DEF L!TypeOK, L!Scripts
  <2>2. effects' \in [L!Scripts -> 0 .. 2]
    <3>1. effects' = [effects EXCEPT ![s] = effects'[s]] /\ effects'[s] \in 0 .. 2
      BY <1>2, <1>4, <1>9 DEF L!TookEffect, L!TypeOK, L!Scripts
    <3>2. QED
      BY <1>2, <3>1 DEF L!TypeOK
  <2>3. stage' \in [L!Processes ->
            {"off", "migrating", "applying", "starting", "waiting", "closing", "panic"}]
    BY <1>2, <1>4 DEF L!TypeOK
  <2>4. script' \in [L!Processes -> 1 .. LastScript + 1]
    <3>1. s + 1 \in 1 .. LastScript + 1
      BY <1>1
    <3>2. QED
      BY <1>2, <1>4, <3>1 DEF L!TypeOK
  <2>5. QED
    BY <1>2, <1>4, <2>1, <2>2, <2>3, <2>4 DEF L!TypeOK
<1>11. L!ScriptsTakeEffectOnce'
  <2>1. s \in 0 .. LastScript
    BY <1>1
  <2>2. \A r \in L!Scripts : effects'[r] = IF r \in recorded' THEN 1 ELSE 0
    BY <1>4, <1>9 DEF LfInv, L!LifeInv, L!ScriptsTakeEffectOnce
  <2>3. QED
    BY <1>8, <2>1, <2>2 DEF L!ScriptsTakeEffectOnce
<1>12. /\ \A r \in L!Processes : stage'[r] = IF r = p THEN "migrating" ELSE stage[r]
       /\ \A r \in L!Processes : script'[r] = IF r = p THEN s + 1 ELSE script[r]
  BY <1>2, <1>4 DEF L!TypeOK
<1>13. recorded \subseteq recorded' /\ (recorded = L!Scripts => recorded' = L!Scripts)
  BY <1>3, <1>4 DEF L!Scripts
<1>14. L!ServesTheWholeSchema' /\ L!OnlyOverflowPanics' /\ L!CleanExitCutsNoRequest'
  BY <1>4, <1>12, <1>13 DEF LfInv, L!LifeInv, L!ServesTheWholeSchema, L!Listens, L!OnlyOverflowPanics,
     L!CleanExitCutsNoRequest, L!Processes
<1>15. ScriptsAreAhead'
  <2>1. 1 .. (s + 1) - 1 \subseteq recorded'
    BY <1>8
  <2>2. p \notin Collectors
    BY <1>3, LifeParameters DEF L!Parameters
  <2>3. \A r \in Apis : stage[r] \in {"migrating", "applying"} => 1 .. script[r] - 1 \subseteq recorded'
    BY <1>13 DEF LfInv, ScriptsAreAhead
  <2>4. QED
    BY <1>12, <1>13, <2>1, <2>2, <2>3 DEF LfInv, ScriptsAreAhead, L!Processes
<1>16. QED
  BY <1>10, <1>11, <1>14, <1>15 DEF LfInv, L!LifeInv

LEMMA ListenKeeps ==
    ASSUME LfInv, NEW p \in L!Processes, L!ListenAndServe(p)
    PROVE  LfInv'
<1>1. LastScript \in Nat
  BY LifeParameters DEF L!Parameters
<1>2. L!TypeOK
  BY DEF LfInv, L!LifeInv
<1>3. PICK n \in 1 .. LastScript + 1 : n = script[p]
  BY <1>2 DEF L!TypeOK
<1>4. /\ stage[p] = "migrating" /\ n > LastScript
      /\ stage' = [stage EXCEPT ![p] = "starting"] /\ script' = [script EXCEPT ![p] = n]
      /\ UNCHANGED Schema /\ UNCHANGED signalled /\ UNCHANGED work /\ UNCHANGED request /\ UNCHANGED starts
      /\ UNCHANGED culprit
  BY <1>2, <1>3 DEF L!ListenAndServe, L!IsMigrated, L!schema, Schema, L!TypeOK
<1>5. p \in Apis => recorded = L!Scripts
  <2>1. n = LastScript + 1 /\ 1 .. n - 1 = L!Scripts
    BY <1>1, <1>3, <1>4 DEF L!Scripts
  <2>2. QED
    BY <1>2, <1>3, <1>4, <2>1 DEF LfInv, ScriptsAreAhead, L!TypeOK
<1>6. QED
  BY <1>2, <1>4, <1>5, MovesOn DEF L!TypeOK

(* An interval that is not positive has overflowed.                         *)
LEMMA TickersPanic ==
    ASSUME NEW w, NEW v \in EnvValues, L!TickerPanics(w, v)
    PROVE  L!Overflows(v)
<1> DEFINE n == L!getEnvInt(v)
<1>1. /\ Second \in Nat \ {0} /\ Half \in Nat /\ 60 * Second < Half
      /\ v = None \/ v \in Int
  BY LifeParameters DEF L!Parameters, L!Default
<1>2. n \in Nat \ {0} /\ (n = v \/ n = 60)
  BY <1>1 DEF L!getEnvInt, L!Default
<1>3. n * Second \in Nat \ {0}
  <2>1. \A i, j \in Nat \ {0} : i * j \in Nat \ {0}
    OBVIOUS
  <2>2. QED
    BY <1>1, <1>2, <2>1
<1>4. L!Int64(n * Second) <= 0
  BY DEF L!TickerPanics, L!Interval
<1>5. ~(n * Second < Half)
  <2> DEFINE x == n * Second
  <2>1. x \in Nat \ {0} /\ L!Int64(x) <= 0
    BY <1>3, <1>4
  <2> HIDE DEF x
  <2>2. ~(x < Half)
    BY <1>1, <2>1 DEF L!Int64
  <2>3. QED
    BY <2>2 DEF x
<1>6. n # 60
  BY <1>1, <1>5
<1>7. v # None
  BY <1>6 DEF L!getEnvInt, L!Default
<1>8. n = v
  BY <1>2, <1>6
<1>9. v * Second \in Nat /\ ~(v * Second < Half)
  BY <1>3, <1>5, <1>8
<1>10. v * Second >= Half
  <2> DEFINE x == v * Second
  <2> HIDE DEF x
  <2>1. x \in Nat /\ ~(x < Half)
    BY <1>9 DEF x
  <2>2. x >= Half
    BY <1>1, <2>1
  <2>3. QED
    BY <2>2 DEF x
<1>11. QED
  BY <1>7, <1>10 DEF L!Overflows

LEMMA WorkersKeep ==
    ASSUME LfInv, NEW p \in L!Processes, L!StartWorkers(p)
    PROVE  LfInv'
<1>1. L!TypeOK
  BY DEF LfInv, L!LifeInv
<1>2. PICK on \in SUBSET LifeWorkers, v \in EnvValues :
        IF \E w \in on : L!TickerPanics(w, v)
        THEN /\ L!Exit(p, "panic")
             /\ culprit' = [culprit EXCEPT ![p] = v]
        ELSE /\ stage' = [stage EXCEPT ![p] = "waiting"]
             /\ work' = [work EXCEPT ![p] = [w \in LifeWorkers |-> IF w \in on THEN "on" ELSE "off"]]
             /\ UNCHANGED <<script, signalled, request, starts, culprit>>
  BY DEF L!StartWorkers
<1>3. stage[p] = "starting" /\ UNCHANGED Schema
  BY DEF L!StartWorkers, L!schema, Schema
<1>4. ASSUME NEW w \in on, L!TickerPanics(w, v)
      PROVE  LfInv'
  <2>1. L!Overflows(v)
    BY <1>4, TickersPanic
  <2>2. L!Exit(p, "panic") /\ culprit' = [culprit EXCEPT ![p] = v]
    BY <1>2, <1>4
  <2>3. culprit' \in [L!Processes -> EnvValues \cup {None}] /\ culprit'[p] = v
    BY <1>1, <2>2 DEF L!TypeOK
  <2>4. \A r \in L!Processes \ {p} : culprit'[r] = culprit[r]
    BY <1>1, <2>2 DEF L!TypeOK
  <2>5. QED
    BY <1>3, <2>1, <2>2, <2>3, <2>4, ExitKeeps
<1>5. ASSUME ~\E w \in on : L!TickerPanics(w, v)
      PROVE  LfInv'
  <2>1. /\ stage' = [stage EXCEPT ![p] = "waiting"]
        /\ work' = [work EXCEPT ![p] = [w \in LifeWorkers |-> IF w \in on THEN "on" ELSE "off"]]
        /\ UNCHANGED <<script, signalled, request, starts, culprit>>
    BY <1>2, <1>5
  <2>2. work' \in [L!Processes -> [LifeWorkers -> {"off", "on", "ended"}]]
    <3>1. [w \in LifeWorkers |-> IF w \in on THEN "on" ELSE "off"] \in [LifeWorkers -> {"off", "on", "ended"}]
      OBVIOUS
    <3>2. QED
      BY <1>1, <2>1, <3>1 DEF L!TypeOK
  <2>3. PICK n \in 1 .. LastScript + 1 : n = script[p]
    BY <1>1 DEF L!TypeOK
  <2>4. script' = [script EXCEPT ![p] = n]
    BY <1>1, <2>1, <2>3 DEF L!TypeOK
  <2>5. p \in Apis => recorded = L!Scripts
    BY <1>3 DEF LfInv, ScriptsAreAhead
  <2>6. /\ signalled' \subseteq L!Processes /\ starts' \in 0 .. MaxStarts
        /\ culprit' \in [L!Processes -> EnvValues \cup {None}]
        /\ \A r \in L!Processes \ {p} : culprit'[r] = culprit[r]
        /\ UNCHANGED request
    BY <1>1, <2>1 DEF L!TypeOK
  <2>7. QED
    BY <1>3, <2>1, <2>2, <2>4, <2>5, <2>6, MovesOn
<1>6. QED
  BY <1>4, <1>5

LEMMA EndsKeep ==
    ASSUME LfInv, NEW p \in L!Processes,
           \/ L!Crash(p) \/ L!ListenFails(p) \/ L!MigrateGivesUp(p) \/ L!BootstrapFails(p)
           \/ L!Shutdown(p) \/ L!ShutdownTimesOut(p)
    PROVE  LfInv'
<1>1. UNCHANGED Schema
  BY DEF L!Crash, L!ListenFails, L!MigrateGivesUp, L!BootstrapFails, L!Shutdown, L!ShutdownTimesOut,
     L!Fatal, L!schema, Schema
<1>2. \/ L!Exit(p, "killed") \/ L!Exit(p, "fatal")
      \/ L!Exit(p, "clean") /\ \A q \in Requests : request[q] # p
  BY DEF L!Crash, L!ListenFails, L!MigrateGivesUp, L!BootstrapFails, L!Shutdown, L!ShutdownTimesOut,
     L!Fatal, L!Open
<1>3. UNCHANGED culprit
  BY DEF L!Crash, L!ListenFails, L!MigrateGivesUp, L!BootstrapFails, L!Shutdown, L!ShutdownTimesOut,
     L!Fatal
<1>4. culprit' \in [L!Processes -> EnvValues \cup {None}]
  BY <1>3 DEF LfInv, L!LifeInv, L!TypeOK
<1>5. QED
  BY <1>1, <1>2, <1>3, <1>4, ExitKeeps

LEMMA CancelKeeps ==
    ASSUME LfInv, NEW p \in L!Processes, L!Cancel(p)
    PROVE  LfInv'
<1>1. L!TypeOK
  BY DEF LfInv, L!LifeInv
<1>2. PICK n \in 1 .. LastScript + 1 : n = script[p]
  BY <1>1 DEF L!TypeOK
<1>3. /\ stage' = [stage EXCEPT ![p] = "closing"] /\ script' = [script EXCEPT ![p] = n]
      /\ UNCHANGED Schema /\ UNCHANGED signalled /\ UNCHANGED work /\ UNCHANGED request /\ UNCHANGED starts
      /\ UNCHANGED culprit
  BY <1>1, <1>2 DEF L!Cancel, L!schema, Schema, L!TypeOK
<1>4. QED
  BY <1>1, <1>3, MovesOn DEF L!TypeOK

LEMMA SignalKeeps ==
    ASSUME LfInv, NEW p \in L!Processes, L!Signal(p)
    PROVE  LfInv'
<1>1. UNCHANGED Schema /\ UNCHANGED culprit
  BY DEF L!Signal, L!schema, Schema
<1>2. CASE stage[p] \in {"starting", "waiting"}
  <2>1. signalled' = signalled \cup {p} /\ UNCHANGED <<stage, script, work, request, starts>>
    BY <1>2 DEF L!Signal
  <2>2. L!TypeOK'
    BY <1>1, <2>1 DEF LfInv, L!LifeInv, L!TypeOK, Schema
  <2>3. L!CleanExitCutsNoRequest'
    BY <2>1 DEF LfInv, L!LifeInv, L!CleanExitCutsNoRequest
  <2>4. QED
    BY <1>1, <2>1, <2>2, <2>3, StagesStay
<1>3. CASE stage[p] \notin {"starting", "waiting"}
  <2>1. L!Exit(p, "killed")
    BY <1>3 DEF L!Signal
  <2>2. culprit' \in [L!Processes -> EnvValues \cup {None}]
    BY <1>1 DEF LfInv, L!LifeInv, L!TypeOK
  <2>3. QED
    BY <1>1, <2>1, <2>2, ExitKeeps
<1>4. QED
  BY <1>2, <1>3

LEMMA LeaveKeeps ==
    ASSUME LfInv, NEW p \in L!Processes, NEW w \in LifeWorkers, L!Leave(p, w)
    PROVE  LfInv'
<1>1. UNCHANGED Schema /\ UNCHANGED <<stage, script, signalled, request, starts, culprit>>
  BY DEF L!Leave, L!schema, Schema
<1>2. work' \in [L!Processes -> [LifeWorkers -> {"off", "on", "ended"}]]
  BY DEF L!Leave, LfInv, L!LifeInv, L!TypeOK
<1>3. L!TypeOK'
  BY <1>1, <1>2 DEF LfInv, L!LifeInv, L!TypeOK, Schema
<1>4. L!CleanExitCutsNoRequest'
  BY <1>1 DEF LfInv, L!LifeInv, L!CleanExitCutsNoRequest
<1>5. QED
  BY <1>1, <1>3, <1>4, StagesStay

LEMMA RequestsKeep ==
    ASSUME LfInv, NEW q \in Requests, (\E p \in L!Processes : L!Accept(p, q)) \/ L!Answer(q)
    PROVE  LfInv'
<1>1. UNCHANGED Schema /\ UNCHANGED <<stage, script, signalled, work, starts, culprit>>
  BY DEF L!Accept, L!Answer, L!schema, Schema
<1>2. PICK to \in Apis \cup {"answered"} : request' = [request EXCEPT ![q] = to]
  BY DEF L!Accept, L!Answer, L!Listens
<1>3. to # "clean"
  BY LifeParameters DEF L!Parameters, L!Processes
<1>4. request' \in [Requests -> Apis \cup {"none", "answered", "clean", "fatal", "killed", "panic"}]
  BY <1>2 DEF LfInv, L!LifeInv, L!TypeOK
<1>5. L!TypeOK'
  BY <1>1, <1>4 DEF LfInv, L!LifeInv, L!TypeOK, Schema
<1>6. L!CleanExitCutsNoRequest'
  BY <1>2, <1>3 DEF LfInv, L!LifeInv, L!CleanExitCutsNoRequest, L!TypeOK
<1>7. QED
  BY <1>1, <1>5, <1>6, StagesStay

LEMMA LifeSteps == LfInv /\ [FollowNext]_all => LfInv'
<1> SUFFICES ASSUME LfInv, [FollowNext]_all PROVE LfInv'
  OBVIOUS
<1>1. L!Next \/ UNCHANGED lifeVars
  BY DEF FollowNext, OfAlarms, OfRow, OfLife, OfLink, OfSession, all
<1>2. CASE UNCHANGED lifeVars
  BY <1>2, LifeStutters
<1>3. ASSUME NEW p \in L!Processes,
             \/ L!StartApi(p) \/ L!StartCollector(p) \/ L!Crash(p) \/ L!ListenFails(p) \/ L!Signal(p)
             \/ L!Main(p)
             \/ \E w \in LifeWorkers : L!Leave(p, w)
             \/ \E q \in Requests : L!Accept(p, q)
      PROVE  LfInv'
  BY <1>3, StartKeeps, EndsKeep, SignalKeeps, LooksKeep, ApplyKeeps, ListenKeeps, WorkersKeep, CancelKeeps,
     LeaveKeeps, RequestsKeep DEF L!Main
<1>4. ASSUME NEW q \in Requests, L!Answer(q)
      PROVE  LfInv'
  BY <1>4, RequestsKeep
<1>5. QED
  BY <1>1, <1>2, <1>3, <1>4 DEF L!Next

(* Whichever processes of towercore start, migrate, are signalled, fail and  *)
(* crash at once: the scripts take effect in their order, each once; nothing *)
(* is served before all of them; a clean exit cuts no request; and a setting *)
(* makes a ticker panic only if its nanoseconds overflow an int64 (Migrate,  *)
(* cmd/api, getEnvInt).                                                      *)
THEOREM LifeIsOrderly == FollowSpec => []LifeInv
<1>1. LfInv => LifeInv
  BY DEF LfInv, LifeInv
<1>2. FollowInit => LfInv
  BY LifeStarts
<1>3. LfInv /\ [FollowNext]_all => LfInv'
  BY LifeSteps
<1>4. QED
  BY <1>1, <1>2, <1>3, PTL DEF FollowSpec

-----------------------------------------------------------------------------
(***************************************************************************)
(* The link poller.  A sound snapshot never shows that a router counted    *)
(* more since then than the link carried: a restart only takes from the    *)
(* counter.  With one poller, the events of a link are those of the last   *)
(* whole evaluation until the first rule of the next one is dealt with;    *)
(* from there on the rules dealt with show the new reading, or a failure   *)
(* has been noted.                                                         *)
(***************************************************************************)
Judging == {"down", "high_utilization", "high_errors", "evaluated"}
Early == {"idle", "last", "metrics", "save", "down"}
PollSteps == {"idle", "last", "metrics", "save"} \cup Judging

Snapshot == [clock : Nat, octets : Nat, carried : Nat, sound : BOOLEAN]
Counters == [oper : {"up", "lower_layer_down"}, octets : Nat, errors : Nat]
Opers == {"up", "lower_layer_down", "unknown"}
FullMeasure == [snapshot : Snapshot, oper : Opers, errors : Nat, high : BOOLEAN]
Measure == [snapshot : {None}, oper : Opers, errors : Nat, high : BOOLEAN]
Poll == [step : PollSteps, todo : SUBSET Links, link : Links \cup {None}, previous : Snapshot \cup {None},
         current : FullMeasure \cup Measure \cup {None}, insert : BOOLEAN, clean : BOOLEAN]
Severities == {None, "warning", "critical"}

StatusTypes ==
    /\ crew \in (SUBSET Pollers) \ {{}}
    /\ now \in Nat /\ now <= MaxTime /\ faults \in Nat /\ faults <= MaxFaults
    /\ router \in [Links -> Counters] /\ carried \in [Links -> Nat]
    /\ \A l \in Links : router[l].octets <= carried[l]
    /\ snapshots \in [Links -> SUBSET Snapshot]
    /\ events \in [Links -> [K!LinkRules -> [K!Slots -> Severities]]]
    /\ shown \in [Links -> Measure \cup {None}]

(* What a poller holds goes with where it is.                               *)
Fits(c) ==
    /\ c \in Poll
    /\ c.step = "idle" => c = K!Idle
    /\ c.step # "idle" => c.link \in Links
    /\ c.step \in {"idle", "last", "metrics"} => c.current = None
    /\ c.step = "save" => c.current \in FullMeasure
    /\ c.step \in Judging => c.current \in Measure /\ c.previous = None
    /\ c.insert => c.step \in K!LinkRules

PollsFit ==
    /\ DOMAIN poll = Pollers
    /\ \A p \in Pollers : Fits(poll[p]) /\ (p \notin crew => poll[p] = K!Idle)

Tied(l, s) == s.sound => s.carried + router[l].octets <= carried[l] + s.octets

HighIsReal(c) ==
    c.previous # None /\ c.current.high /\ c.current.snapshot.sound /\ c.previous.sound =>
        100 * (c.current.snapshot.carried - c.previous.carried) >=
            K!HighUtilizationThresholdPercent * Capacity * (c.current.snapshot.clock - c.previous.clock)

PollTied(c) ==
    /\ c.step # "idle" /\ c.previous # None => Tied(c.link, c.previous)
    /\ c.step = "save" => Tied(c.link, c.current.snapshot) /\ HighIsReal(c)

SnapshotsAreTied ==
    /\ \A l \in Links : \A s \in snapshots[l] : Tied(l, s)
    /\ \A p \in Pollers : PollTied(poll[p])

(* The events of a link show a reading, by each rule.                       *)
DownShown(l, m) == K!OpenIn(l, "down") # {} <=> m.oper = "lower_layer_down"
UtilizationShown(l, m) == K!OpenIn(l, "high_utilization") # {} <=> m.high
ErrorsShown(l, m) ==
    /\ \A k \in K!OpenIn(l, "high_errors") :
        m.errors >= 100 /\ (events[l]["high_errors"][k] = "critical" <=> m.errors >= 1000)
    /\ m.errors >= 100 => K!OpenIn(l, "high_errors") # {}

Shown(l, m) == DownShown(l, m) /\ UtilizationShown(l, m) /\ ErrorsShown(l, m)

ShowsLast(c) ==
    \A l \in Links : shown[l] # None /\ (c.link = l => c.step \in Early) => Shown(l, shown[l])

ShowsSoFar(c) ==
    c.clean =>
        /\ c.step \in {"high_utilization", "high_errors", "evaluated"} => DownShown(c.link, c.current)
        /\ c.step \in {"high_errors", "evaluated"} => UtilizationShown(c.link, c.current)
        /\ c.step = "evaluated" => ErrorsShown(c.link, c.current)

AtMostOne(l, r) == \E k \in K!Slots : K!OpenIn(l, r) \subseteq {k}

OneEach(c) ==
    /\ \A l \in Links, r \in K!LinkRules : AtMostOne(l, r)
    /\ c.insert => K!OpenIn(c.link, c.step) = {}

SoloOK(c) == ShowsLast(c) /\ ShowsSoFar(c) /\ OneEach(c)
SoloShows == \A p : crew = {p} => SoloOK(poll[p])

StInv == StatusTypes /\ PollsFit /\ SnapshotsAreTied /\ SoloShows

LEMMA StatusNumbers ==
    /\ MaxTime \in Nat /\ MaxFaults \in Nat /\ Capacity \in Nat /\ ErrorCounts \subseteq Nat
    /\ IsFiniteSet(Pollers)
    /\ None \notin {"warning", "critical"}
<1>1. \A X : K!IsFiniteSet(X) <=> IsFiniteSet(X)
  BY DEF K!IsFiniteSet, IsFiniteSet
<1>2. QED
  BY <1>1, StatusParameters DEF K!Parameters

LEMMA StatusCounts == \A X : K!Cardinality(X) = Cardinality(X)
BY DEF K!Cardinality, Cardinality

LEMMA IdleFits == Fits(K!Idle) /\ K!Idle.step = "idle" /\ K!Idle.previous = None /\ ~K!Idle.insert
BY DEF Fits, Poll, PollSteps, Judging, K!Idle

LEMMA StatusStarts == FollowInit => StInv
<1> SUFFICES ASSUME K!Init PROVE StInv
  BY DEF FollowInit
<1>1. StatusTypes
  <2>1. now = 0 /\ faults = 0 /\ 0 <= MaxTime /\ 0 <= MaxFaults
    BY StatusNumbers DEF K!Init
  <2>2. router \in [Links -> Counters] /\ carried \in [Links -> Nat]
    BY DEF K!Init, Counters
  <2>3. \A l \in Links : router[l].octets <= carried[l]
    BY DEF K!Init
  <2>4. events \in [Links -> [K!LinkRules -> [K!Slots -> Severities]]]
    BY DEF K!Init, Severities
  <2>5. snapshots \in [Links -> SUBSET Snapshot] /\ shown \in [Links -> Measure \cup {None}]
    BY DEF K!Init
  <2>6. QED
    BY <2>1, <2>2, <2>3, <2>4, <2>5 DEF K!Init, StatusTypes
<1>2. DOMAIN poll = Pollers /\ \A p \in Pollers : poll[p] = K!Idle
  BY DEF K!Init
<1>3. PollsFit
  BY <1>2, IdleFits DEF PollsFit
<1>4. SnapshotsAreTied
  <2>1. \A p \in Pollers : PollTied(poll[p])
    BY <1>2, IdleFits DEF PollTied
  <2>2. QED
    BY <2>1 DEF K!Init, SnapshotsAreTied
<1>5. ASSUME NEW p, crew = {p}
      PROVE  SoloOK(poll[p])
  <2>1. p \in Pollers
    BY <1>1, <1>5 DEF StatusTypes
  <2>2. \A l \in Links, r \in K!LinkRules : K!OpenIn(l, r) = {}
    BY DEF K!Init, K!OpenIn
  <2>3. OneEach(poll[p])
    BY <1>2, <2>1, <2>2, IdleFits DEF OneEach, AtMostOne, K!Slots
  <2>4. \A l \in Links : shown[l] = None
    BY DEF K!Init
  <2>5. QED
    BY <1>2, <2>1, <2>3, <2>4, IdleFits DEF SoloOK, ShowsLast, ShowsSoFar
<1>6. QED
  BY <1>1, <1>3, <1>4, <1>5 DEF StInv, SoloShows

(* What shows depends on the events and on what was shown.                  *)
LEMMA OpenStays ==
    ASSUME NEW l, NEW r, events'[l][r] = events[l][r]
    PROVE  K!OpenIn(l, r)' = K!OpenIn(l, r)
BY DEF K!OpenIn

LEMMA ShownStays ==
    ASSUME NEW l, NEW m, \A r \in K!LinkRules : events'[l][r] = events[l][r], Shown(l, m)
    PROVE  Shown(l, m)'
<1>1. \A r \in K!LinkRules : K!OpenIn(l, r)' = K!OpenIn(l, r)
  BY OpenStays
<1>2. events'[l]["high_errors"] = events[l]["high_errors"]
  BY DEF K!LinkRules
<1>3. QED
  BY <1>1, <1>2 DEF Shown, DownShown, UtilizationShown, ErrorsShown, K!LinkRules

LEMMA SoloStays ==
    ASSUME NEW c, UNCHANGED events, UNCHANGED shown, SoloOK(c)
    PROVE  SoloOK(c)'
<1>1. \A l, r : K!OpenIn(l, r)' = K!OpenIn(l, r)
  BY OpenStays
<1>2. \A l, m : Shown(l, m) => Shown(l, m)'
  BY ShownStays
<1>3. ShowsLast(c)'
  BY <1>2 DEF SoloOK, ShowsLast
<1>4. ShowsSoFar(c)'
  BY <1>1 DEF SoloOK, ShowsSoFar, DownShown, UtilizationShown, ErrorsShown
<1>5. OneEach(c)'
  BY <1>1 DEF SoloOK, OneEach, AtMostOne
<1>6. QED
  BY <1>3, <1>4, <1>5 DEF SoloOK

LEMMA TiedStays ==
    ASSUME NEW l, NEW s, UNCHANGED router, UNCHANGED carried
    PROVE  Tied(l, s)' <=> Tied(l, s)
BY DEF Tied

LEMMA PollTiedStays ==
    ASSUME NEW c, UNCHANGED router, UNCHANGED carried
    PROVE  PollTied(c)' <=> PollTied(c)
BY TiedStays DEF PollTied

LEMMA StatusStutters == StInv /\ UNCHANGED linkVars => StInv'
<1> SUFFICES ASSUME StInv, UNCHANGED linkVars PROVE StInv'
  OBVIOUS
<1>1. /\ UNCHANGED crew /\ UNCHANGED now /\ UNCHANGED router /\ UNCHANGED carried /\ UNCHANGED snapshots
      /\ UNCHANGED events /\ UNCHANGED poll /\ UNCHANGED shown /\ UNCHANGED faults
  BY DEF linkVars
<1>2. StatusTypes' /\ PollsFit'
  BY <1>1 DEF StInv, StatusTypes, PollsFit
<1>3. SnapshotsAreTied'
  BY <1>1, TiedStays, PollTiedStays DEF StInv, SnapshotsAreTied
<1>4. SoloShows'
  BY <1>1, SoloStays DEF StInv, SoloShows
<1>5. QED
  BY <1>2, <1>3, <1>4 DEF StInv

-----------------------------------------------------------------------------
(* The routers.                                                             *)

(* The counter of a router grows by what its link carries, or starts again. *)
LEMMA WorldKeeps ==
    ASSUME StInv, UNCHANGED <<crew, snapshots, events, poll, shown, faults>>,
           now' \in Nat, now' <= MaxTime,
           router' \in [Links -> Counters], carried' \in [Links -> Nat],
           \A l \in Links : router'[l].octets <= carried'[l],
           \A l \in Links : router'[l].octets + carried[l] <= router[l].octets + carried'[l]
    PROVE  StInv'
<1>1. /\ UNCHANGED crew /\ UNCHANGED snapshots
      /\ UNCHANGED events /\ UNCHANGED poll /\ UNCHANGED shown /\ UNCHANGED faults
  OBVIOUS
<1>2. StatusTypes' /\ PollsFit'
  BY <1>1 DEF StInv, StatusTypes, PollsFit
<1>3. ASSUME NEW l \in Links, NEW s \in Snapshot, Tied(l, s)
      PROVE  Tied(l, s)'
  <2>1. s.carried \in Nat /\ s.octets \in Nat
    BY DEF Snapshot
  <2>2. /\ router[l].octets \in Nat /\ router'[l].octets \in Nat
        /\ carried[l] \in Nat /\ carried'[l] \in Nat
    BY DEF StInv, StatusTypes, Counters
  <2>3. router'[l].octets + carried[l] <= router[l].octets + carried'[l]
    OBVIOUS
  <2>4. QED
    BY <1>3, <2>1, <2>2, <2>3 DEF Tied
<1>4. ASSUME NEW p \in Pollers
      PROVE  PollTied(poll[p])'
  <2>1. Fits(poll[p]) /\ PollTied(poll[p])
    BY DEF StInv, PollsFit, SnapshotsAreTied
  <2>2. poll[p].step # "idle" /\ poll[p].previous # None =>
            poll[p].link \in Links /\ poll[p].previous \in Snapshot
    BY <2>1 DEF Fits, Poll
  <2>3. poll[p].step = "save" => poll[p].link \in Links /\ poll[p].current.snapshot \in Snapshot
    BY <2>1 DEF Fits, FullMeasure
  <2>4. PICK c : c = poll[p]
    OBVIOUS
  <2>5. PollTied(c)'
    BY <1>3, <2>1, <2>2, <2>3, <2>4 DEF PollTied
  <2>6. QED
    BY <1>1, <2>4, <2>5
<1>5. SnapshotsAreTied'
  <2>1. \A l \in Links : snapshots[l] \subseteq Snapshot
    BY DEF StInv, StatusTypes
  <2>2. QED
    BY <1>1, <1>3, <1>4, <2>1 DEF StInv, SnapshotsAreTied
<1>6. SoloShows'
  BY <1>1, SoloStays DEF StInv, SoloShows
<1>7. QED
  BY <1>2, <1>5, <1>6 DEF StInv

LEMMA TickKeeps ==
    ASSUME StInv, K!Tick
    PROVE  StInv'
<1>1. PICK busy \in SUBSET Links :
        /\ router' = [l \in Links |-> IF l \in busy THEN [router[l] EXCEPT !.octets = @ + 1] ELSE router[l]]
        /\ carried' = [l \in Links |-> IF l \in busy THEN carried[l] + 1 ELSE carried[l]]
  BY DEF K!Tick
<1>2. /\ router \in [Links -> Counters] /\ carried \in [Links -> Nat]
      /\ now \in Nat /\ \A l \in Links : router[l].octets <= carried[l]
  BY DEF StInv, StatusTypes
<1>3. now' \in Nat /\ now' <= MaxTime
  BY <1>2, StatusNumbers DEF K!Tick
<1>4. carried' \in [Links -> Nat] /\ router' \in [Links -> Counters]
  BY <1>1, <1>2 DEF Counters
<1>5. ASSUME NEW l \in Links
      PROVE  /\ router'[l].octets <= carried'[l]
             /\ router'[l].octets + carried[l] <= router[l].octets + carried'[l]
  <2>1. router[l].octets \in Nat /\ carried[l] \in Nat /\ router[l].octets <= carried[l]
    BY <1>2 DEF Counters
  <2>2. \/ router'[l].octets = router[l].octets + 1 /\ carried'[l] = carried[l] + 1
        \/ router'[l].octets = router[l].octets /\ carried'[l] = carried[l]
    BY <1>1, <1>2 DEF Counters
  <2>3. QED
    BY <2>1, <2>2
<1>6. UNCHANGED <<crew, snapshots, events, poll, shown, faults>>
  BY DEF K!Tick, K!tables
<1>7. QED
  BY <1>3, <1>4, <1>5, <1>6, WorldKeeps

LEMMA ChangeKeeps ==
    ASSUME StInv, NEW l \in Links, K!Change(l)
    PROVE  StInv'
<1>1. /\ router \in [Links -> Counters] /\ carried \in [Links -> Nat]
      /\ now \in Nat /\ \A k \in Links : router[k].octets <= carried[k]
  BY DEF StInv, StatusTypes
<1>2. now' \in Nat /\ now' <= MaxTime
  BY <1>1, StatusNumbers DEF K!Change
<1>3. UNCHANGED <<crew, snapshots, events, poll, shown, faults>> /\ UNCHANGED carried
  BY DEF K!Change, K!tables
<1>4. PICK new \in Counters : router' = [router EXCEPT ![l] = new] /\ new.octets <= router[l].octets
  <2>1. router[l] \in Counters /\ router[l].octets \in Nat
    BY <1>1 DEF Counters
  <2>2. CASE \E o \in {"up", "lower_layer_down"} \ {router[l].oper} : router' = [router EXCEPT ![l].oper = o]
    <3>1. PICK o \in {"up", "lower_layer_down"} : router' = [router EXCEPT ![l].oper = o]
      BY <2>2
    <3>2. PICK new : new = [router[l] EXCEPT !.oper = o]
      OBVIOUS
    <3>3. new \in Counters /\ new.octets = router[l].octets
      BY <2>1, <3>2 DEF Counters
    <3>4. router' = [router EXCEPT ![l] = new]
      BY <1>1, <3>1, <3>2
    <3>5. new.octets <= router[l].octets
      BY <2>1, <3>3
    <3>6. QED
      BY <3>3, <3>4, <3>5
  <2>3. CASE \E n \in ErrorCounts : n > router[l].errors /\ router' = [router EXCEPT ![l].errors = n]
    <3>1. PICK n \in Nat : router' = [router EXCEPT ![l].errors = n]
      BY <2>3, StatusNumbers
    <3>2. PICK new : new = [router[l] EXCEPT !.errors = n]
      OBVIOUS
    <3>3. new \in Counters /\ new.octets = router[l].octets
      BY <2>1, <3>2 DEF Counters
    <3>4. router' = [router EXCEPT ![l] = new]
      BY <1>1, <3>1, <3>2
    <3>5. new.octets <= router[l].octets
      BY <2>1, <3>3
    <3>6. QED
      BY <3>3, <3>4, <3>5
  <2>4. CASE router' = [router EXCEPT ![l] = [oper |-> "up", octets |-> 0, errors |-> 0]]
    <3>1. PICK new : new = [oper |-> "up", octets |-> 0, errors |-> 0]
      OBVIOUS
    <3>2. new \in Counters /\ new.octets = 0
      BY <3>1 DEF Counters
    <3>3. new.octets <= router[l].octets
      BY <2>1, <3>2
    <3>4. QED
      BY <2>4, <3>1, <3>2, <3>3
  <2>5. QED
    BY <2>2, <2>3, <2>4 DEF K!Change
<1>5. router' \in [Links -> Counters] /\ carried' \in [Links -> Nat]
  BY <1>1, <1>3, <1>4
<1>6. ASSUME NEW k \in Links
      PROVE  /\ router'[k].octets <= carried'[k]
             /\ router'[k].octets + carried[k] <= router[k].octets + carried'[k]
  <2>1. /\ router[k].octets \in Nat /\ carried[k] \in Nat /\ router[k].octets <= carried[k]
        /\ router'[k].octets \in Nat
    BY <1>1, <1>5 DEF Counters
  <2>2. router'[k].octets <= router[k].octets
    BY <1>1, <1>4, <2>1
  <2>3. QED
    BY <1>3, <2>1, <2>2
<1>7. QED
  BY <1>2, <1>3, <1>5, <1>6, WorldKeeps

(* A snapshot that is stored is tied, and no other is new.                  *)
LEMMA StoreKeeps ==
    ASSUME StInv, NEW l \in Links, NEW s \in Snapshot, Tied(l, s), K!Store(l, s),
           UNCHANGED router, UNCHANGED carried
    PROVE  /\ snapshots' \in [Links -> SUBSET Snapshot]
           /\ \A k \in Links : \A x \in snapshots'[k] : Tied(k, x)'
<1>1. PICK rows \in SUBSET (snapshots[l] \cup {s}) : snapshots' = [snapshots EXCEPT ![l] = rows]
  BY DEF K!Store
<1>2. snapshots \in [Links -> SUBSET Snapshot]
  BY DEF StInv, StatusTypes
<1>3. snapshots' \in [Links -> SUBSET Snapshot]
  BY <1>1, <1>2
<1>4. ASSUME NEW k \in Links, NEW x \in snapshots'[k]
      PROVE  Tied(k, x)'
  <2>1. x \in snapshots[k] \/ (k = l /\ x = s)
    BY <1>1, <1>2, <1>4
  <2>2. Tied(k, x)
    BY <2>1 DEF StInv, SnapshotsAreTied
  <2>3. QED
    BY <2>2, TiedStays
<1>5. QED
  BY <1>3, <1>4

LEMMA SyncSnapshotKeeps ==
    ASSUME StInv, NEW l \in Links, K!SyncSnapshot(l)
    PROVE  StInv'
<1>1. /\ UNCHANGED crew /\ UNCHANGED now /\ UNCHANGED router /\ UNCHANGED carried /\ UNCHANGED events
      /\ UNCHANGED poll /\ UNCHANGED shown
      /\ faults < MaxFaults /\ faults' = faults + 1
  BY DEF K!SyncSnapshot, K!world
<1>2. /\ router[l] \in Counters /\ carried[l] \in Nat /\ now \in Nat /\ faults \in Nat
  BY DEF StInv, StatusTypes
<1>3. PICK n \in 0 .. router[l].octets :
        K!Store(l, [clock |-> now, octets |-> n, carried |-> carried[l], sound |-> n = router[l].octets])
  BY DEF K!SyncSnapshot
<1>4. PICK s : s = [clock |-> now, octets |-> n, carried |-> carried[l], sound |-> n = router[l].octets]
  OBVIOUS
<1>5. s \in Snapshot /\ Tied(l, s)
  <2>1. n \in Nat /\ router[l].octets \in Nat
    BY <1>2, <1>3 DEF Counters
  <2>2. s \in Snapshot
    BY <1>2, <1>4, <2>1 DEF Snapshot
  <2>3. s.sound => s.carried + router[l].octets <= carried[l] + s.octets
    <3>1. s.carried = carried[l] /\ s.octets = n /\ (s.sound => n = router[l].octets)
      BY <1>4
    <3>2. QED
      BY <1>2, <2>1, <3>1
  <2>4. QED
    BY <2>2, <2>3 DEF Tied
<1>6. /\ snapshots' \in [Links -> SUBSET Snapshot]
      /\ \A k \in Links : \A x \in snapshots'[k] : Tied(k, x)'
  BY <1>1, <1>3, <1>4, <1>5, StoreKeeps
<1>7. faults' \in Nat /\ faults' <= MaxFaults
  BY <1>1, <1>2, StatusNumbers
<1>8. StatusTypes'
  BY <1>1, <1>6, <1>7 DEF StInv, StatusTypes
<1>9. SnapshotsAreTied'
  BY <1>1, <1>6, PollTiedStays DEF StInv, SnapshotsAreTied
<1>10. PollsFit' /\ SoloShows'
  BY <1>1, SoloStays DEF StInv, PollsFit, SoloShows
<1>11. QED
  BY <1>8, <1>9, <1>10 DEF StInv

-----------------------------------------------------------------------------
(* A poller.                                                                *)

(* A poller of the crew comes to hold q, and what it may write is right.    *)
LEMMA PollerKeeps ==
    ASSUME StInv, NEW p \in crew, NEW q, Fits(q),
           poll' = [poll EXCEPT ![p] = q], PollTied(q)',
           UNCHANGED <<crew, now, router, carried>>, faults' \in Nat, faults' <= MaxFaults,
           snapshots' \in [Links -> SUBSET Snapshot],
           \A l \in Links : \A s \in snapshots'[l] : Tied(l, s)',
           events' \in [Links -> [K!LinkRules -> [K!Slots -> Severities]]],
           shown' \in [Links -> Measure \cup {None}],
           crew = {p} => SoloOK(q)'
    PROVE  StInv'
<1>1. UNCHANGED crew /\ UNCHANGED now /\ UNCHANGED router /\ UNCHANGED carried
  OBVIOUS
<1>2. p \in Pollers /\ DOMAIN poll = Pollers
  BY DEF StInv, StatusTypes, PollsFit
<1>3. poll'[p] = q /\ \A r \in Pollers \ {p} : poll'[r] = poll[r]
  BY <1>2
<1>4. StatusTypes'
  BY <1>1 DEF StInv, StatusTypes
<1>5. PollsFit'
  BY <1>1, <1>2, <1>3 DEF StInv, PollsFit
<1>6. SnapshotsAreTied'
  <2>1. ASSUME NEW r \in Pollers
        PROVE  PollTied(poll[r])'
    <3>1. CASE r = p
      BY <1>3, <3>1
    <3>2. CASE r # p
      BY <1>1, <1>3, <3>2, PollTiedStays DEF StInv, SnapshotsAreTied
    <3>3. QED
      BY <3>1, <3>2
  <2>2. QED
    BY <2>1 DEF SnapshotsAreTied
<1>7. SoloShows'
  <2>1. ASSUME NEW r, crew' = {r}
        PROVE  SoloOK(poll[r])'
    <3>1. r = p /\ crew = {p}
      BY <1>1, <2>1
    <3>2. QED
      BY <1>3, <3>1
  <2>2. QED
    BY <2>1 DEF SoloShows
<1>8. QED
  BY <1>4, <1>5, <1>6, <1>7 DEF StInv

(* What is known of a poller of the crew.                                   *)
LEMMA PollNow ==
    ASSUME StInv, NEW p \in Pollers
    PROVE  /\ Fits(poll[p]) /\ PollTied(poll[p]) /\ DOMAIN poll = Pollers
           /\ p \notin crew => poll[p] = K!Idle
           /\ crew = {p} => SoloOK(poll[p])
BY DEF StInv, PollsFit, SnapshotsAreTied, SoloShows

LEMMA TypesNow ==
    ASSUME StInv
    PROVE  /\ crew \subseteq Pollers
           /\ now \in Nat /\ faults \in Nat /\ faults <= MaxFaults
           /\ router \in [Links -> Counters] /\ carried \in [Links -> Nat]
           /\ snapshots \in [Links -> SUBSET Snapshot]
           /\ \A l \in Links : \A s \in snapshots[l] : Tied(l, s)
           /\ events \in [Links -> [K!LinkRules -> [K!Slots -> Severities]]]
           /\ shown \in [Links -> Measure \cup {None}]
BY DEF StInv, StatusTypes, SnapshotsAreTied

LEMMA FaultCounts ==
    ASSUME StInv, K!Fault \/ UNCHANGED faults
    PROVE  faults' \in Nat /\ faults' <= MaxFaults
<1>1. faults \in Nat /\ faults <= MaxFaults /\ MaxFaults \in Nat
  BY TypesNow, StatusNumbers
<1>2. QED
  BY <1>1 DEF K!Fault

LEMMA SnapshotsStay ==
    ASSUME StInv, UNCHANGED snapshots, UNCHANGED router, UNCHANGED carried
    PROVE  /\ snapshots' \in [Links -> SUBSET Snapshot]
           /\ \A l \in Links : \A s \in snapshots'[l] : Tied(l, s)'
BY TypesNow, TiedStays

(* The next link, or the end of the round.                                  *)
Fresh(q) ==
    /\ Fits(q) /\ q.step \in {"idle", "last"} /\ q.previous = None /\ q.clean /\ ~q.insert

LEMMA NextLinkIsFresh ==
    ASSUME NEW left \in SUBSET Links, NEW l \in Links
    PROVE  Fresh([K!Idle EXCEPT !.todo = left, !.link = l, !.step = "last"])
<1> DEFINE q == [K!Idle EXCEPT !.todo = left, !.link = l, !.step = "last"]
<1>1. K!Idle \in Poll /\ "last" \in PollSteps
  BY IdleFits DEF Fits, PollSteps
<1>2. K!Idle.previous = None /\ K!Idle.current = None /\ ~K!Idle.insert /\ K!Idle.clean
  BY DEF K!Idle
<1>3. q \in Poll
  BY <1>1 DEF Poll
<1>4. q.step = "last" /\ q.link = l /\ q.previous = None /\ q.current = None /\ ~q.insert /\ q.clean
  BY <1>1, <1>2 DEF Poll
<1> HIDE DEF q
<1>5. Fresh(q)
  BY <1>3, <1>4 DEF Fresh, Fits, Judging
<1>6. QED
  BY <1>5 DEF q

LEMMA FreshIsTied ==
    ASSUME NEW q, Fresh(q)
    PROVE  PollTied(q)'
BY DEF Fresh, PollTied

LEMMA SkipIsFresh ==
    ASSUME StInv, NEW p \in crew, K!Skip(p)
    PROVE  \E q : Fresh(q) /\ poll' = [poll EXCEPT ![p] = q]
<1>1. Fits(poll[p])
  BY TypesNow, PollNow
<1>2. CASE poll' = [poll EXCEPT ![p] = K!Idle]
  <2>1. Fresh(K!Idle)
    BY IdleFits DEF Fresh, K!Idle
  <2>2. QED
    BY <1>2, <2>1
<1>3. ASSUME NEW l \in poll[p].todo,
             poll' = [poll EXCEPT ![p] = [K!Idle EXCEPT !.todo = poll[p].todo \ {l}, !.link = l,
                                                        !.step = "last"]]
      PROVE  \E q : Fresh(q) /\ poll' = [poll EXCEPT ![p] = q]
  <2>1. poll[p].todo \subseteq Links
    BY <1>1 DEF Fits, Poll
  <2>2. Fresh([K!Idle EXCEPT !.todo = poll[p].todo \ {l}, !.link = l, !.step = "last"])
    BY <2>1, NextLinkIsFresh
  <2>3. QED
    BY <1>3, <2>2
<1>4. QED
  BY <1>2, <1>3 DEF K!Skip

(* Before the first rule the events show what was shown last.               *)
LEMMA EarlyStays ==
    ASSUME NEW c, NEW q, SoloOK(c), c.step \in Early, q.step \in Early, ~q.insert,
           UNCHANGED events, UNCHANGED shown
    PROVE  SoloOK(q)'
<1>1. ShowsLast(q)
  BY DEF SoloOK, ShowsLast
<1>2. ShowsSoFar(q) /\ OneEach(q)
  BY DEF SoloOK, ShowsSoFar, OneEach, Early
<1>3. QED
  BY <1>1, <1>2, SoloStays DEF SoloOK

(* A step before the rules that goes on with q.                             *)
LEMMA EarlyKeeps ==
    ASSUME StInv, NEW p \in crew, poll[p].step \in Early, NEW q, Fits(q), q.step \in Early, ~q.insert,
           poll' = [poll EXCEPT ![p] = q], PollTied(q)',
           UNCHANGED <<crew, now, router, carried, events, shown>>, K!Fault \/ UNCHANGED faults,
           snapshots' \in [Links -> SUBSET Snapshot],
           \A l \in Links : \A s \in snapshots'[l] : Tied(l, s)'
    PROVE  StInv'
<1>1. UNCHANGED events /\ UNCHANGED shown
  OBVIOUS
<1>2. /\ events' \in [Links -> [K!LinkRules -> [K!Slots -> Severities]]]
      /\ shown' \in [Links -> Measure \cup {None}]
  BY <1>1, TypesNow
<1>3. crew = {p} => SoloOK(q)'
  <2>1. p \in Pollers
    BY TypesNow
  <2>2. QED
    BY <1>1, <2>1, PollNow, EarlyStays
<1>4. faults' \in Nat /\ faults' <= MaxFaults
  BY FaultCounts
<1>5. QED
  BY <1>2, <1>3, <1>4, PollerKeeps

LEMMA PollAllKeeps ==
    ASSUME StInv, NEW p \in Pollers, K!pollAll(p)
    PROVE  StInv'
<1>1. p \in crew /\ poll[p].step = "idle"
  BY DEF K!pollAll, K!At
<1>2. poll[p] = K!Idle /\ DOMAIN poll = Pollers
  BY <1>1, PollNow DEF Fits
<1>3. PICK l \in Links :
        poll' = [poll EXCEPT ![p].todo = Links \ {l}, ![p].link = l, ![p].step = "last"]
  BY DEF K!pollAll
<1>4. PICK q : q = [K!Idle EXCEPT !.todo = Links \ {l}, !.link = l, !.step = "last"]
  OBVIOUS
<1>5. Fresh(q)
  BY <1>4, NextLinkIsFresh
<1>6. poll' = [poll EXCEPT ![p] = q]
  BY <1>2, <1>3, <1>4
<1>7. UNCHANGED <<crew, now, router, carried, events, shown>> /\ UNCHANGED snapshots /\ UNCHANGED faults
  BY DEF K!pollAll, K!world, K!tables
<1>8. /\ snapshots' \in [Links -> SUBSET Snapshot]
      /\ \A k \in Links : \A s \in snapshots'[k] : Tied(k, s)'
  BY <1>7, SnapshotsStay
<1>9. PollTied(q)'
  BY <1>5, FreshIsTied
<1>10. q.step \in Early /\ Fits(q) /\ ~q.insert
  BY <1>5 DEF Fresh, Early
<1>11. QED
  BY <1>1, <1>6, <1>7, <1>8, <1>9, <1>10, EarlyKeeps DEF Early

LEMMA GetLastKeeps ==
    ASSUME StInv, NEW p \in Pollers, K!GetLastSnapshot(p)
    PROVE  StInv'
<1>1. p \in crew /\ poll[p].step = "last" /\ ~poll[p].insert
  BY DEF K!GetLastSnapshot, K!At
<1>2. PICK c : c = poll[p]
  OBVIOUS
<1>3. Fits(c) /\ PollTied(c) /\ DOMAIN poll = Pollers
  BY <1>2, PollNow
<1>4. c.link \in Links /\ c.current = None /\ c \in Poll
  BY <1>1, <1>2, <1>3 DEF Fits
<1>5. PICK x \in snapshots[c.link] \cup {None} :
        poll' = [poll EXCEPT ![p].previous = x, ![p].step = "metrics"]
  BY <1>2 DEF K!GetLastSnapshot
<1>6. PICK q : q = [c EXCEPT !.previous = x, !.step = "metrics"]
  OBVIOUS
<1>7. poll' = [poll EXCEPT ![p] = q]
  BY <1>2, <1>3, <1>5, <1>6
<1>8. x \in Snapshot \cup {None} /\ (x # None => Tied(c.link, x))
  BY <1>4, <1>5, TypesNow
<1>9. q \in Poll /\ q.step = "metrics" /\ q.link = c.link /\ q.current = None /\ q.previous = x /\ ~q.insert
  BY <1>1, <1>2, <1>4, <1>6, <1>8 DEF Poll, PollSteps
<1>10. Fits(q)
  BY <1>4, <1>9 DEF Fits, Judging
<1>11. UNCHANGED <<crew, now, router, carried, events, shown>> /\ UNCHANGED snapshots
       /\ UNCHANGED router /\ UNCHANGED carried /\ (K!Fault \/ UNCHANGED faults)
  BY DEF K!GetLastSnapshot, K!world, K!tables
<1>12. /\ snapshots' \in [Links -> SUBSET Snapshot]
       /\ \A k \in Links : \A s \in snapshots'[k] : Tied(k, s)'
  BY <1>11, SnapshotsStay
<1>13. PollTied(q)'
  BY <1>8, <1>9, <1>11, TiedStays DEF PollTied
<1>14. QED
  BY <1>1, <1>7, <1>9, <1>10, <1>11, <1>12, <1>13, EarlyKeeps DEF Early

(* A sound reading counts what the link carried since a sound snapshot, or   *)
(* less.                                                                     *)
LEMMA HighWasCarried ==
    ASSUME NEW old \in Snapshot, NEW s \in Snapshot, K!High(s, old),
           old.carried + s.octets <= s.carried + old.octets
    PROVE  100 * (s.carried - old.carried) >=
               K!HighUtilizationThresholdPercent * Capacity * (s.clock - old.clock)
<1>1. PICK a \in Nat, b \in Nat, x \in Nat, y \in Nat :
        a = s.carried /\ b = old.carried /\ x = s.octets /\ y = old.octets
  BY DEF Snapshot
<1>2. s.clock - old.clock \in Int /\ Capacity \in Int
  BY StatusNumbers DEF Snapshot
<1>3. PICK d \in Int : d = K!HighUtilizationThresholdPercent * Capacity * (s.clock - old.clock)
  BY <1>2 DEF K!HighUtilizationThresholdPercent
<1>4. 100 * (x - y) >= d
  BY <1>1, <1>3 DEF K!High
<1>5. b + x <= a + y
  BY <1>1
<1>6. 100 * (a - b) >= d
  BY <1>4, <1>5
<1>7. QED
  BY <1>1, <1>3, <1>6

LEMMA GetMetricsKeeps ==
    ASSUME StInv, NEW p \in Pollers, K!GetInterfaceMetrics(p)
    PROVE  StInv'
<1>1. p \in crew /\ poll[p].step = "metrics" /\ ~poll[p].insert
  BY DEF K!GetInterfaceMetrics, K!At
<1>2. PICK c : c = poll[p]
  OBVIOUS
<1>3. Fits(c) /\ PollTied(c) /\ DOMAIN poll = Pollers
  BY <1>2, PollNow
<1>4. c.link \in Links /\ c \in Poll /\ c.step = "metrics"
  BY <1>1, <1>2, <1>3 DEF Fits
<1>5. UNCHANGED <<crew, now, router, carried, events, shown>> /\ UNCHANGED snapshots
      /\ UNCHANGED router /\ UNCHANGED carried /\ (K!Fault \/ UNCHANGED faults)
  BY DEF K!GetInterfaceMetrics, K!world, K!tables
<1>6. /\ snapshots' \in [Links -> SUBSET Snapshot]
      /\ \A k \in Links : \A s \in snapshots'[k] : Tied(k, s)'
  BY <1>5, SnapshotsStay
<1>7. CASE K!Skip(p)
  <2>1. PICK q : Fresh(q) /\ poll' = [poll EXCEPT ![p] = q]
    BY <1>1, <1>7, SkipIsFresh
  <2>2. q.step \in Early /\ Fits(q) /\ ~q.insert
    BY <2>1 DEF Fresh, Early
  <2>3. QED
    BY <1>1, <1>5, <1>6, <2>1, <2>2, FreshIsTied, EarlyKeeps DEF Early
<1>8. ASSUME NEW oper \in {router[c.link].oper, "unknown"}, NEW octets \in {router[c.link].octets, 0},
             NEW errors \in {router[c.link].errors, 0},
             poll' = [poll EXCEPT ![p].step = "save",
                          ![p].current = [snapshot |-> [clock |-> now, octets |-> octets, carried |-> carried[c.link],
                                                        sound |-> octets = router[c.link].octets],
                                          oper |-> oper, errors |-> errors,
                                          high |-> c.previous # None
                                                   /\ K!High([clock |-> now, octets |-> octets,
                                                              carried |-> carried[c.link],
                                                              sound |-> octets = router[c.link].octets], c.previous)]]
      PROVE  StInv'
  <2>1. PICK s : s = [clock |-> now, octets |-> octets, carried |-> carried[c.link],
                      sound |-> octets = router[c.link].octets]
    OBVIOUS
  <2>2. PICK m : m = [snapshot |-> s, oper |-> oper, errors |-> errors,
                      high |-> c.previous # None /\ K!High(s, c.previous)]
    OBVIOUS
  <2>3. PICK q : q = [c EXCEPT !.step = "save", !.current = m]
    OBVIOUS
  <2>4. poll' = [poll EXCEPT ![p] = q]
    BY <1>2, <1>3, <1>8, <2>1, <2>2, <2>3
  <2>5. /\ now \in Nat /\ carried[c.link] \in Nat /\ router[c.link] \in Counters
    BY <1>4, TypesNow
  <2>6. octets \in Nat /\ router[c.link].octets \in Nat
    BY <2>5 DEF Counters
  <2>7. /\ s \in Snapshot /\ s.octets = octets /\ s.carried = carried[c.link]
        /\ (s.sound => octets = router[c.link].octets)
    BY <2>1, <2>5, <2>6 DEF Snapshot
  <2>8. (c.previous # None /\ K!High(s, c.previous)) \in BOOLEAN
    OBVIOUS
  <2>9. /\ m \in FullMeasure /\ m.snapshot = s
        /\ (m.high => c.previous # None /\ K!High(s, c.previous))
    <3>1. oper \in Opers /\ errors \in Nat
      BY <2>5 DEF Opers, Counters
    <3>2. QED
      BY <2>2, <2>7, <2>8, <3>1 DEF FullMeasure
  <2>10. q \in Poll /\ q.step = "save" /\ q.link = c.link /\ q.current = m /\ q.previous = c.previous /\ ~q.insert
    BY <1>1, <1>2, <1>4, <2>3, <2>9 DEF Poll, PollSteps
  <2>11. Fits(q)
    BY <1>4, <2>9, <2>10 DEF Fits, Judging
  <2>12. Tied(q.link, s)
    BY <2>5, <2>6, <2>7, <2>10 DEF Tied
  <2>13. q.previous # None => q.previous \in Snapshot /\ Tied(q.link, q.previous)
    BY <1>3, <1>4, <2>10 DEF PollTied, Poll
  <2>14. HighIsReal(q)
    <3>1. SUFFICES ASSUME q.previous # None, m.high, s.sound, q.previous.sound
                   PROVE  100 * (s.carried - q.previous.carried) >=
                              K!HighUtilizationThresholdPercent * Capacity * (s.clock - q.previous.clock)
      BY <2>9, <2>10 DEF HighIsReal
    <3>2. q.previous \in Snapshot /\ K!High(s, q.previous)
      BY <2>9, <2>10, <2>13, <3>1
    <3>3. q.previous.carried + s.octets <= s.carried + q.previous.octets
      BY <2>7, <2>10, <2>13, <3>1 DEF Tied
    <3>4. QED
      BY <2>7, <3>2, <3>3, HighWasCarried
  <2>15. PollTied(q)
    BY <2>9, <2>10, <2>12, <2>13, <2>14 DEF PollTied
  <2>16. PollTied(q)'
    BY <1>5, <2>15, PollTiedStays
  <2>17. QED
    BY <1>1, <1>5, <1>6, <2>4, <2>10, <2>11, <2>16, EarlyKeeps DEF Early
<1>9. QED
  BY <1>2, <1>7, <1>8 DEF K!GetInterfaceMetrics

LEMMA SaveKeeps ==
    ASSUME StInv, NEW p \in Pollers, K!SaveMetricSnapshot(p)
    PROVE  StInv'
<1>1. p \in crew /\ poll[p].step = "save" /\ ~poll[p].insert
  BY DEF K!SaveMetricSnapshot, K!At
<1>2. PICK c : c = poll[p]
  OBVIOUS
<1>3. Fits(c) /\ PollTied(c) /\ DOMAIN poll = Pollers
  BY <1>2, PollNow
<1>4. c.link \in Links /\ c \in Poll /\ c.step = "save" /\ c.current \in FullMeasure
  BY <1>1, <1>2, <1>3 DEF Fits
<1>5. UNCHANGED <<crew, now, router, carried, events, shown>>
      /\ UNCHANGED router /\ UNCHANGED carried /\ (K!Fault \/ UNCHANGED faults)
  BY DEF K!SaveMetricSnapshot, K!world
<1>6. CASE K!Skip(p) /\ UNCHANGED snapshots
  <2>1. PICK q : Fresh(q) /\ poll' = [poll EXCEPT ![p] = q]
    BY <1>1, <1>6, SkipIsFresh
  <2>2. q.step \in Early /\ Fits(q) /\ ~q.insert
    BY <2>1 DEF Fresh, Early
  <2>3. /\ snapshots' \in [Links -> SUBSET Snapshot]
        /\ \A k \in Links : \A s \in snapshots'[k] : Tied(k, s)'
    BY <1>5, <1>6, SnapshotsStay
  <2>4. QED
    BY <1>1, <1>5, <2>1, <2>2, <2>3, FreshIsTied, EarlyKeeps DEF Early
<1>7. CASE /\ K!Store(poll[p].link, poll[p].current.snapshot)
           /\ poll' = [poll EXCEPT ![p].step = "down", ![p].previous = None,
                                   ![p].current = [@ EXCEPT !.snapshot = None]]
  <2>1. PICK m : m = [c.current EXCEPT !.snapshot = None]
    OBVIOUS
  <2>2. PICK q : q = [c EXCEPT !.step = "down", !.previous = None, !.current = m]
    OBVIOUS
  <2>3. poll' = [poll EXCEPT ![p] = q]
    BY <1>2, <1>3, <1>7, <2>1, <2>2
  <2>4. m \in Measure
    BY <1>4, <2>1 DEF FullMeasure, Measure
  <2>5. q \in Poll /\ q.step = "down" /\ q.link = c.link /\ q.current = m /\ q.previous = None /\ ~q.insert
    BY <1>1, <1>2, <1>4, <2>2, <2>4 DEF Poll, PollSteps, Judging
  <2>6. Fits(q)
    BY <1>4, <2>4, <2>5 DEF Fits, Judging
  <2>7. PollTied(q)'
    BY <2>5 DEF PollTied
  <2>8. c.current.snapshot \in Snapshot /\ Tied(c.link, c.current.snapshot)
    BY <1>3, <1>4 DEF PollTied, FullMeasure
  <2>9. /\ snapshots' \in [Links -> SUBSET Snapshot]
        /\ \A k \in Links : \A s \in snapshots'[k] : Tied(k, s)'
    BY <1>2, <1>4, <1>5, <1>7, <2>8, StoreKeeps
  <2>10. QED
    BY <1>1, <1>5, <2>3, <2>5, <2>6, <2>7, <2>9, EarlyKeeps DEF Early
<1>8. QED
  BY <1>6, <1>7 DEF K!SaveMetricSnapshot

-----------------------------------------------------------------------------
(* The rules.                                                               *)

LEMMA RuleKeeps ==
    ASSUME StInv, NEW p \in crew, NEW q, Fits(q), q.step # "save", q.previous = None,
           poll' = [poll EXCEPT ![p] = q],
           UNCHANGED <<crew, now, router, carried, snapshots>>, K!Fault \/ UNCHANGED faults,
           events' \in [Links -> [K!LinkRules -> [K!Slots -> Severities]]],
           shown' \in [Links -> Measure \cup {None}],
           crew = {p} => SoloOK(q)'
    PROVE  StInv'
<1>1. faults' \in Nat /\ faults' <= MaxFaults
  BY FaultCounts
<1>2. UNCHANGED snapshots /\ UNCHANGED router /\ UNCHANGED carried
  OBVIOUS
<1>3. /\ snapshots' \in [Links -> SUBSET Snapshot]
      /\ \A l \in Links : \A s \in snapshots'[l] : Tied(l, s)'
  BY <1>2, SnapshotsStay
<1>4. PollTied(q)'
  BY DEF PollTied
<1>5. QED
  BY <1>1, <1>3, <1>4, PollerKeeps

(* The severity a rule wants tells what the reading says.                   *)
RuleWants(rule, m, w) ==
    /\ w \in Severities
    /\ rule = "down" => (w # None <=> m.oper = "lower_layer_down")
    /\ rule = "high_utilization" => (w # None <=> m.high)
    /\ rule = "high_errors" =>
        (w # None <=> m.errors >= 100) /\ (w = "critical" <=> m.errors >= 1000)

LEMMA WantedIs ==
    ASSUME NEW p, NEW rule \in K!LinkRules, NEW m \in Measure, m = poll[p].current
    PROVE  RuleWants(rule, m, K!Wanted(p, rule))
<1>1. /\ m.oper \in Opers /\ m.errors \in Nat /\ m.high \in BOOLEAN
      /\ None # "critical" /\ None # "warning"
  BY StatusNumbers DEF Measure
<1>2. CASE rule = "down"
  BY <1>1, <1>2 DEF K!Wanted, RuleWants, Severities, Opers
<1>3. CASE rule = "high_utilization"
  BY <1>1, <1>3 DEF K!Wanted, RuleWants, Severities, K!HighUtilizationSeverity
<1>4. CASE rule = "high_errors"
  <2>1. K!TotalErrors(p) = m.errors
    BY DEF K!TotalErrors
  <2>2. K!Wanted(p, rule) = IF m.errors >= 1000 THEN "critical"
                            ELSE IF m.errors >= 100 THEN "warning" ELSE None
    BY <1>4, <2>1 DEF K!Wanted, K!ErrorRateCriticalThreshold, K!ErrorRateWarningThreshold
  <2>3. m.errors >= 1000 => m.errors >= 100
    BY <1>1
  <2>4. QED
    BY <1>1, <1>4, <2>2, <2>3 DEF RuleWants, Severities
<1>5. QED
  BY <1>2, <1>3, <1>4 DEF K!LinkRules

(* The rows of a rule show what it wants, and are at most one.              *)
RowsObey(rows, w) ==
    /\ w = None => \A k \in K!Slots : rows[k] = None
    /\ w # None => \E k \in K!Slots : rows[k] # None
    /\ \A k \in K!Slots : rows[k] # None => rows[k] = w
    /\ \E k \in K!Slots : \A j \in K!Slots : rows[j] # None => j = k

LEMMA JudgedShows ==
    ASSUME StInv, NEW c, Fits(c), SoloOK(c), NEW rule \in K!LinkRules, c.step = rule,
           NEW w, RuleWants(rule, c.current, w),
           NEW rows, RowsObey(rows, w), events' = [events EXCEPT ![c.link][rule] = rows], UNCHANGED shown,
           NEW q, q.step = K!After(rule), ~q.insert, q.link = c.link, q.current = c.current, q.clean = c.clean
    PROVE  SoloOK(q)'
<1>1. c.link \in Links
  BY DEF Fits, K!LinkRules
<1>2. events \in [Links -> [K!LinkRules -> [K!Slots -> Severities]]]
  BY TypesNow
<1>3. /\ events'[c.link][rule] = rows
      /\ \A l \in Links : l # c.link => events'[l] = events[l]
      /\ \A r \in K!LinkRules : r # rule => events'[c.link][r] = events[c.link][r]
  BY <1>1, <1>2
<1>4. \A r \in K!LinkRules : r # rule => K!OpenIn(c.link, r)' = K!OpenIn(c.link, r)
  BY <1>3, OpenStays
<1>5. K!OpenIn(c.link, rule)' = {k \in K!Slots : rows[k] # None}
  BY <1>3 DEF K!OpenIn
<1>6. PICK open : open = {k \in K!Slots : rows[k] # None}
  OBVIOUS
<1>7. (open # {} <=> w # None) /\ (\A k \in open : rows[k] = w) /\ \E k \in K!Slots : open \subseteq {k}
  BY <1>6 DEF RowsObey
<1>8. q.step \in {"high_utilization", "high_errors", "evaluated"}
  BY DEF K!After, K!LinkRules
<1>9. ShowsLast(q)'
  <2>1. ASSUME NEW l \in Links, shown[l] # None, l # c.link
        PROVE  Shown(l, shown[l])'
    <3>1. Shown(l, shown[l])
      BY <2>1 DEF SoloOK, ShowsLast
    <3>2. PICK m : m = shown[l]
      OBVIOUS
    <3>3. Shown(l, m)'
      BY <1>3, <2>1, <3>1, <3>2, ShownStays
    <3>4. QED
      BY <3>2, <3>3
  <2>2. q.step \notin Early
    BY <1>8 DEF Early
  <2>3. QED
    BY <2>1, <2>2 DEF ShowsLast
<1>10. OneEach(q)'
  <2>1. ASSUME NEW l \in Links, NEW r \in K!LinkRules
        PROVE  AtMostOne(l, r)'
    <3>1. CASE l = c.link /\ r = rule
      BY <1>5, <1>6, <1>7, <3>1 DEF AtMostOne
    <3>2. CASE ~(l = c.link /\ r = rule)
      <4>1. events'[l][r] = events[l][r]
        BY <1>3, <3>2
      <4>2. QED
        BY <4>1, OpenStays DEF AtMostOne, SoloOK, OneEach
    <3>3. QED
      BY <3>1, <3>2
  <2>2. QED
    BY <2>1 DEF OneEach
<1>11. CASE ~c.clean
  BY <1>9, <1>10, <1>11 DEF SoloOK, ShowsSoFar
<1>12. CASE c.clean /\ rule = "down"
  <2>1. DownShown(c.link, c.current)'
    BY <1>5, <1>6, <1>7, <1>12 DEF DownShown, RuleWants
  <2>2. q.step = "high_utilization"
    BY <1>12 DEF K!After
  <2>3. QED
    BY <1>9, <1>10, <2>1, <2>2 DEF SoloOK, ShowsSoFar
<1>13. CASE c.clean /\ rule = "high_utilization"
  <2>1. UtilizationShown(c.link, c.current)'
    BY <1>5, <1>6, <1>7, <1>13 DEF UtilizationShown, RuleWants
  <2>2. DownShown(c.link, c.current)'
    <3>1. DownShown(c.link, c.current)
      BY <1>13 DEF SoloOK, ShowsSoFar
    <3>2. QED
      BY <1>4, <1>13, <3>1 DEF DownShown, K!LinkRules
  <2>3. q.step = "high_errors"
    BY <1>13 DEF K!After
  <2>4. QED
    BY <1>9, <1>10, <2>1, <2>2, <2>3 DEF SoloOK, ShowsSoFar
<1>14. CASE c.clean /\ rule = "high_errors"
  <2>1. ErrorsShown(c.link, c.current)'
    <3>1. /\ (w # None <=> c.current.errors >= 100)
          /\ (w = "critical" <=> c.current.errors >= 1000)
      BY <1>14 DEF RuleWants
    <3>2. events'[c.link]["high_errors"] = rows /\ K!OpenIn(c.link, "high_errors")' = open
      BY <1>3, <1>5, <1>6, <1>14
    <3>3. QED
      BY <1>7, <3>1, <3>2 DEF ErrorsShown
  <2>2. DownShown(c.link, c.current)' /\ UtilizationShown(c.link, c.current)'
    <3>1. DownShown(c.link, c.current) /\ UtilizationShown(c.link, c.current)
      BY <1>14 DEF SoloOK, ShowsSoFar
    <3>2. QED
      BY <1>4, <1>14, <3>1 DEF DownShown, UtilizationShown, K!LinkRules
  <2>3. QED
    BY <1>9, <1>10, <2>1, <2>2 DEF SoloOK, ShowsSoFar
<1>15. QED
  BY <1>11, <1>12, <1>13, <1>14 DEF K!LinkRules

(* A rule that is dealt with.                                               *)
LEMMA JudgedKeeps ==
    ASSUME StInv, NEW p \in crew, NEW rule \in K!LinkRules, poll[p].step = rule, K!Goto(p, K!After(rule)),
           NEW rows \in [K!Slots -> Severities], events' = [events EXCEPT ![poll[p].link][rule] = rows],
           crew = {p} => RowsObey(rows, K!Wanted(p, rule)),
           UNCHANGED <<crew, now, router, carried, snapshots, shown, faults>>
    PROVE  StInv'
<1>1. PICK c : c = poll[p]
  OBVIOUS
<1>2. Fits(c) /\ DOMAIN poll = Pollers /\ p \in Pollers /\ (crew = {p} => SoloOK(c))
  BY <1>1, TypesNow, PollNow
<1>3. c \in Poll /\ c.link \in Links /\ c.current \in Measure /\ c.previous = None /\ c.step = rule
  BY <1>1, <1>2 DEF Fits, K!LinkRules, Judging
<1>4. PICK q : q = [c EXCEPT !.step = K!After(rule), !.insert = FALSE]
  OBVIOUS
<1>5. poll' = [poll EXCEPT ![p] = q]
  BY <1>1, <1>2, <1>4 DEF K!Goto
<1>6. K!After(rule) \in {"high_utilization", "high_errors", "evaluated"}
  BY DEF K!After, K!LinkRules
<1>7. /\ q \in Poll /\ q.step = K!After(rule) /\ q.insert = FALSE /\ q.link = c.link
      /\ q.current = c.current /\ q.clean = c.clean /\ q.previous = None
  BY <1>3, <1>4, <1>6 DEF Poll, PollSteps, Judging
<1>8. Fits(q)
  BY <1>3, <1>6, <1>7 DEF Fits, Judging
<1>9. events' \in [Links -> [K!LinkRules -> [K!Slots -> Severities]]] /\ shown' \in [Links -> Measure \cup {None}]
  BY TypesNow
<1>10. crew = {p} => SoloOK(q)'
  <2>1. PICK w : w = K!Wanted(p, rule)
    OBVIOUS
  <2>2. RuleWants(rule, c.current, w)
    BY <1>1, <1>3, <2>1, WantedIs
  <2>3. QED
    BY <1>1, <1>2, <1>3, <1>7, <2>1, <2>2, JudgedShows
<1>11. q.step # "save"
  BY <1>6, <1>7
<1>12. QED
  BY <1>5, <1>7, <1>8, <1>9, <1>10, <1>11, RuleKeeps

LEMMA RuleNow ==
    ASSUME StInv, NEW p \in Pollers, NEW rule \in K!LinkRules, K!At(p, rule) \/ K!Inserting(p, rule)
    PROVE  /\ p \in crew /\ poll[p].step = rule /\ poll[p].link \in Links /\ poll[p] \in Poll
           /\ poll[p].current \in Measure /\ poll[p].previous = None /\ Fits(poll[p])
           /\ events[poll[p].link][rule] \in [K!Slots -> Severities]
<1>1. poll[p].step = rule /\ (p \in crew \/ poll[p].insert)
  BY DEF K!At, K!Inserting
<1>2. Fits(poll[p]) /\ (p \notin crew => poll[p] = K!Idle)
  BY PollNow
<1>3. p \in crew
  BY <1>1, <1>2, IdleFits
<1>4. /\ poll[p].link \in Links /\ poll[p] \in Poll
      /\ poll[p].current \in Measure /\ poll[p].previous = None
  BY <1>1, <1>2 DEF Fits, Judging, K!LinkRules
<1>5. events[poll[p].link][rule] \in [K!Slots -> Severities]
  BY <1>4, TypesNow
<1>6. QED
  BY <1>1, <1>2, <1>3, <1>4, <1>5

LEMMA TouchKeeps ==
    ASSUME StInv, NEW p \in Pollers, NEW rule \in K!LinkRules, K!Touch(p, rule)
    PROVE  StInv'
<1>1. K!At(p, rule) /\ K!Wanted(p, rule) # None
      /\ UNCHANGED <<crew, now, router, carried, snapshots, shown, faults>>
  BY DEF K!Touch, K!world
<1>2. PICK c : c = poll[p]
  OBVIOUS
<1>3. /\ p \in crew /\ c.step = rule /\ c.link \in Links /\ c \in Poll /\ ~c.insert
      /\ c.current \in Measure /\ c.previous = None /\ Fits(c)
      /\ events[c.link][rule] \in [K!Slots -> Severities] /\ DOMAIN poll = Pollers
  BY <1>1, <1>2, RuleNow, PollNow DEF K!At
<1>4. CASE K!OpenIn(c.link, rule) = {} /\ poll' = [poll EXCEPT ![p].insert = TRUE] /\ UNCHANGED events
  <2>1. PICK q : q = [c EXCEPT !.insert = TRUE]
    OBVIOUS
  <2>2. poll' = [poll EXCEPT ![p] = q]
    BY <1>2, <1>3, <1>4, <2>1
  <2>3. /\ q \in Poll /\ q.step = rule /\ q.insert = TRUE /\ q.link = c.link
        /\ q.current = c.current /\ q.clean = c.clean /\ q.previous = None
    BY <1>3, <2>1 DEF Poll
  <2>4. Fits(q) /\ q.step # "save"
    BY <1>3, <2>3 DEF Fits, K!LinkRules, Judging
  <2>5. events' \in [Links -> [K!LinkRules -> [K!Slots -> Severities]]] /\ shown' \in [Links -> Measure \cup {None}]
    BY <1>1, <1>4, TypesNow
  <2>6. crew = {p} => SoloOK(q)'
    <3>1. SUFFICES ASSUME SoloOK(c) PROVE SoloOK(q)'
      BY <1>2, <1>3, PollNow
    <3>2. ShowsLast(q) /\ ShowsSoFar(q)
      BY <1>3, <2>3, <3>1 DEF SoloOK, ShowsLast, ShowsSoFar
    <3>3. OneEach(q)
      BY <1>4, <2>3, <3>1 DEF SoloOK, OneEach
    <3>4. QED
      BY <1>1, <1>4, <3>2, <3>3, SoloStays DEF SoloOK
  <2>7. QED
    BY <1>1, <1>3, <2>2, <2>3, <2>4, <2>5, <2>6, RuleKeeps
<1>5. CASE /\ K!OpenIn(c.link, rule) # {}
           /\ K!Set(c.link, rule, K!OpenIn(c.link, rule), K!Wanted(p, rule)) /\ K!Goto(p, K!After(rule))
  <2>1. PICK w : w = K!Wanted(p, rule)
    OBVIOUS
  <2>2. w \in Severities
    BY <1>2, <1>3, <2>1, WantedIs DEF RuleWants
  <2>3. PICK rows : rows = [k \in K!Slots |-> IF k \in K!OpenIn(c.link, rule) THEN w ELSE events[c.link][rule][k]]
    OBVIOUS
  <2>4. rows \in [K!Slots -> Severities]
    BY <1>3, <2>2, <2>3
  <2>5. events' = [events EXCEPT ![c.link][rule] = rows]
    BY <1>5, <2>1, <2>3 DEF K!Set
  <2>6. crew = {p} => RowsObey(rows, w)
    <3>1. SUFFICES ASSUME SoloOK(c) PROVE RowsObey(rows, w)
      BY <1>2, <1>3, PollNow
    <3>2. \A k \in K!Slots : rows[k] = IF k \in K!OpenIn(c.link, rule) THEN w ELSE None
      BY <2>3 DEF K!OpenIn
    <3>3. PICK k \in K!Slots : K!OpenIn(c.link, rule) \subseteq {k}
      BY <1>3, <3>1 DEF SoloOK, OneEach, AtMostOne
    <3>4. k \in K!OpenIn(c.link, rule)
      BY <1>5, <3>3
    <3>5. QED
      BY <1>1, <2>1, <3>2, <3>3, <3>4 DEF RowsObey
  <2>7. QED
    BY <1>1, <1>2, <1>3, <1>5, <2>1, <2>4, <2>5, <2>6, JudgedKeeps
<1>6. QED
  BY <1>2, <1>4, <1>5 DEF K!Touch

LEMMA InsertKeeps ==
    ASSUME StInv, NEW p \in Pollers, NEW rule \in K!LinkRules, K!Insert(p, rule)
    PROVE  StInv'
<1>1. K!Inserting(p, rule) /\ K!Goto(p, K!After(rule))
      /\ UNCHANGED <<crew, now, router, carried, snapshots, shown, faults>>
  BY DEF K!Insert, K!world
<1>2. PICK c : c = poll[p]
  OBVIOUS
<1>3. /\ p \in crew /\ c.step = rule /\ c.link \in Links /\ c \in Poll /\ c.insert
      /\ c.current \in Measure
      /\ events[c.link][rule] \in [K!Slots -> Severities]
  BY <1>1, <1>2, RuleNow DEF K!Inserting
<1>4. PICK w : w = K!Wanted(p, rule)
  OBVIOUS
<1>5. w \in Severities
  BY <1>2, <1>3, <1>4, WantedIs DEF RuleWants
<1>6. PICK free : free = K!Slots \ K!OpenIn(c.link, rule)
  OBVIOUS
<1>7. PICK new : new = IF free = {} THEN {} ELSE {K!Min(free)}
  OBVIOUS
<1>8. PICK rows : rows = [k \in K!Slots |-> IF k \in new THEN w ELSE events[c.link][rule][k]]
  OBVIOUS
<1>9. rows \in [K!Slots -> Severities]
  BY <1>3, <1>5, <1>8
<1>10. events' = [events EXCEPT ![c.link][rule] = rows]
  BY <1>2, <1>4, <1>6, <1>7, <1>8 DEF K!Insert, K!Set
<1>11. crew = {p} => RowsObey(rows, w)
  <2>1. SUFFICES ASSUME SoloOK(c) PROVE RowsObey(rows, w)
    BY <1>2, <1>3, PollNow
  <2>2. K!OpenIn(c.link, rule) = {}
    BY <1>3, <2>1 DEF SoloOK, OneEach
  <2>3. free = {1, 2}
    BY <1>6, <2>2 DEF K!Slots
  <2>4. K!Min(free) \in {1, 2}
    <3>1. 1 \in free /\ \A y \in free : 1 <= y
      BY <2>3
    <3>2. K!Min(free) \in free
      BY <3>1 DEF K!Min
    <3>3. QED
      BY <2>3, <3>2
  <2>5. PICK n \in K!Slots : new = {n}
    BY <1>7, <2>3, <2>4 DEF K!Slots
  <2>6. \A k \in K!Slots : rows[k] = IF k = n THEN w ELSE None
    BY <1>8, <2>2, <2>5 DEF K!OpenIn
  <2>7. QED
    BY <2>6 DEF RowsObey
<1>12. QED
  BY <1>1, <1>2, <1>3, <1>4, <1>9, <1>10, <1>11, JudgedKeeps

(* A failure ends the evaluation, and it is noted.                          *)
LEMMA TouchFailsKeeps ==
    ASSUME StInv, NEW p \in Pollers, NEW rule \in K!LinkRules, K!TouchFails(p, rule)
    PROVE  StInv'
<1>1. /\ K!At(p, rule) \/ K!Inserting(p, rule)
      /\ K!Fault /\ K!Skip(p) /\ shown' = [shown EXCEPT ![poll[p].link] = None]
      /\ UNCHANGED <<crew, now, router, carried, snapshots>> /\ UNCHANGED events
  BY DEF K!TouchFails, K!world, K!tables
<1>2. PICK c : c = poll[p]
  OBVIOUS
<1>3. p \in crew /\ c.step = rule /\ c.link \in Links
  BY <1>1, <1>2, RuleNow
<1>4. PICK q : Fresh(q) /\ poll' = [poll EXCEPT ![p] = q]
  BY <1>1, <1>3, SkipIsFresh
<1>5. shown \in [Links -> Measure \cup {None}] /\ events \in [Links -> [K!LinkRules -> [K!Slots -> Severities]]]
  BY TypesNow
<1>6. crew = {p} => SoloOK(q)'
  <2>1. SUFFICES ASSUME SoloOK(c) PROVE SoloOK(q)'
    BY <1>2, PollNow
  <2>2. ASSUME NEW l \in Links, shown'[l] # None
        PROVE  Shown(l, shown[l])'
    <3>1. l # c.link /\ shown'[l] = shown[l]
      BY <1>1, <1>2, <1>3, <1>5, <2>2
    <3>2. Shown(l, shown[l])
      BY <2>1, <2>2, <3>1 DEF SoloOK, ShowsLast
    <3>3. PICK m : m = shown[l]
      OBVIOUS
    <3>4. Shown(l, m)'
      BY <1>1, <3>2, <3>3, ShownStays
    <3>5. QED
      BY <3>1, <3>3, <3>4
  <2>3. ShowsLast(q)'
    BY <2>2 DEF ShowsLast
  <2>4. ShowsSoFar(q)'
    BY <1>4 DEF Fresh, ShowsSoFar
  <2>5. OneEach(q)'
    BY <1>1, <1>4, <2>1, OpenStays DEF Fresh, SoloOK, OneEach, AtMostOne
  <2>6. QED
    BY <2>3, <2>4, <2>5 DEF SoloOK
<1>7. Fits(q) /\ q.step # "save" /\ q.previous = None
  BY <1>4 DEF Fresh
<1>8. events' \in [Links -> [K!LinkRules -> [K!Slots -> Severities]]] /\ shown' \in [Links -> Measure \cup {None}]
  BY <1>1, <1>5
<1>9. QED
  BY <1>1, <1>3, <1>4, <1>6, <1>7, <1>8, RuleKeeps

LEMMA ResolveKeeps ==
    ASSUME StInv, NEW p \in Pollers, NEW rule \in K!LinkRules, K!Resolve(p, rule)
    PROVE  StInv'
<1>1. K!At(p, rule) /\ K!Wanted(p, rule) = None /\ K!Goto(p, K!After(rule))
      /\ UNCHANGED <<crew, now, router, carried, snapshots, shown, faults>>
  BY DEF K!Resolve, K!world
<1>2. PICK c : c = poll[p]
  OBVIOUS
<1>3. /\ p \in crew /\ c.step = rule /\ c.link \in Links
      /\ events[c.link][rule] \in [K!Slots -> Severities]
  BY <1>1, <1>2, RuleNow
<1>4. events \in [Links -> [K!LinkRules -> [K!Slots -> Severities]]]
  BY TypesNow
<1>5. CASE K!Cardinality(K!OpenIn(c.link, rule)) > 1 /\ UNCHANGED events
  <2>1. PICK rows : rows = events[c.link][rule]
    OBVIOUS
  <2>2. events' = [events EXCEPT ![c.link][rule] = rows]
    BY <1>3, <1>4, <1>5, <2>1
  <2>3. ~(crew = {p})
    <3>1. SUFFICES ASSUME SoloOK(c) PROVE FALSE
      BY <1>2, PollNow
    <3>2. PICK k \in K!Slots : K!OpenIn(c.link, rule) \subseteq {k}
      BY <1>3, <3>1 DEF SoloOK, OneEach, AtMostOne
    <3>3. IsFiniteSet({k}) /\ Cardinality({k}) = 1
      BY FS_Singleton
    <3>4. Cardinality(K!OpenIn(c.link, rule)) <= 1 /\ Cardinality(K!OpenIn(c.link, rule)) \in Nat
      BY <3>2, <3>3, FS_Subset, FS_CardinalityType
    <3>5. QED
      BY <1>5, <3>4, StatusCounts
  <2>4. QED
    BY <1>1, <1>2, <1>3, <2>1, <2>2, <2>3, JudgedKeeps
<1>6. CASE K!Set(c.link, rule, K!Slots, None)
  <2>1. PICK rows : rows = [k \in K!Slots |-> IF k \in K!Slots THEN None ELSE events[c.link][rule][k]]
    OBVIOUS
  <2>2. rows \in [K!Slots -> Severities] /\ \A k \in K!Slots : rows[k] = None
    BY <2>1 DEF Severities
  <2>3. events' = [events EXCEPT ![c.link][rule] = rows]
    BY <1>6, <2>1 DEF K!Set
  <2>4. RowsObey(rows, K!Wanted(p, rule))
    BY <1>1, <2>2 DEF RowsObey, K!Slots
  <2>5. QED
    BY <1>1, <1>2, <1>3, <2>2, <2>3, <2>4, JudgedKeeps
<1>7. QED
  BY <1>2, <1>5, <1>6 DEF K!Resolve

LEMMA ResolveFailsKeeps ==
    ASSUME StInv, NEW p \in Pollers, NEW rule \in K!LinkRules, K!ResolveFails(p, rule)
    PROVE  StInv'
<1>1. /\ K!At(p, rule) /\ K!Fault
      /\ poll' = [poll EXCEPT ![p].step = K!After(rule), ![p].clean = FALSE]
      /\ UNCHANGED <<crew, now, router, carried, snapshots>> /\ UNCHANGED events /\ UNCHANGED shown
  BY DEF K!ResolveFails, K!world, K!tables
<1>2. PICK c : c = poll[p]
  OBVIOUS
<1>3. /\ p \in crew /\ c.step = rule /\ c.link \in Links /\ c \in Poll /\ ~c.insert
      /\ c.current \in Measure /\ c.previous = None /\ DOMAIN poll = Pollers
  BY <1>1, <1>2, RuleNow, PollNow DEF K!At
<1>4. PICK q : q = [c EXCEPT !.step = K!After(rule), !.clean = FALSE]
  OBVIOUS
<1>5. poll' = [poll EXCEPT ![p] = q]
  BY <1>1, <1>2, <1>3, <1>4
<1>6. K!After(rule) \in {"high_utilization", "high_errors", "evaluated"}
  BY DEF K!After, K!LinkRules
<1>7. /\ q \in Poll /\ q.step = K!After(rule) /\ ~q.insert /\ q.link = c.link
      /\ q.current = c.current /\ q.clean = FALSE /\ q.previous = None
  BY <1>3, <1>4, <1>6 DEF Poll, PollSteps, Judging
<1>8. Fits(q) /\ q.step # "save"
  BY <1>3, <1>6, <1>7 DEF Fits, Judging
<1>9. events' \in [Links -> [K!LinkRules -> [K!Slots -> Severities]]] /\ shown' \in [Links -> Measure \cup {None}]
  BY <1>1, TypesNow
<1>10. crew = {p} => SoloOK(q)'
  <2>1. SUFFICES ASSUME SoloOK(c) PROVE SoloOK(q)'
    BY <1>2, <1>3, PollNow
  <2>2. ShowsLast(q)
    BY <1>6, <1>7, <2>1 DEF SoloOK, ShowsLast, Early
  <2>3. ShowsSoFar(q) /\ OneEach(q)
    BY <1>7, <2>1 DEF SoloOK, ShowsSoFar, OneEach
  <2>4. QED
    BY <1>1, <2>2, <2>3, SoloStays DEF SoloOK
<1>11. QED
  BY <1>1, <1>3, <1>5, <1>7, <1>8, <1>9, <1>10, RuleKeeps

LEMMA EvaluatedKeeps ==
    ASSUME StInv, NEW p \in Pollers, K!Evaluated(p)
    PROVE  StInv'
<1>1. /\ p \in crew /\ poll[p].step = "evaluated" /\ ~poll[p].insert /\ K!Skip(p)
      /\ shown' = [shown EXCEPT ![poll[p].link] = IF poll[p].clean THEN poll[p].current ELSE None]
      /\ UNCHANGED <<crew, now, router, carried, snapshots>> /\ UNCHANGED events /\ UNCHANGED faults
  BY DEF K!Evaluated, K!At, K!world, K!tables
<1>2. PICK c : c = poll[p]
  OBVIOUS
<1>3. Fits(c) /\ c.link \in Links /\ c.current \in Measure /\ c.step = "evaluated"
  BY <1>1, <1>2, PollNow DEF Fits, Judging
<1>4. PICK q : Fresh(q) /\ poll' = [poll EXCEPT ![p] = q]
  BY <1>1, SkipIsFresh
<1>5. shown \in [Links -> Measure \cup {None}] /\ events \in [Links -> [K!LinkRules -> [K!Slots -> Severities]]]
  BY TypesNow
<1>6. crew = {p} => SoloOK(q)'
  <2>1. SUFFICES ASSUME SoloOK(c) PROVE SoloOK(q)'
    BY <1>2, PollNow
  <2>2. ASSUME NEW l \in Links, shown'[l] # None
        PROVE  Shown(l, shown[l])'
    <3>1. PICK m : m = shown'[l]
      OBVIOUS
    <3>2. Shown(l, m)
      <4>1. CASE l = c.link
        <5>1. c.clean /\ m = c.current
          BY <1>1, <1>2, <1>3, <1>5, <2>2, <3>1, <4>1
        <5>2. QED
          BY <1>3, <2>1, <4>1, <5>1 DEF SoloOK, ShowsSoFar, Shown
      <4>2. CASE l # c.link
        <5>1. m = shown[l]
          BY <1>1, <1>2, <1>3, <1>5, <3>1, <4>2
        <5>2. QED
          BY <2>1, <2>2, <3>1, <4>2, <5>1 DEF SoloOK, ShowsLast
      <4>3. QED
        BY <4>1, <4>2
    <3>3. Shown(l, m)'
      BY <1>1, <3>2, ShownStays
    <3>4. QED
      BY <3>1, <3>3
  <2>3. ShowsLast(q)'
    BY <2>2 DEF ShowsLast
  <2>4. ShowsSoFar(q)'
    BY <1>4 DEF Fresh, ShowsSoFar
  <2>5. OneEach(q)'
    BY <1>1, <1>4, <2>1, OpenStays DEF Fresh, SoloOK, OneEach, AtMostOne
  <2>6. QED
    BY <2>3, <2>4, <2>5 DEF SoloOK
<1>7. Fits(q) /\ q.step # "save" /\ q.previous = None
  BY <1>4 DEF Fresh
<1>8. events' \in [Links -> [K!LinkRules -> [K!Slots -> Severities]]] /\ shown' \in [Links -> Measure \cup {None}]
  BY <1>1, <1>2, <1>3, <1>5
<1>9. QED
  BY <1>1, <1>4, <1>6, <1>7, <1>8, RuleKeeps

LEMMA StatusSteps == StInv /\ [FollowNext]_all => StInv'
<1> SUFFICES ASSUME StInv, [FollowNext]_all PROVE StInv'
  OBVIOUS
<1>1. K!Next \/ UNCHANGED linkVars
  BY DEF FollowNext, OfAlarms, OfRow, OfLife, OfLink, OfSession, all
<1>2. CASE UNCHANGED linkVars
  BY <1>2, StatusStutters
<1>3. CASE K!Tick
  BY <1>3, TickKeeps
<1>4. ASSUME NEW l \in Links, K!Change(l) \/ K!SyncSnapshot(l)
      PROVE  StInv'
  BY <1>4, ChangeKeeps, SyncSnapshotKeeps
<1>5. ASSUME NEW p \in Pollers, K!pollAll(p) \/ K!Step(p)
      PROVE  StInv'
  <2>1. ASSUME NEW rule \in K!LinkRules,
               \/ K!Touch(p, rule) \/ K!Insert(p, rule) \/ K!TouchFails(p, rule)
               \/ K!Resolve(p, rule) \/ K!ResolveFails(p, rule)
        PROVE  StInv'
    BY <2>1, TouchKeeps, InsertKeeps, TouchFailsKeeps, ResolveKeeps, ResolveFailsKeeps
  <2>2. QED
    BY <1>5, <2>1, PollAllKeeps, GetLastKeeps, GetMetricsKeeps, SaveKeeps, EvaluatedKeeps DEF K!Step
<1>6. QED
  BY <1>1, <1>2, <1>3, <1>4, <1>5 DEF K!Next

LEMMA StatusMeaning == StInv => K!StatusInv
<1> SUFFICES ASSUME StInv PROVE K!StatusInv
  OBVIOUS
<1>1. K!TypeOK
  <2>1. now \in 0 .. MaxTime /\ faults \in 0 .. MaxFaults
    BY StatusNumbers DEF StInv, StatusTypes
  <2>2. \A p \in Pollers : poll[p].todo \subseteq Links /\ poll[p].link \in Links \cup {None}
    BY DEF StInv, PollsFit, Fits, Poll
  <2>3. \A l \in Links, r \in K!LinkRules : events[l][r] \in [K!Slots -> {None, "warning", "critical"}]
    BY DEF StInv, StatusTypes, Severities
  <2>4. QED
    BY <2>1, <2>2, <2>3 DEF StInv, StatusTypes, K!TypeOK
<1>2. ASSUME K!Solo
      PROVE  \E p \in Pollers : crew = {p} /\ SoloOK(poll[p])
  <2>1. IsFiniteSet(crew) /\ Cardinality(crew) = 1 /\ crew \subseteq Pollers
    BY <1>2, StatusNumbers, StatusCounts, FS_Subset DEF K!Solo, StInv, StatusTypes
  <2>2. PICK p : crew = {p}
    BY <2>1, FS_Singleton
  <2>3. QED
    BY <2>1, <2>2 DEF StInv, SoloShows
<1>3. K!OnePollerOneEvent
  <2>1. SUFFICES ASSUME K!Solo, NEW l \in Links, NEW r \in K!LinkRules
                 PROVE  K!Cardinality(K!OpenIn(l, r)) <= 1
    BY DEF K!OnePollerOneEvent
  <2>2. PICK k \in K!Slots : K!OpenIn(l, r) \subseteq {k}
    BY <1>2, <2>1 DEF SoloOK, OneEach, AtMostOne
  <2>3. IsFiniteSet({k}) /\ Cardinality({k}) = 1
    BY FS_Singleton
  <2>4. Cardinality(K!OpenIn(l, r)) <= 1
    BY <2>2, <2>3, FS_Subset
  <2>5. QED
    BY <2>4, StatusCounts
<1>4. K!EventsShowTheLastReading
  <2>1. SUFFICES ASSUME K!Solo, NEW l \in Links, shown[l] # None, \A p \in crew : poll[p].link # l
                 PROVE  Shown(l, shown[l])
    <3>1. \A l \in Links : ErrorsShown(l, shown[l]) => \A k \in K!OpenIn(l, "high_errors") :
            shown[l].errors >= IF events[l]["high_errors"][k] = "critical" THEN 1000 ELSE 100
      BY DEF ErrorsShown
    <3>2. QED
      BY <3>1 DEF K!EventsShowTheLastReading, Shown, DownShown, UtilizationShown
  <2>2. QED
    BY <1>2, <2>1 DEF SoloOK, ShowsLast
<1>5. K!NoFalseUtilization
  <2>1. SUFFICES ASSUME NEW p \in Pollers, poll[p].previous # None, poll[p].current # None
                 PROVE  HighIsReal(poll[p])
    BY DEF K!NoFalseUtilization, HighIsReal
  <2>2. Fits(poll[p]) /\ PollTied(poll[p])
    BY PollNow
  <2>3. poll[p].step = "save"
    <3>1. poll[p].step \in PollSteps
      BY <2>2 DEF Fits, Poll
    <3>2. poll[p].step \notin {"idle", "last", "metrics"} /\ poll[p].step \notin Judging
      BY <2>1, <2>2 DEF Fits
    <3>3. QED
      BY <3>1, <3>2 DEF PollSteps
  <2>4. QED
    BY <2>2, <2>3 DEF PollTied
<1>6. QED
  BY <1>1, <1>3, <1>4, <1>5 DEF K!StatusInv

(* Whatever pollers and the Zabbix sync do to the snapshots, a reading is of  *)
(* high utilisation only if the link carried that much (calculateUtilization);*)
(* with one poller, a link has at most one open event of each rule            *)
(* (CreateOrTouch), and the open events are those of the last reading that    *)
(* was evaluated to its end (evaluateEvents).                                 *)
THEOREM LinksAreShown == FollowSpec => []StatusInv
<1>1. StInv => StatusInv
  BY StatusMeaning DEF StatusInv
<1>2. FollowInit => StInv
  BY StatusStarts
<1>3. StInv /\ [FollowNext]_all => StInv'
  BY StatusSteps
<1>4. QED
  BY <1>1, <1>2, <1>3, PTL DEF FollowSpec
=============================================================================
