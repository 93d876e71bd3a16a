---------------------------- MODULE ServiceLife ----------------------------
(***************************************************************************)
(* The life of towercore's processes: copies of cmd/api, which migrate the *)
(* database, serve requests and run the schedulers, and of cmd/scheduler,  *)
(* which only runs schedulers.  They start, are signalled, fail and crash  *)
(* independently and share the database.                                   *)
(*                                                                         *)
(* Abstracted: what a script or a request does, and the rounds of the      *)
(* schedulers, which are in CollectionCycle.                               *)
(*                                                                         *)
(* Definitions that no other definition uses, each just before the one it  *)
(* resembles, are plausible bugs that the properties are tested with.      *)
(***************************************************************************)
EXTENDS Integers, FiniteSets

CONSTANTS
    Apis,        \* copies of cmd/api
    Collectors,  \* copies of cmd/scheduler
    LastScript,  \* the scripts are 1 .. LastScript, in the order of their names
    Requests,    \* HTTP requests
    Workers,     \* the goroutines that run beside main: some of WorkerKinds
    EnvValues,   \* what a variable of the environment holds: numbers and None, none at all
    None,
    Second,      \* the nanoseconds of a second, 10^9
    Half,        \* half the values of an int64, 2^63
    MaxStarts,   \* bound: how often a process is started in all
    Faults       \* some of "crash", "db", "listen"

Processes == Apis \cup Collectors
Scripts == 1 .. LastScript
\* "traps" is the trap listener, "neteco" the loop written in main.
WorkerKinds == {"snmp", "comap", "neteco", "traps", "zabbix"}

Default == 60

\* What the proofs assume of the constants: processes are no words, and run one program.
Parameters ==
    /\ Apis \cap Collectors = {}
    /\ "clean" \notin Processes
    /\ LastScript \in Nat /\ MaxStarts \in Nat
    /\ EnvValues \subseteq Int \cup {None}
    /\ Second \in Nat \ {0} /\ Half \in Nat /\ Default * Second < Half

VARIABLES
    recorded,   \* the names in schema_migrations
    effects,    \* how often each script took effect (2: more than once)
    stage,      \* where main is
    script,     \* the script Migrate has come to
    signalled,  \* the processes whose signal context is done
    work,       \* the goroutine of each worker of each process
    request,    \* the process that has accepted each request, or what became of it
    starts,     \* how often a process was started
    culprit     \* the setting with which a ticker of each process panicked, else None

schema == <<recorded, effects>>
vars == <<recorded, effects, stage, script, signalled, work, request, starts, culprit>>

Init ==
    /\ recorded = {} /\ effects = [s \in Scripts |-> 0]
    /\ stage = [p \in Processes |-> "off"]
    /\ script = [p \in Processes |-> 1]
    /\ signalled = {}
    /\ work = [p \in Processes |-> [w \in Workers |-> "off"]]
    /\ request = [q \in Requests |-> "none"]
    /\ starts = 0
    /\ culprit = [p \in Processes |-> None]

-----------------------------------------------------------------------------
(* A process ends: its goroutines and its open requests end with it, and    *)
(* its open transaction is rolled back.                                     *)

Exit(p, how) ==
    /\ stage' = [stage EXCEPT ![p] = IF how = "panic" THEN how ELSE "off"]
    /\ work' = [work EXCEPT ![p] = [w \in Workers |-> "off"]]
    /\ request' = [q \in Requests |-> IF request[q] = p THEN how ELSE request[q]]
    /\ signalled' = signalled \ {p}
    /\ UNCHANGED <<script, starts>>

\* log.Fatalf
Fatal(p) == Exit(p, "fatal") /\ UNCHANGED <<schema, culprit>>

Crash(p) ==
    /\ "crash" \in Faults /\ stage[p] \notin {"off", "panic"}
    /\ Exit(p, "killed") /\ UNCHANGED <<schema, culprit>>

-----------------------------------------------------------------------------
(* The database is open; cmd/scheduler does not migrate it.                 *)

Start(p, from) ==
    /\ stage[p] \in {"off", "panic"} /\ starts < MaxStarts
    /\ starts' = starts + 1
    /\ culprit' = [culprit EXCEPT ![p] = None]
    /\ stage' = [stage EXCEPT ![p] = "migrating"]
    /\ script' = [script EXCEPT ![p] = from]
    /\ UNCHANGED <<schema, signalled, work, request>>

StartPastTheEnd(p) == p \in Collectors /\ Start(p, LastScript + 2)

StartApi(p) == p \in Apis /\ Start(p, 1)
StartCollector(p) == p \in Collectors /\ Start(p, LastScript + 1)

\* database.Migrate: EXISTS, then a transaction with the script and its name.
At(p, s) == stage[p] = "migrating" /\ script[p] = s

IsApplied(p, s) ==
    /\ At(p, s) /\ s \in recorded
    /\ script' = [script EXCEPT ![p] = @ + 1]
    /\ UNCHANGED <<schema, stage, signalled, work, request, starts, culprit>>

IsNotApplied(p, s) ==
    /\ At(p, s) /\ s \notin recorded
    /\ stage' = [stage EXCEPT ![p] = "applying"]
    /\ UNCHANGED <<schema, script, signalled, work, request, starts, culprit>>

TookEffect(s) == effects' = [effects EXCEPT ![s] = IF @ < 2 THEN @ + 1 ELSE @]

\* The name is a primary key: another process may have recorded it meanwhile.
ApplyAnyway(p) ==
    /\ stage[p] = "applying"
    /\ TookEffect(script[p])
    /\ recorded' = recorded \cup {script[p]}
    /\ stage' = [stage EXCEPT ![p] = "migrating"]
    /\ script' = [script EXCEPT ![p] = @ + 1]
    /\ UNCHANGED <<signalled, work, request, starts, culprit>>

Apply(p) ==
    /\ stage[p] = "applying"
    /\ script[p] \notin recorded
    /\ TookEffect(script[p])
    /\ recorded' = recorded \cup {script[p]}
    /\ stage' = [stage EXCEPT ![p] = "migrating"]
    /\ script' = [script EXCEPT ![p] = @ + 1]
    /\ UNCHANGED <<signalled, work, request, starts, culprit>>

OneScriptIsEnough(p) == stage[p] = "migrating" /\ (script[p] > 1 \/ script[p] > LastScript)

IsMigrated(p) == stage[p] = "migrating" /\ script[p] > LastScript

\* A statement fails, or the name is taken by now.
MigrateGivesUp(p) ==
    /\ stage[p] = "applying"
    /\ "db" \in Faults \/ script[p] \in recorded
    /\ Fatal(p)

\* EnsureBootstrapUser, or before it what opens the database.
BootstrapFails(p) == "db" \in Faults /\ IsMigrated(p) /\ Fatal(p)

\* The HTTP server starts before the schedulers; its goroutine may fail at any time.
ListenAndServe(p) ==
    /\ IsMigrated(p)
    /\ stage' = [stage EXCEPT ![p] = "starting"]
    /\ UNCHANGED <<schema, script, signalled, work, request, starts, culprit>>

ListenFails(p) ==
    /\ "listen" \in Faults
    /\ p \in Apis /\ stage[p] \in {"starting", "waiting"}
    /\ Fatal(p)

-----------------------------------------------------------------------------
(* The workers.  A ticker is made of the interval.                          *)

getEnvIntAllowZero(v) == IF v = None THEN Default
                         ELSE IF v < 0 THEN Default ELSE v

getEnvInt(v) == IF v = None THEN Default
                ELSE IF v <= 0 THEN Default ELSE v

\* Two's complement.
Int64(x) == IF 0 - Half <= x /\ x < Half THEN x
            ELSE ((x + Half) % (2 * Half)) - Half

\* time.Duration(n) * time.Second
Interval(v) == Int64(getEnvInt(v) * Second)

\* NewTicker panics with an interval that is not positive.  The schedulers'
\* constructors replace such an interval; the loop of NetEco and the Zabbix scheduler
\* take theirs from the configuration as it is, and the listener has no ticker.
TickerPanics(w, v) == w \in {"neteco", "zabbix"} /\ Interval(v) <= 0

\* NETECO_ENABLED starts the loop and the trap listener.
StartWorkers(p) ==
    /\ stage[p] = "starting"
    /\ \E on \in SUBSET Workers, v \in EnvValues :
        /\ {"neteco", "traps"} \subseteq on \/ {"neteco", "traps"} \cap on = {}
        /\ IF \E w \in on : TickerPanics(w, v)
           THEN /\ Exit(p, "panic")
                /\ culprit' = [culprit EXCEPT ![p] = v]
           ELSE /\ stage' = [stage EXCEPT ![p] = "waiting"]
                /\ work' = [work EXCEPT ![p] =
                        [w \in Workers |-> IF w \in on THEN "on" ELSE "off"]]
                /\ UNCHANGED <<script, signalled, request, starts, culprit>>
    /\ UNCHANGED schema

\* ComAp's context is that of the signal, the others' are cancelled by main; nothing
\* stops the trap listener, whose handler has a context of its own.
Cancelled(p, w) ==
    \/ w = "comap" /\ p \in signalled
    \/ w \notin {"comap", "traps"} /\ stage[p] = "closing"

\* The round a worker is in, if any, is over and its select sees the context.
Leave(p, w) ==
    /\ work[p][w] = "on" /\ Cancelled(p, w)
    /\ work' = [work EXCEPT ![p][w] = "ended"]
    /\ UNCHANGED <<schema, stage, script, signalled, request, starts, culprit>>

-----------------------------------------------------------------------------
(* Requests, the signal and the shutdown.                                   *)

Open(p) == {q \in Requests : request[q] = p}

Listens(p) == p \in Apis /\ stage[p] \in {"starting", "waiting"}

Accept(p, q) ==
    /\ Listens(p) /\ request[q] = "none"
    /\ request' = [request EXCEPT ![q] = p]
    /\ UNCHANGED <<schema, stage, script, signalled, work, starts, culprit>>

Answer(q) ==
    /\ request[q] \in Processes
    /\ request' = [request EXCEPT ![q] = "answered"]
    /\ UNCHANGED <<schema, stage, script, signalled, work, starts, culprit>>

\* Before NotifyContext a signal kills; after it, main gets to it when it waits.
Signal(p) ==
    /\ p \notin signalled
    /\ IF stage[p] \in {"starting", "waiting"}
       THEN /\ signalled' = signalled \cup {p}
            /\ UNCHANGED <<stage, script, work, request, starts>>
       ELSE /\ stage[p] \in {"migrating", "applying"}
            /\ Exit(p, "killed")
    /\ UNCHANGED <<schema, culprit>>

\* main cancels the workers; server.Shutdown closes the listener.
Cancel(p) ==
    /\ stage[p] = "waiting" /\ p \in signalled
    /\ stage' = [stage EXCEPT ![p] = "closing"]
    /\ UNCHANGED <<schema, script, signalled, work, request, starts, culprit>>

\* server.Close instead of server.Shutdown
Close(p) ==
    /\ stage[p] = "closing"
    /\ Exit(p, "clean") /\ UNCHANGED <<schema, culprit>>

\* Shutdown waits for the open requests, nobody for the workers; cmd/scheduler returns.
Shutdown(p) ==
    /\ stage[p] = "closing"
    /\ Open(p) = {}
    /\ Exit(p, "clean") /\ UNCHANGED <<schema, culprit>>

NeverTimesOut(p) == FALSE

\* After SHUTDOWN_TIMEOUT_SECONDS.
ShutdownTimesOut(p) ==
    /\ stage[p] = "closing"
    /\ Open(p) # {}
    /\ Fatal(p)

-----------------------------------------------------------------------------
Main(p) ==
    \/ \E s \in Scripts : IsApplied(p, s) \/ IsNotApplied(p, s)
    \/ Apply(p) \/ MigrateGivesUp(p) \/ BootstrapFails(p) \/ ListenAndServe(p)
    \/ StartWorkers(p) \/ Cancel(p) \/ Shutdown(p) \/ ShutdownTimesOut(p)

Next ==
    \/ \E p \in Processes :
        \/ StartApi(p) \/ StartCollector(p) \/ Crash(p) \/ ListenFails(p) \/ Signal(p) \/ Main(p)
        \/ \E w \in Workers : Leave(p, w)
        \/ \E q \in Requests : Accept(p, q)
    \/ \E q \in Requests : Answer(q)

Spec == Init /\ [][Next]_vars

\* main is never blocked for ever: Migrate's statements return, Shutdown times out.
\* Nothing is assumed of requests, which may hang, nor of who starts a process.
FairSpec == Spec /\ \A p \in Processes : WF_vars(Main(p))

-----------------------------------------------------------------------------
TypeOK ==
    /\ recorded \subseteq Scripts
    /\ effects \in [Scripts -> 0 .. 2]
    /\ stage \in [Processes ->
            {"off", "migrating", "applying", "starting", "waiting", "closing", "panic"}]
    /\ script \in [Processes -> 1 .. LastScript + 1]
    /\ signalled \subseteq Processes
    /\ work \in [Processes -> [Workers -> {"off", "on", "ended"}]]
    /\ request \in [Requests ->
            Apis \cup {"none", "answered", "clean", "fatal", "killed", "panic"}]
    /\ starts \in 0 .. MaxStarts
    /\ culprit \in [Processes -> EnvValues \cup {None}]

\* The scripts take effect in their order, each once and together with its name,
\* whichever processes migrate at once and wherever they crash (Migrate).
ScriptsTakeEffectOnce ==
    /\ \E n \in 0 .. LastScript : recorded = 1 .. n
    /\ \A s \in Scripts : effects[s] = IF s \in recorded THEN 1 ELSE 0

\* No request is accepted before every script took effect, by this process or another
\* (cmd/api: Migrate before ListenAndServe).
ServesTheWholeSchema == \A p \in Apis : Listens(p) => recorded = Scripts

\* A process that ends without an error has answered every request it accepted
\* (cmd/api, "Graceful shutdown"): only a timeout, a failure or a crash cuts one.
CleanExitCutsNoRequest == \A q \in Requests : request[q] # "clean"

\* In nanoseconds the setting is no int64.
Overflows(v) == v # None /\ v * Second >= Half

\* No setting makes a ticker panic, negative ones, zero and none at all included, but
\* one of so many seconds that its nanoseconds overflow (config.getEnvInt).
OnlyOverflowPanics ==
    \A p \in Processes : stage[p] = "panic" => Overflows(culprit[p])

\* The invariants of starting and stopping together.
LifeInv ==
    TypeOK /\ ScriptsTakeEffectOnce /\ ServesTheWholeSchema /\ CleanExitCutsNoRequest /\ OnlyOverflowPanics

\* A process that is signalled ends, though requests hang and workers are busy.
SignalEndsProcess == \A p \in Processes : p \in signalled ~> stage[p] \in {"off", "panic"}
=============================================================================
