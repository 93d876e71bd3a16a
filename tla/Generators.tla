----------------------------- MODULE Generators -----------------------------
(***************************************************************************)
(* The ComAp controllers of generators: ComapScheduler, Reader and         *)
(* ComapIngestService over tower_endpoints, comap_readings and the status  *)
(* of towers.  cmd/api and cmd/scheduler both run the cycle, one endpoint  *)
(* after the other; what TowerService does with a status is in TowerRow.   *)
(*                                                                         *)
(* A reading is the time at which it began: all its columns are stored at  *)
(* once, and an unconfigured register leaves its column empty.             *)
(* Definitions that no other definition uses, each just before the one it  *)
(* resembles, are plausible bugs that the properties are tested with.      *)
(***************************************************************************)
EXTENDS Naturals, Sequences, FiniteSetsExt

CONSTANTS
    Processes,   \* processes that run the cycle
    Endpoints,   \* the enabled endpoints of generators, a sequence by created_at
    Batch,       \* the scheduler's batch size, at most 200
    MaxTime,     \* bound: the last instant
    MaxCycles,   \* bound: cycles begun
    MaxFaults,   \* bound: connections, registers and statements that fail
    None

Towers == {Endpoints[i] : i \in DOMAIN Endpoints}

VARIABLES
    now,
    endpoints,   \* the table tower_endpoints
    readings,    \* the table comap_readings
    status,      \* towers.status, as far as the cycles write it
    pc,          \* the step each process runs next
    todo,        \* the places left in its page, the one it is at first
    reading,     \* what it read of that tower
    cycles,      \* how many cycles were begun
    faults,      \* how many failures there were
    latest,      \* when the newest reading stored of each tower began
    promised,    \* the reading on which each tower was last found online
    together,    \* towers that both processes were at, at the same time
    unmarked     \* towers whose failure could not be written

vars == <<now, endpoints, readings, status, pc, todo, reading, cycles, faults,
          latest, promised, together, unmarked>>

Reading == 0 .. MaxTime
Endpoint == [addressed : BOOLEAN, decrypts : BOOLEAN]

Parameters ==
    /\ Endpoints \in Seq(Towers)
    /\ Batch \in Nat /\ MaxTime \in Nat
    /\ None \notin Nat

Init ==
    /\ now = 0
    /\ endpoints \in [Towers -> Endpoint]
    /\ readings = [t \in Towers |-> None]
    /\ status = [t \in Towers |-> "no_data"]
    /\ pc = [p \in Processes |-> "List"]
    /\ todo = [p \in Processes |-> {}]
    /\ reading = [p \in Processes |-> None]
    /\ cycles = 0
    /\ faults = 0
    /\ latest = [t \in Towers |-> None]
    /\ promised = [t \in Towers |-> None]
    /\ together = {}
    /\ unmarked = {}

Tower(p) == Endpoints[Min(todo[p])]
Nearest(places) == IF places = {} THEN {} ELSE {Endpoints[Min(places)]}
At(p) == Nearest(todo[p])

Fails == faults < MaxFaults /\ faults' = faults + 1

GoTo(p, step) == pc' = [pc EXCEPT ![p] = step] /\ UNCHANGED todo

\* The tower that p shares with another process, once it is where it goes.
Meets(p, places) ==
    together' = together \cup {t \in Nearest(places) : \E q \in Processes \ {p} : t \in At(q)}

\* The cycle continues with the rest of its page, or is over.
Goes(p, places) ==
    /\ todo' = [todo EXCEPT ![p] = places]
    /\ pc' = [pc EXCEPT ![p] = IF places = {} THEN "List" ELSE "Connect"]
    /\ reading' = [reading EXCEPT ![p] = None]
    /\ Meets(p, places)

Proceeds(p) == Goes(p, todo[p] \ {Min(todo[p])})

-----------------------------------------------------------------------------
\* List, with the page that its limit and no offset give.
Page == {i \in DOMAIN Endpoints : i <= Batch}
Decrypted == \A i \in Page : endpoints[Endpoints[i]].decrypts

\* Those that are not skipped for want of an address.
Addressed(places) == {i \in places : endpoints[Endpoints[i]].addressed}

\* One credential that does not decrypt, like a failed query, fails the whole list.
List(p) ==
    /\ pc[p] = "List"
    /\ cycles < MaxCycles
    /\ cycles' = cycles + 1
    /\ \/ /\ Decrypted
          /\ Goes(p, Addressed(Page))
          /\ UNCHANGED faults
       \/ /\ \/ Fails
             \/ ~Decrypted /\ UNCHANGED faults
          /\ UNCHANGED <<pc, todo, reading, together>>
    /\ UNCHANGED <<now, endpoints, readings, status, latest, promised, unmarked>>

\* NewTCPClient.
Connect(p) ==
    /\ pc[p] = "Connect"
    /\ \/ GoTo(p, "Read") /\ UNCHANGED faults
       \/ GoTo(p, "MarkUnreachable") /\ Fails
    /\ UNCHANGED <<now, endpoints, readings, status, reading, cycles,
                   latest, promised, together, unmarked>>

\* One register that fails, whether its value is stored or not, makes Read return an
\* error; the other values are dropped.
Read(p) ==
    /\ pc[p] = "Read"
    /\ \/ /\ reading' = [reading EXCEPT ![p] = now]
          /\ GoTo(p, "UpdateStatus")
          /\ UNCHANGED faults
       \/ /\ Fails
          /\ GoTo(p, "MarkUnreachable")
          /\ UNCHANGED reading
    /\ UNCHANGED <<now, endpoints, readings, status, cycles, latest, promised,
                   together, unmarked>>

\* Ingest writes the status before the reading.
UpdateStatus(p) ==
    /\ pc[p] = "UpdateStatus"
    /\ LET t == Tower(p)
       IN \/ /\ status' = [status EXCEPT ![t] = "online"]
             /\ promised' = [promised EXCEPT ![t] = reading[p]]
             /\ unmarked' = unmarked \ {t}
             /\ GoTo(p, "Upsert")
             /\ UNCHANGED faults
          \/ /\ Fails
             /\ GoTo(p, "MarkUnreachable")
             /\ UNCHANGED <<status, promised, unmarked>>
    /\ UNCHANGED <<now, endpoints, readings, reading, cycles, latest, together>>

\* A reading that is not stored is only logged.
UpsertOrLog(p) ==
    /\ pc[p] = "Upsert"
    /\ LET t == Tower(p)
           at == reading[p]
       IN \/ /\ readings' = [readings EXCEPT ![t] = at]
             /\ latest' = [latest EXCEPT ![t] = IF @ = None \/ @ < at THEN at ELSE @]
             /\ UNCHANGED faults
          \/ Fails /\ UNCHANGED <<readings, latest>>
    /\ Proceeds(p)
    /\ UNCHANGED <<now, endpoints, status, cycles, promised, unmarked>>

\* The row is replaced whatever its collected_at.
Upsert(p) ==
    /\ pc[p] = "Upsert"
    /\ LET t == Tower(p)
           at == reading[p]
       IN \/ /\ readings' = [readings EXCEPT ![t] = at]
             /\ latest' = [latest EXCEPT ![t] = IF @ = None \/ @ < at THEN at ELSE @]
             /\ Proceeds(p)
             /\ UNCHANGED faults
          \/ /\ Fails
             /\ GoTo(p, "MarkUnreachable")
             /\ UNCHANGED <<readings, latest, reading, together>>
    /\ UNCHANGED <<now, endpoints, status, cycles, promised, unmarked>>

\* Its error is logged.
MarkUnreachable(p) ==
    /\ pc[p] = "MarkUnreachable"
    /\ LET t == Tower(p)
       IN \/ /\ status' = [status EXCEPT ![t] = "offline"]
             /\ unmarked' = unmarked \ {t}
             /\ UNCHANGED faults
          \/ /\ Fails
             /\ unmarked' = unmarked \cup {t}
             /\ UNCHANGED status
    /\ Proceeds(p)
    /\ UNCHANGED <<now, endpoints, readings, cycles, latest, promised>>

\* The process stops: the schedulers are not waited for.
Stop(p) ==
    /\ todo[p] # {}
    /\ Fails
    /\ Goes(p, {})
    /\ unmarked' = unmarked \cup At(p)
    /\ UNCHANGED <<now, endpoints, readings, status, cycles, latest, promised>>

Tick ==
    /\ now < MaxTime
    /\ now' = now + 1
    /\ UNCHANGED <<endpoints, readings, status, pc, todo, reading, cycles, faults,
                   latest, promised, together, unmarked>>

Next ==
    \/ \E p \in Processes :
          \/ List(p) \/ Connect(p) \/ Read(p) \/ UpdateStatus(p)
          \/ Upsert(p) \/ MarkUnreachable(p) \/ Stop(p)
    \/ Tick

Spec == Init /\ [][Next]_vars

-----------------------------------------------------------------------------
TypeOK ==
    /\ now \in 0 .. MaxTime
    /\ endpoints \in [Towers -> Endpoint]
    /\ readings \in [Towers -> Reading \cup {None}]
    /\ status \in [Towers -> {"no_data", "online", "offline"}]
    /\ pc \in [Processes -> {"List", "Connect", "Read", "UpdateStatus", "Upsert",
                             "MarkUnreachable"}]
    /\ reading \in [Processes -> Reading \cup {None}]
    /\ together \subseteq Towers
    /\ unmarked \subseteq Towers

\* The row never shows a reading older than one it has shown, unless both
\* processes were at the tower at once (Upsert).
ReadingsGoForward ==
    \A t \in Towers : readings[t] # None =>
        readings[t] = latest[t] \/ t \in together

\* An online tower that no cycle is at shows the reading that found it online or
\* a later one, unless the failure to store it could not be written either, or the
\* process stopped between the two (Ingest, MarkUnreachable).
OnlineShowsItsReading ==
    \A t \in Towers :
        status[t] = "online" /\ (\A p \in Processes : t \notin At(p)) =>
            \/ t \in unmarked \/ t \in together
            \/ readings[t] # None /\ readings[t] >= promised[t]

\* One endpoint whose credential does not decrypt keeps every tower of the page
\* as it is, and one beyond the page is never visited (List).
OneBadCredentialStopsAll ==
    \A t \in Towers : status[t] # "no_data" =>
        Decrypted /\ \E i \in Page : Endpoints[i] = t

GeneratorsInv ==
    /\ TypeOK /\ ReadingsGoForward
    /\ OnlineShowsItsReading /\ OneBadCredentialStopsAll
=============================================================================
