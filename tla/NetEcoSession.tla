---------------------------- MODULE NetEcoSession ----------------------------
(***************************************************************************)
(* The polls of the energy and the battery of a site through NetEco.  Each *)
(* process of towercore has a Client with a cookie jar and one loop; its   *)
(* session lives at NetEco, which may end it at any time, and a request of *)
(* an ended session is answered with a login page, after which doGet logs  *)
(* in and asks once more.  All processes use one account and write the     *)
(* same row of towers.                                                     *)
(*                                                                         *)
(* Abstracted: one tower; SOC stands for SOH and the backup time, the DC   *)
(* voltage for the currents; a reading is the version of the site it was   *)
(* taken from.  The poll loop is the only user of its Client, so that the  *)
(* mutex is never contended.                                               *)
(*                                                                         *)
(* Definitions that no other definition uses, each just before the one it  *)
(* resembles, are plausible bugs that the properties are tested with.      *)
(***************************************************************************)
EXTENDS Integers, FiniteSets

CONSTANTS
    Clients,      \* the processes, cmd/api and cmd/scheduler
    Texts,        \* siteConnectStatus as NetEco may write it
    MaxChanges,   \* bound: changes of the site
    MaxFaults,    \* bound: outages, ended sessions, refused logins, restarts, failed statements
    None

DcDevices == {"power", "distribution"}  \* mocIdDCPower, mocIdDCDistribution

Parameters ==
    /\ MaxChanges \in Nat /\ MaxFaults \in Nat
    /\ None \notin Nat

VARIABLES
    crew,       \* the clients whose processes run
    up,         \* NetEco can be reached
    exclusive,  \* a login ends the account's other sessions
    site,       \* its version and its text, the DC devices that report a voltage, and
                \* what NetEco's answers lack
    session,    \* of each client, what its JSESSIONID is worth: "none", "live" or "dead"
    loggedIn,
    poll,       \* where each client's loop is
    row,        \* the columns of the tower
    faults

vars == <<crew, up, exclusive, site, session, loggedIn, poll, row, faults>>
net == <<crew, up, exclusive, site>>
client == <<session, loggedIn>>

\* copy: the tower as listed; got, failed: the fetches that succeeded and failed.  The
\* rest is what the properties ask for: the version of the site when the poll began, how
\* often this fetch lost its session, whether NetEco failed it, and the failed fetches
\* with an excuse.
Idle(step) ==
    [step |-> step, fetch |-> "battery", copy |-> None, got |-> {}, failed |-> {},
     connect |-> None, from |-> 0, lost |-> 0, trouble |-> FALSE, excused |-> {}]

Sites == [version : {0}, connect : Texts, dc : SUBSET DcDevices,
          lacks : {{}, {"data"}, {"batGroupSohDataList"}, {"siteCounterInfo"}}]

Init ==
    /\ crew \in (SUBSET Clients) \ {{}}
    /\ up = TRUE
    /\ exclusive \in BOOLEAN
    /\ site \in Sites
    /\ session = [c \in Clients |-> "none"]
    /\ loggedIn = [c \in Clients |-> FALSE]
    /\ poll = [c \in Clients |-> Idle("start")]
    /\ row \in [status : {"no_data", "degraded"}, soc : {None}, volts : {None}]
    /\ faults = 0

Fault == faults < MaxFaults /\ faults' = faults + 1
NoFault == UNCHANGED faults

-----------------------------------------------------------------------------
(* The site and NetEco.                                                     *)

SiteChanges ==
    /\ site.version < MaxChanges
    /\ \E t \in Texts : site' = [site EXCEPT !.version = @ + 1, !.connect = t]
    /\ UNCHANGED <<crew, up, exclusive, client, poll, row, faults>>

Outage == up /\ Fault /\ up' = FALSE /\ UNCHANGED <<crew, exclusive, site, client, poll, row>>
Return == ~up /\ up' = TRUE /\ UNCHANGED <<crew, exclusive, site, client, poll, row, faults>>

\* The sessions of cs end; a fetch under way has then lost one.
Ended(cs) == [d \in Clients |-> IF d \in cs /\ session[d] = "live" THEN "dead" ELSE session[d]]
Loss(p, d, cs) ==
    IF d \in cs /\ session[d] = "live" /\ p[d].step \in {"first", "second"}
    THEN [p[d] EXCEPT !.lost = @ + 1] ELSE p[d]

SessionEnds(c) ==
    /\ session[c] = "live" /\ Fault
    /\ session' = Ended({c})
    /\ poll' = [d \in Clients |-> Loss(poll, d, {c})]
    /\ UNCHANGED <<net, loggedIn, row>>

-----------------------------------------------------------------------------
(* Client.                                                                  *)

\* The other sessions of the account, when NetEco keeps one.
Others(c) == IF exclusive THEN Clients \ {c} ELSE {}

\* The client goes on with p.
Granted(c, p) ==
    /\ up
    /\ session' = [Ended(Others(c)) EXCEPT ![c] = "live"]
    /\ loggedIn' = [loggedIn EXCEPT ![c] = TRUE]
    /\ poll' = [d \in Clients |-> IF d = c THEN p ELSE Loss(poll, d, Others(c))]
    /\ NoFault

Unreachable(c, p) ==
    /\ ~up
    /\ loggedIn' = [loggedIn EXCEPT ![c] = FALSE]
    /\ poll' = [poll EXCEPT ![c] = p]
    /\ UNCHANGED session /\ NoFault

\* 200 without a new cookie: an old one in the jar, dead as it may be, passes for the
\* new one.
Refused(c, passed, failed) ==
    /\ up /\ Fault
    /\ loggedIn' = [loggedIn EXCEPT ![c] = session[c] # "none"]
    /\ poll' = [poll EXCEPT ![c] = IF session[c] # "none" THEN passed ELSE failed]
    /\ UNCHANGED session

Troubled(p) == [p EXCEPT !.trouble = TRUE]

\* The rest of a fetch that failed; its excuse is NetEco, or two lost sessions.
AfterFetch(p) ==
    [p EXCEPT !.step = IF p.fetch = "battery" THEN "enter" ELSE "write",
              !.fetch = "energy", !.lost = 0, !.trouble = FALSE]
Failed(p) ==
    AfterFetch([p EXCEPT !.failed = @ \cup {p.fetch},
                         !.excused = IF p.trouble \/ p.lost = 2 THEN @ \cup {p.fetch} ELSE @])

doLogin(c, next) ==
    \/ Granted(c, [poll[c] EXCEPT !.step = next])
    \/ Unreachable(c, Failed(Troubled(poll[c])))
    \/ Refused(c, Troubled([poll[c] EXCEPT !.step = next]), Failed(Troubled(poll[c])))

\* Login, once before the loop is started; its failure is only logged.
Login(c) ==
    /\ poll[c].step = "start"
    /\ \/ Granted(c, Idle("idle"))
       \/ Unreachable(c, Idle("idle"))
       \/ Refused(c, Idle("idle"), Idle("idle"))
    /\ UNCHANGED <<net, row>>

\* doGet up to the first request.
enter(c) ==
    /\ poll[c].step = "enter"
    /\ IF loggedIn[c]
       THEN /\ poll' = [poll EXCEPT ![c].step = "first",
                                    ![c].lost = IF session[c] = "live" THEN 0 ELSE 1]
            /\ UNCHANGED client /\ NoFault
       ELSE doLogin(c, "first")
    /\ UNCHANGED <<net, row>>

\* isSessionInvalid: a login page, or SM_SESSIONID_INVALID.
isSessionInvalid(c) == session[c] # "live"

-----------------------------------------------------------------------------
(* The mappers.                                                             *)

\* mapBatteryStatus; -1 is stored as NULL.
mapBatteryStatus ==
    [soc |-> IF "batGroupSohDataList" \in site.lacks THEN None ELSE site.version,
     connect |-> site.connect]

\* mapSiteCounterInfo: the devices come in any order and the last one wins, with or
\* without a value.
Voltage(d) == IF d \in site.dc THEN site.version ELSE None
mapSiteCounterInfo == {Voltage(d) : d \in DcDevices}

applyBatteryStatus(p, b) ==
    [p EXCEPT !.copy.soc = b.soc, !.connect = b.connect, !.got = @ \cup {"battery"}]

applyEnergyStatusIfMeasured(p, v) ==
    [p EXCEPT !.copy.volts = IF v = None THEN @ ELSE v, !.got = @ \cup {"energy"}]

applyEnergyStatus(p, v) == [p EXCEPT !.copy.volts = v, !.got = @ \cup {"energy"}]

\* FetchBatteryStatus and FetchSiteCounterInfo, given the answer.
Answers(p) ==
    IF p.fetch = "battery"
    THEN IF "data" \in site.lacks THEN {Failed(Troubled(p))}
         ELSE {AfterFetch(applyBatteryStatus(p, mapBatteryStatus))}
    ELSE IF "siteCounterInfo" \in site.lacks THEN {Failed(Troubled(p))}
         ELSE {AfterFetch(applyEnergyStatus(p, v)) : v \in mapSiteCounterInfo}

\* attemptGet, first and second; the second one's invalid session leaves an empty body,
\* which is not JSON.
InvalidIsFinal(p) == Failed(p)

Invalid(p) == IF p.step = "first" THEN [p EXCEPT !.step = "again"] ELSE Failed(p)

attemptGet(c) ==
    /\ poll[c].step \in {"first", "second"}
    /\ poll' \in {[poll EXCEPT ![c] = p] : p \in
            IF ~up THEN {Failed(Troubled(poll[c]))}
            ELSE IF isSessionInvalid(c) THEN {Invalid(poll[c])}
            ELSE Answers(poll[c])}
    /\ UNCHANGED <<net, client, row, faults>>

again(c) ==
    /\ poll[c].step = "again"
    /\ doLogin(c, "second")
    /\ UNCHANGED <<net, row>>

-----------------------------------------------------------------------------
(* NetEcoIngestService.                                                     *)

\* The words of classifyNetEcoConnect that each text contains.
Down == {"disconnect", "disconnected", "offline", "down", "unreachable", "not connect",
         "not_connect", "no connect", "link down", "0"}
Up == {"connect", "connected", "online", "up", "normal", "1"}
Words(text) ==
    CASE text = "Connected" -> {"connect", "connected"}
      [] text = "Disconnected" -> {"disconnect", "disconnected", "connect", "connected"}
      [] text = "Not disconnected" -> {"disconnect", "disconnected", "connect", "connected"}
      [] text = "Not connected" -> {"not connect", "connect", "connected"}
      [] text \in {"0", "1"} -> {text}
      [] OTHER -> {}

classifyUpFirst(text) ==
    IF Words(text) \cap Up # {} THEN "up"
    ELSE IF Words(text) \cap Down # {} THEN "down" ELSE "unknown"

classifyNetEcoConnect(text) ==
    IF text # "Not disconnected" /\ Words(text) \cap Down # {} THEN "down"
    ELSE IF Words(text) \cap Up # {} THEN "up" ELSE "unknown"

\* PollEnergyStatus: the row is listed once per poll.
PollEnergyStatus(c) ==
    /\ poll[c].step = "idle"
    /\ poll' = [poll EXCEPT ![c] = [Idle("enter") EXCEPT !.copy = row, !.from = site.version]]
    /\ UNCHANGED <<net, client, row, faults>>

Status(p) ==
    LET state == IF p.connect = None THEN "unknown" ELSE classifyNetEcoConnect(p.connect)
    IN  IF p.got = {} \/ state = "down" THEN "offline"
        ELSE IF p.copy.status = "degraded" THEN "degraded" ELSE "online"

\* Upsert; its error is only logged.
Upsert(c) ==
    /\ poll[c].step = "write"
    /\ LET t == [poll[c].copy EXCEPT !.status = Status(poll[c])] IN
        /\ poll' = [poll EXCEPT ![c].step = "record", ![c].copy = t]
        /\ (row' = t /\ NoFault) \/ (UNCHANGED row /\ Fault)
    /\ UNCHANGED <<net, client>>

\* recordMetricSnapshot, after any poll: it stores the readings of the copy in metrics,
\* which no poll reads; those that failed to come are the old ones.
Sample(p) == p.copy
recordMetricSnapshot(c) ==
    /\ poll[c].step = "record"
    /\ poll' = [poll EXCEPT ![c] = Idle("idle")]
    /\ UNCHANGED <<net, client, row, faults>>

\* The process dies and starts again, with an empty jar.
Restart(c) ==
    /\ poll[c].step # "start" /\ Fault
    /\ poll' = [poll EXCEPT ![c] = Idle("start")]
    /\ session' = [session EXCEPT ![c] = "none"]
    /\ loggedIn' = [loggedIn EXCEPT ![c] = FALSE]
    /\ UNCHANGED <<net, row>>

Loop(c) ==
    \/ Login(c) \/ PollEnergyStatus(c) \/ enter(c) \/ attemptGet(c) \/ again(c)
    \/ Upsert(c) \/ recordMetricSnapshot(c)

Next ==
    \/ SiteChanges \/ Outage \/ Return
    \/ \E c \in crew : Loop(c) \/ SessionEnds(c) \/ Restart(c)

Spec == Init /\ [][Next]_vars
FairSpec == Spec /\ WF_vars(Return) /\ \A c \in Clients : WF_vars(Loop(c))

-----------------------------------------------------------------------------
(* Properties.                                                              *)

Readings == {None} \cup 0 .. MaxChanges
Rows == [status : {"no_data", "online", "offline", "degraded"}, soc : Readings, volts : Readings]

\* Every variable has its type; a client with a poll under way holds a tower.
TypeOK ==
    /\ up \in BOOLEAN /\ exclusive \in BOOLEAN
    /\ site.version \in 0 .. MaxChanges /\ site.connect \in Texts
    /\ session \in [Clients -> {"none", "live", "dead"}]
    /\ loggedIn \in [Clients -> BOOLEAN]
    /\ row \in Rows
    /\ faults \in 0 .. MaxFaults
    /\ \A c \in Clients :
        /\ poll[c].step \in {"start", "idle", "enter", "first", "again", "second", "write", "record"}
        /\ poll[c].step \notin {"start", "idle"} => poll[c].copy \in Rows
        /\ loggedIn[c] => session[c] # "none"

\* A fetch survives the loss of one session, before it or while it runs: it fails only if
\* NetEco cannot be reached or refuses or has no such data, or it loses two sessions (doGet:
\* "reautenticando uma vez"), to NetEco or to the login of the other process.
OneLostSessionIsSurvived == \A c \in Clients : poll[c].failed \subseteq poll[c].excused

\* A point of the history holds a reading from before its poll only if the fetch of it
\* failed in this poll.
OldPointHasCause ==
    \A c \in Clients : poll[c].step = "record" =>
        LET p == poll[c]  point == Sample(p)
        IN  /\ point.soc = None \/ point.soc >= p.from \/ "battery" \in p.failed
            /\ point.volts = None \/ point.volts >= p.from \/ "energy" \in p.failed

\* The invariants of the poll together.
SessionInv == TypeOK /\ OneLostSessionIsSurvived /\ OldPointHasCause

Shown == IF site.connect \in {"Disconnected", "Not connected", "0"} THEN {"offline"}
         ELSE {"online", "degraded"}

\* The row comes to show whether the site is connected, after the outages, ended sessions
\* and restarts, as long as NetEco tells it and keeps the sessions of both processes.
RowFollowsSite ==
    (~exclusive /\ "data" \notin site.lacks) => <>[](row.status \in Shown)
=============================================================================
