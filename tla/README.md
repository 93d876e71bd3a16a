# Verification of towercore and the analytics platform

TLA+ models of the Go backend that monitors telecom towers, the TLC runs that check them on small instances, and
TLAPS proofs of the properties that matter most. Source paths are relative to `src/`; `internal/` alone means
`towercore/internal/`.

1. The system — 2. The modules — 3. The runs — 4. Fairness — 5. The proofs — 6. Where the code and its documents
disagree — 7. Observations — 8. Not modelled — 9. Plan — 10. Running it

## 1. The system

Two programs of `towercore` share one PostgreSQL database: the API (`towercore/cmd/api`: HTTP handlers, all the
schedulers, the NetEco trap listener, a cache of towers in memory) and the scheduler (`towercore/cmd/scheduler`: the
schedulers again, no HTTP). The analytics platform (`AIP/cmd/scheduler`, `AIP/cmd/api`) polls towercore over HTTP
into a database of its own. Apart from migrations and batch inserts **no transaction spans two statements**: an
operation on a row is a read, a decision in Go and a write, and the other program may do anything in between. That
is what most of this project is about. The Go code has no lock across statements, and only one unique index guards
an invariant of the workflow (one open event for each tower and alarm key).

| Component | State | Operations | Talks to | What is hard | What makes it correct |
|---|---|---|---|---|---|
| **Alarm pipeline** (`services/snmp_ingest_service.go`, `event_service.go`, `neteco_alarm_service.go`, `ticket_service.go`, `event_repository.go`) | `events`, `tickets` | `Ingest`: evaluate the rules, resolve quiet alarms, create or touch firing ones, open a ticket for a new event; `HandleTrap`: the same for one key | called by the SNMP schedulers of both programs and by the trap listener | find and insert race with another process; the ticket is created after the event and only for a new one; several rules may share a key; traps are lost, repeated, reordered | one open event per alarm, one ticket per event, closed events stay closed, the board follows the equipment |
| **Ticket desk** (`ticket_service.go`, `ticket_repository.go`) | `tickets`, `audit_logs` | Create, Acknowledge, Close, audit | HTTP, alarm pipeline | check and update are two statements; the audit entry is a third whose error is dropped | status agrees with the stamps, the audit log tells no lie, closing is final |
| **Tower row** (`tower_service.go`, `tower_repository.go`, the ingest services) | one row of `towers` | UpdateStatus, MarkCollectionSuccess, MarkCollectionFailed, ConfigureSNMP, NetEco poll | schedulers, HTTP, NetEco | every writer reads the row and writes all the columns back | the row tells one story about the last collection and comes to show the device |
| **Tower cache** (`infrastructure/cache/tower_cache.go`, readers in `tower_service.go`) | entries by id and by list key, each with an expiry | GetByID, GetList, SetByID, SetList, InvalidateByID, InvalidateList | requests; writers inside and outside the process | a reader may store what it read before a write, after that write's invalidation; expiry is checked under one lock and deleted under another | staleness has a cause and ends; a list answers the question that was asked |
| **Collection cycle** (`scheduler/*_scheduler.go`) | the loop's offset, a semaphore, a WaitGroup, counters | CollectOnce, Start | `tower_repository.List`, collectors | pages of a growing table; a pool of goroutines | each tower once per cycle, every result counted, no tower starved |
| **Discovery triage** (`discovery_service.go`, `discovered_device_promotion_service.go`, `discovered_device_repository.go`) | `discovered_devices`, new `towers` | ScanCIDR/recordDevice, Promote, Ignore | HTTP, scans of both programs | read, save a tower and mark the device are three statements | a decision is never reopened, a promoted device names its tower, one tower per device |
| **AIP ingestion** (`AIP/internal/analytics/ingestion`, `repository/towercore/client.go`, `repository/postgres`) | a marker in memory; `ai_features`, `ai_events`, `site_incident_causes` | Collect, Confirm | towercore over HTTP | pages of a growing table, no unique keys, a cycle that fails half way, restarts | nothing is passed unseen, repeats have a cause, incidents are of stored events |
| **Sessions of the platform** (`AIP/internal/api/handlers/auth_handler.go`, `repository/postgres/users.go`, `refresh_tokens.go`) | `users`, `refresh_tokens` | Login, Refresh, Logout, ChangePassword, Bootstrap, CreateUser, UpdateUser | HTTP | a token is read, revoked and replaced in separate statements whose errors are dropped; failures and successes share a counter; the first user is counted and created apart | one heir per token, sessions go back to the password in force, the lock follows the failures, one founder |
| **Network links** (`zabbix_link_service.go`, `link_status_service.go`, `adapters/zabbix/client.go`, `scheduler/link_poller.go`) | `network_links`, `link_metric_snapshots`, `link_events` | `Sync`, `List`; `pollAll`, `EvaluateLink` | Zabbix, routers over SNMP, HTTP | the scheduler and a request sync at once over one client; counters restart; events have no unique index while they are open | one link per interface, no silent gap, names stay, links come to follow Zabbix, open events are those of the last reading |
| **Readings** (`backhaul_interface_*`, `radio_kpi_*`, `Site_environment_*`) | three append-only tables | Collect, CollectMultiple, GetLatest, GetStatus, pages | schedulers, HTTP | transactions whose commit fails, instants that senders choose, pages of a growing table | a batch is whole, "stored" is true, status shows the latest, pages miss only ties |
| **NetEco polls** (`adapters/neteco/client.go`, `*_mapper.go`, `neteco_ingest_service.go`) | a cookie jar per process, the row of a tower and its history | login, doGet with one retry, pollAll | NetEco | sessions end at any time, and both processes use one account | one lost session is survived, history tells its cause, the row follows the site |
| **NetEco traps** (`trap_listener.go`, `neteco_alarm_service.go`) | `events`, `tickets` | ParseTrap, HandleTrap | NetEco over UDP | a problem gets a new number with every trap; traps are lost and overtaken; two listeners | one ticket for each time a fault begins, no event without a fault, no fault without an event |
| **ComAp generators** (`comap_ingest_service.go`, `adapters/comap`, `Comap_reading_repository.go`, `tower_endpoint_repository.go`) | `comap_readings`, status of towers | RunOnce, Read, Ingest, MarkUnreachable | Modbus controllers | both processes read the same controllers; a reading and the status are two statements | readings go forward, online shows its reading, one bad credential is contained or is known not to be |
| **Users of towercore** (`auth_service.go`, `user_repository.go`, `security/token.go`, `middleware/auth.go`, `ratelimit.go`, `user_handler.go`) | `users`, signed tokens, a limiter per route | EnsureBootstrapUser, Login, Create, RequireRole | HTTP | processes start while others serve; a read and an upsert; tokens outlive what they say | users keep their row, tokens tell it, refusals have a cause, the limit holds |
| **Alarm rules** (`adapters/{eltek,enetek,huawei,vertiv}/profile.go`, `adapters/snmp`) | tables of rules; what a tower has open | Collect, normalise, evaluate | alarm pipeline | rules share a key, 0 and -100 mean nothing is there, metrics stop answering, single statements fail | open events and status are those of the last reading, one event for each time an alarm begins |
| **Availability** (`availability_service.go`, `event_repository.go`) | reads only | `Calculate` | HTTP | overlapping, open, older and future events; silence; three reads at three instants; resolutions stamped before they are stored | counts the hours that were down, at one instant |
| **Start-up and shutdown** (`cmd/*/main.go`, `migrate.go`, `config.go`) | `schema_migrations`, goroutines, open requests | Migrate, serve, Shutdown | both programs | copies migrate at once and crash between a script and its name; requests hang | each script once and in order, no request before the schema, a signal ends the process and cuts no request |

The remaining parts (routing, regions, Hizima locks, reports, the Python models, ...) are
in `PROJECT.json`, each with the reason why it is or is not modelled.

## 2. The modules

Every module is a state machine over the *tables and the program counters of those who use them*: one SQL statement
is one step, Go code between two statements is part of the step before or after it, and a local variable that
survives from one statement to the next is a variable of the model. Conventions: actions have the names of the Go
methods; a definition that nothing else in the module uses, placed just before the one it resembles, is a plausible
bug which the properties have been tried against.

| Module | What it is |
|---|---|
| `AlarmLifecycle` | the alarm pipeline, any number of pollers and trap handlers |
| `AlarmBoard` | what the pipeline promises: an alarm is on or off, each time it goes on is a new episode with at most one ticket |
| `TicketDesk` | Acknowledge/Close requests over tickets and the audit log |
| `TowerRow` | all the writers of one row of `towers` |
| `TowerCache` | readers and writers around the cache |
| `CollectionCycle` | `CollectOnce` of the schedulers, with towers being created |
| `DiscoveryTriage` | scans, promotions and ignores |
| `MetricFeed` | the ingestion cycle of the analytics platform over towercore's tables |
| `Sessions` | the requests on the users and refresh tokens of the analytics platform |
| `ServiceLife` | copies of `cmd/api` and `cmd/scheduler` that start, migrate, serve, are signalled and end |
| `LinkSync` | the Zabbix sync, by the scheduler and by requests, and the pages of links |
| `LinkStatus` | the link poller and the events it opens and resolves |
| `Readings` | the three tables of readings: singles, batches, pollers, pages, status |
| `NetEcoSession` | the polls of a site through sessions that end |
| `NetEcoTraps` | traps from the problem to the ticket |
| `Access` | towercore's users, tokens, roles and limiters |
| `Generators` | the cycles over the ComAp controllers |
| `Availability` | downtime from events and silence, and the request that reads them |
| `VendorProfiles` | the alarm rules of the four vendors, as data |
| `VendorAlarms` | what the polls of a tower make of them: status, events and tickets |
| `AlarmLifecycleProofs` | the theorems about the pipeline, and that it implements the board |
| `TowerRowProofs`, `DiscoveryTriageProofs` | the theorems about these modules and about the other machines of `MCTables` and `MCDiscoveryTriage` |
| `DesksProofs`, `NetworkProofs`, `FeedsProofs`, `TrapsProofs`, `FollowProofs` | the theorems about the machines of `MCDesks`, `MCNetwork`, `MCFeeds` (the traps apart) and `MCFollow` |
| `MC*` | constants and symmetry for TLC |
| `MCFollow`, `MCNetwork`, `MCTables`, `MCDiscoveryTriage`, `MCFeeds`, `MCDesks` | several of these machines, which share no state, side by side: `runs` chooses one of them in the initial state and the others stay in one of theirs. A sum has the behaviours of its parts and no others |

The invariants of a module that a sum checks are conjoined under one name (`LifeInv`, `SyncInv`, `StatusInv`, `CacheInv`,
`FeedInv`, `CycleInv`, `TrapsInv`, `AccessInv`, `GeneratorsInv`, `RulesInv`, in `TablesInv` those of `Readings` and
`NetEcoSession`, `AvailabilityInv`, and in `DesksInv` those of `Sessions`). Each part has a name, a comment and a plausible
bug of its own in the module; `PROJECT.json` lists one of these bugs for each name that a run checks.

### AlarmLifecycle and AlarmBoard

`reading` is the equipment (external); `event` and `tickets` are the tables, `pc, tower, resolve, trigger, at` the
locals of `Ingest`/`HandleTrap`. `StartIngest` evaluates the whole profile (`Fires`, `MatchCondition`, the zero that
is ignored) into the slices `toResolve` and `triggered`; `ResolveItem`, `FindItem`, `TouchItem`, `InsertItem`,
`InsertRefused` (the partial unique index of migration 00005) and `CreateTicket` are one statement each, in the
order of the loop. `ResolveFails`, `RaiseFails` and `InsertUnanswered` are failing statements — the last one is a
row that is committed while its answer is lost — and `Crash` is a process that stops. An event that is touched after
it was resolved is marked `late`. `Current` maps the tables to the abstract board: the open event of an alarm is its
current episode.

### TicketDesk

A request (`job` while it is under way) gets the ticket, stops if it is closed, updates it with `COALESCE` stamps and writes an audit entry; it may
be cut short before each of them (`Abort`).

### TowerRow

A writer has a list of operations `todo` (a cycle's `Program`), reads the row into `copy` and writes all of the copy back.
`Program` gives what each kind of cycle does in order: `MarkUnreachableWithError` is a failed collection and then the status,
`Ingest` the status and then the success. `AfterError` is what each caller does with an error. `device` (external) is what a
cycle meets: a device that answers, one that is silent although a UDP socket to it opens, and one to which no socket opens.
`Possible` is what each cycle may make of it: a disabled tower is skipped, with nothing written, when the socket opens, and
becomes unreachable when it does not.

### TowerCache

`row` is the database, `details` and `lists` the two maps. A request looks up, drops an expired entry (in a second
critical section), queries, stores the list and then each row. A writer writes and then invalidates twice.
`WriteElsewhere` is the other program or the NetEco poll, which use the repository without the cache. `overlap` is
history: towers written elsewhere, or while a reader had them in hand.

### CollectionCycle

`Count` and `List` are the two queries of `TowerRepository.List`; `HandOut` blocks on the semaphore, `Wait` on the
WaitGroup. `stamped` is the `created_at` of each tower, which orders the pages and is set before the row is committed. A
concurrency of one gives the schedulers that work through a page themselves.

### DiscoveryTriage

`recordDevice` is an upsert that leaves status and tower alone. `Promote` is `GetByID`, `Save` and `UpdateStatus`;
`Ignore` is `UpdateStatus` without looking. `excused` is history: devices whose promotion may be repeated because two
promotions overlapped, one failed half way, or the device was ignored after it was promoted.

### MetricFeed

Metrics are identified with their `collected_at` and are committed some time after they are stamped. A cycle reads
pages (`Newest`, with the marker cut down to a second by `From`), stores chunks in the order the pages came, evaluates
the alerts, moves the marker to the moment the cycle began, and then handles the newest events. `late`, `excused` and
`again` are history: metrics that came too late for the marker, and metrics that a cycle had a reason to read again.

### Sessions

A request is one of seven operations and runs its statements one by one, those whose errors the code drops
included (`ResetFailedLogins`, `RevokeIgnored`). Passwords are numbered in the order they are set; `proof` is the
password that a request was let in with, and a token remembers it and the token it was exchanged for. `shared`,
`excused` and `raced` are history: tokens whose exchanges overlapped or whose revocation failed, users whose change
of password met a request already let in or could not revoke, and bootstraps that overlapped. Without them the
properties would not hold, and each names one interleaving of the code.

### ServiceLife

`recorded` and `effects` are the database: the names of the scripts and how often each took effect. A process goes
through the stages of its `main`; `script` is its open transaction, `work` what its workers do, `request` the requests
it accepted. A number of seconds, nonsense and none at all come from the environment (`EnvValues`); `Interval` multiplies what
`getEnvInt` makes of it into nanoseconds modulo 2^64, as `int64` does (`Second` and `Half` are scaled down for TLC), and `culprit` is the
setting of a process whose ticker panicked. Only `cmd/api`
migrates: `cmd/scheduler` may collect into a database whose scripts have not run.

### LinkSync and LinkStatus

`LinkSync`: `zabbix` is the server (hosts, interfaces, speeds; external), `session` its token, `sync` the progress of
each call: login, the query of the hosts, interfaces and items, then three statements for each interface
(`GetByRouterAndIfIndex`, `Create` or `Update`, the snapshot). `LinkStatus`: `router` is the equipment with its octet
counter, `poll` the progress of each poller (neither program builds one yet, so nothing is assumed of when or whether it runs,
and no liveness is claimed); `carried` remembers what the link really carried between two readings,
which `NoFalseUtilization` compares with what was computed. Open events are rows, so that two pollers may have two.

### Readings

`sent` are the calls that store something, with the answer they got; `rows` the tables; `page` a client that asks for
one page after the other. The three kinds differ as their services do: the backhaul batch checks no instant and loses
the error of its commit, the radio's statements always fail, the site's filters are applied after the page is cut.
The module is about the services; today the router mounts only GET routes for them, so the pollers alone send, and
what they send is refused but for backhaul readings (`OnlyBackhaulIsPolled`).

### NetEcoSession and NetEcoTraps

`NetEcoSession`: `site` and `session` are NetEco (external), `loop` the progress of each poll: list the towers, fetch the
energy, fetch the battery, write the row and the history. `exclusive` is the assumption that NetEco keeps only the last
session of an account; the code says nothing about it, so both cases are checked. `NetEcoTraps`: `wire` holds the traps under
way, `HandleTrap` is one step (its statements are interleaved in `AlarmLifecycle`); `count` is history: how often a
fault began and how many tickets there are.

### Access

A process reads, upserts and serves; a request goes through Auth, the limiter of its route (keyed by user or service)
and `RequireRole`. `late`, `overwritten` and `wronged` are history: users created while a process was about to upsert,
users whose row an upsert replaced, and identifiers whose right password was compared with another user's row.

### Generators

`todo` is the set of places of its page that a cycle has still to visit, `reading` the reading under way, `readings` the stored one and `status` the
tower. One register that fails makes `Read` fail, as the code has it. `latest`, `promised`, `together` and `unmarked`
are history.

### Availability

Time is in hours, `Stale` is the code's staleness threshold in them; `Calculate` is three steps (`GetByID` with the
window, `ReadFailures`, `ReadLastMetric`) between which others write. Only events of type failure are kept, as no others are counted: a
client posts one with any instant (`Post`), and the Nagios service makes and resolves those of its key (`CreateOrTouch` at the last change
of the host's state, `Resolve` with an instant taken before its UPDATE runs). The alarms of the SNMP and NetEco collectors are not
failures. `atEnd` is history: the downtime as the window ended, until news of the window is stored. `CountsTheHours` compares the
formula in every state with the set of hours that it stands for.

### VendorProfiles and VendorAlarms

A poll is one step here, of any two metrics of any profile, each with a value next to one of its thresholds, 0, the value of
an empty slot, or no answer; `AlarmLifecycle` has the statements inside an ingest and what comes between them.
`AfterAlarms` is the loop over `toResolve` followed by the loop over `triggered`. `alarm` is history: how often an alarm
began, or went on while another rule of its key was quiet; `made` counts the events, which must be as many. What severity an alarm with
two tiers ought to have is not claimed (section 7), only that an open event has that of a rule that fires.

## 3. The runs

| Run | Instance | What it shows |
|---|---|---|
| `alarm_race` | 2 pollers, 1 trap handler, 1 tower, 2 rules on one key and 1 trap key, 3 events, 3 inputs, crashes and failing statements; 278 k states | one open event per alarm, one ticket per event, closed events stay closed, only pollers that share an alarm touch a closed one; every behaviour is one of `AlarmBoard` |
| `alarm_tiered` (violation) | 1 poller, 2 tiers, nothing fails | an ingest closes the event of an alarm that fires |
| `follow` | alarms: 2 pollers, 1 trap handler, 1 rule; row: 1 SNMP collector, 1 operator who configures twice; processes: 2 copies of the API and a collector, started twice in all, 1 request, intervals of which one overflows, crashes and failures; link: 1 poller and a failure, or 2 pollers; NetEco: 1 process, a failure; 166 k states | every event gets its ticket, a persistent alarm keeps its event; open events, tower row and the row of a NetEco site come to follow the equipment; a signal ends the process; scripts run once, in order, before the first request; only an interval that overflows makes a ticker panic; link events are those of the last reading; no false utilisation |
| `desks_race` | tickets: 3 requests, 2 tickets; sessions: 2 clients, 2 users, 3 tokens, 5 requests, 2 changes of password, a lock after 2 failures; users: 2 processes, 2 clients, 3 requests, one in each minute for a client; availability: 2 failures, a window of 3 hours that ends at hour 2, 3 or 4; statements fail; 757 k states | stamps, audit log and settled tickets; a token has one heir, a new password ends old sessions, the lock follows the failures, one first administrator; towercore's users keep their row and tokens tell it; the limiter holds; the availability counts the hours that were down; each but for the interleavings named |
| `ticket_reopen` (violation) | 2 requests, 1 ticket | an acknowledgement that read the ticket before it was closed reopens it |
| `tower_race` | row: 2 collectors with the kinds of cycle that differ, 1 operator, failures and stops; readings: 3 in two batches, or alone beside a client with pages of one; NetEco: 1 process and a site that changes, or 2 with one account, 2 failures; 2.6 M states | the row is coherent; batches are whole, what is said to be stored is, status shows the latest; a fetch survives one lost session |
| `tower_overwrite` (violation) | 2 collectors | a NetEco poll promotes a degraded tower |
| `cache_race` | cache: 1 tower, 2 readers, 1 writer, writes elsewhere, lists of all and of online towers; links: 2 hosts, the scheduler and 1 request, 2 polls, a failure, and a reader of pages | staleness has a cause and ends, a list has the status asked for; one link per interface, no silent gap, names are kept, links come to follow Zabbix |
| `cache_names` (violation) | 2 towers, 1 reader, 2 filters | a list for one name is answered with the list of all |
| `triage_race` | 1 scanner, 2 requests, 2 addresses, 3 towers, statements fail; generators: 2 processes, 3 cycles over 2 of 3 endpoints, 2 failures; alarms: 3 polls of 2 metrics of a vendor, 1 failure; 714 k states | decisions stay, promoted devices name their tower, a second tower has a cause; readings of generators go forward and online towers show theirs; events and status are those of the last reading |
| `feeds_race` | feed: 3 ticks, 2 events, pages of one, one failure or restart; cycle: 4 towers, pages of 3, 2 goroutines; traps: 1 or 2 listeners, 2 problems of a site, 3 traps, 1 mishap | the marker passes nothing unseen, repeats have a cause, the platform catches up; each tower is handled once and counted, missed only for a late commit, and is collected again and again; one ticket for each time a fault begins, open events and persistent faults match |
| `feed_incidents` (violation) | 1 event | two incidents for one event |

**Bounds.** They bound inputs, never the program's own steps: `MaxInputs` (changes of a reading, traps),
`MaxSettings` (operator requests), `MaxRequests`, `MaxCalls` and `MaxPasswords` (requests on users and sessions),
`MaxVersion` (writes of a tower), `MaxTime`, `MaxClock` and `LastHour` (ticks), `MaxFaults` and `MaxMishaps` (failures), `MaxStarts`
(processes started), `MaxChanges` (of a site), `MaxPolls` and `MaxCycles` (rounds), `MaxTraps`, `MaxEvents`,
`MaxBatches` and `MaxReadings`, `Pages` (clients that ask for links), and the sets of rows that can be inserted (`EventIds`, `TowerIds`, `Towers`). Two
workers of each kind are enough for the races here, since no operation involves more than one other row-writer at a
time; three events allow an alarm to be raised, closed, raised again and closed late; five requests are a bootstrap,
two refreshes of its token and a change of password or a login that meets them; `MaxVersion = 1` suffices as an entry
is either current or not; four towers with pages of three give a full page, a partial page and a tower inserted across
the border; two starts are two copies that migrate at once, or one after a crash; two failures lose a session twice.
Limits of the code are scaled down with what they limit: `Window` and `Stale` (hours), `Ahead` (one tick is the five
minutes a reading may lie ahead), `StatusRows` (2 for 1000), `PageSize`, `Batch` and `TowerLimit` (1 to 3 for pages of
50 to 500), `Limit` (1 request in a minute), `TTL`; `LastScript` (2 for the scripts of `migrations/`), `Capacity`; the error counts 100 and 1000 are the code's. Data is reduced to what
the code tells apart: each host has its own `Address` and one interface (`IfIndexes`), `Speeds` is one value on each side of the million
from which the code takes bits per second, `EnvValues` is a missing, a negative, a zero, a positive and an overflowing interval (`Second` and `Half` stand for 10^9 and 2^63),
`Conditions` drops the silent device where no liveness is checked, `Births` and `FirstHour` are the tower's creation and the hour at first, with
which a window is cut off by either border, `LifeWorkers` has one worker for
each way a `main` starts them, and `Endpoints` lists three generators in the order of their page. In `tower_race` the
ComAp cycles of `TowerRow` are left out, since an SNMP cycle that stops half-way writes the same, and the degraded
cycle, which but for the status writes what an online one does (`UnlikeCycles`); `tower_overwrite` has all cycles. The theorems below have no bounds.

**Deadlock** is checked wherever the system cannot stop. `feeds_race`, `feed_incidents`, `desks_race`, `tower_race`
and `follow` say `CHECK_DEADLOCK FALSE`: once their bounded inputs are used up nothing has to happen, and processes that
were signalled have ended.

## 4. Fairness

- Pollers are strongly fair in starting an ingest of each tower and weakly fair in their steps: the ticker fires for
  ever, `CollectOnce` goes through every tower (`CollectionCycle` checks that), and every statement runs under a
  timeout (`queryTimeout`), so a step that stays possible is taken. Starting is possible only when the worker is idle,
  which is not continuous: hence strong fairness.
- Collectors, readers and writers of a row: weak fairness of their steps, for the same timeouts; time passes, so cache
  entries expire.
- `MetricFeed`: weak fairness of `Collect`; the ticker starts it and a cycle has two minutes.
- `ServiceLife`: weak fairness of `Main`, a process's own steps: the statements of `Migrate` return or fail, and
  `Shutdown` has `SHUTDOWN_TIMEOUT_SECONDS`. Signals, requests (which may hang) and workers are not fair.
- `LinkSync`, `NetEcoSession`: weak fairness of the tickers and of the steps of a round (SNMP, HTTP and
  statements have timeouts). `RowFollowsSite` assumes that NetEco comes back after an outage and keeps the sessions of both processes
  (`~exclusive`); without the second assumption it is false (section 7).
- Nothing is assumed of operators, link pollers (no program builds one), equipment, requests, failures or restarts. No run assumes that failures happen.

## 5. The proofs

The theorems hold for every value of the constants, under the assumptions below. They are about the module's own
`Spec`, or, for a machine that a sum runs beside others, about the sum's (`NetworkSpec`, `FeedsSpec`, `DesksSpec`, `FollowSpec`,
`DevicesSpec`, `TablesSpec`): its steps are those of the machine while `runs` names it, and stutter on its variables otherwise, so the proof is one
lemma per action and a lemma for the stutter. Every safety invariant and every action property that a passing run checks is stated by a
theorem.

**Assumptions.** Each is evaluated by TLC in a passing run. Most say that bounds are naturals, that sets of rows are
finite and that `None` is not a row. Those that say more:

- `FeedAssumption`, `CycleParameters`: pages have at least one row and the pool at least one goroutine: the client's page
  size is a constant, and `NewSNMPScheduler` replaces what is not positive.
- `SessionParameters`: `MaxFailedLogins` is at least 1, as `NewAuthHandler` replaces any other value by 5.
- `SyncParameters`: the default search names hosts and has no blank term, which `splitConfigList` drops.
- `StatusParameters`, `LifeParameters`: error counts and capacities are not negative; no process is both an API and a collector, and the default interval does not
  overflow.
- `HourParameters`: the window, the threshold and the hours are naturals, and the tower is created at hour 0 or 1, the first hour or before it.
- `ProfileParameters`: of the rules of a metric two exclude one another, or the first one fires whenever another does (`WellOrdered`). TLC
  evaluates it on the four vendors' tables.

**AlarmLifecycleProofs.** `TypeCorrect`, `AlarmsOpenOnce`, `TicketsOpenOnce`, `EventsOnlyClose`. `OneOpenPerAlarm` follows from the types and the
index check of the insert. `OneTicketPerEvent` is not inductive: two workers about to create a ticket for one event would
break it. `IInv` adds that a worker in `ticket` holds an event that is stored, has no ticket and is held by nobody else
in `ticket`, which is true because only the worker that inserted a row gets there. `PipelineImplementsBoard` has one lemma for each kind
of step (`BoardClear`, `BoardTouch`, `BoardRaise`, `BoardTicket`): it is a step of the board or leaves it alone; uniqueness of the open event makes
`Current` well defined. Three theorems have a hypothesis, for without it the code does not do it:

- `TouchesAreTimely` assumes `OneListener`: NetEco sends its traps to one process, and no profile uses a key of the traps (they begin with `neteco:`).
  `LInv` adds that a worker has only work of its own keys, and that what it is about to touch is open or shared with another poller.
- `EventsGetTickets` assumes `Faults = {}`: a ticket whose statement fails is never opened, as it is only opened for a new event.
- `PersistentAlarmsKeepEvents` assumes `OneRulePerKey`, which Vertiv's profile meets and the tiers of the other three do not: `alarm_tiered` shows what
  happens there. The invariant is that what a worker is to resolve and what it is to trigger have no key in common.

**TowerRowProofs.** `RowStaysCoherent`: coherence of the row alone is not inductive, as it is written from copies; the
invariant makes every copy coherent too and says what a pending `success` finds. `ReadingsAreKept` (readings and NetEco
polls) rests on two invariants. `RInv` says of each batch what its service lets through (`BatchSound`) and that all or none
of it is stored, and gives rows a *rank*, the number of newer rows: a row the client has not seen is on a page it has still
to ask for (`Coming`), which every insert only pushes further down, or has a tie. `NInv` counts, at each stage of a fetch,
the sessions it may have lost by then (`LossIsCounted`): the retry has seen one, so only a second loss can fail it.

**DesksProofs.**

- Tickets (`StampsAgree`, `AuditIsTruthful`, `SettledStays`): stamps are never taken back, and a request in `audit` has already stamped its ticket.
- `AccessIsKept` (`AcInv`): a bootstrap about to upsert saw no configured user, so the one it replaces was created late; what a token or a
  login holds tells what its row says; and a limiter counted in this minute at least what it let through in it.
- `SessionsAreKept` (`SsInv`): a token outside `shared` has one heir *or* one request about to create it, never both; whoever may still get a
  session shows the password in force or a request that changes it has yet to revoke; at most one bootstrap is about to found.
- `HoursAreCounted` (`VInv`): the formula sums the events' shares of the window, the property counts hours. `FailuresCounted` relates the two by induction
  over the number of events: the first n have no more failed hours than their sum, and as many if no two share an hour. That
  the answer is that of its instant follows from what the request would answer if the rest of it ran at once (`AnswerToCome`): a later event
  shares nothing with the window, a resolution with an instant after its end leaves each share as it is, and a metric changes it only if it
  breaks a silence; whatever else is stored is news of the window, which the property names.

**NetworkProofs.** `CacheIsExplained` (`CInv`): what a reader is about to store is current or of a tower in `overlap`, and an
entry differs from its row only while a writer has yet to invalidate it or the tower is in `overlap`. `SyncsAreComplete`,
`LinksKeepNames` (`LkInv`): the copy a call works on is still the row it was read from in id, interface and name, and what a
call without errors was given is stored, in hand or to do.

**FeedsProofs.** `FeedMissesNothing` (`FInv`): a metric that was there when the cycle began is in hand or *ahead* of the pages read: rows
that come meanwhile push it down, never up. `CyclesMissNothing` (`CyInv`): the same for the pages of towers, with the rank of a tower among the
committed ones; results counted and goroutines busy add up to the towers handed out.

**TrapsProofs.** `TrapsAgree` (`TrInv`): for each site, tickets to come are paid for by faults that began: what is spare and
what is open cover the active faults and the clears under way, before every raise on the wire (`TicketsArePaid`); and, when
nothing was lost, the last trap under way for a key tells whether the fault persists.

**FollowProofs.** `LifeIsOrderly` (`LfInv`): a process at a script has all earlier ones recorded, and one that starts has all; a product
below half the values of an `int64` is itself, so an interval that is not positive had a setting that overflows. `LinksAreShown` (`StInv`): every
snapshot is tied to what the link really carried, so the difference of two is no more than that; with one poller each link has one open event of a
rule, and they show the last reading by as many rules as have been evaluated.

**DiscoveryTriageProofs.** `TypeCorrect`, `PromotionNamesTower`, `DevicesPromotedOnce`, `TriageStays` relate saved towers,
the requests that hold them and `excused`. `GeneratorsAreShown` (`GInv`): a tower that is shown online has the reading that
found it so or a process that has it in hand, unless two cycles met there. `EventsFollowRules` (`AInv`): an open event was
made by the first rule that fired at some value, and as many events were made as the alarm began.

**How data is handled.** No operator is `RECURSIVE`: a sum is a recursive function in a `LET`. The prover cannot instantiate the library's induction
theorems, so the lemmas `SmallestNumber` and `Counting` derive induction over the naturals from the well-foundedness of `<`, as the least
counterexample of a set; that is enough for sums (`IsSum`, `TotalIsSum`), for ranks and for the least element of a finite set. Cardinalities come
from `FiniteSetTheorems`.

**Model-checked only:** the liveness properties (`BoardFollowsReading`, `RowFollowsDevice`, `ComesToShowTheRows`, `CatchesUp`,
`EveryTowerIsCollectedAgain`, `SignalEndsProcess`, `RowFollowsSite`, `LinksFollowZabbix`), as fairness needs `ENABLED`, which the
installed prover does not handle. The violations of section 6 are counterexamples and need no proof.

## 6. Where the code and its documents disagree

- `alarm_tiered`: migration 00005 says that a persistent alarm reuses its open event. `Ingest` resolves an alarm key
  for each rule of that key that does not fire, even if another one does; the Eltek, Enetek and Huawei profiles have
  two tiers on one key, so a battery at 45 °C gets a new event and a new ticket in every cycle.
- `ticket_reopen`: "cannot acknowledge a closed ticket" — it can, when the close falls between the check and the update.
- `tower_overwrite`: "Não sobrescreve degraded → online" — it does, when the tower became degraded after the poll
  listed the towers.
- `cache_names`: the cache key of a list leaves out three of the filters it is asked with.
- `feed_incidents`: "um registo ... para cada evento de queda" — one in every five-minute cycle while the event is
  among the newest fifty.

## 7. Observations

Seen while modelling, each in the code that the modules translate; where a comment or a message says otherwise, it is quoted,
and no property claims what the two disagree about. Many are the exceptions that a property of section 3 names. Section 6 has
those that a run of their own shows.

*Rows, tickets, devices.* A collector that read the row before an operator's `ConfigureSNMP` writes the old settings
back. A NetEco or ComAp cycle reads only the first page of towers. Promote, ignore, promote gives two towers with one
target. The network check runs before `snmp_enabled` is looked at, so that a disabled tower that cannot be dialled goes
offline in every cycle; a target stored as `host:port`, which validation accepts, never dials (`snmp_scheduler.go:226,402`).

*Feeds and sessions.* Metrics collected between the start of an ingestion cycle and its page query are stored again by
the next cycle. A refresh that overlaps another of the same token, or a logout, leaves a valid token behind.

*Start-up.* Only `cmd/api` migrates; `cmd/scheduler` may collect into a database whose scripts have not run. Two intervals go
from the environment to `time.NewTicker` with no check but that of `getEnvInt`, which is on the seconds: more than 9 223 372 036 overflow
the nanoseconds, and `NewTicker` panics when they come out negative or zero (`OnlyOverflowPanics` names that case).

*Links.* `LinkPoller` and `LinkStatusService` are built by neither program: a link that is down is reported by nobody. A body `[""]` in `POST /zabbix/links/sync` imports
every host, although the message says that `host_search` avoids it. Two hosts with one first address flip one link
between them. A missing speed item overwrites a capacity with 0, and a speed below 1 000 000 is taken for Mbit/s. The
error rule counts since the router's boot ("erros acumulados entre polls", `link_status_service.go:19`), so an old link is in alarm until its router restarts.
Two open events of one key are never resolved, as each `Resolve` breaks the unique constraint. `List` turns a limit beyond
1000 into 100 while the handler reports the limit that was asked for.

*Readings.* The radio's INSERT has `$id` for a parameter, names 34 columns for 32 values, and its SELECTs name columns that
migration 013 lacks: `GET /radio-kpi` always fails. The radio poller leaves the technique of the cell empty and the site
poller sends an interval of 0: both are always refused. Backhaul batches may lie in the future, and a commit that fails
is reported as stored. The boolean filters of a site are applied to the page while the total counts all rows;
`MaxLossPct` is missing from the count. `[null]` sent to the radio's batch panics. Every backhaul poll makes new interface ids.
The POST routes are not mounted, no vendor profile yields the keys the pollers read, and `DeleteOlderThan` has no caller.

*NetEco.* If NetEco keeps one session per account, the two processes can log each other out for ever and a site that is
connected keeps going offline. A refused login with an old cookie counts as logged in; a second invalid answer becomes an
empty body and is reported as bad JSON. After a fetch that failed, the history stores the old reading at the new instant.
Energy that works with a battery that fails gives an unknown connection, which is online. A connection text that contains `0` is
down, so `"10"` is. Two DC devices write the same column in the order of a map. Alarms of severity 6 are ignored; one without a text is
keyed by its number, is not filtered as noise, and its event is resolved by nothing. Towers beyond the first 500 get no
alarms. Both processes bind the trap port.

*Generators.* No migration creates `comap_readings` (00007 alters it, and fails on a fresh database). "Falhas individuais não
abortam a coleta: o campo fica nil" (`adapters/comap/profile.go:122`, likewise line 91) — any register that fails makes the
reading an error, the tower goes offline and nothing is stored. A batch above 200 becomes 50 and there is no offset:
endpoints beyond the page are never read. A percentage is stored as litres of fuel; speed, temperature, voltages and alarms
are read and dropped. A cancelled context does not end a cycle. Nothing calls the endpoints' `Create`, `Update` or
`GetByTowerAndType`.

*Alarms of the profiles.* "ADICIONADO: tier crítico, que não existia" (`adapters/enetek/profile.go:188`) — the event is made by the
first rule of the profile that fires and the others touch it, so a critical tier behind a warning tier (188–190: total failure is to be more than
a warning) never gives a critical event. A metric that stops answering, or Eltek's −100, keeps its event while the tower shows online. Mains that fall from
50 V to exactly 0 V close their alarm. When `MarkCollectionSuccess` fails no alarm is looked at. A tower without a community, or with an
unknown SNMP version, is taken for unreachable. A text of 1, 2, 4 or 8 bytes that is no number becomes one (`toFloat`).

*Users of towercore.* E-mails are not unique: 00001 creates `users` without one, 00002's `CREATE IF NOT EXISTS` does nothing
and 00003 adds the column plain, although the answer 409 speaks of "username or email". A login by an ambiguous
identifier may be compared with another user's password, and a user whose e-mail is the configured username keeps the configured
user from being created. Tokens cannot be revoked. Each protected route has a limiter of its own, which never forgets a
client and does not count what Auth refused, but counts what `RequireRole` refuses. Acknowledging and closing tickets needs
no authentication.

*Availability.* A comment (`availability_service.go:96-99`) has `SNMPIngestService` register failures; it makes alarms, as NetEco does, and they
never count: today only events that clients post do. A failure resolved with an instant from before it occurred has a negative share,
which is taken off the others. Events that a client posts have no alarm key: nothing resolves them and they count as downtime for ever.
Overlapping failures count twice, up to the window. When `Calculate` fails the answer shows the static column without
saying so. The SLA of a database without towers scans a NULL and answers 500.

## 8. Not modelled, and why

Data and wording (SNMP values, JSON, messages), the walk over OIDs, HTTP routing, and calls to systems outside the repository
are inputs chosen from small sets. Snapshot inventory (`snmp_inventory.go`, called by nothing) and the Nagios schedulers
(`nagios_enabled` is neither read nor written, so every tower is skipped; `Availability` has the events of their service) are
left out, and so are regions, operators and audit queries (single statements with no rule across them), the Hizima proxy
(stores nothing), dashboards' counters and one-off commands, the reports, risk scores and assistant of the analytics platform
(calculations over stored rows, and calls to models elsewhere) and its Python models. The database is one server that
serialises statements: statements are atomic, and a failed one has no effect or its answer is lost. Transactions (`Migrate`,
batches) are modelled with their commit and its failure.

## 9. Plan

Done: *core* — AlarmBoard, AlarmLifecycle, TicketDesk, TowerRow, TowerCache, CollectionCycle, DiscoveryTriage,
MetricFeed, Sessions; *then* — ServiceLife, LinkSync, LinkStatus, Readings, NetEcoSession, NetEcoTraps, Access, Generators,
Availability, VendorProfiles, VendorAlarms; proofs of every safety invariant and action property of the runs, and of the refinement.

Modules to come: the deviations and risk scores of the
analytics platform against reference definitions.

Proofs to come: more refinements, each an abstract promise with the step-by-step proof that the machine keeps it, as `AlarmBoard` is for
the pipeline: a table of tokens with one heir (Sessions), a log of scripts (ServiceLife), a board of links (LinkStatus).

## 10. Running it

`tlc -workers 2 -config AlarmRace.cfg MCAlarmLifecycle` and so on: `PROJECT.json` lists the module and the
configuration of each run. `tlapm AlarmLifecycleProofs.tla` checks a proof module. Every run ends within five minutes.
