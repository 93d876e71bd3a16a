------------------------------ MODULE LinkSync ------------------------------
(***************************************************************************)
(* The network links that towercore copies from Zabbix: the scheduler and  *)
(* POST /api/v1/zabbix/links/sync run the same Sync over one client and    *)
(* the tables network_links and link_metric_snapshots; GET /links pages    *)
(* through the first of them.                                              *)
(*                                                                         *)
(* Abstracted: of the items of an interface, the speed and the clock are   *)
(* kept; statuses and counters go to the snapshot untouched, and a clock   *)
(* that is no number is replaced by the time.  c.token is assigned without *)
(* a lock, but every session token has one length, so a torn read is one   *)
(* of the tokens.                                                          *)
(*                                                                         *)
(* Definitions that no other definition uses, each just before the one it  *)
(* resembles, are plausible bugs that the properties are tested with.      *)
(***************************************************************************)
EXTENDS Integers, FiniteSets, FiniteSetsExt

CONSTANTS
    Scheduler,      \* the goroutine of ZabbixScheduler
    Requests,       \* goroutines of POST .../sync and GET .../inspect, one call each
    Readers,        \* GET /api/v1/links
    Hosts, IfIndexes,
    Address,        \* the first address of each host
    DefaultSearch,  \* ZABBIX_HOST_SEARCH; a term of a search is the name of a host, or Blank
    Blank,
    Speeds,         \* what the speed item says
    MaxClock,       \* bound: how often Zabbix reads an interface in all
    MaxFaults,      \* bound: failures of the database, of Zabbix, and sessions that end
    None

\* splitConfigList drops the blank terms of ZABBIX_HOST_SEARCH.
Parameters ==
    /\ DefaultSearch \subseteq Hosts /\ Blank \notin Hosts
    /\ Speeds \subseteq Int
    /\ MaxClock \in Nat /\ MaxFaults \in Nat

Syncers == {Scheduler} \cup Requests
Terms == Hosts \cup {Blank}

VARIABLES
    zabbix,     \* the latest items of each interface of each host, or None
    session,    \* what the client authenticates with
    links,      \* the rows of network_links, which are never deleted
    snapshots,  \* link_metric_snapshots: link and clock
    sync,       \* where each call is, and what it holds
    page,       \* GET /api/v1/links: rows read and COUNT
    asked,      \* the terms in the bodies of requests
    faults      \* how many failures there were

tables == <<links, snapshots>>
vars == <<zabbix, session, links, snapshots, sync, page, asked, faults>>

Idle == [step |-> "off", call |-> "sync", searches |-> {}, hosts |-> {}, groups |-> {},
         link |-> None, got |-> {}, errors |-> 0]

NoPage == [step |-> "off", rows |-> 0, total |-> 0]

Init ==
    /\ zabbix = [h \in Hosts |-> [i \in IfIndexes |-> None]]
    /\ session \in {"api token", "none"}
    /\ links = {} /\ snapshots = {}
    /\ sync = [s \in Syncers |-> Idle]
    /\ page = [r \in Readers |-> NoPage]
    /\ asked = {}
    /\ faults = 0

-----------------------------------------------------------------------------
(* Zabbix.                                                                  *)

\* Zabbix reads the interfaces one after the other.
LastClock == Max({0} \cup {zabbix[k[1]][k[2]].clock :
                                k \in {m \in Hosts \X IfIndexes : zabbix[m[1]][m[2]] # None}})

Poll(h, i) ==
    /\ LastClock < MaxClock
    /\ \E v \in Speeds :
        zabbix' = [zabbix EXCEPT ![h][i] = [speed |-> v, clock |-> LastClock + 1]]
    /\ UNCHANGED <<session, tables, sync, page, asked, faults>>

\* A session of user.login ends; an API token does not.
SessionEnds ==
    /\ session = "open" /\ faults < MaxFaults
    /\ session' = "ended" /\ faults' = faults + 1
    /\ UNCHANGED <<zabbix, tables, sync, page, asked>>

\* groupZabbixItems: the interfaces with an item that has a metric's name and an index.
Groups(h) == {[host |-> h, port |-> i, speed |-> zabbix[h][i].speed, clock |-> zabbix[h][i].clock] :
                  i \in {j \in IfIndexes : zabbix[h][j] # None}}

\* search with searchByAny: a substring of the name
Found(searches) == IF Blank \in searches THEN Hosts ELSE searches

-----------------------------------------------------------------------------
(* A call starts.  In the query blank terms are dropped; the body's list     *)
(* replaces the others if it is not empty, as it is.                         *)

splitSearchKeepBlanks(raw) == raw

splitSearch(raw) == raw \ {Blank}

Searches(query, body) ==
    IF body # {} THEN body ELSE IF query # None THEN splitSearch(query) ELSE DefaultSearch

Begin(s, call, searches) ==
    /\ sync[s].step = "off" /\ searches # {}
    /\ sync' = [sync EXCEPT ![s] = [Idle EXCEPT !.step = "login", !.call = call,
                                                !.searches = searches]]

\* At once, then at every tick.
runOnce ==
    /\ sync[Scheduler].step \in {"off", "over"}
    /\ DefaultSearch # {}
    /\ sync' = [sync EXCEPT ![Scheduler] = [Idle EXCEPT !.step = "login",
                                                        !.searches = DefaultSearch]]
    /\ UNCHANGED <<zabbix, session, tables, page, asked, faults>>

\* A GET has no body.
Post(s) ==
    /\ s \in Requests
    /\ \E query \in {None, {Blank}}, body \in {{}, {Blank}} \cup {{h} : h \in Hosts \ DefaultSearch},
          call \in {"sync", "inspect"} :
        /\ call = "inspect" => body = {}
        /\ Begin(s, call, Searches(query, body))
        /\ asked' = asked \cup body
    /\ UNCHANGED <<zabbix, session, tables, page, faults>>

-----------------------------------------------------------------------------
(* The calls to Zabbix.  A call fails when Zabbix does or refuses the token. *)

Fails(A) == faults < MaxFaults /\ faults' = faults + 1 /\ A
Refused == session = "ended" /\ UNCHANGED faults

Ends(s) == sync' = [sync EXCEPT ![s] = [Idle EXCEPT !.step = "over"]]

LoginOnce(s) ==
    /\ sync[s].step = "login"
    /\ session' = IF session = "none" THEN "open" ELSE session
    /\ sync' = [sync EXCEPT ![s].step = "hosts"]
    /\ UNCHANGED <<zabbix, tables, page, asked, faults>>

\* The token of the last login serves every call in progress.
Login(s) ==
    /\ sync[s].step = "login"
    /\ session' = IF session = "api token" THEN session ELSE "open"
    /\ sync' = [sync EXCEPT ![s].step = "hosts"]
    /\ UNCHANGED <<zabbix, tables, page, asked, faults>>

LoginFails(s) ==
    /\ sync[s].step = "login" /\ session # "api token"
    /\ Fails(Ends(s))
    /\ UNCHANGED <<zabbix, session, tables, page, asked>>

GetHostsByNameFilter(s) ==
    /\ sync[s].step = "hosts" /\ session # "ended"
    /\ sync' = [sync EXCEPT ![s].step = "items", ![s].hosts = Found(sync[s].searches)]
    /\ UNCHANGED <<zabbix, session, tables, page, asked, faults>>

HostsFail(s) ==
    /\ sync[s].step = "hosts"
    /\ Fails(Ends(s)) \/ (Refused /\ Ends(s))
    /\ UNCHANGED <<zabbix, session, tables, page, asked>>

\* Inspect keeps nothing of the items.
GetItemsForHost(s) ==
    /\ sync[s].step = "items" /\ session # "ended"
    /\ \E h \in sync[s].hosts :
        IF sync[s].call = "inspect"
        THEN sync' = [sync EXCEPT ![s].hosts = @ \ {h}]
        ELSE sync' = [sync EXCEPT ![s].hosts = @ \ {h}, ![s].groups = Groups(h),
                                  ![s].step = "groups", ![s].got = @ \cup Groups(h)]
    /\ UNCHANGED <<zabbix, session, tables, page, asked, faults>>

\* Sync notes the error and goes on with the next host, Inspect returns it.
ItemsFail(s) ==
    /\ sync[s].step = "items"
    /\ \E h \in sync[s].hosts :
        LET failed == IF sync[s].call = "inspect" THEN Ends(s)
                      ELSE sync' = [sync EXCEPT ![s].hosts = @ \ {h}, ![s].errors = @ + 1]
        IN Fails(failed) \/ (Refused /\ failed)
    /\ UNCHANGED <<zabbix, session, tables, page, asked>>

Return(s) ==
    /\ sync[s].step = "items" /\ sync[s].hosts = {}
    /\ Ends(s)
    /\ UNCHANGED <<zabbix, session, tables, page, asked, faults>>

-----------------------------------------------------------------------------
(* syncGroup: three statements for an interface.  The order of the groups is *)
(* that of a map's iteration.                                                *)

parseCapacity(speed) ==
    IF speed < 0 THEN 0 ELSE IF speed > 1000000 THEN speed \div 1000000 ELSE speed

RowOf(g) == {l \in links : l.router_ip = Address[g.host] /\ l.if_index = g.port}

NextGroup(s) == [sync[s] EXCEPT !.step = IF sync[s].groups = {} THEN "items" ELSE "groups", !.link = None]

GetByRouterAndIfIndex(s) ==
    /\ sync[s].step = "groups"
    /\ IF sync[s].groups = {} THEN sync' = [sync EXCEPT ![s] = NextGroup(s)]
       ELSE \E g \in sync[s].groups :
                sync' = [sync EXCEPT ![s].step = "link", ![s].groups = @ \ {g},
                                     ![s].link = [group |-> g, copy |-> RowOf(g)]]
    /\ UNCHANGED <<zabbix, session, tables, page, asked, faults>>

\* The name is the interface's alias, which may change with every reading.
NewLinkWithoutID(g, id) ==
    [link_id |-> None, router_ip |-> Address[g.host], if_index |-> g.port, name |-> g.clock,
     router_host |-> g.host, capacity |-> parseCapacity(g.speed)]

NewLink(g, id) ==
    [link_id |-> id, router_ip |-> Address[g.host], if_index |-> g.port, name |-> g.clock,
     router_host |-> g.host, capacity |-> parseCapacity(g.speed)]

CreateAnyway(s) ==
    /\ sync[s].step = "link" /\ sync[s].link.copy = {}
    /\ LET g == sync[s].link.group
           new == NewLink(g, Cardinality(links) + 1)
       IN /\ links' = links \cup {new}
          /\ sync' = [sync EXCEPT ![s].step = "snapshot", ![s].link.copy = {new}]
    /\ UNCHANGED <<zabbix, session, snapshots, page, asked, faults>>

\* UNIQUE (router_ip, if_index)
Create(s) ==
    /\ sync[s].step = "link" /\ sync[s].link.copy = {}
    /\ RowOf(sync[s].link.group) = {}
    /\ LET g == sync[s].link.group
           new == NewLink(g, Cardinality(links) + 1)
       IN /\ links' = links \cup {new}
          /\ sync' = [sync EXCEPT ![s].step = "snapshot", ![s].link.copy = {new}]
    /\ UNCHANGED <<zabbix, session, snapshots, page, asked, faults>>

Renamed(l, g) == [l EXCEPT !.name = g.clock, !.router_host = g.host, !.capacity = parseCapacity(g.speed)]

\* The name is set when it is empty only.
Merged(l, g) == [l EXCEPT !.router_host = g.host, !.capacity = parseCapacity(g.speed)]

\* The whole row, from the copy.
Update(s) ==
    /\ sync[s].step = "link"
    /\ \E old \in sync[s].link.copy :
        LET new == Merged(old, sync[s].link.group)
        IN /\ links' = {IF l.link_id = old.link_id THEN new ELSE l : l \in links}
           /\ sync' = [sync EXCEPT ![s].step = "snapshot", ![s].link.copy = {new}]
    /\ UNCHANGED <<zabbix, session, snapshots, page, asked, faults>>

\* No unique index: the same clock may be stored again, which a set does not show.
SaveMetricSnapshot(s) ==
    /\ sync[s].step = "snapshot"
    /\ \E l \in sync[s].link.copy :
        snapshots' = snapshots \cup {[link_id |-> l.link_id, clock |-> sync[s].link.group.clock]}
    /\ sync' = [sync EXCEPT ![s] = NextGroup(s)]
    /\ UNCHANGED <<zabbix, session, links, page, asked, faults>>

ForgetError(s) ==
    /\ sync[s].step \in {"link", "snapshot"}
    /\ Fails(sync' = [sync EXCEPT ![s] = NextGroup(s)])
    /\ UNCHANGED <<zabbix, session, tables, page, asked>>

\* A statement fails, or another call created the link: noted, and the next group.
GroupFails(s) ==
    /\ sync[s].step \in {"link", "snapshot"}
    /\ LET noted == sync' = [sync EXCEPT ![s] = [NextGroup(s) EXCEPT !.errors = @ + 1]]
       IN \/ Fails(noted)
          \/ /\ sync[s].step = "link" /\ sync[s].link.copy = {}
             /\ RowOf(sync[s].link.group) # {}
             /\ noted /\ UNCHANGED faults
    /\ UNCHANGED <<zabbix, session, tables, page, asked>>

-----------------------------------------------------------------------------
(* List: the rows, then COUNT, in two statements; the handler asks for 50. *)

ListRowsLate(r) ==
    /\ \/ /\ page[r].step = "off"
          /\ page' = [page EXCEPT ![r].step = "count"]
       \/ /\ page[r].step = "done"
          /\ page' = [page EXCEPT ![r].rows = Cardinality(links)]
    /\ UNCHANGED <<zabbix, session, tables, sync, asked, faults>>

ListRows(r) ==
    /\ page[r].step = "off"
    /\ page' = [page EXCEPT ![r] = [step |-> "count", rows |-> Cardinality(links), total |-> 0]]
    /\ UNCHANGED <<zabbix, session, tables, sync, asked, faults>>

ListCount(r) ==
    /\ page[r].step = "count"
    /\ page' = [page EXCEPT ![r].step = "done", ![r].total = Cardinality(links)]
    /\ UNCHANGED <<zabbix, session, tables, sync, asked, faults>>

-----------------------------------------------------------------------------
Step(s) ==
    \/ Login(s) \/ LoginFails(s) \/ GetHostsByNameFilter(s) \/ HostsFail(s)
    \/ GetItemsForHost(s) \/ ItemsFail(s) \/ Return(s)
    \/ GetByRouterAndIfIndex(s) \/ Create(s) \/ Update(s) \/ SaveMetricSnapshot(s) \/ GroupFails(s)

Next ==
    \/ \E h \in Hosts, i \in IfIndexes : Poll(h, i)
    \/ SessionEnds
    \/ runOnce
    \/ \E s \in Syncers : Post(s) \/ Step(s)
    \/ \E r \in Readers : ListRows(r) \/ ListCount(r)

Spec == Init /\ [][Next]_vars

\* The ticker goes on, and no call hangs: the HTTP client and the database time out.
FairSpec ==
    /\ Spec
    /\ WF_vars(runOnce)
    /\ \A s \in Syncers : WF_vars(Step(s))

-----------------------------------------------------------------------------
Reading == [host : Hosts, port : IfIndexes, speed : Speeds, clock : 1 .. MaxClock]

TypeOK ==
    /\ session \in {"api token", "none", "open", "ended"}
    /\ \A l \in links : l.link_id \in 1 .. Cardinality(links) /\ l.name \in 1 .. MaxClock
    /\ \A s \in Syncers : sync[s].got \subseteq Reading /\ sync[s].groups \subseteq sync[s].got
    /\ faults \in 0 .. MaxFaults

\* An interface of a router has one link, whichever calls create it at once
\* (GetByRouterAndIfIndex before Create).
OneLinkPerInterface ==
    \A k, l \in links : k.router_ip = l.router_ip /\ k.if_index = l.if_index => k = l

\* The name a link was given is never overwritten, by an older copy or a newer host
\* (syncGroup sets it when it is empty).
NamesAreKept ==
    [][\A l \in links : \E k \in links' : k.link_id = l.link_id /\ k.name = l.name]_links

\* A call that is about to return without errors has stored a snapshot of every interface it was
\* given, under the interface's link (ZabbixSyncResult).
NoErrorNoGap ==
    \A s \in Syncers :
        sync[s].step = "items" /\ sync[s].hosts = {} /\ sync[s].errors = 0 =>
            \A g \in sync[s].got :
                \E l \in RowOf(g) : [link_id |-> l.link_id, clock |-> g.clock] \in snapshots

\* A host outside ZABBIX_HOST_SEARCH is imported only by a request whose body names it or
\* has a blank term, never because a query is blank ("host_search is required to avoid
\* importing every Zabbix host").
UnsearchedHostsStayOut ==
    Blank \notin asked => \A l \in links : l.router_host \in DefaultSearch \cup asked

\* The total of a page is not less than its rows: COUNT is read after them and links
\* are never deleted (List).
TotalCoversPage == \A r \in Readers : page[r].step = "done" => page[r].rows <= page[r].total

\* The invariants of the sync together.
SyncInv ==
    TypeOK /\ OneLinkPerInterface /\ NoErrorNoGap /\ UnsearchedHostsStayOut /\ TotalCoversPage

\* Every interface of the default search comes to have a link with the capacity Zabbix
\* reports and keeps it, whatever failed, expired or was overwritten before.
LinksFollowZabbix ==
    <>[](\A h \in DefaultSearch, i \in IfIndexes :
            zabbix[h][i] # None =>
                \E l \in links :
                    /\ l.router_ip = Address[h] /\ l.if_index = i
                    /\ l.router_host = h
                    /\ l.capacity = parseCapacity(zabbix[h][i].speed))
=============================================================================
