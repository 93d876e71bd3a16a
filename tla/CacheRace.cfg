\* Two readers and a writer race on a tower whose row is also written elsewhere; or the
\* scheduler and a request copy two routers' links from Zabbix,
\* where one speed is in bits per second.
SPECIFICATION NetworkSpec
CONSTANTS
    t1 = t1
    t2 = t2
    Towers = {t1}
    Readers = {r1, r2}
    Writers = {w1}
    Filters <- AllAndOnline
    MaxVersion = 1
    Elsewhere = TRUE
    Scheduler = sched
    Requests = {q1}
    Pages = {g1}
    Hosts = {h1, h2}
    IfIndexes = {1}
    Address <- OwnAddress
    DefaultSearch = {h1}
    Blank = blank
    Speeds = {100, 2000000}
    MaxPolls = 2
    MaxFaults = 1
    None = None
INVARIANTS CacheInv SyncInv
PROPERTIES ComesToShowTheRows NamesAreKept LinksFollowZabbix
