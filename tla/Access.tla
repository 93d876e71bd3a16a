-------------------------------- MODULE Access --------------------------------
(***************************************************************************)
(* The users of towercore and what lets a request in: AuthService and      *)
(* UserHandler over the table users, the signed tokens that Auth checks,   *)
(* and the limiter that each protected route has of its own.  Every API    *)
(* process ensures the configured user before it serves, while another     *)
(* may still be serving.  Tokens are kept by their holders only.           *)
(*                                                                         *)
(* Time is counted in minutes, the limiter's window.  A request that Auth  *)
(* refuses changes nothing and is not a step.                              *)
(* Definitions that no other definition uses, each just before the one it  *)
(* resembles, are plausible bugs that the properties are tested with.      *)
(***************************************************************************)
EXTENDS Naturals, FiniteSets

CONSTANTS
    Processes,    \* runs of cmd/api, each started once
    Clients,      \* concurrent requests
    Users,        \* identifiers of rows
    Limit,        \* RATE_LIMIT_WRITE_PER_MINUTE
    TTL,          \* lifetime of a token
    MaxTime,      \* bound: the last minute
    MaxRequests,  \* bound: requests received
    Faults,       \* "db": a statement fails or the process stops
    None

VARIABLES
    now,
    received,     \* how many requests were received
    phase,        \* what each process does
    rows,         \* the table users
    tokens,       \* the tokens handed out
    windows,      \* the limiters' maps, by process, route and client
    served,       \* requests let through in this minute, by the same
    pc,           \* the step each request runs next
    job,          \* what each request asks for and has read
    late,         \* users created while a process was about to upsert
    overwritten,  \* users whose row an upsert replaced
    wronged       \* identifiers whose right password was refused

vars == <<now, received, phase, rows, tokens, windows, served, pc, job,
          late, overwritten, wronged>>

\* Strings given as usernames or e-mails: the configured username and its e-mail.
Boot == "boot"
BootMail == "boot@antosc.ao"
Names == {Boot, BootMail}
Passwords == {"p", "q"}
Roles == {"admin", "viewer"}
Row == [username : Names, email : Names, password : Passwords, role : Roles]
Ensured == [username |-> Boot, email |-> BootMail, password |-> "p", role |-> "admin"]

Phases == {"off", "GetByUsername", "Upsert", "up", "gone"}
\* A route that RequireRole guards and one that it does not.
Routes == {"users", "towers"}
Keys == {"user", "service"}
Token == [user : Users, role : Roles, proof : Passwords, exp : 0 .. MaxTime + TTL]
Service == [role |-> "service"]

Parameters ==
    /\ IsFiniteSet(Users)
    /\ {Limit, TTL, MaxTime, MaxRequests} \subseteq Nat
    /\ None \notin Nat \cup Row

Init ==
    /\ now = 0
    /\ received = 0
    /\ phase = [p \in Processes |-> "off"]
    /\ rows = [u \in Users |-> None]
    /\ tokens = {}
    /\ windows = [x \in Processes \X Routes \X Keys |-> [start |-> None, count |-> 0]]
    /\ served = [x \in Processes \X Routes \X Keys |-> 0]
    /\ pc = [c \in Clients |-> "idle"]
    /\ job = [c \in Clients |-> None]
    /\ late = {}
    /\ overwritten = {}
    /\ wronged = {}

Exists(u) == rows[u] # None
Named(n) == {u \in Users : Exists(u) /\ rows[u].username = n}
\* GetByUsername looks among the e-mails too, which no index keeps unique.
Matching(n) == {u \in Users : Exists(u) /\ n \in {rows[u].username, rows[u].email}}

Answer(c) == pc' = [pc EXCEPT ![c] = "idle"] /\ job' = [job EXCEPT ![c] = None]

-----------------------------------------------------------------------------
(* EnsureBootstrapUser, at the start of each process.                       *)

Enter(p, next) == phase' = [phase EXCEPT ![p] = next]

\* Without a configured user the process serves at once.
Start(p) ==
    /\ phase[p] = "off"
    /\ \E next \in {"GetByUsername", "up"} : Enter(p, next)
    /\ UNCHANGED <<now, received, rows, tokens, windows, served, pc, job,
                   late, overwritten, wronged>>

\* The configured password replaces the stored one at every start.
AlwaysUpsert == "Upsert"

AfterRead == IF Matching(Boot) = {} THEN "Upsert" ELSE "up"

BootstrapReads(p) ==
    /\ phase[p] = "GetByUsername"
    /\ Enter(p, AfterRead)
    /\ UNCHANGED <<now, received, rows, tokens, windows, served, pc, job,
                   late, overwritten, wronged>>

\* ON CONFLICT (username): a user created since the read loses its e-mail,
\* password and role, and keeps its identifier.
Upsert(p) ==
    /\ phase[p] = "Upsert"
    /\ \E u \in Users :
          /\ IF Named(Boot) = {} THEN ~Exists(u) ELSE u \in Named(Boot)
          /\ rows' = [rows EXCEPT ![u] = Ensured]
          /\ overwritten' = overwritten \cup (Named(Boot) \ {v \in {u} : rows[v] = Ensured})
    /\ Enter(p, "up")
    /\ UNCHANGED <<now, received, tokens, windows, served, pc, job, late, wronged>>

\* A start whose statement fails is fatal.
Fatal(p) ==
    /\ "db" \in Faults
    /\ phase[p] \in {"GetByUsername", "Upsert"}
    /\ Enter(p, "gone")
    /\ UNCHANGED <<now, received, rows, tokens, windows, served, pc, job,
                   late, overwritten, wronged>>

-----------------------------------------------------------------------------
(* Login, by username or e-mail.                                            *)

\* Any row that matches is read; its password decides.
Login(c, p, n, password, u) ==
    /\ pc[c] = "idle"
    /\ phase[p] = "up"
    /\ received < MaxRequests
    /\ received' = received + 1
    /\ u \in Matching(n)
    /\ IF rows[u].password = password
       THEN /\ pc' = [pc EXCEPT ![c] = "Sign"]
            /\ job' = [job EXCEPT ![c] = [user |-> u, role |-> rows[u].role, proof |-> password]]
            /\ UNCHANGED wronged
       ELSE /\ wronged' = wronged \cup
                  {m \in {n} : \E v \in Matching(n) : rows[v].password = password}
            /\ UNCHANGED <<pc, job>>
    /\ UNCHANGED <<now, phase, rows, tokens, windows, served, late, overwritten>>

\* The token carries the role that was read, until it expires.
Sign(c) ==
    /\ pc[c] = "Sign"
    /\ tokens' = tokens \cup
          {[user |-> job[c].user, role |-> job[c].role, proof |-> job[c].proof, exp |-> now + TTL]}
    /\ Answer(c)
    /\ UNCHANGED <<now, received, phase, rows, windows, served, late, overwritten, wronged>>

-----------------------------------------------------------------------------
(* Auth, then the limiter, then RequireRole, then the handler.              *)

\* What Auth accepts: a token not yet expired, or the service's key and bearer.
Credentials == {t \in tokens : t.exp > now} \cup {Service}

KeyOf(cred) == IF cred = Service THEN "service" ELSE "user"

\* A window that never started over would stay full.
CountedFromRefusal(w) ==
    IF w.start # now \/ w.count > Limit THEN [start |-> now, count |-> 1]
    ELSE [w EXCEPT !.count = @ + 1]

\* The fixed window of a client on a route; refused requests count as well.
Counted(w) ==
    IF w.start # now THEN [start |-> now, count |-> 1] ELSE [w EXCEPT !.count = @ + 1]

Allowed(route) == IF route = "users" THEN {"admin", "service"} ELSE Roles \cup {"service"}

\* A request to a protected route; row is the user that POST users is to create
\* (GET users and the writes of the other handlers leave users alone).
Request(c, p, route, cred, row) ==
    LET x == <<p, route, KeyOf(cred)>>
        through == Counted(windows[x]).count <= Limit
    IN /\ pc[c] = "idle"
       /\ phase[p] = "up"
       /\ received < MaxRequests
       /\ received' = received + 1
       /\ cred \in Credentials
       /\ windows' = [windows EXCEPT ![x] = Counted(@)]
       /\ served' = IF through THEN [served EXCEPT ![x] = @ + 1] ELSE served
       /\ IF through /\ cred.role \in Allowed(route) /\ route = "users"
          THEN /\ pc' = [pc EXCEPT ![c] = "Create"]
               /\ job' = [job EXCEPT ![c] = row]
          ELSE UNCHANGED <<pc, job>>
       /\ UNCHANGED <<now, phase, rows, tokens, late, overwritten, wronged>>

\* Only the username is unique: a second user with an e-mail is accepted.
Create(c) ==
    /\ pc[c] = "Create"
    /\ \/ /\ Named(job[c].username) # {}
          /\ UNCHANGED <<rows, late>>
       \/ /\ Named(job[c].username) = {}
          /\ \E u \in Users :
                /\ ~Exists(u)
                /\ rows' = [rows EXCEPT ![u] = job[c]]
                /\ late' = late \cup {v \in {u} : \E p \in Processes : phase[p] = "Upsert"}
    /\ Answer(c)
    /\ UNCHANGED <<now, received, phase, tokens, windows, served, overwritten, wronged>>

\* The next statement fails, or the process stops before it.
Abort(c) ==
    /\ "db" \in Faults
    /\ pc[c] # "idle"
    /\ Answer(c)
    /\ UNCHANGED <<now, received, phase, rows, tokens, windows, served,
                   late, overwritten, wronged>>

Tick ==
    /\ now < MaxTime
    /\ now' = now + 1
    /\ served' = [x \in DOMAIN served |-> 0]
    /\ UNCHANGED <<received, phase, rows, tokens, windows, pc, job, late, overwritten, wronged>>

Next ==
    \/ \E p \in Processes : Start(p) \/ BootstrapReads(p) \/ Upsert(p) \/ Fatal(p)
    \/ \E c \in Clients, p \in Processes, n \in Names, password \in Passwords, u \in Users :
          Login(c, p, n, password, u)
    \/ \E c \in Clients, p \in Processes, route \in Routes, cred \in Credentials, row \in Row :
          /\ route # "users" => row = Ensured
          /\ Request(c, p, route, cred, row)
    \/ \E c \in Clients : Sign(c) \/ Create(c) \/ Abort(c)
    \/ Tick

Spec == Init /\ [][Next]_vars

-----------------------------------------------------------------------------
TypeOK ==
    /\ now \in 0 .. MaxTime
    /\ received \in 0 .. MaxRequests
    /\ phase \in [Processes -> Phases]
    /\ rows \in [Users -> Row \cup {None}]
    /\ tokens \subseteq Token
    /\ pc \in [Clients -> {"idle", "Sign", "Create"}]
    /\ late \subseteq Users
    /\ overwritten \subseteq Users
    /\ wronged \subseteq Names

\* A user keeps the row it was created with, whatever processes start, unless it
\* was created between a bootstrap's read and its upsert (EnsureBootstrapUser:
\* "if _, err := s.repo.GetByUsername").
UsersKeepTheirRow == overwritten \subseteq late

\* A token's role is its user's, and its holder has shown the password in force,
\* unless a bootstrap overwrote that user (Login, Upsert).
TokensTellTheRow ==
    \A t \in tokens :
        \/ t.user \in overwritten
        \/ rows[t.user].role = t.role /\ rows[t.user].password = t.proof

\* A right password is refused only where two users answer to the identifier
\* (GetByUsername: "WHERE username = $1 OR email = $1").
RefusedHasCause ==
    \A n \in wronged : Cardinality(Matching(n)) > 1 \/ overwritten # {}

\* In no minute does a process let a client through a route more than Limit
\* times, refused requests and new minutes included (RateLimitPerMinute).
LimitHolds == \A x \in DOMAIN served : served[x] <= Limit

AccessInv ==
    TypeOK /\ UsersKeepTheirRow /\ TokensTellTheRow /\ RefusedHasCause /\ LimitHolds
=============================================================================
