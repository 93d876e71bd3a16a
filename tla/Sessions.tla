------------------------------ MODULE Sessions ------------------------------
(***************************************************************************)
(* The sessions of the analytics platform: AuthHandler over the tables     *)
(* users and refresh_tokens.  A login or a refresh reads, decides and      *)
(* writes in separate statements, most of whose errors are dropped; any    *)
(* number of requests do so at once.  Access tokens are signed and kept    *)
(* nowhere, so a session is what its refresh token allows.                 *)
(*                                                                         *)
(* Passwords are numbered in the order in which they are set.              *)
(* Definitions that no other definition uses, each just before the one it  *)
(* resembles, are plausible bugs that the properties are tested with.      *)
(***************************************************************************)
EXTENDS Naturals

CONSTANTS
    Clients,          \* concurrent requests
    Users,            \* e-mail addresses, which are unique
    Tokens,           \* refresh tokens that can be issued
    MaxFailedLogins,
    MaxPasswords,     \* bound: the last password of a user
    MaxRequests,      \* bound: requests received
    Faults,           \* "db": a statement fails or the process stops
    None

VARIABLES
    received,  \* how many requests were received
    users,     \* the table users, by e-mail
    tokens,    \* the table refresh_tokens
    pc,        \* the statement each request runs next
    job,       \* what each request asks for
    proof,     \* the password that entitles each request to a session
    shared,    \* refresh tokens that several requests may have exchanged
    excused,   \* users whose old sessions may have outlived a new password
    founders,  \* users created by Bootstrap
    raced      \* whether two bootstraps overlapped

vars == <<received, users, tokens, pc, job, proof, shared, excused, founders, raced>>

Passwords == 0 .. MaxPasswords
Locks == {"none", "on", "over"}
User == [active : BOOLEAN, failed_login_count : 0 .. MaxFailedLogins + 1,
         locked_until : Locks, password : Passwords]
\* valid: neither revoked nor expired.
Token == [user : Users, valid : BOOLEAN, proof : Passwords, parent : Tokens \cup {None}]
Ops == {"none", "login", "refresh", "logout", "change", "bootstrap", "create", "update"}
Jobs(ops, us, ts, passwords, states) ==
    [op : ops, user : us, token : ts, password : passwords, active : states]
Job == Jobs(Ops, Users \cup {None}, Tokens \cup {None}, Passwords, BOOLEAN)

NoJob == [op |-> "none", user |-> None, token |-> None, password |-> 0, active |-> TRUE]

\* NewAuthHandler replaces a limit of failed logins that is not positive.
Parameters ==
    /\ MaxFailedLogins \in Nat \ {0}
    /\ {MaxPasswords, MaxRequests} \subseteq Nat
    /\ None \notin Users \cup Tokens
    /\ None \notin User \cup Token

Init ==
    /\ received = 0
    /\ users = [u \in Users |-> None]
    /\ tokens = [t \in Tokens |-> None]
    /\ pc = [c \in Clients |-> "idle"]
    /\ job = [c \in Clients |-> NoJob]
    /\ proof = [c \in Clients |-> 0]
    /\ shared = {}
    /\ excused = {}
    /\ founders = {}
    /\ raced = FALSE

Exists(u) == users[u] # None
Issued(t) == tokens[t] # None
Existing == {u \in Users : Exists(u)}
Known == {t \in Tokens : Issued(t)}

\* The user a request is about: a refresh learns it from its token.
Of(c) == IF job[c].op = "refresh" THEN tokens[job[c].token].user ELSE job[c].user

GoTo(c, statement) == pc' = [pc EXCEPT ![c] = statement] /\ UNCHANGED <<job, proof>>

Answer(c) ==
    /\ pc' = [pc EXCEPT ![c] = "idle"]
    /\ job' = [job EXCEPT ![c] = NoJob]
    /\ proof' = [proof EXCEPT ![c] = 0]

\* The requests that the program lets through to its handlers: those about a
\* user or a token it has heard of; logout and password changes carry an access
\* token of the user, creating and updating users one of an administrator.
Asked ==
    Jobs({"login", "change"}, Existing, {None}, Passwords, {TRUE})
    \cup Jobs({"refresh"}, {None}, Known, {0}, {TRUE})
    \cup (UNION {Jobs({"logout"}, {tokens[t].user}, {t}, {0}, {TRUE}) : t \in Known})
    \cup Jobs({"bootstrap"}, Users, {None}, {0}, {TRUE})
    \cup Jobs({"create"}, IF founders = {} THEN {} ELSE Users, {None}, {0}, {TRUE})
    \cup Jobs({"update"}, Existing, {None}, {0}, BOOLEAN)

FirstStatement(op) ==
    CASE op = "login" -> "GetByEmail"
      [] op = "refresh" -> "GetValid"
      [] op = "logout" -> "Revoke"
      [] op = "change" -> "GetByID"
      [] op = "bootstrap" -> "Count"
      [] op = "create" -> "Create"
      [] op = "update" -> "UpdateActive"

Receive(c, j) ==
    /\ pc[c] = "idle"
    /\ received < MaxRequests
    /\ received' = received + 1
    /\ j \in Asked
    /\ job' = [job EXCEPT ![c] = j]
    /\ pc' = [pc EXCEPT ![c] = FirstStatement(j.op)]
    /\ UNCHANGED <<users, tokens, proof, shared, excused, founders, raced>>

-----------------------------------------------------------------------------
(* Login, and the session that Login, Refresh and Bootstrap end with.       *)

\* Locked and inactive users are refused before the password is looked at.
GetByEmail(c) ==
    /\ pc[c] = "GetByEmail"
    /\ LET u == users[job[c].user]
       IN \/ /\ u.locked_until = "on" \/ ~u.active
             /\ Answer(c)
          \/ /\ u.locked_until # "on" /\ u.active /\ u.password # job[c].password
             /\ GoTo(c, "RegisterFailedLogin")
          \/ /\ u.locked_until # "on" /\ u.active /\ u.password = job[c].password
             /\ pc' = [pc EXCEPT ![c] = "ResetFailedLogins"]
             /\ proof' = [proof EXCEPT ![c] = job[c].password]
             /\ UNCHANGED job
    /\ UNCHANGED <<received, users, tokens, shared, excused, founders, raced>>

\* The count and the lock in one statement; the count is capped.
LockedAfter(u) ==
    [u EXCEPT !.failed_login_count = IF @ <= MaxFailedLogins THEN @ + 1 ELSE @,
              !.locked_until = IF u.failed_login_count > MaxFailedLogins THEN "on" ELSE @]

Failed(u) ==
    [u EXCEPT !.failed_login_count = IF @ <= MaxFailedLogins THEN @ + 1 ELSE @,
              !.locked_until = IF u.failed_login_count + 1 >= MaxFailedLogins THEN "on" ELSE @]

RegisterFailedLogin(c) ==
    /\ pc[c] = "RegisterFailedLogin"
    /\ users' = [users EXCEPT ![job[c].user] = Failed(@)]
    /\ Answer(c)
    /\ UNCHANGED <<received, tokens, shared, excused, founders, raced>>

\* Its error is dropped: the user is let in with the count and the lock as they were.
ResetFailedLogins(c) ==
    /\ pc[c] = "ResetFailedLogins"
    /\ \/ users' = [users EXCEPT ![job[c].user].failed_login_count = 0,
                                 ![job[c].user].locked_until = "none"]
       \/ "db" \in Faults /\ UNCHANGED users
    /\ GoTo(c, "Issue")
    /\ UNCHANGED <<received, tokens, shared, excused, founders, raced>>

\* issuePair, for the user the request named.
IssueToAsked(c, t) ==
    /\ pc[c] = "Issue"
    /\ ~Issued(t)
    /\ tokens' = [tokens EXCEPT ![t] =
            [user |-> job[c].user, valid |-> TRUE, proof |-> proof[c], parent |-> job[c].token]]
    /\ Answer(c)
    /\ UNCHANGED <<received, users, shared, excused, founders, raced>>

\* issuePair; the request that answers without storing the token is in Abort.
Issue(c, t) ==
    /\ pc[c] = "Issue"
    /\ ~Issued(t)
    /\ tokens' = [tokens EXCEPT ![t] =
            [user |-> Of(c), valid |-> TRUE, proof |-> proof[c], parent |-> job[c].token]]
    /\ Answer(c)
    /\ UNCHANGED <<received, users, shared, excused, founders, raced>>

-----------------------------------------------------------------------------
(* Refresh exchanges a token; Logout and ChangePassword revoke.             *)

Valid(t) == tokens[t].valid

Exchanges(c, t) == job[c].op = "refresh" /\ job[c].token = t /\ pc[c] = "Revoke"

\* GetValid of a token whatever its revoked_at.
GetAnyToken(c) ==
    /\ pc[c] = "GetValid"
    /\ pc' = [pc EXCEPT ![c] = "Revoke"]
    /\ proof' = [proof EXCEPT ![c] = tokens[job[c].token].proof]
    /\ UNCHANGED <<received, users, tokens, job, shared, excused, founders, raced>>

GetValid(c) ==
    /\ pc[c] = "GetValid"
    /\ LET t == job[c].token
       IN IF ~Valid(t)
          THEN Answer(c) /\ UNCHANGED shared
          ELSE /\ pc' = [pc EXCEPT ![c] = "Revoke"]
               /\ proof' = [proof EXCEPT ![c] = tokens[t].proof]
               /\ shared' = shared \cup {s \in {t} : \E d \in Clients : Exchanges(d, s)}
               /\ UNCHANGED job
    /\ UNCHANGED <<received, users, tokens, excused, founders, raced>>

AfterRevoke(c) == IF job[c].op = "refresh" THEN "GetByID" ELSE "RevokeAllForUser"

Revoke(c) ==
    /\ pc[c] = "Revoke"
    /\ tokens' = [tokens EXCEPT ![job[c].token].valid = FALSE]
    /\ GoTo(c, AfterRevoke(c))
    /\ UNCHANGED <<received, users, shared, excused, founders, raced>>

\* The error is dropped and the request goes on: the token can be exchanged again.
RevokeIgnored(c) ==
    /\ "db" \in Faults
    /\ pc[c] = "Revoke"
    /\ GoTo(c, AfterRevoke(c))
    /\ shared' = shared \cup {t \in {job[c].token} : job[c].op = "refresh"}
    /\ UNCHANGED <<received, users, tokens, excused, founders, raced>>

\* A refresh needs an active user, a change of password the current one.
GetByID(c) ==
    /\ pc[c] = "GetByID"
    /\ \/ /\ job[c].op = "refresh"
          /\ IF users[Of(c)].active THEN GoTo(c, "Issue") ELSE Answer(c)
       \/ /\ job[c].op = "change"
          /\ IF users[Of(c)].password = job[c].password
             THEN GoTo(c, "UpdatePassword") ELSE Answer(c)
    /\ UNCHANGED <<received, users, tokens, shared, excused, founders, raced>>

\* The new password is new even when two changes of one password overlap.
UpdatePassword(c) ==
    /\ pc[c] = "UpdatePassword"
    /\ users[job[c].user].password < MaxPasswords
    /\ users' = [users EXCEPT ![job[c].user].password = @ + 1]
    /\ GoTo(c, "RevokeAllForUser")
    /\ UNCHANGED <<received, tokens, shared, excused, founders, raced>>

\* Requests that have shown a password and may still get a session for it.
Entitled(d, u) ==
    /\ pc[d] \in {"ResetFailedLogins", "Issue", "Revoke", "GetByID"}
    /\ job[d].op \in {"login", "refresh", "bootstrap"}
    /\ Of(d) = u

Changes(c) == job[c].op = "change"

\* Only the tokens that were issued for the password before.
RevokeLatest(u) ==
    [t \in Tokens |-> IF Issued(t) /\ tokens[t].user = u /\ tokens[t].parent = None
                      THEN [tokens[t] EXCEPT !.valid = FALSE] ELSE tokens[t]]

RevokedFor(u) ==
    [t \in Tokens |-> IF Issued(t) /\ tokens[t].user = u
                      THEN [tokens[t] EXCEPT !.valid = FALSE] ELSE tokens[t]]

RevokeAllForUser(c) ==
    /\ pc[c] = "RevokeAllForUser"
    /\ tokens' = RevokedFor(job[c].user)
    /\ excused' = excused \cup
          {u \in {job[c].user} : /\ Changes(c)
                                 /\ \E d \in Clients : /\ Entitled(d, u)
                                                       /\ proof[d] # users[u].password}
    /\ Answer(c)
    /\ UNCHANGED <<received, users, shared, founders, raced>>

-----------------------------------------------------------------------------
(* Bootstrap, CreateUser and UpdateUser.                                    *)

Founds(c) == job[c].op = "bootstrap" /\ pc[c] = "Create"

CountUnchecked(c) ==
    /\ pc[c] = "Count"
    /\ GoTo(c, "Create")
    /\ raced' = (raced \/ \E d \in Clients : Founds(d))
    /\ UNCHANGED <<received, users, tokens, shared, excused, founders>>

Count(c) ==
    /\ pc[c] = "Count"
    /\ IF \E u \in Users : Exists(u)
       THEN Answer(c) /\ UNCHANGED raced
       ELSE GoTo(c, "Create") /\ raced' = (raced \/ \E d \in Clients : Founds(d))
    /\ UNCHANGED <<received, users, tokens, shared, excused, founders>>

\* The e-mail is unique: the second one is refused.
Create(c) ==
    /\ pc[c] = "Create"
    /\ LET u == job[c].user
       IN IF Exists(u)
          THEN Answer(c) /\ UNCHANGED <<received, users, founders>>
          ELSE /\ users' = [users EXCEPT ![u] =
                      [active |-> TRUE, failed_login_count |-> 0, locked_until |-> "none",
                       password |-> 0]]
               /\ \/ Founds(c) /\ founders' = founders \cup {u} /\ GoTo(c, "Issue")
                  \/ ~Founds(c) /\ UNCHANGED founders /\ Answer(c)
    /\ UNCHANGED <<received, tokens, shared, excused, raced>>

UpdateActive(c) ==
    /\ pc[c] = "UpdateActive"
    /\ users' = [users EXCEPT ![job[c].user].active = job[c].active]
    /\ Answer(c)
    /\ UNCHANGED <<received, tokens, shared, excused, founders, raced>>

-----------------------------------------------------------------------------
\* A request stops before its next statement, or that statement fails.
Abort(c) ==
    /\ "db" \in Faults
    /\ pc[c] # "idle"
    /\ excused' = excused \cup
          {u \in {job[c].user} : Changes(c) /\ pc[c] = "RevokeAllForUser"}
    /\ Answer(c)
    /\ UNCHANGED <<received, users, tokens, shared, founders, raced>>

LockExpires(u) ==
    /\ Exists(u)
    /\ users[u].locked_until = "on"
    /\ users' = [users EXCEPT ![u].locked_until = "over"]
    /\ UNCHANGED <<received, tokens, pc, job, proof, shared, excused, founders, raced>>

TokenExpires(t) ==
    /\ Issued(t)
    /\ tokens' = [tokens EXCEPT ![t].valid = FALSE]
    /\ UNCHANGED <<received, users, pc, job, proof, shared, excused, founders, raced>>

Serve(c) ==
    \/ \E j \in Asked : Receive(c, j)
    \/ GetByEmail(c) \/ RegisterFailedLogin(c) \/ ResetFailedLogins(c)
    \/ \E t \in Tokens : Issue(c, t)
    \/ GetValid(c) \/ Revoke(c) \/ RevokeIgnored(c) \/ GetByID(c)
    \/ UpdatePassword(c) \/ RevokeAllForUser(c)
    \/ Count(c) \/ Create(c) \/ UpdateActive(c)
    \/ Abort(c)

Next ==
    \/ \E c \in Clients : Serve(c)
    \/ \E u \in Users : LockExpires(u)
    \/ \E t \in Tokens : TokenExpires(t)

Spec == Init /\ [][Next]_vars

-----------------------------------------------------------------------------
TypeOK ==
    /\ received \in 0 .. MaxRequests
    /\ users \in [Users -> User \cup {None}]
    /\ tokens \in [Tokens -> Token \cup {None}]
    /\ job \in [Clients -> Job]
    /\ proof \in [Clients -> Passwords]
    /\ shared \subseteq Tokens
    /\ excused \subseteq Users
    /\ founders \subseteq Users
    /\ raced \in BOOLEAN

\* A refresh token is exchanged for one other, unless two exchanges of it
\* overlapped or its revocation failed (Refresh: "rotação: revoga o actual").
OneHeirPerToken ==
    \A s, t \in Tokens :
        /\ Issued(s) /\ Issued(t) /\ s # t
        /\ tokens[s].parent # None /\ tokens[s].parent = tokens[t].parent
        => tokens[s].parent \in shared

\* Once a change of password is over, every session still valid goes back to a
\* login with the password in force, unless a request that had shown an older
\* one was under way or the revocation failed (ChangePassword).
SessionsProveThePassword ==
    \A t \in Tokens :
        Issued(t) /\ Valid(t) =>
            LET u == tokens[t].user
            IN \/ tokens[t].proof = users[u].password
               \/ u \in excused
               \/ \E c \in Clients : /\ Changes(c) /\ job[c].user = u
                                     /\ pc[c] = "RevokeAllForUser"

\* However failures and successes interleave, a user has been locked since the
\* last success exactly when the failures since then reach the limit.
LockFollowsFailures ==
    \A u \in Users :
        Exists(u) => (users[u].locked_until # "none"
                        <=> users[u].failed_login_count >= MaxFailedLogins)

\* Bootstrap makes one administrator, unless two of them overlapped
\* (Bootstrap: "primeiro admin criado").
OneFounder == (\E u, v \in founders : u # v) => raced

\* The invariants of users and sessions together.
SessionsInv ==
    TypeOK /\ OneHeirPerToken /\ SessionsProveThePassword /\ LockFollowsFailures /\ OneFounder
=============================================================================
