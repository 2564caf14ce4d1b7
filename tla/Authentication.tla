--------------------------- MODULE Authentication ---------------------------
(***************************************************************************)
(* Users, sessions and the requests that log in, log out and administer    *)
(* users.                                                                  *)
(*                                                                         *)
(* A login looks the account up, checks the password, which is slow, and   *)
(* then records the outcome in a transaction that loads the row again and  *)
(* updates the columns it changed, without a lock.  Every other request is *)
(* authorised from its session first and goes on from what was read then.  *)
(* A request may fail (its process die, the database refuse) before any of *)
(* its steps.                                                              *)
(*                                                                         *)
(* A password is right or wrong, and a token is the session it stands for. *)
(***************************************************************************)
EXTENDS Integers, FiniteSets

CONSTANTS
    Users,          \* usernames
    Sessions,       \* session tokens, each drawn once
    Requests,       \* requests the API serves at the same time
    Roles,          \* the roles a user may be given
    Bootstrap,      \* the admin that the command line creates
    MAX_FAILED_LOGIN_ATTEMPTS,
    LOCKOUT_DURATION,
    SESSION_TTL,
    Budgets,        \* the combinations of bounded events of a behaviour
    None,           \* no row, and no time
    Unissued,       \* a token that has not been drawn yet
    Idle            \* a request slot that serves nothing

\* What Budgets bounds: logins, other requests, requests that begin while
\* another is served, requests that fail half-way, and the passing of time.
BoundedEvents == {"login", "request", "overlap", "fail", "tick"}

ASSUME AuthAssumption ==
    /\ Bootstrap \in Users
    /\ Roles \subseteq {"viewer", "researcher", "reviewer", "admin"}
    /\ MAX_FAILED_LOGIN_ATTEMPTS \in Nat \ {0}
    /\ LOCKOUT_DURATION \in Nat \ {0}
    /\ SESSION_TTL \in Nat \ {0}
    /\ Budgets \subseteq [BoundedEvents -> Nat]

\* The rows of the two tables, and what is remembered of a request.
UserRows ==
    [role : Roles \cup {"admin"}, active : BOOLEAN,
     failed_login_attempts : Nat, locked_until : Nat \cup {None}]
SessionRows == [user : Users, expires_at : Nat]
RequestStates ==
    [kind : {"unknown_username", "account_locked", "bad_password",
             "account_inactive", "login", "logout", "role", "active", "create"},
     pc : {"load", "commit", "purge", "session", "delete", "insert", "audit",
           "audit_lock"},
     user : Users, actor : Users, value : Roles \cup Sessions \cup {None},
     flag : BOOLEAN, seen : Nat, row : UserRows \cup {None},
     lock : Nat \cup {None}, at : Nat]

ASSUME DistinctAssumption ==
    /\ None \notin Nat \cup UserRows
    /\ {None, Unissued} \cap SessionRows = {} /\ None # Unissued
    /\ Idle \notin RequestStates

VARIABLES
    users,     \* users[u]: the row of u, or None
    sessions,  \* sessions[s]: the row of s, None when deleted, or Unissued
    req,       \* req[r]: the request that slot r serves, or Idle
    audit,     \* the audit events recorded
    clock,     \* the time
    rejected,  \* history: the wrong passwords recorded since the last login
    spent      \* spent[k]: bounded events of kind k so far

history == <<rejected, spent>>
vars == <<users, sessions, req, audit, clock, history>>
-----------------------------------------------------------------------------
NewUser(role) == [role |-> role, active |-> TRUE, failed_login_attempts |-> 0,
                  locked_until |-> None]

Init ==
    /\ users = [u \in Users |-> IF u = Bootstrap THEN NewUser("admin") ELSE None]
    /\ sessions = [s \in Sessions |-> Unissued]
    /\ req = [r \in Requests |-> Idle]
    /\ audit = {}
    /\ clock = 0
    /\ rejected = [u \in Users |-> [count |-> 0, at |-> 0]]
    /\ spent = [k \in BoundedEvents |-> 0]

Within(s) == \E b \in Budgets : \A k \in BoundedEvents : s[k] <= b[k]

Spend(k) ==
    /\ spent' = [spent EXCEPT ![k] = @ + 1]
    /\ Within(spent')

\* A request comes in, alone or beside another.
Begin(r, k, q) ==
    /\ req[r] = Idle
    /\ req' = [req EXCEPT ![r] = q]
    /\ spent' = [spent EXCEPT ![k] = @ + 1,
                              !["overlap"] = IF \E o \in Requests : req[o] # Idle
                                             THEN @ + 1 ELSE @]
    /\ Within(spent')
    /\ UNCHANGED <<users, sessions, audit, clock, rejected>>

\* kind: what the request does; user: to whom; actor: who asks; value: the role
\* asked for or the session to end; flag: whether to activate; seen: the
\* failures the look-up found; row: the row as it was loaded; lock: the lock
\* decided on; at: when that was, and until then when the request came in.
Request(kind, pc, user, actor, value) ==
    [kind |-> kind, pc |-> pc, user |-> user, actor |-> actor, value |-> value,
     flag |-> FALSE, seen |-> 0, row |-> None, lock |-> None, at |-> clock]

Goto(r, pc) == req' = [req EXCEPT ![r].pc = pc]
Finish(r) == req' = [req EXCEPT ![r] = Idle]
At(r, pc) == req[r] # Idle /\ req[r].pc = pc
-----------------------------------------------------------------------------
(* AuthService.login. *)

\* Mutant: the lock is not looked at.
Mut_Locked(row) == FALSE
Locked(row) == row.locked_until # None /\ row.locked_until > clock

\* What becomes of a login of u, from the row that the look-up finds.
LoginKind(u, password_ok) ==
    LET candidate == users[u]
    IN IF candidate = None THEN "unknown_username"
       ELSE IF Locked(candidate) THEN "account_locked"
       ELSE IF ~password_ok THEN "bad_password"
       ELSE IF ~candidate.active THEN "account_inactive"
       ELSE "login"

login(r, u, password_ok) ==
    LET kind == LoginKind(u, password_ok)
        q == Request(kind, IF kind \in {"bad_password", "login"} THEN "load"
                           ELSE "audit", u, u, None)
    IN Begin(r, "login",
             IF users[u] = None THEN q
             ELSE [q EXCEPT !.seen = users[u].failed_login_attempts])

\* Mutant: one attempt too many.
Mut_LockUntil(q, at) ==
    IF q.kind = "bad_password" /\ q.seen >= MAX_FAILED_LOGIN_ATTEMPTS
    THEN at + LOCKOUT_DURATION ELSE None
\* _record_failed_attempt decides on the count that the look-up found.
LockUntil(q, at) ==
    IF q.kind = "bad_password" /\ q.seen + 1 >= MAX_FAILED_LOGIN_ATTEMPTS
    THEN at + LOCKOUT_DURATION ELSE None

\* record_login_failure, record_login_success and update_user load the row.
\* The lock was decided on before that transaction, between the look-up and
\* now: it depends on what the look-up found and on the time it was decided.
Load(r) ==
    /\ At(r, "load")
    /\ \E at \in req[r].at..clock :
         req' = [req EXCEPT ![r].pc = "commit",
                            ![r].row = users[req[r].user],
                            ![r].lock = LockUntil(req[r], at),
                            ![r].at = at]
    /\ UNCHANGED <<users, sessions, audit, clock, history>>

\* The row as the request wants it.
Wanted(q) ==
    CASE q.kind = "bad_password" ->
           [q.row EXCEPT !.failed_login_attempts = @ + 1,
                         !.locked_until = IF q.lock = None THEN @ ELSE q.lock]
      [] q.kind = "login" ->
           [q.row EXCEPT !.failed_login_attempts = 0, !.locked_until = None]
      [] q.kind = "role" -> [q.row EXCEPT !.role = q.value]
      [] q.kind = "active" -> [q.row EXCEPT !.active = q.flag]

\* The update has the columns that differ from the row as it was loaded.
Commit(r) ==
    LET q == req[r] IN
    /\ At(r, "commit")
    /\ users' = [users EXCEPT ![q.user] =
         [f \in DOMAIN @ |->
            IF Wanted(q)[f] # q.row[f] THEN Wanted(q)[f] ELSE @[f]]]
    /\ rejected' = [rejected EXCEPT ![q.user] =
         CASE q.kind = "bad_password" -> [count |-> @.count + 1, at |-> q.at]
           [] q.kind = "login" -> [@ EXCEPT !.count = 0]
           [] OTHER -> @]
    /\ Goto(r, IF q.kind = "login" THEN "purge" ELSE "audit")
    /\ UNCHANGED <<sessions, audit, clock, spent>>

delete_expired_sessions(r) ==
    /\ At(r, "purge")
    /\ sessions' = [s \in Sessions |->
         IF /\ sessions[s] \notin {Unissued, None}
            /\ sessions[s].expires_at < clock
         THEN None ELSE sessions[s]]
    /\ Goto(r, "session")
    /\ UNCHANGED <<users, audit, clock, history>>

create_session(r, s) ==
    /\ At(r, "session")
    /\ sessions[s] = Unissued
    /\ sessions' = [sessions EXCEPT ![s] =
         [user |-> req[r].user, expires_at |-> clock + SESSION_TTL]]
    /\ Goto(r, "audit")
    /\ UNCHANGED <<users, audit, clock, history>>

\* The last step of every request that gets so far; a lock has an event of
\* its own after that of the failure.
Audit(r) ==
    LET q == req[r] IN
    /\ At(r, "audit")
    /\ audit' = audit \cup {[action |-> q.kind, user |-> q.user]}
    /\ IF q.lock # None THEN Goto(r, "audit_lock") ELSE Finish(r)
    /\ UNCHANGED <<users, sessions, clock, history>>

AuditLock(r) ==
    /\ At(r, "audit_lock")
    /\ audit' = audit \cup {[action |-> "lock", user |-> req[r].user]}
    /\ Finish(r)
    /\ UNCHANGED <<users, sessions, clock, history>>
-----------------------------------------------------------------------------
(* Sessions: get_user_for_session and logout. *)

\* Mutant: the session of a deactivated user still counts.
Mut_Presentable(s) ==
    /\ sessions[s] \notin {Unissued, None}
    /\ sessions[s].expires_at > clock

\* A session that authorises a request.  A row that has expired may still be
\* there, and so may the sessions of a user who was deactivated.
Presentable(s) ==
    /\ sessions[s] \notin {Unissued, None}
    /\ sessions[s].expires_at > clock
    /\ users[sessions[s].user].active

\* An expired session that is presented is deleted.
RefuseExpired(s) ==
    /\ sessions[s] \notin {Unissued, None}
    /\ sessions[s].expires_at <= clock
    /\ sessions' = [sessions EXCEPT ![s] = None]
    /\ UNCHANGED <<users, req, audit, clock, history>>

logout(r, s) ==
    /\ Presentable(s)
    /\ Begin(r, "request", Request("logout", "delete", sessions[s].user,
                                   sessions[s].user, s))

delete_session(r) ==
    /\ At(r, "delete")
    /\ sessions' = [sessions EXCEPT ![req[r].value] = None]
    /\ Goto(r, "audit")
    /\ UNCHANGED <<users, audit, clock, history>>
-----------------------------------------------------------------------------
(* Administration of users. *)

\* require_role(Role.ADMIN), from the user as the session's look-up found it.
Admin(s) == Presentable(s) /\ users[sessions[s].user].role = "admin"

update_user_role(r, s, u, role) ==
    /\ Admin(s) /\ users[u] # None
    /\ Begin(r, "request", Request("role", "load", u, sessions[s].user, role))

set_user_active(r, s, u, active) ==
    /\ Admin(s) /\ users[u] # None
    /\ Begin(r, "request", [Request("active", "load", u, sessions[s].user, None)
                              EXCEPT !.flag = active])

create_user(r, s, u, role) ==
    /\ Admin(s)
    /\ Begin(r, "request", Request("create", "insert", u, sessions[s].user, role))

\* A username that is taken is refused, by the look or by the unique column.
InsertUser(r) ==
    LET q == req[r] IN
    /\ At(r, "insert")
    /\ IF users[q.user] = None
       THEN /\ users' = [users EXCEPT ![q.user] = NewUser(q.value)]
            /\ Goto(r, "audit")
       ELSE Finish(r) /\ UNCHANGED users
    /\ UNCHANGED <<sessions, audit, clock, history>>
-----------------------------------------------------------------------------
Fail(r) ==
    /\ req[r] # Idle
    /\ Finish(r)
    /\ Spend("fail")
    /\ UNCHANGED <<users, sessions, audit, clock, rejected>>

Tick ==
    /\ Spend("tick")
    /\ clock' = clock + 1
    /\ UNCHANGED <<users, sessions, req, audit, rejected>>

Serve(r) ==
    \/ \E u \in Users, ok \in BOOLEAN : login(r, u, ok)
    \/ Load(r) \/ Commit(r)
    \/ delete_expired_sessions(r)
    \/ \E s \in Sessions : create_session(r, s) \/ logout(r, s)
    \/ Audit(r) \/ AuditLock(r)
    \/ delete_session(r)
    \/ \E s \in Sessions, u \in Users :
         \/ \E role \in Roles : update_user_role(r, s, u, role)
                                \/ create_user(r, s, u, role)
         \/ \E active \in BOOLEAN : set_user_active(r, s, u, active)
    \/ InsertUser(r)
    \/ Fail(r)

Next ==
    \/ \E r \in Requests : Serve(r)
    \/ \E s \in Sessions : RefuseExpired(s)
    \/ Tick

Spec == Init /\ [][Next]_vars
-----------------------------------------------------------------------------
(* Properties. *)

\* No request has begun while another was served.
Sequential == spent["overlap"] = 0

\* Repeated failures lock an account: once as many wrong passwords were
\* recorded in a row as are allowed, the account is locked, however often it
\* was locked before, and from the last of them on for the whole duration.
\* Each request that begins beside another costs at most one more attempt,
\* although the lock is decided on a count read before the password was checked
\* and the count itself is written from a stale copy.  Where more than two
\* requests overlap the last of them may leave a lock that ends earlier: one
\* that it finds to be its own already is not written, and another request
\* may shorten it meanwhile.
LockIsNear ==
    \A u \in Users :
        rejected[u].count >= MAX_FAILED_LOGIN_ATTEMPTS + spent["overlap"] =>
            /\ users[u].locked_until # None
            /\ spent["overlap"] <= 1 =>
                 users[u].locked_until >= rejected[u].at + LOCKOUT_DURATION

HasSession(u, s) == sessions[s] \notin {Unissued, None} /\ sessions[s].user = u

\* Requests that do not overlap neither lift nor shorten a lock that holds, nor
\* give a session to a locked account, whatever the password and whoever
\* administers the account meanwhile.
LockedOut ==
    [][Sequential => \A u \in Users :
         (/\ users[u] # None
          /\ users[u].locked_until # None
          /\ users[u].locked_until > clock) =>
           /\ users'[u].locked_until # None
           /\ users'[u].locked_until >= users[u].locked_until
           /\ \A s \in Sessions : HasSession(u, s)' => HasSession(u, s)]_vars

\* A deactivation or a demotion takes effect at once: whoever is about to
\* change a user is an active admin at that moment, although sessions outlive
\* both and keep the time they were given.  Requests do not overlap.
RevokedAtOnce ==
    Sequential => \A r \in Requests :
        (req[r] # Idle /\ req[r].pc \in {"load", "commit", "insert"}
           /\ req[r].kind \in {"role", "active", "create"}) =>
            /\ users[req[r].actor].active
            /\ users[req[r].actor].role = "admin"
-----------------------------------------------------------------------------
(***************************************************************************)
(* The inductive invariants that AuthenticationProofs proves.              *)
(***************************************************************************)

TypeOK ==
    /\ users \in [Users -> UserRows \cup {None}]
    /\ sessions \in [Sessions -> SessionRows \cup {None, Unissued}]
    /\ req \in [Requests -> RequestStates \cup {Idle}]
    /\ \A e \in audit : e.user \in Users
    /\ clock \in Nat
    /\ rejected \in [Users -> [count : Nat, at : Nat]]
    /\ spent \in [BoundedEvents -> Nat]

\* The kinds of request that come to a step, and what they need there.
StepInv ==
    \A r \in Requests : req[r] # Idle =>
        LET q == req[r] IN
        /\ q.pc \in {"load", "commit"} =>
             /\ q.kind \in {"bad_password", "login", "role", "active"}
             /\ users[q.user] # None
             /\ q.kind = "role" => q.value \in Roles
        /\ q.pc = "commit" =>
             /\ q.row # None
             /\ q.lock # None => q.lock = q.at + LOCKOUT_DURATION
             /\ q.kind = "bad_password" /\ q.lock = None =>
                  q.seen + 1 < MAX_FAILED_LOGIN_ATTEMPTS
        /\ q.pc \in {"purge", "session"} => q.kind = "login"
        /\ q.pc = "insert" => q.kind = "create" /\ q.value \in Roles
        /\ q.pc = "delete" => q.value \in Sessions

\* Until requests overlap there is one at a time, and what it has read is so.
SequentialInv ==
    Sequential => \A r \in Requests : req[r] # Idle =>
        LET q == req[r] IN
        /\ \A o \in Requests : req[o] # Idle => o = r
        /\ q.pc = "commit" => q.row = users[q.user]
        /\ (/\ q.kind \in {"bad_password", "login"}
            /\ q.pc \in {"load", "commit", "purge", "session"}) =>
             users[q.user] # None /\ ~Locked(users[q.user])

\* The requests that have yet to write what they decide on a stale copy of.
Pending == {r \in Requests : req[r] # Idle /\ req[r].pc \in {"load", "commit"}}

\* The overlaps that no recorded failure is accounted for by: each request that
\* is pending beside another may still use up one.
Slack == IF Pending = {} THEN spent["overlap"]
         ELSE spent["overlap"] + 1 - Cardinality(Pending)

\* How far the counts may lag behind the failures recorded.
LagInv ==
    /\ IsFiniteSet(Pending) /\ Slack >= 0
    /\ \A u \in Users :
         IF users[u] = None THEN rejected[u].count = 0
         ELSE rejected[u].count <= users[u].failed_login_attempts + Slack
    /\ \A r \in Pending :
         LET q == req[r] IN
         q.kind = "bad_password" =>
           /\ rejected[q.user].count <= q.seen + Slack
           /\ q.pc = "commit" =>
                rejected[q.user].count <= q.row.failed_login_attempts + Slack

\* What a failure that is about to be recorded, and a lock that it read, say of
\* the overlaps and of the lock as it is.
LateInv ==
    \A r \in Pending :
        LET q == req[r]
            lock == users[q.user].locked_until
        IN q.kind = "bad_password" =>
             /\ q.pc = "load" /\ lock # None /\ lock > q.at => Slack >= 1
             /\ q.pc = "commit" /\ q.row.locked_until # None =>
                  /\ lock = None => rejected[q.user].count + 1 <= Slack
                  /\ q.row.locked_until = q.lock =>
                       Slack >= 1 /\ (lock = q.lock \/ Slack >= 2)
=============================================================================
