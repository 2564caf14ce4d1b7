------------------------- MODULE AuthenticationProofs -------------------------
(***************************************************************************)
(* Proofs about Authentication, for every set of users, sessions, requests *)
(* served at the same time and roles, every number of attempts and every   *)
(* duration.                                                               *)
(***************************************************************************)
EXTENDS Authentication, FiniteSetTheorems, TLAPS

USE DEF BoundedEvents

-----------------------------------------------------------------------------
(***************************************************************************)
(* The steps of requests, in the form the proofs need.                     *)
(***************************************************************************)

\* The request as it begins: nothing loaded, and what it has found holds.
Fresh(q) ==
    /\ q \in RequestStates
    /\ q.lock = None /\ q.at = clock
    /\ q.pc \in {"load", "delete", "insert", "audit"}
    /\ q.pc = "load" =>
         /\ q.kind \in {"bad_password", "login", "role", "active"}
         /\ users[q.user] # None
         /\ q.kind = "role" => q.value \in Roles
    /\ q.pc = "insert" => q.kind = "create" /\ q.value \in Roles
    /\ q.pc = "delete" => q.kind = "logout" /\ q.value \in Sessions
    /\ q.kind \in {"bad_password", "login"} =>
         /\ q.pc = "load" /\ ~Locked(users[q.user])
         /\ q.seen = users[q.user].failed_login_attempts
    /\ q.kind \in {"role", "active", "create"} =>
         users[q.actor].active /\ users[q.actor].role = "admin"

Begins(r) ==
    \E q \in RequestStates, k \in {"login", "request"} : Fresh(q) /\ Begin(r, k, q)

\* A step that neither reads nor writes the row of a user.
Passes(r) ==
    /\ req[r] # Idle /\ req[r].pc \notin {"load", "commit", "insert"}
    /\ \/ req' = [req EXCEPT ![r] = Idle]
       \/ \E x \in {"session", "audit", "audit_lock"} :
            /\ req' = [req EXCEPT ![r] = [req[r] EXCEPT !.pc = x]]
            /\ x = "session" => req[r].pc = "purge"
    /\ UNCHANGED <<users, clock, rejected, spent>>

Rests == UNCHANGED <<users, req, clock, rejected, spent>>

LEMMA Presented ==
    ASSUME TypeOK, NEW s \in Sessions, Presentable(s)
    PROVE  /\ sessions[s] \in SessionRows /\ sessions[s].user \in Users
           /\ users[sessions[s].user].active
  BY DEF TypeOK, Presentable, SessionRows

\* A request is a record of the right type, and keeps what it is given.
LEMMA RequestType ==
    ASSUME TypeOK, NEW kind, NEW pc, NEW user \in Users, NEW actor \in Users,
           NEW value \in Roles \cup Sessions \cup {None},
           kind \in {"unknown_username", "account_locked", "bad_password",
             "account_inactive", "login", "logout", "role", "active", "create"},
           pc \in {"load", "delete", "insert", "audit"}
    PROVE  LET q == Request(kind, pc, user, actor, value) IN
           /\ q \in RequestStates
           /\ q.kind = kind /\ q.pc = pc /\ q.user = user /\ q.actor = actor
           /\ q.value = value /\ q.row = None /\ q.lock = None /\ q.seen = 0
           /\ q.at = clock
  BY DEF Request, RequestStates, TypeOK

LEMMA LoginBegins ==
    ASSUME TypeOK, NEW r \in Requests, NEW u \in Users, NEW ok \in BOOLEAN,
           login(r, u, ok)
    PROVE  Begins(r)
<1> DEFINE kind == LoginKind(u, ok)
           pc == IF kind \in {"bad_password", "login"} THEN "load" ELSE "audit"
           q == Request(kind, pc, u, u, None)
           p == IF users[u] = None THEN q
                ELSE [q EXCEPT !.seen = users[u].failed_login_attempts]
<1>1. /\ kind \in {"unknown_username", "account_locked", "bad_password",
                   "account_inactive", "login"}
      /\ kind \in {"bad_password", "login"} =>
           users[u] # None /\ ~Locked(users[u])
  BY DEF LoginKind
<1>2. Begin(r, "login", p)
  BY DEF login
<1> HIDE DEF kind
<1>3. /\ q \in RequestStates /\ q.kind = kind /\ q.pc = pc /\ q.user = u
      /\ q.lock = None /\ q.seen = 0 /\ q.at = clock
  BY <1>1, RequestType
<1> HIDE DEF q
<1>4. users[u] # None => users[u].failed_login_attempts \in Nat
  BY DEF TypeOK, UserRows
<1>5. /\ p \in RequestStates /\ p.kind = kind /\ p.pc = pc /\ p.user = u
      /\ p.lock = None /\ p.at = clock
      /\ users[u] # None => p.seen = users[u].failed_login_attempts
  BY <1>3, <1>4 DEF RequestStates
<1> HIDE DEF p
<1>6. Fresh(p)
  BY <1>1, <1>5 DEF Fresh
<1> QED
  BY <1>2, <1>5, <1>6 DEF Begins

LEMMA OthersBegin ==
    ASSUME TypeOK, NEW r \in Requests, NEW s \in Sessions, NEW u \in Users
    PROVE  /\ logout(r, s) => Begins(r)
           /\ \A role \in Roles : update_user_role(r, s, u, role) => Begins(r)
           /\ \A role \in Roles : create_user(r, s, u, role) => Begins(r)
           /\ \A active \in BOOLEAN : set_user_active(r, s, u, active) => Begins(r)
<1> DEFINE a == sessions[s].user
<1>0. Presentable(s) => a \in Users /\ users[a].active
  BY Presented
<1>1. ASSUME logout(r, s)
      PROVE  Begins(r)
  <2> DEFINE q == Request("logout", "delete", a, a, s)
  <2>1. Begin(r, "request", q) /\ a \in Users
    BY <1>0, <1>1 DEF logout
  <2>2. /\ q \in RequestStates /\ q.kind = "logout" /\ q.pc = "delete"
        /\ q.lock = None /\ q.value = s /\ q.at = clock
    BY <2>1, RequestType
  <2> HIDE DEF q
  <2>3. Fresh(q)
    BY <2>2 DEF Fresh
  <2> QED
    BY <2>1, <2>2, <2>3 DEF Begins
<1>2. ASSUME NEW role \in Roles, update_user_role(r, s, u, role)
      PROVE  Begins(r)
  <2> DEFINE q == Request("role", "load", u, a, role)
  <2>1. /\ Begin(r, "request", q) /\ a \in Users /\ users[u] # None
        /\ users[a].active /\ users[a].role = "admin"
    BY <1>0, <1>2 DEF update_user_role, Admin
  <2>2. /\ q \in RequestStates /\ q.kind = "role" /\ q.pc = "load"
        /\ q.user = u /\ q.actor = a /\ q.value = role /\ q.lock = None
        /\ q.at = clock
    BY <2>1, RequestType
  <2> HIDE DEF q
  <2>3. Fresh(q)
    BY <2>1, <2>2 DEF Fresh
  <2> QED
    BY <2>1, <2>2, <2>3 DEF Begins
<1>3. ASSUME NEW role \in Roles, create_user(r, s, u, role)
      PROVE  Begins(r)
  <2> DEFINE q == Request("create", "insert", u, a, role)
  <2>1. /\ Begin(r, "request", q) /\ a \in Users
        /\ users[a].active /\ users[a].role = "admin"
    BY <1>0, <1>3 DEF create_user, Admin
  <2>2. /\ q \in RequestStates /\ q.kind = "create" /\ q.pc = "insert"
        /\ q.actor = a /\ q.value = role /\ q.lock = None
        /\ q.at = clock
    BY <2>1, RequestType
  <2> HIDE DEF q
  <2>3. Fresh(q)
    BY <2>1, <2>2 DEF Fresh
  <2> QED
    BY <2>1, <2>2, <2>3 DEF Begins
<1>4. ASSUME NEW active \in BOOLEAN, set_user_active(r, s, u, active)
      PROVE  Begins(r)
  <2> DEFINE p == Request("active", "load", u, a, None)
             q == [p EXCEPT !.flag = active]
  <2>1. /\ Begin(r, "request", q) /\ a \in Users /\ users[u] # None
        /\ users[a].active /\ users[a].role = "admin"
    BY <1>0, <1>4 DEF set_user_active, Admin
  <2>2. /\ p \in RequestStates /\ p.kind = "active" /\ p.pc = "load"
        /\ p.user = u /\ p.actor = a /\ p.lock = None /\ p.at = clock
    BY <2>1, RequestType
  <2> HIDE DEF p
  <2>3. /\ q \in RequestStates /\ q.kind = "active" /\ q.pc = "load"
        /\ q.user = u /\ q.actor = a /\ q.lock = None /\ q.at = clock
    BY <2>2 DEF RequestStates
  <2> HIDE DEF q
  <2>4. Fresh(q)
    BY <2>1, <2>3 DEF Fresh
  <2> QED
    BY <2>1, <2>3, <2>4 DEF Begins
<1> QED
  BY <1>1, <1>2, <1>3, <1>4

LEMMA StepCases ==
    ASSUME TypeOK, [Next]_vars
    PROVE  \/ \E r \in Requests : \/ Begins(r) \/ Load(r) \/ Commit(r)
                                  \/ InsertUser(r) \/ Passes(r) \/ Fail(r)
           \/ Tick
           \/ Rests
<1>1. ASSUME NEW r \in Requests, Serve(r)
      PROVE  \/ Begins(r) \/ Load(r) \/ Commit(r) \/ InsertUser(r) \/ Passes(r)
             \/ Fail(r)
  <2>1. ASSUME \/ delete_expired_sessions(r) \/ delete_session(r)
               \/ \E s \in Sessions : create_session(r, s)
        PROVE  Passes(r)
    BY <2>1 DEF delete_expired_sessions, delete_session, create_session, Passes,
                At, Goto, history
  <2>2. ASSUME Audit(r) \/ AuditLock(r)
        PROVE  Passes(r)
    BY <2>2 DEF Audit, AuditLock, Passes, At, Goto, Finish, history
  <2>3. ASSUME \/ \E u \in Users, ok \in BOOLEAN : login(r, u, ok)
               \/ \E s \in Sessions : logout(r, s)
               \/ \E s \in Sessions, u \in Users :
                    \/ \E role \in Roles : update_user_role(r, s, u, role)
                                           \/ create_user(r, s, u, role)
                    \/ \E active \in BOOLEAN : set_user_active(r, s, u, active)
        PROVE  Begins(r)
    <3>1. Bootstrap \in Users
      BY AuthAssumption
    <3> QED
      BY <2>3, <3>1, LoginBegins, OthersBegin
  <2> QED
    BY <1>1, <2>1, <2>2, <2>3 DEF Serve
<1>2. ASSUME NEW s \in Sessions, RefuseExpired(s)
      PROVE  Rests
  BY <1>2 DEF RefuseExpired, Rests, history
<1>3. UNCHANGED vars => Rests
  BY DEF vars, history, Rests
<1> QED
  BY <1>1, <1>2, <1>3 DEF Next

\* What Begin leaves: an overlap is counted when another request is served.
LEMMA BeginFacts ==
    ASSUME TypeOK, NEW r \in Requests, Begins(r)
    PROVE  /\ req[r] = Idle /\ req'[r] # Idle /\ req'[r] \in RequestStates
           /\ Fresh(req'[r])
           /\ req' = [req EXCEPT ![r] = req'[r]]
           /\ spent' \in [BoundedEvents -> Nat]
           /\ spent'["overlap"] \in {spent["overlap"], spent["overlap"] + 1}
           /\ (\E o \in Requests : req[o] # Idle) =>
                spent'["overlap"] = spent["overlap"] + 1
           /\ UNCHANGED <<users, sessions, audit, clock, rejected>>
<1>1. PICK q \in RequestStates, k \in {"login", "request"} :
        Fresh(q) /\ Begin(r, k, q)
  BY DEF Begins
<1>2. /\ req[r] = Idle /\ req' = [req EXCEPT ![r] = q]
      /\ UNCHANGED <<users, sessions, audit, clock, rejected>>
  BY <1>1 DEF Begin
<1>3. req'[r] = q
  BY <1>2 DEF TypeOK
<1>4. q # Idle
  BY DistinctAssumption
<1>5. /\ spent' \in [BoundedEvents -> Nat]
      /\ spent'["overlap"] \in {spent["overlap"], spent["overlap"] + 1}
      /\ (\E o \in Requests : req[o] # Idle) =>
           spent'["overlap"] = spent["overlap"] + 1
  BY <1>1 DEF Begin, TypeOK
<1> QED
  BY <1>1, <1>2, <1>3, <1>4, <1>5

LEMMA LoadFacts ==
    ASSUME TypeOK, StepInv, NEW r \in Requests, Load(r)
    PROVE  LET q == req[r]
               p == req'[r]
           IN /\ q \in RequestStates /\ q.pc = "load"
              /\ p \in RequestStates /\ p.pc = "commit"
              /\ p.kind = q.kind /\ p.user = q.user /\ p.actor = q.actor
              /\ p.value = q.value /\ p.seen = q.seen
              /\ p.row = users[q.user] /\ p.row \in UserRows
              /\ p.at \in q.at..clock /\ p.lock = LockUntil(q, p.at)
              /\ req' = [req EXCEPT ![r] = p]
              /\ UNCHANGED <<users, sessions, audit, clock, rejected, spent>>
<1> DEFINE q == req[r]
<1>1. q \in RequestStates /\ q.pc = "load" /\ q # Idle
  BY DEF Load, At, TypeOK
<1>2. users[q.user] \in UserRows
  BY <1>1 DEF StepInv, TypeOK, RequestStates
<1>3. PICK at \in q.at..clock :
        req' = [req EXCEPT ![r].pc = "commit", ![r].row = users[q.user],
                           ![r].lock = LockUntil(q, at), ![r].at = at]
  BY DEF Load
<1> DEFINE p == [q EXCEPT !.pc = "commit", !.row = users[q.user],
                          !.lock = LockUntil(q, at), !.at = at]
<1>4. at \in Nat /\ LockUntil(q, at) \in Nat \cup {None}
  <2>1. at \in Nat
    BY <1>1 DEF RequestStates, TypeOK
  <2> QED
    BY <2>1, AuthAssumption DEF LockUntil
<1>5. req' = [req EXCEPT ![r] = p]
  BY <1>3
<1>6. /\ p \in RequestStates /\ p.pc = "commit" /\ p.kind = q.kind
      /\ p.user = q.user /\ p.actor = q.actor /\ p.value = q.value
      /\ p.seen = q.seen /\ p.row = users[q.user] /\ p.at = at
      /\ p.lock = LockUntil(q, at)
  BY <1>1, <1>2, <1>4 DEF RequestStates
<1> HIDE DEF p
<1>7. req'[r] = p
  BY <1>5 DEF TypeOK
<1> QED
  BY <1>1, <1>2, <1>3, <1>5, <1>6, <1>7 DEF Load, history

\* The columns that a commit writes, by the kind of the request.
LEMMA CommitRow ==
    ASSUME NEW q \in RequestStates, NEW row \in UserRows, q.row \in UserRows,
           q.kind \in {"bad_password", "login", "role", "active"},
           q.kind = "role" => q.value \in Roles
    PROVE  LET new == [f \in DOMAIN row |->
                         IF Wanted(q)[f] # q.row[f] THEN Wanted(q)[f] ELSE row[f]]
           IN /\ new \in UserRows
              /\ q.kind = "bad_password" =>
                   /\ new.failed_login_attempts = q.row.failed_login_attempts + 1
                   /\ new.locked_until =
                        IF q.lock \in {None, q.row.locked_until}
                        THEN row.locked_until ELSE q.lock
              /\ q.kind = "login" =>
                   new.locked_until =
                     IF q.row.locked_until = None THEN row.locked_until ELSE None
              /\ q.kind \in {"role", "active"} =>
                   /\ new.failed_login_attempts = row.failed_login_attempts
                   /\ new.locked_until = row.locked_until
<1> DEFINE w == Wanted(q)
<1>1. CASE q.kind = "bad_password"
  <2> DEFINE n == q.row.failed_login_attempts + 1
             l == IF q.lock = None THEN q.row.locked_until ELSE q.lock
             v == [q.row EXCEPT !.failed_login_attempts = n, !.locked_until = l]
  <2>1. w = v
    BY <1>1 DEF Wanted
  <2>0. n \in Nat /\ l \in Nat \cup {None}
    BY DEF UserRows, RequestStates
  <2> HIDE DEF n, l
  <2>2. /\ v \in UserRows /\ v.role = q.row.role /\ v.active = q.row.active
        /\ v.failed_login_attempts = n /\ v.locked_until = l
    BY <2>0 DEF UserRows
  <2>3. n # q.row.failed_login_attempts
    BY DEF UserRows, n
  <2> HIDE DEF v
  <2> QED
    BY <1>1, <2>1, <2>2, <2>3 DEF UserRows, n, l
<1>2. CASE q.kind = "login"
  <2> DEFINE v == [q.row EXCEPT !.failed_login_attempts = 0,
                                !.locked_until = None]
  <2>1. w = v
    BY <1>2 DEF Wanted
  <2>2. /\ v \in UserRows /\ v.role = q.row.role /\ v.active = q.row.active
        /\ v.failed_login_attempts = 0 /\ v.locked_until = None
    BY DEF UserRows
  <2> HIDE DEF v
  <2> QED
    BY <1>2, <2>1, <2>2 DEF UserRows
<1>3. CASE q.kind = "role"
  <2> DEFINE v == [q.row EXCEPT !.role = q.value]
  <2>1. w = v
    BY <1>3 DEF Wanted
  <2>2. /\ v \in UserRows /\ v.active = q.row.active
        /\ v.failed_login_attempts = q.row.failed_login_attempts
        /\ v.locked_until = q.row.locked_until
    BY <1>3 DEF UserRows
  <2> HIDE DEF v
  <2> QED
    BY <1>3, <2>1, <2>2 DEF UserRows
<1>4. CASE q.kind = "active"
  <2> DEFINE v == [q.row EXCEPT !.active = q.flag]
  <2>1. w = v
    BY <1>4 DEF Wanted
  <2>2. /\ v \in UserRows /\ v.role = q.row.role
        /\ v.failed_login_attempts = q.row.failed_login_attempts
        /\ v.locked_until = q.row.locked_until
    BY DEF UserRows, RequestStates
  <2> HIDE DEF v
  <2> QED
    BY <1>4, <2>1, <2>2 DEF UserRows
<1> QED
  BY <1>1, <1>2, <1>3, <1>4

\* A commit writes one row, and goes on to a step that writes no row.
LEMMA CommitFacts ==
    ASSUME TypeOK, StepInv, NEW r \in Requests, Commit(r)
    PROVE  LET q == req[r]
               row == users[q.user]
               new == users'[q.user]
           IN /\ q \in RequestStates /\ q.pc = "commit" /\ q.user \in Users
              /\ q.row \in UserRows /\ row \in UserRows /\ new \in UserRows
              /\ q.kind = "bad_password" =>
                   /\ new.failed_login_attempts = q.row.failed_login_attempts + 1
                   /\ new.locked_until =
                        IF q.lock \in {None, q.row.locked_until}
                        THEN row.locked_until ELSE q.lock
                   /\ rejected'[q.user].count = rejected[q.user].count + 1
                   /\ rejected'[q.user].at = q.at
              /\ q.kind = "login" =>
                   /\ new.locked_until =
                        IF q.row.locked_until = None THEN row.locked_until
                        ELSE None
                   /\ rejected'[q.user].count = 0
              /\ q.kind \in {"role", "active"} =>
                   /\ new.failed_login_attempts = row.failed_login_attempts
                   /\ new.locked_until = row.locked_until
                   /\ rejected'[q.user] = rejected[q.user]
              /\ q.kind \in {"bad_password", "login", "role", "active"}
              /\ users' = [users EXCEPT ![q.user] = new]
              /\ rejected' \in [Users -> [count : Nat, at : Nat]]
              /\ \A u \in Users \ {q.user} : rejected'[u] = rejected[u]
              /\ req'[r] \in RequestStates
              /\ req'[r].pc = IF q.kind = "login" THEN "purge" ELSE "audit"
              /\ req'[r].kind = q.kind /\ req'[r].user = q.user
              /\ req' = [req EXCEPT ![r] = req'[r]]
              /\ UNCHANGED <<sessions, audit, clock, spent>>
<1> DEFINE q == req[r]
           row == users[q.user]
           new == [f \in DOMAIN row |->
                     IF Wanted(q)[f] # q.row[f] THEN Wanted(q)[f] ELSE row[f]]
           old == rejected[q.user]
           p == [q EXCEPT !.pc = IF q.kind = "login" THEN "purge" ELSE "audit"]
           count == CASE q.kind = "bad_password" ->
                           [count |-> old.count + 1, at |-> q.at]
                      [] q.kind = "login" -> [old EXCEPT !.count = 0]
                      [] OTHER -> old
<1>1. q \in RequestStates /\ q.pc = "commit" /\ q # Idle /\ q.user \in Users
  BY DEF Commit, At, TypeOK, RequestStates
<1>2. /\ q.kind \in {"bad_password", "login", "role", "active"}
      /\ q.row \in UserRows /\ row \in UserRows
      /\ q.kind = "role" => q.value \in Roles
  BY <1>1 DEF StepInv, TypeOK, RequestStates
<1>3. /\ new \in UserRows
      /\ q.kind = "bad_password" =>
           /\ new.failed_login_attempts = q.row.failed_login_attempts + 1
           /\ new.locked_until = IF q.lock \in {None, q.row.locked_until}
                                 THEN row.locked_until ELSE q.lock
      /\ q.kind = "login" =>
           new.locked_until = IF q.row.locked_until = None
                              THEN row.locked_until ELSE None
      /\ q.kind \in {"role", "active"} =>
           /\ new.failed_login_attempts = row.failed_login_attempts
           /\ new.locked_until = row.locked_until
  BY <1>1, <1>2, CommitRow
<1>4. /\ users' = [users EXCEPT ![q.user] = new]
      /\ rejected' = [rejected EXCEPT ![q.user] = count]
      /\ req' = [req EXCEPT ![r] = p]
      /\ UNCHANGED <<sessions, audit, clock, spent>>
  BY DEF Commit, Goto
<1>5. /\ count \in [count : Nat, at : Nat]
      /\ q.kind = "bad_password" => count.count = old.count + 1 /\ count.at = q.at
      /\ q.kind = "login" => count.count = 0
      /\ q.kind \in {"role", "active"} => count = old
  <2>1. old \in [count : Nat, at : Nat] /\ q.at \in Nat
    BY <1>1 DEF TypeOK, RequestStates
  <2> HIDE DEF old, q
  <2>2. CASE q.kind = "bad_password"
    BY <2>1, <2>2
  <2>3. CASE q.kind = "login"
    BY <2>1, <2>3
  <2>4. CASE q.kind \in {"role", "active"}
    BY <2>1, <2>4
  <2> QED
    BY <1>2, <2>2, <2>3, <2>4
<1>6. /\ p \in RequestStates /\ p.kind = q.kind /\ p.user = q.user
      /\ p.pc = IF q.kind = "login" THEN "purge" ELSE "audit"
  BY <1>1 DEF RequestStates
<1> HIDE DEF new, count, p
<1>7. users'[q.user] = new /\ rejected'[q.user] = count /\ req'[r] = p
  BY <1>1, <1>4 DEF TypeOK
<1>8. /\ rejected' \in [Users -> [count : Nat, at : Nat]]
      /\ \A u \in Users \ {q.user} : rejected'[u] = rejected[u]
  BY <1>1, <1>4, <1>5 DEF TypeOK
<1> QED
  BY <1>1, <1>2, <1>3, <1>4, <1>5, <1>6, <1>7, <1>8

LEMMA InsertFacts ==
    ASSUME TypeOK, StepInv, NEW r \in Requests, InsertUser(r)
    PROVE  LET q == req[r] IN
           /\ q \in RequestStates /\ q.pc = "insert" /\ q.user \in Users
           /\ \/ /\ users[q.user] = None
                 /\ users'[q.user] \in UserRows
                 /\ users'[q.user].failed_login_attempts = 0
                 /\ users' = [users EXCEPT ![q.user] = users'[q.user]]
                 /\ req'[r] \in RequestStates /\ req'[r].pc = "audit"
                 /\ req'[r].kind = q.kind
              \/ /\ users[q.user] # None /\ UNCHANGED users /\ req'[r] = Idle
           /\ req' = [req EXCEPT ![r] = req'[r]]
           /\ UNCHANGED <<sessions, audit, clock, rejected, spent>>
<1> DEFINE q == req[r]
           p == [q EXCEPT !.pc = "audit"]
           new == NewUser(q.value)
<1>1. q \in RequestStates /\ q.pc = "insert" /\ q # Idle /\ q.user \in Users
  BY DEF InsertUser, At, TypeOK, RequestStates
<1>2. q.value \in Roles
  BY <1>1 DEF StepInv
<1>3. new \in UserRows /\ new.failed_login_attempts = 0
  BY <1>2 DEF NewUser, UserRows
<1>4. p \in RequestStates /\ p.pc = "audit" /\ p.kind = q.kind
  BY <1>1 DEF RequestStates
<1>5. /\ \/ /\ users[q.user] = None
            /\ users' = [users EXCEPT ![q.user] = new]
            /\ req' = [req EXCEPT ![r] = p]
         \/ /\ users[q.user] # None /\ UNCHANGED users
            /\ req' = [req EXCEPT ![r] = Idle]
      /\ UNCHANGED <<sessions, audit, clock, rejected, spent>>
  BY DEF InsertUser, Goto, Finish, history
<1> HIDE DEF new, p
<1>6. req \in [Requests -> RequestStates \cup {Idle}]
  BY DEF TypeOK
<1>7. /\ req' = [req EXCEPT ![r] = p] => req'[r] = p
      /\ req' = [req EXCEPT ![r] = Idle] => req'[r] = Idle
  BY <1>6
<1>8. users' = [users EXCEPT ![q.user] = new] => users'[q.user] = new
  BY <1>1 DEF TypeOK
<1> QED
  BY <1>1, <1>3, <1>4, <1>5, <1>7, <1>8

LEMMA PassFacts ==
    ASSUME TypeOK, NEW r \in Requests, Passes(r)
    PROVE  /\ req[r] \in RequestStates
           /\ req[r].pc \notin {"load", "commit", "insert"}
           /\ \/ req'[r] = Idle
              \/ /\ req'[r] \in RequestStates
                 /\ req'[r].pc \in {"session", "audit", "audit_lock"}
                 /\ req'[r].pc = "session" => req[r].pc = "purge"
                 /\ req'[r].kind = req[r].kind /\ req'[r].user = req[r].user
           /\ req' = [req EXCEPT ![r] = req'[r]]
           /\ UNCHANGED <<users, clock, rejected, spent>>
<1>1. req[r] \in RequestStates /\ req[r].pc \notin {"load", "commit", "insert"}
  BY DEF Passes, TypeOK
<1>2. CASE req' = [req EXCEPT ![r] = Idle]
  BY <1>1, <1>2 DEF Passes, TypeOK
<1>3. ASSUME NEW x \in {"session", "audit", "audit_lock"},
             req' = [req EXCEPT ![r] = [req[r] EXCEPT !.pc = x]],
             x = "session" => req[r].pc = "purge"
      PROVE  /\ req'[r] \in RequestStates
             /\ req'[r].pc \in {"session", "audit", "audit_lock"}
             /\ req'[r].pc = "session" => req[r].pc = "purge"
             /\ req'[r].kind = req[r].kind /\ req'[r].user = req[r].user
             /\ req' = [req EXCEPT ![r] = req'[r]]
  <2> DEFINE p == [req[r] EXCEPT !.pc = x]
  <2>1. /\ p \in RequestStates /\ p.pc = x /\ p.kind = req[r].kind
        /\ p.user = req[r].user
    BY <1>1 DEF RequestStates
  <2>2. req' = [req EXCEPT ![r] = p]
    BY <1>3
  <2> HIDE DEF p
  <2>3. req'[r] = p
    BY <2>2 DEF TypeOK
  <2> QED
    BY <1>3, <2>1, <2>2, <2>3
<1> QED
  BY <1>1, <1>2, <1>3 DEF Passes

LEMMA FailFacts ==
    ASSUME TypeOK, NEW r \in Requests, Fail(r)
    PROVE  /\ req'[r] = Idle
           /\ req' = [req EXCEPT ![r] = req'[r]]
           /\ spent' \in [BoundedEvents -> Nat]
           /\ spent'["overlap"] = spent["overlap"]
           /\ UNCHANGED <<users, clock, rejected>>
  BY DEF Fail, Finish, Spend, TypeOK

LEMMA TickFacts ==
    ASSUME TypeOK, Tick
    PROVE  /\ clock' = clock + 1
           /\ spent' \in [BoundedEvents -> Nat]
           /\ spent'["overlap"] = spent["overlap"]
           /\ UNCHANGED <<users, req, rejected>>
  BY DEF Tick, Spend, TypeOK

LEMMA SessionStep ==
    ASSUME TypeOK, StepInv, [Next]_vars
    PROVE  /\ sessions' \in [Sessions -> SessionRows \cup {None, Unissued}]
           /\ \A e \in audit' : e.user \in Users
<1> USE DEF TypeOK
<1>1. ASSUME NEW r \in Requests, NEW s \in Sessions, create_session(r, s)
      PROVE  /\ sessions' \in [Sessions -> SessionRows \cup {None, Unissued}]
             /\ UNCHANGED audit
  <2> DEFINE new == [user |-> req[r].user, expires_at |-> clock + SESSION_TTL]
  <2>1. req[r].user \in Users
    BY <1>1 DEF create_session, At, RequestStates
  <2>2. new \in SessionRows
    BY <2>1, AuthAssumption DEF SessionRows
  <2>3. sessions' = [sessions EXCEPT ![s] = new] /\ UNCHANGED audit
    BY <1>1 DEF create_session
  <2> HIDE DEF new
  <2> QED
    BY <2>2, <2>3
<1>2. ASSUME NEW r \in Requests, delete_session(r)
      PROVE  /\ sessions' \in [Sessions -> SessionRows \cup {None, Unissued}]
             /\ UNCHANGED audit
  BY <1>2 DEF delete_session
<1>3. ASSUME NEW r \in Requests, delete_expired_sessions(r)
      PROVE  /\ sessions' \in [Sessions -> SessionRows \cup {None, Unissued}]
             /\ UNCHANGED audit
  BY <1>3 DEF delete_expired_sessions
<1>4. ASSUME NEW s \in Sessions, RefuseExpired(s)
      PROVE  /\ sessions' \in [Sessions -> SessionRows \cup {None, Unissued}]
             /\ UNCHANGED audit
  BY <1>4 DEF RefuseExpired
<1>5. ASSUME NEW r \in Requests, Audit(r) \/ AuditLock(r)
      PROVE  UNCHANGED sessions /\ \A e \in audit' : e.user \in Users
  <2>1. req[r].user \in Users
    BY <1>5 DEF Audit, AuditLock, At, RequestStates
  <2>2. UNCHANGED sessions
    BY <1>5 DEF Audit, AuditLock
  <2>3. PICK a : audit' = audit \cup {[action |-> a, user |-> req[r].user]}
    BY <1>5 DEF Audit, AuditLock
  <2> QED
    BY <2>1, <2>2, <2>3
<1>6. CASE UNCHANGED <<sessions, audit>>
  BY <1>6
<1>7. ASSUME NEW r \in Requests, Serve(r)
      PROVE  \/ \E s \in Sessions : create_session(r, s)
             \/ delete_session(r) \/ delete_expired_sessions(r)
             \/ Audit(r) \/ AuditLock(r)
             \/ UNCHANGED <<sessions, audit>>
  BY <1>7 DEF Serve, login, Load, Commit, logout, update_user_role, create_user,
              set_user_active, InsertUser, Fail, Begin
<1>8. Tick \/ UNCHANGED vars => UNCHANGED <<sessions, audit>>
  BY DEF Tick, vars
<1> QED
  BY <1>1, <1>2, <1>3, <1>4, <1>5, <1>6, <1>7, <1>8 DEF Next

LEMMA TypeStep ==
    ASSUME TypeOK, StepInv, [Next]_vars
    PROVE  TypeOK'
<1> DEFINE T == /\ users' \in [Users -> UserRows \cup {None}]
                /\ req' \in [Requests -> RequestStates \cup {Idle}]
                /\ clock' \in Nat
                /\ rejected' \in [Users -> [count : Nat, at : Nat]]
                /\ spent' \in [BoundedEvents -> Nat]
<1>1. ASSUME NEW r \in Requests, Begins(r)
      PROVE  T
  BY <1>1, BeginFacts DEF TypeOK
<1>2. ASSUME NEW r \in Requests, Load(r)
      PROVE  T
  BY <1>2, LoadFacts DEF TypeOK
<1>3. ASSUME NEW r \in Requests, Commit(r)
      PROVE  T
  <2>1. /\ users' = [users EXCEPT ![req[r].user] = users'[req[r].user]]
        /\ users'[req[r].user] \in UserRows
        /\ rejected' \in [Users -> [count : Nat, at : Nat]]
        /\ req' = [req EXCEPT ![r] = req'[r]] /\ req'[r] \in RequestStates
        /\ UNCHANGED <<clock, spent>>
    BY <1>3, CommitFacts
  <2> QED
    BY <2>1 DEF TypeOK
<1>4. ASSUME NEW r \in Requests, InsertUser(r)
      PROVE  T
  BY <1>4, InsertFacts DEF TypeOK
<1>5. ASSUME NEW r \in Requests, Passes(r)
      PROVE  T
  BY <1>5, PassFacts DEF TypeOK
<1>6. ASSUME NEW r \in Requests, Fail(r)
      PROVE  T
  BY <1>6, FailFacts DEF TypeOK
<1>7. ASSUME Tick
      PROVE  T
  BY <1>7, TickFacts DEF TypeOK
<1>8. ASSUME Rests
      PROVE  T
  BY <1>8 DEF TypeOK, Rests
<1>9. T
  BY <1>1, <1>2, <1>3, <1>4, <1>5, <1>6, <1>7, <1>8, StepCases
<1> QED
  BY <1>9, SessionStep DEF TypeOK

-----------------------------------------------------------------------------
(***************************************************************************)
(* Steps of one request at a time.                                         *)
(***************************************************************************)

\* StepInv says of a request q what Ready says.
Ready(q, rows) ==
    /\ q.pc \in {"load", "commit"} =>
         /\ q.kind \in {"bad_password", "login", "role", "active"}
         /\ rows[q.user] # None
         /\ q.kind = "role" => q.value \in Roles
    /\ q.pc = "commit" =>
         /\ q.row # None
         /\ q.lock # None => q.lock = q.at + LOCKOUT_DURATION
         /\ q.kind = "bad_password" /\ q.lock = None =>
              q.seen + 1 < MAX_FAILED_LOGIN_ATTEMPTS
    /\ q.pc \in {"purge", "session"} => q.kind = "login"
    /\ q.pc = "insert" => q.kind = "create" /\ q.value \in Roles
    /\ q.pc = "delete" => q.value \in Sessions

LEMMA ReadyIsStepInv ==
    StepInv <=> \A r \in Requests : req[r] # Idle => Ready(req[r], users)
  BY DEF StepInv, Ready

\* No row is removed.
LEMMA RowsStay ==
    ASSUME TypeOK, StepInv, [Next]_vars
    PROVE  \A u \in Users : users[u] # None => users'[u] # None
<1>1. ASSUME NEW r \in Requests, Commit(r) \/ InsertUser(r)
      PROVE  \A u \in Users : users[u] # None => users'[u] # None
  <2>1. None \notin UserRows
    BY DistinctAssumption
  <2>2. CASE Commit(r)
    BY <2>1, <2>2, CommitFacts DEF TypeOK
  <2>3. CASE InsertUser(r)
    BY <2>1, <2>3, InsertFacts DEF TypeOK
  <2> QED
    BY <1>1, <2>2, <2>3
<1>2. ASSUME NEW r \in Requests, Begins(r) \/ Load(r) \/ Passes(r) \/ Fail(r)
      PROVE  UNCHANGED users
  BY <1>2, BeginFacts, LoadFacts, PassFacts, FailFacts
<1>3. Tick \/ Rests => UNCHANGED users
  BY TickFacts DEF Rests
<1> QED
  BY <1>1, <1>2, <1>3, StepCases

LEMMA StepStep ==
    ASSUME TypeOK, StepInv, [Next]_vars
    PROVE  StepInv'
<1>0. \A r \in Requests : req[r] # Idle => Ready(req[r], users) /\ req[r].user \in Users
  BY ReadyIsStepInv DEF TypeOK, RequestStates
<1>1. \A q : Ready(q, users) /\ q.user \in Users => Ready(q, users')
  BY RowsStay DEF Ready
<1>2. ASSUME NEW r \in Requests, req' = [req EXCEPT ![r] = req'[r]],
             req'[r] # Idle => Ready(req'[r], users')
      PROVE  \A o \in Requests : req'[o] # Idle => Ready(req'[o], users')
  <2> SUFFICES ASSUME NEW o \in Requests, req'[o] # Idle
               PROVE  Ready(req'[o], users')
    OBVIOUS
  <2>1. CASE o = r
    BY <1>2, <2>1
  <2>2. CASE o # r
    <3>1. req'[o] = req[o]
      BY <1>2, <2>2 DEF TypeOK
    <3> QED
      BY <1>0, <1>1, <3>1
  <2> QED
    BY <2>1, <2>2
<1> DEFINE G == \A o \in Requests : req'[o] # Idle => Ready(req'[o], users')
<1>3. ASSUME NEW r \in Requests, Begins(r)
      PROVE  G
  <2>1. Fresh(req'[r]) /\ req' = [req EXCEPT ![r] = req'[r]] /\ users' = users
    BY <1>3, BeginFacts
  <2>2. Ready(req'[r], users')
    BY <2>1 DEF Fresh, Ready
  <2> QED
    BY <1>2, <2>1, <2>2
<1>4. ASSUME NEW r \in Requests, Load(r)
      PROVE  G
  <2> DEFINE q == req[r]
             p == req'[r]
  <2>1. /\ p.pc = "commit" /\ p.kind = q.kind /\ p.user = q.user
        /\ p.value = q.value /\ p.seen = q.seen /\ p.row \in UserRows
        /\ p.at \in Nat /\ p.lock = LockUntil(q, p.at) /\ users' = users
        /\ q.pc = "load" /\ q \in RequestStates
        /\ req' = [req EXCEPT ![r] = p]
    BY <1>4, LoadFacts DEF RequestStates
  <2>2. Ready(q, users)
    BY <1>0, <2>1, DistinctAssumption
  <2>3. p.row # None
    BY <2>1, DistinctAssumption
  <2>4. /\ p.lock # None => p.lock = p.at + LOCKOUT_DURATION
        /\ p.kind = "bad_password" /\ p.lock = None =>
             p.seen + 1 < MAX_FAILED_LOGIN_ATTEMPTS
    <3>1. p.at + LOCKOUT_DURATION # None
      BY <2>1, AuthAssumption, DistinctAssumption
    <3>2. q.seen + 1 \in Nat /\ MAX_FAILED_LOGIN_ATTEMPTS \in Nat
      BY <2>1, AuthAssumption DEF RequestStates
    <3> HIDE DEF p, q
    <3> QED
      BY <2>1, <3>1, <3>2 DEF LockUntil
  <2>5. Ready(p, users')
    <3> HIDE DEF p, q
    <3> QED
      BY <2>1, <2>2, <2>3, <2>4 DEF Ready
  <2> QED
    BY <1>2, <2>1, <2>5
<1>5. ASSUME NEW r \in Requests, Commit(r)
      PROVE  G
  <2>1. /\ req'[r].pc = IF req[r].kind = "login" THEN "purge" ELSE "audit"
        /\ req'[r].kind = req[r].kind /\ req' = [req EXCEPT ![r] = req'[r]]
    BY <1>5, CommitFacts
  <2>2. Ready(req'[r], users')
    BY <2>1 DEF Ready
  <2> QED
    BY <1>2, <2>1, <2>2
<1>6. ASSUME NEW r \in Requests, InsertUser(r)
      PROVE  G
  <2>1. /\ req'[r] = Idle \/ req'[r].pc = "audit"
        /\ req' = [req EXCEPT ![r] = req'[r]]
    BY <1>6, InsertFacts
  <2>2. req'[r] # Idle => Ready(req'[r], users')
    BY <2>1 DEF Ready
  <2> QED
    BY <1>2, <2>1, <2>2
<1>7. ASSUME NEW r \in Requests, Passes(r)
      PROVE  G
  <2>1. /\ req'[r] # Idle => /\ req'[r].pc \in {"session", "audit", "audit_lock"}
                             /\ req'[r].pc = "session" => req[r].pc = "purge"
                             /\ req'[r].kind = req[r].kind
        /\ req' = [req EXCEPT ![r] = req'[r]] /\ req[r] # Idle
    BY <1>7, PassFacts DEF Passes
  <2>2. req'[r] # Idle => Ready(req'[r], users')
    BY <1>0, <2>1 DEF Ready
  <2> QED
    BY <1>2, <2>1, <2>2
<1>8. ASSUME NEW r \in Requests, Fail(r)
      PROVE  G
  BY <1>2, <1>8, FailFacts
<1>9. ASSUME Tick \/ Rests
      PROVE  G
  <2>1. req' = req
    BY <1>9, TickFacts DEF Rests
  <2> QED
    BY <1>0, <1>1, <2>1
<1>10. G
  BY <1>3, <1>4, <1>5, <1>6, <1>7, <1>8, <1>9, StepCases
<1> QED
  BY <1>10 DEF StepInv, Ready

-----------------------------------------------------------------------------
(***************************************************************************)
(* Requests that do not overlap.                                           *)
(***************************************************************************)

\* SequentialInv says of the one request q what Holds says.
Unlocked(row, now) == ~(row.locked_until # None /\ row.locked_until > now)

Holds(q, rows, now) ==
    /\ q.pc = "commit" => q.row = rows[q.user]
    /\ (/\ q.kind \in {"bad_password", "login"}
        /\ q.pc \in {"load", "commit", "purge", "session"}) =>
         rows[q.user] # None /\ Unlocked(rows[q.user], now)

IsAdmin(q, rows) ==
    (/\ q.pc \in {"load", "commit", "insert"}
     /\ q.kind \in {"role", "active", "create"}) =>
        rows[q.actor].active /\ rows[q.actor].role = "admin"

\* SequentialInv and RevokedAtOnce, together.
Orderly ==
    Sequential => \A r \in Requests : req[r] # Idle =>
        /\ \A o \in Requests : req[o] # Idle => o = r
        /\ Holds(req[r], users, clock)
        /\ IsAdmin(req[r], users)

LEMMA OrderlyIs ==
    Orderly <=> SequentialInv /\ RevokedAtOnce
  BY DEF Orderly, SequentialInv, RevokedAtOnce, Holds, IsAdmin, Unlocked, Locked

LEMMA OrderlyStep ==
    ASSUME TypeOK, StepInv, Orderly, [Next]_vars
    PROVE  Orderly'
<1> SUFFICES ASSUME spent'["overlap"] = 0
             PROVE  \A r \in Requests : req'[r] # Idle =>
                      /\ \A o \in Requests : req'[o] # Idle => o = r
                      /\ Holds(req'[r], users', clock')
                      /\ IsAdmin(req'[r], users')
  BY DEF Orderly, Sequential, Holds, IsAdmin, Unlocked
<1> DEFINE Good(q, rows, now) == Holds(q, rows, now) /\ IsAdmin(q, rows)
           G == \A r \in Requests : req'[r] # Idle =>
                  /\ \A o \in Requests : req'[o] # Idle => o = r
                  /\ Good(req'[r], users', clock')
<1>0. spent["overlap"] \in Nat
  BY DEF TypeOK
\* Only r is served, before and after.
<1>1. ASSUME NEW r \in Requests, req' = [req EXCEPT ![r] = req'[r]],
             \A o \in Requests : req[o] # Idle => o = r,
             req'[r] # Idle => Good(req'[r], users', clock')
      PROVE  G
  <2>1. \A o \in Requests : o # r => req'[o] = Idle
    BY <1>1 DEF TypeOK
  <2> HIDE DEF Good
  <2> QED
    BY <1>1, <2>1
<1>2. ASSUME Sequential, NEW r \in Requests, req[r] # Idle
      PROVE  /\ \A o \in Requests : req[o] # Idle => o = r
             /\ Good(req[r], users, clock)
  BY <1>2 DEF Orderly
<1>3. ASSUME NEW r \in Requests, Begins(r)
      PROVE  G
  <2>1. /\ Fresh(req'[r]) /\ req' = [req EXCEPT ![r] = req'[r]]
        /\ UNCHANGED <<users, clock>> /\ req[r] = Idle
        /\ (\E o \in Requests : req[o] # Idle) =>
             spent'["overlap"] = spent["overlap"] + 1
    BY <1>3, BeginFacts
  <2>2. \A o \in Requests : req[o] # Idle => o = r
    BY <1>0, <2>1
  <2>3. Good(req'[r], users', clock')
    BY <2>1 DEF Fresh, Holds, IsAdmin, Unlocked, Locked
  <2> QED
    BY <1>1, <2>1, <2>2, <2>3
<1>4. ASSUME NEW r \in Requests, Load(r)
      PROVE  G
  <2> DEFINE q == req[r]
             p == req'[r]
  <2>1. /\ q \in RequestStates /\ q.pc = "load" /\ p.pc = "commit"
        /\ p.kind = q.kind /\ p.user = q.user /\ p.actor = q.actor
        /\ p.row = users[q.user] /\ req' = [req EXCEPT ![r] = p]
        /\ UNCHANGED <<users, clock, spent>>
    BY <1>4, LoadFacts
  <2>2. q # Idle /\ Sequential
    BY <2>1, DistinctAssumption DEF Sequential
  <2>3. /\ \A o \in Requests : req[o] # Idle => o = r
        /\ Good(q, users, clock)
    BY <1>2, <2>2
  <2>4. Good(p, users', clock')
    <3> HIDE DEF p, q
    <3> QED
      BY <2>1, <2>3 DEF Holds, IsAdmin
  <2> HIDE DEF Good
  <2> QED
    BY <1>1, <2>1, <2>3, <2>4
<1>5. ASSUME NEW r \in Requests, Commit(r)
      PROVE  G
  <2> DEFINE q == req[r]
             p == req'[r]
             row == users[q.user]
             new == users'[q.user]
  <2>1. /\ q \in RequestStates /\ q.pc = "commit" /\ new \in UserRows
        /\ q.kind = "login" =>
             new.locked_until = IF q.row.locked_until = None
                                THEN row.locked_until ELSE None
        /\ p.pc = IF q.kind = "login" THEN "purge" ELSE "audit"
        /\ p.kind = q.kind /\ p.user = q.user
        /\ req' = [req EXCEPT ![r] = p] /\ UNCHANGED <<clock, spent>>
    BY <1>5, CommitFacts
  <2>2. q # Idle /\ Sequential /\ new # None
    BY <2>1, DistinctAssumption DEF Sequential
  <2>3. /\ \A o \in Requests : req[o] # Idle => o = r
        /\ q.row = row
    BY <1>2, <2>1, <2>2 DEF Holds
  <2>4. q.kind = "login" => new.locked_until = None
    BY <2>1, <2>3
  <2>5. Good(p, users', clock')
    <3>1. new = users'[p.user]
      BY <2>1
    <3> HIDE DEF p, q, new
    <3> QED
      BY <2>1, <2>2, <2>4, <3>1 DEF Holds, IsAdmin, Unlocked
  <2> HIDE DEF Good
  <2> QED
    BY <1>1, <2>1, <2>3, <2>5
<1>6. ASSUME NEW r \in Requests, InsertUser(r)
      PROVE  G
  <2>1. /\ req[r] \in RequestStates /\ req' = [req EXCEPT ![r] = req'[r]]
        /\ req'[r] = Idle \/ req'[r].pc = "audit"
        /\ UNCHANGED spent
    BY <1>6, InsertFacts
  <2>2. req[r] # Idle /\ Sequential
    BY <2>1, DistinctAssumption DEF Sequential
  <2>3. req'[r] # Idle => Good(req'[r], users', clock')
    BY <2>1 DEF Holds, IsAdmin
  <2> HIDE DEF Good
  <2> QED
    BY <1>1, <1>2, <2>1, <2>2, <2>3
<1>7. ASSUME NEW r \in Requests, Passes(r)
      PROVE  G
  <2>1. /\ \/ req'[r] = Idle
           \/ /\ req'[r].pc \in {"session", "audit", "audit_lock"}
              /\ req'[r].pc = "session" => req[r].pc = "purge"
              /\ req'[r].kind = req[r].kind /\ req'[r].user = req[r].user
        /\ req' = [req EXCEPT ![r] = req'[r]]
        /\ UNCHANGED <<users, clock, spent>>
    BY <1>7, PassFacts
  <2>2. req[r] # Idle /\ Sequential
    BY <1>7, <2>1 DEF Sequential, Passes
  <2>3. /\ \A o \in Requests : req[o] # Idle => o = r
        /\ Good(req[r], users, clock)
    BY <1>2, <2>2
  <2>4. req'[r] # Idle => Good(req'[r], users', clock')
    BY <2>1, <2>3 DEF Holds, IsAdmin
  <2> HIDE DEF Good
  <2> QED
    BY <1>1, <2>1, <2>3, <2>4
<1>8. ASSUME NEW r \in Requests, Fail(r)
      PROVE  G
  <2>1. /\ req'[r] = Idle /\ req' = [req EXCEPT ![r] = req'[r]]
        /\ spent'["overlap"] = spent["overlap"] /\ req[r] # Idle
    BY <1>8, FailFacts DEF Fail
  <2>2. \A o \in Requests : req[o] # Idle => o = r
    BY <1>2, <2>1 DEF Sequential
  <2> HIDE DEF Good
  <2> QED
    BY <1>1, <2>1, <2>2
<1>9. ASSUME Tick \/ Rests
      PROVE  G
  <2>1. /\ UNCHANGED <<users, req>> /\ clock' \in {clock, clock + 1}
        /\ spent'["overlap"] = spent["overlap"]
    BY <1>9, TickFacts DEF Rests
  <2>2. \A q \in RequestStates : Good(q, users, clock) => Good(q, users', clock')
    <3>1. \A u \in Users : users[u] # None /\ Unlocked(users[u], clock) =>
            Unlocked(users[u], clock')
      BY <2>1 DEF Unlocked, TypeOK, UserRows
    <3>2. \A q \in RequestStates : q.user \in Users
      BY DEF RequestStates
    <3> QED
      BY <2>1, <3>1, <3>2 DEF Holds, IsAdmin
  <2>3. \A r \in Requests : req[r] # Idle =>
          req[r] \in RequestStates /\ Good(req[r], users, clock)
    BY <1>2, <2>1 DEF TypeOK, Sequential
  <2>4. \A r, o \in Requests : req[r] # Idle /\ req[o] # Idle => o = r
    BY <1>2, <2>1 DEF Sequential
  <2> HIDE DEF Good
  <2> QED
    BY <2>1, <2>2, <2>3, <2>4
<1>10. G
  BY <1>3, <1>4, <1>5, <1>6, <1>7, <1>8, <1>9, StepCases
<1> QED
  BY <1>10

\* A step of a request served alone leaves a lock that holds as it is.
LEMMA LockStays ==
    ASSUME TypeOK, StepInv, Orderly, Sequential, [Next]_vars,
           NEW u \in Users, users[u] # None, Locked(users[u])
    PROVE  users'[u].locked_until = users[u].locked_until
<1>1. ASSUME NEW r \in Requests, Commit(r)
      PROVE  users'[u].locked_until = users[u].locked_until
  <2> DEFINE q == req[r]
  <2>1. /\ q \in RequestStates /\ q.pc = "commit" /\ q.user \in Users
        /\ q.kind \in {"bad_password", "login", "role", "active"}
        /\ q.kind \in {"role", "active"} =>
             users'[q.user].locked_until = users[q.user].locked_until
        /\ users' = [users EXCEPT ![q.user] = users'[q.user]]
    BY <1>1, CommitFacts
  <2>2. q # Idle
    BY <2>1, DistinctAssumption
  <2>3. CASE q.user = u
    <3>1. Holds(q, users, clock)
      BY <2>2 DEF Orderly
    <3>2. q.kind \notin {"bad_password", "login"}
      BY <2>1, <2>3, <3>1 DEF Holds, Unlocked, Locked
    <3> QED
      BY <2>1, <2>3, <3>2
  <2>4. CASE q.user # u
    BY <2>1, <2>4 DEF TypeOK
  <2> QED
    BY <2>3, <2>4
<1>2. ASSUME NEW r \in Requests, InsertUser(r)
      PROVE  users'[u].locked_until = users[u].locked_until
  BY <1>2, InsertFacts DEF TypeOK
<1>3. ASSUME NEW r \in Requests, Begins(r) \/ Load(r) \/ Passes(r) \/ Fail(r)
      PROVE  UNCHANGED users
  BY <1>3, BeginFacts, LoadFacts, PassFacts, FailFacts
<1>4. Tick \/ Rests => UNCHANGED users
  BY TickFacts DEF Rests
<1> QED
  BY <1>1, <1>2, <1>3, <1>4, StepCases

LEMMA NoNewSession ==
    ASSUME TypeOK, StepInv, Orderly, Sequential, [Next]_vars,
           NEW u \in Users, users[u] # None, Locked(users[u]),
           NEW s \in Sessions, sessions'[s] \notin {Unissued, None},
           sessions'[s].user = u
    PROVE  HasSession(u, s)
<1> USE DEF TypeOK, HasSession
<1>1. ASSUME NEW r \in Requests, NEW t \in Sessions, create_session(r, t)
      PROVE  HasSession(u, s)
  <2> DEFINE new == [user |-> req[r].user, expires_at |-> clock + SESSION_TTL]
  <2>1. sessions' = [sessions EXCEPT ![t] = new] /\ new.user = req[r].user
    BY <1>1 DEF create_session
  <2>2. req[r] # Idle /\ req[r].pc = "session"
    BY <1>1 DEF create_session, At
  <2>3. req[r].kind = "login" /\ Holds(req[r], users, clock)
    BY <2>2 DEF StepInv, Orderly
  <2>4. req[r].user # u
    BY <2>2, <2>3 DEF Holds, Unlocked, Locked
  <2> HIDE DEF new
  <2> QED
    BY <2>1, <2>4
<1>2. ASSUME NEW r \in Requests, delete_session(r)
      PROVE  HasSession(u, s)
  BY <1>2 DEF delete_session
<1>3. ASSUME NEW r \in Requests, delete_expired_sessions(r)
      PROVE  HasSession(u, s)
  BY <1>3 DEF delete_expired_sessions
<1>4. ASSUME NEW t \in Sessions, RefuseExpired(t)
      PROVE  HasSession(u, s)
  BY <1>4 DEF RefuseExpired
<1>5. CASE UNCHANGED sessions
  BY <1>5
<1>6. ASSUME NEW r \in Requests, Serve(r)
      PROVE  \/ \E t \in Sessions : create_session(r, t)
             \/ delete_session(r) \/ delete_expired_sessions(r)
             \/ UNCHANGED sessions
  BY <1>6 DEF Serve, login, Load, Commit, logout, update_user_role, create_user,
              set_user_active, InsertUser, Fail, Begin, Audit, AuditLock
<1>7. Tick \/ UNCHANGED vars => UNCHANGED sessions
  BY DEF Tick, vars
<1> QED
  BY <1>1, <1>2, <1>3, <1>4, <1>5, <1>6, <1>7 DEF Next

-----------------------------------------------------------------------------
(***************************************************************************)
(* Requests that overlap: the slack.                                       *)
(***************************************************************************)

SlackOf(P, k) == IF P = {} THEN k ELSE k + 1 - Cardinality(P)

LEMMA SlackIs ==
    ASSUME NEW P, IsFiniteSet(P), NEW k \in Nat
    PROVE  SlackOf(P, k) \in Int /\ SlackOf(P, k) <= k
<1>1. Cardinality(P) \in Nat /\ (P # {} => Cardinality(P) # 0)
  BY FS_CardinalityType, FS_EmptySet
<1> QED
  BY <1>1 DEF SlackOf

\* A request that comes to be pending beside another is counted.
LEMMA SlackAdd ==
    ASSUME NEW P, IsFiniteSet(P), NEW r, r \notin P, NEW k \in Nat,
           NEW l \in {k, k + 1}, P # {} => l = k + 1
    PROVE  /\ IsFiniteSet(P \cup {r})
           /\ SlackOf(P \cup {r}, l) >= SlackOf(P, k)
<1>1. /\ IsFiniteSet(P \cup {r})
      /\ Cardinality(P \cup {r}) = Cardinality(P) + 1
      /\ Cardinality(P) \in Nat /\ (P = {} => Cardinality(P) = 0)
  BY FS_AddElement, FS_CardinalityType, FS_EmptySet
<1> QED
  BY <1>1 DEF SlackOf

\* A request that is not pending any more gives its overlap back.
LEMMA SlackRemove ==
    ASSUME NEW P, IsFiniteSet(P), NEW r \in P, NEW k \in Nat
    PROVE  /\ IsFiniteSet(P \ {r})
           /\ SlackOf(P \ {r}, k) >= SlackOf(P, k)
           /\ P \ {r} # {} => SlackOf(P \ {r}, k) = SlackOf(P, k) + 1
<1>1. /\ IsFiniteSet(P \ {r})
      /\ Cardinality(P \ {r}) = Cardinality(P) - 1
      /\ Cardinality(P) \in Nat /\ Cardinality(P \ {r}) \in Nat
      /\ P \ {r} = {} => Cardinality(P \ {r}) = 0
  BY FS_RemoveElement, FS_CardinalityType, FS_EmptySet
<1> QED
  BY <1>1 DEF SlackOf

IsPending(q) == q # Idle /\ q.pc \in {"load", "commit"}

LEMMA PendingIs ==
    /\ Pending = {r \in Requests : IsPending(req[r])}
    /\ Slack = SlackOf(Pending, spent["overlap"])
  BY DEF Pending, IsPending, Slack, SlackOf

\* Only the request that takes the step comes to be pending, or ends to be.
LEMMA PendingStep ==
    ASSUME TypeOK, NEW r \in Requests, req' = [req EXCEPT ![r] = req'[r]]
    PROVE  Pending' = IF IsPending(req'[r]) THEN Pending \cup {r}
                      ELSE Pending \ {r}
<1>1. \A o \in Requests : o # r => req'[o] = req[o]
  BY DEF TypeOK
<1>2. Pending' = {o \in Requests : IsPending(req'[o])}
  BY DEF Pending, IsPending
<1>3. Pending = {o \in Requests : IsPending(req[o])}
  BY PendingIs
<1> QED
  BY <1>1, <1>2, <1>3

LEMMA SlackStep ==
    ASSUME TypeOK, StepInv, LagInv, [Next]_vars
    PROVE  /\ IsFiniteSet(Pending') /\ Slack \in Int /\ Slack' \in Int
           /\ Slack' >= Slack /\ Slack' <= spent'["overlap"]
           /\ \A r \in Requests : Commit(r) =>
                /\ r \in Pending /\ Pending' = Pending \ {r}
                /\ Pending' # {} => Slack' >= Slack + 1
<1> DEFINE k == spent["overlap"]
           l == spent'["overlap"]
<1>0. /\ IsFiniteSet(Pending) /\ k \in Nat /\ Slack = SlackOf(Pending, k)
      /\ Slack' = SlackOf(Pending', l)
      /\ Slack \in Int
  <2>1. Slack' = SlackOf(Pending', l)
    BY DEF Slack, SlackOf
  <2>2. IsFiniteSet(Pending) /\ k \in Nat /\ Slack = SlackOf(Pending, k)
    BY PendingIs DEF LagInv, TypeOK
  <2> QED
    BY <2>1, <2>2, SlackIs
<1> DEFINE G == IsFiniteSet(Pending') /\ Slack' >= Slack
<1>1. ASSUME NEW r \in Requests, Begins(r)
      PROVE  G
  <2>1. /\ req[r] = Idle /\ req' = [req EXCEPT ![r] = req'[r]]
        /\ l \in {k, k + 1}
        /\ (\E o \in Requests : req[o] # Idle) => l = k + 1
    BY <1>1, BeginFacts
  <2>2. r \notin Pending /\ (Pending # {} => l = k + 1)
    BY <2>1 DEF Pending
  <2>3. CASE Pending' = Pending \cup {r}
    BY <1>0, <2>1, <2>2, <2>3, SlackAdd
  <2>4. CASE Pending' = Pending
    BY <1>0, <2>1, <2>4, FS_CardinalityType DEF SlackOf
  <2> QED
    BY <2>2, <2>1, <2>3, <2>4, PendingStep
<1>2. ASSUME NEW r \in Requests, Commit(r)
      PROVE  /\ G /\ r \in Pending /\ Pending' = Pending \ {r}
             /\ Pending' # {} => Slack' >= Slack + 1
  <2>1. /\ req[r] \in RequestStates /\ req[r].pc = "commit"
        /\ req'[r].pc \in {"purge", "audit"} /\ l = k
        /\ req' = [req EXCEPT ![r] = req'[r]]
    BY <1>2, CommitFacts
  <2>2. r \in Pending
    BY <2>1, DistinctAssumption DEF Pending
  <2>3. Pending' = Pending \ {r}
    BY <2>1, PendingStep DEF IsPending
  <2> QED
    BY <1>0, <2>1, <2>2, <2>3, SlackRemove
<1>3. ASSUME NEW r \in Requests, Load(r)
      PROVE  G
  <2>1. /\ req[r] \in RequestStates /\ req[r].pc = "load" /\ l = k
        /\ req'[r] \in RequestStates /\ req'[r].pc = "commit"
        /\ req' = [req EXCEPT ![r] = req'[r]]
    BY <1>3, LoadFacts
  <2>2. r \in Pending /\ IsPending(req'[r])
    BY <2>1, DistinctAssumption DEF Pending, IsPending
  <2>3. Pending' = Pending
    BY <2>1, <2>2, PendingStep
  <2> QED
    BY <1>0, <2>1, <2>3
<1>4. ASSUME NEW r \in Requests, InsertUser(r) \/ Passes(r)
      PROVE  G
  <2>1. /\ req[r].pc \notin {"load", "commit"} /\ l = k
        /\ req'[r] = Idle
           \/ req'[r].pc \in {"session", "audit", "audit_lock"}
        /\ req' = [req EXCEPT ![r] = req'[r]]
    BY <1>4, InsertFacts, PassFacts
  <2>2. r \notin Pending /\ ~IsPending(req'[r])
    BY <2>1 DEF Pending, IsPending
  <2>3. Pending' = Pending
    BY <2>1, <2>2, PendingStep
  <2> QED
    BY <1>0, <2>1, <2>3
<1>5. ASSUME NEW r \in Requests, Fail(r)
      PROVE  G
  <2>1. req'[r] = Idle /\ req' = [req EXCEPT ![r] = req'[r]] /\ l = k
    BY <1>5, FailFacts
  <2>2. Pending' = Pending \ {r}
    BY <2>1, PendingStep DEF IsPending
  <2>3. CASE r \in Pending
    BY <1>0, <2>1, <2>2, <2>3, SlackRemove
  <2>4. CASE r \notin Pending
    BY <1>0, <2>1, <2>2, <2>4
  <2> QED
    BY <2>3, <2>4
<1>6. ASSUME Tick \/ Rests
      PROVE  G
  <2>1. req' = req /\ l = k
    BY <1>6, TickFacts DEF Rests
  <2>2. Pending' = Pending
    BY <2>1 DEF Pending
  <2> QED
    BY <1>0, <2>1, <2>2
<1>7. G
  BY <1>1, <1>2, <1>3, <1>4, <1>5, <1>6, StepCases
<1>8. l \in Nat
  BY TypeStep DEF TypeOK
<1>9. Slack' \in Int /\ Slack' <= l
  BY <1>0, <1>7, <1>8, SlackIs
<1> QED
  BY <1>0, <1>2, <1>7, <1>9

-----------------------------------------------------------------------------
(***************************************************************************)
(* Counts that lag, and locks that are written late.                       *)
(***************************************************************************)

\* LagInv and LateInv say of a row, and of a request that is pending, what
\* these say.
RowLags(row, n, slack) ==
    IF row = None THEN n = 0 ELSE n <= row.failed_login_attempts + slack

Lags(q, n, slack) ==
    q.kind = "bad_password" =>
        /\ n <= q.seen + slack
        /\ q.pc = "commit" => n <= q.row.failed_login_attempts + slack

Late(q, row, n, slack) ==
    q.kind = "bad_password" =>
        /\ q.pc = "load" /\ ~Unlocked(row, q.at) => slack >= 1
        /\ q.pc = "commit" /\ q.row.locked_until # None =>
             /\ row.locked_until = None => n + 1 <= slack
             /\ q.row.locked_until = q.lock =>
                  slack >= 1 /\ (row.locked_until = q.lock \/ slack >= 2)

Lagging ==
    /\ IsFiniteSet(Pending) /\ Slack >= 0
    /\ \A u \in Users : RowLags(users[u], rejected[u].count, Slack)
    /\ \A r \in Pending :
         LET q == req[r]
             n == rejected[q.user].count
         IN Lags(q, n, Slack) /\ Late(q, users[q.user], n, Slack)

LEMMA LaggingIs == Lagging <=> LagInv /\ LateInv
  BY DEF Lagging, LagInv, LateInv, RowLags, Lags, Late, Unlocked, Locked

LEMMA LaggingIsPrimed == Lagging' <=> LagInv' /\ LateInv'
  BY LaggingIs, PTL

LEMMA Numbers ==
    ASSUME TypeOK
    PROVE  /\ clock \in Nat
           /\ \A u \in Users : /\ rejected[u].count \in Nat
                               /\ users[u] # None => users[u] \in UserRows
           /\ \A row \in UserRows : /\ row.failed_login_attempts \in Nat
                                    /\ row.locked_until \in Nat \cup {None}
           /\ \A q \in RequestStates :
                /\ q.seen \in Nat /\ q.user \in Users /\ q.lock \in Nat \cup {None}
                /\ q.row \in UserRows \cup {None}
           /\ \A r \in Pending : /\ req[r] # Idle /\ req[r] \in RequestStates
                                 /\ req[r].pc \in {"load", "commit"}
  BY DEF TypeOK, UserRows, RequestStates, Pending

\* More slack, and later, everything still holds.
LEMMA MoreSlack ==
    ASSUME TypeOK, StepInv, Lagging, NEW r \in Pending, NEW more \in Int,
           Slack \in Int, more >= Slack
    PROVE  LET q == req[r]
               n == rejected[q.user].count
           IN Lags(q, n, more) /\ Late(q, users[q.user], n, more)
<1> DEFINE q == req[r]
           n == rejected[q.user].count
           row == users[q.user]
<1>1. Lags(q, n, Slack) /\ Late(q, row, n, Slack)
  BY DEF Lagging
<1>2. /\ q \in RequestStates /\ q # Idle /\ q.pc \in {"load", "commit"}
      /\ q.user \in Users /\ n \in Nat /\ q.seen \in Nat /\ clock \in Nat
      /\ row \in UserRows
      /\ q.pc = "commit" => q.row \in UserRows
      /\ row.locked_until \in Nat \cup {None}
  BY Numbers DEF StepInv, Pending
<1>3. q.pc = "commit" => q.row.failed_login_attempts \in Nat
  BY <1>2, Numbers
<1> HIDE DEF q, n, row
<1>5. Lags(q, n, more)
  BY <1>1, <1>2, <1>3 DEF Lags
<1>6. Late(q, row, n, more)
  BY <1>1, <1>2 DEF Late
<1> QED
  BY <1>5, <1>6 DEF q, n, row

LEMMA MoreRowSlack ==
    ASSUME TypeOK, Lagging, NEW u \in Users, NEW more \in Int,
           Slack \in Int, more >= Slack
    PROVE  RowLags(users[u], rejected[u].count, more)
<1>1. RowLags(users[u], rejected[u].count, Slack)
  BY DEF Lagging
<1>2. /\ rejected[u].count \in Nat
      /\ users[u] # None => users[u].failed_login_attempts \in Nat
  BY Numbers
<1> QED
  BY <1>1, <1>2 DEF RowLags

\* The conclusion of a step, row by row and request by request.
RowGood(u) == RowLags(users'[u], rejected'[u].count, Slack')

RequestGood(r) ==
    LET q == req'[r]
        n == rejected'[q.user].count
    IN Lags(q, n, Slack') /\ Late(q, users'[q.user], n, Slack')

\* A step that leaves rows and counts alone does so for everybody who was
\* pending before.
LEMMA OthersGood ==
    ASSUME TypeOK, StepInv, Lagging, [Next]_vars,
           UNCHANGED <<users, rejected>>, clock' \in {clock, clock + 1}
    PROVE  /\ \A u \in Users : RowGood(u)
           /\ \A o \in Pending : req'[o] = req[o] => RequestGood(o)
<1>1. Slack \in Int /\ Slack' \in Int /\ Slack' >= Slack
  BY SlackStep, LaggingIs
<1>2. \A u \in Users : RowGood(u)
  BY <1>1, MoreRowSlack DEF RowGood
<1>3. ASSUME NEW o \in Pending, req'[o] = req[o]
      PROVE  RequestGood(o)
  <2>1. LET q == req[o]
            n == rejected[q.user].count
        IN Lags(q, n, Slack') /\ Late(q, users[q.user], n, Slack')
    BY <1>1, MoreSlack
  <2> QED
    BY <1>3, <2>1 DEF RequestGood
<1> QED
  BY <1>2, <1>3

LEMMA BeginLags ==
    ASSUME TypeOK, StepInv, Lagging, [Next]_vars, NEW r \in Requests, Begins(r)
    PROVE  /\ \A u \in Users : RowGood(u)
           /\ \A o \in Pending' : RequestGood(o)
<1>1. /\ Fresh(req'[r]) /\ req' = [req EXCEPT ![r] = req'[r]]
      /\ UNCHANGED <<users, rejected, clock>>
  BY BeginFacts
<1>2. /\ \A u \in Users : RowGood(u)
      /\ \A o \in Pending : req'[o] = req[o] => RequestGood(o)
  BY <1>1, OthersGood
<1>3. r \in Pending' => RequestGood(r)
  <2> DEFINE q == req'[r]
             n == rejected[q.user].count
             row == users[q.user]
  <2>1. /\ q.user \in Users /\ q.seen \in Nat /\ q.pc # "commit"
        /\ q.kind = "bad_password" =>
             /\ q.seen = row.failed_login_attempts /\ row # None
             /\ Unlocked(row, q.at)
    BY <1>1, Numbers DEF Fresh, Unlocked, Locked
  <2>2. RowLags(row, n, Slack')
    BY <1>1, <1>2, <2>1 DEF RowGood
  <2>3. Lags(q, n, Slack') /\ Late(q, row, n, Slack')
    <3> HIDE DEF q, n, row
    <3> QED
      BY <2>1, <2>2 DEF RowLags, Lags, Late
  <2> QED
    BY <1>1, <2>3 DEF RequestGood
<1>4. \A o \in Pending' : o # r => o \in Pending /\ req'[o] = req[o]
  BY <1>1, PendingStep DEF TypeOK, Pending
<1> QED
  BY <1>2, <1>3, <1>4

LEMMA LoadLags ==
    ASSUME TypeOK, StepInv, Lagging, [Next]_vars, NEW r \in Requests, Load(r)
    PROVE  /\ \A u \in Users : RowGood(u)
           /\ \A o \in Pending' : RequestGood(o)
<1> DEFINE q == req[r]
           p == req'[r]
           n == rejected[q.user].count
           row == users[q.user]
<1>1. /\ q \in RequestStates /\ q.pc = "load" /\ p.pc = "commit"
      /\ p.kind = q.kind /\ p.user = q.user /\ p.seen = q.seen
      /\ p.row = row /\ row \in UserRows
      /\ p.at \in q.at..clock /\ p.lock = LockUntil(q, p.at)
      /\ req' = [req EXCEPT ![r] = p]
      /\ UNCHANGED <<users, rejected, clock>>
  BY LoadFacts
<1>2. /\ \A u \in Users : RowGood(u)
      /\ \A o \in Pending : req'[o] = req[o] => RequestGood(o)
  BY <1>1, OthersGood
<1>3. RequestGood(r)
  <2>1. r \in Pending
    BY <1>1, DistinctAssumption DEF Pending
  <2>2. Slack \in Int /\ Slack' \in Int /\ Slack' >= Slack
    BY SlackStep, LaggingIs
  <2>3. Lags(q, n, Slack') /\ Late(q, row, n, Slack')
    BY <2>1, <2>2, MoreSlack
  <2>4. RowLags(row, n, Slack')
    BY <1>1, <1>2, Numbers DEF RowGood
  <2>5. row # None
    BY <1>1, DistinctAssumption
  <2>6. row.locked_until # None /\ row.locked_until = p.lock =>
          ~Unlocked(row, q.at)
    <3>1. /\ q.at \in Nat /\ p.at \in Nat /\ p.at >= q.at
          /\ LOCKOUT_DURATION \in Nat \ {0}
      BY <1>1, Numbers, AuthAssumption DEF RequestStates
    <3>2. p.lock \in {None, p.at + LOCKOUT_DURATION}
      BY <1>1 DEF LockUntil
    <3> HIDE DEF row, p, q
    <3> QED
      BY <3>1, <3>2 DEF Unlocked
  <2>7. Lags(p, n, Slack') /\ Late(p, row, n, Slack')
    <3> HIDE DEF p, q, n, row
    <3> QED
      BY <1>1, <2>3, <2>4, <2>5, <2>6 DEF RowLags, Lags, Late
  <2> QED
    BY <1>1, <2>7 DEF RequestGood
<1>4. \A o \in Pending' : o # r => o \in Pending /\ req'[o] = req[o]
  BY <1>1, PendingStep DEF TypeOK, Pending
<1> QED
  BY <1>2, <1>3, <1>4

LEMMA CommitLags ==
    ASSUME TypeOK, StepInv, Lagging, [Next]_vars, NEW r \in Requests, Commit(r)
    PROVE  /\ \A u \in Users : RowGood(u)
           /\ \A o \in Pending' : RequestGood(o)
<1> DEFINE q == req[r]
           n == rejected[q.user].count
           m == rejected'[q.user].count
           row == users[q.user]
           new == users'[q.user]
<1>1. /\ q \in RequestStates /\ q.pc = "commit" /\ q.user \in Users
      /\ q.row \in UserRows /\ row \in UserRows /\ new \in UserRows
      /\ q.kind = "bad_password" =>
           /\ new.failed_login_attempts = q.row.failed_login_attempts + 1
           /\ new.locked_until = IF q.lock \in {None, q.row.locked_until}
                                 THEN row.locked_until ELSE q.lock
           /\ m = n + 1
      /\ q.kind = "login" => m = 0
      /\ q.kind \in {"role", "active"} =>
           /\ new.failed_login_attempts = row.failed_login_attempts
           /\ new.locked_until = row.locked_until
           /\ m = n
      /\ q.kind \in {"bad_password", "login", "role", "active"}
  BY CommitFacts
<1>2. /\ users' = [users EXCEPT ![q.user] = new]
      /\ \A u \in Users \ {q.user} : rejected'[u] = rejected[u]
      /\ req' = [req EXCEPT ![r] = req'[r]]
      /\ clock' = clock
  BY CommitFacts
<1>3. /\ Slack \in Int /\ Slack' \in Int /\ Slack' >= Slack
      /\ r \in Pending /\ Pending' = Pending \ {r}
      /\ Pending' # {} => Slack' >= Slack + 1
      /\ Slack >= 0
  BY SlackStep, LaggingIs DEF Lagging
<1>4. /\ n \in Nat /\ row # None /\ new # None
      /\ row.failed_login_attempts \in Nat
      /\ q.row.failed_login_attempts \in Nat /\ new.failed_login_attempts \in Nat
  BY <1>1, Numbers, DistinctAssumption
<1>5. ASSUME NEW u \in Users
      PROVE  RowGood(u)
  <2>1. CASE u # q.user
    <3>1. RowLags(users[u], rejected[u].count, Slack')
      BY <1>3, MoreRowSlack
    <3> QED
      BY <1>2, <2>1, <3>1 DEF RowGood, TypeOK
  <2>2. CASE u = q.user
    <3>1. Lags(q, n, Slack) /\ RowLags(row, n, Slack)
      BY <1>1, <1>3 DEF Lagging
    <3>2. RowLags(new, m, Slack')
      <4> HIDE DEF q, n, m, row, new
      <4> QED
        BY <1>1, <1>3, <1>4, <3>1 DEF Lags, RowLags
    <3> QED
      BY <2>2, <3>2 DEF RowGood
  <2> QED
    BY <2>1, <2>2
<1>6. ASSUME NEW o \in Pending'
      PROVE  RequestGood(o)
  <2>1. /\ o \in Pending /\ req'[o] = req[o]
        /\ Slack' >= Slack + 1
    BY <1>2, <1>3, <1>6 DEF TypeOK, Pending
  <2> DEFINE p == req[o]
             pn == rejected[p.user].count
             pm == rejected'[p.user].count
             old == users[p.user]
             now == users'[p.user]
  <2>2. Lags(p, pn, Slack) /\ Late(p, old, pn, Slack)
    BY <2>1 DEF Lagging
  <2>3. /\ p \in RequestStates /\ p # Idle /\ p.pc \in {"load", "commit"}
        /\ p.user \in Users /\ pn \in Nat /\ p.seen \in Nat
        /\ p.pc = "commit" => p.row \in UserRows
    <3>1. /\ p \in RequestStates /\ p # Idle /\ p.pc \in {"load", "commit"}
          /\ p.user \in Users /\ p.seen \in Nat
          /\ p.row \in UserRows \cup {None}
      BY <2>1, Numbers
    <3>2. p.pc = "commit" => p.row # None
      BY <2>1, <3>1 DEF StepInv, Pending
    <3> QED
      BY <3>1, <3>2, Numbers
  <2>4. p.pc = "commit" => p.row.failed_login_attempts \in Nat
    BY <2>3, Numbers
  <2>5. /\ pm \in Nat /\ pm <= pn + 1
        /\ now.locked_until = None =>
             \/ pm = 0
             \/ old.locked_until = None
    <3>1. CASE p.user = q.user
      <4>1. pm = m /\ pn = n /\ now = new /\ old = row
        BY <3>1
      <4> HIDE DEF p, pm, pn, now, old, q, n, m, row, new
      <4> QED
        BY <1>1, <1>4, <4>1
    <3>2. CASE p.user # q.user
      <4>1. now = old /\ pm = pn
        BY <1>2, <2>3, <3>2 DEF TypeOK
      <4> QED
        BY <2>3, <4>1
    <3> QED
      BY <3>1, <3>2
  <2>6. Lags(p, pm, Slack') /\ Late(p, now, pm, Slack')
    <3> HIDE DEF p, pm, pn, now, old
    <3>1. Lags(p, pm, Slack')
      BY <1>3, <2>1, <2>2, <2>3, <2>4, <2>5 DEF Lags
    <3>2. Late(p, now, pm, Slack')
      BY <1>3, <2>1, <2>2, <2>3, <2>5 DEF Late
    <3> QED
      BY <3>1, <3>2
  <2> QED
    BY <1>2, <2>1, <2>6 DEF RequestGood
<1> QED
  BY <1>5, <1>6

LEMMA InsertLags ==
    ASSUME TypeOK, StepInv, Lagging, [Next]_vars, NEW r \in Requests,
           InsertUser(r)
    PROVE  /\ \A u \in Users : RowGood(u)
           /\ \A o \in Pending' : RequestGood(o)
<1> DEFINE q == req[r]
<1>1. /\ q.user \in Users /\ q.pc = "insert"
      /\ \/ /\ users[q.user] = None /\ users'[q.user] \in UserRows
            /\ users'[q.user].failed_login_attempts = 0
            /\ users' = [users EXCEPT ![q.user] = users'[q.user]]
            /\ req'[r].pc = "audit"
         \/ UNCHANGED users /\ req'[r] = Idle
      /\ req' = [req EXCEPT ![r] = req'[r]]
      /\ UNCHANGED <<clock, rejected>>
  BY InsertFacts
<1>2. /\ Slack \in Int /\ Slack' \in Int /\ Slack' >= Slack /\ Slack >= 0
  BY SlackStep, LaggingIs DEF Lagging
<1>3. ASSUME NEW o \in Pending'
      PROVE  o \in Pending /\ req'[o] = req[o]
  BY <1>1, <1>3, PendingStep DEF IsPending, TypeOK, Pending
<1>4. ASSUME NEW u \in Users
      PROVE  RowGood(u)
  <2>1. RowLags(users[u], rejected[u].count, Slack')
    BY <1>2, MoreRowSlack
  <2>2. CASE users'[u] = users[u]
    BY <1>1, <2>1, <2>2 DEF RowGood
  <2>3. CASE users'[u] # users[u]
    <3>1. u = q.user /\ users[u] = None
      BY <1>1, <2>3 DEF TypeOK
    <3>2. rejected[u].count = 0
      BY <2>1, <3>1 DEF RowLags
    <3>3. users'[u] # None /\ users'[u].failed_login_attempts = 0
      BY <1>1, <2>3, <3>1, DistinctAssumption
    <3>4. rejected'[u].count = 0
      BY <1>1, <3>2
    <3> DEFINE k == Slack
               l == Slack'
    <3>5. k \in Int /\ l \in Int /\ l >= k /\ k >= 0
      BY <1>2
    <3> HIDE DEF k, l
    <3>6. 0 <= 0 + l
      BY <3>5
    <3>7. rejected'[u].count <= users'[u].failed_login_attempts + Slack'
      BY <3>3, <3>4, <3>6 DEF l
    <3> QED
      BY <3>3, <3>7 DEF RowGood, RowLags
  <2> QED
    BY <2>2, <2>3
<1>5. ASSUME NEW o \in Pending'
      PROVE  RequestGood(o)
  <2>1. /\ o \in Pending /\ req'[o] = req[o]
    BY <1>3
  <2>2. req[o].user \in Users /\ users[req[o].user] # None
    BY <2>1, Numbers DEF StepInv, Pending
  <2>3. users'[req[o].user] = users[req[o].user]
    BY <1>1, <2>2 DEF TypeOK
  <2>4. LET p == req[o]
            n == rejected[p.user].count
        IN Lags(p, n, Slack') /\ Late(p, users[p.user], n, Slack')
    BY <1>2, <2>1, MoreSlack
  <2> QED
    BY <1>1, <2>1, <2>3, <2>4 DEF RequestGood
<1> QED
  BY <1>4, <1>5

LEMMA LaggingStep ==
    ASSUME TypeOK, StepInv, Lagging, [Next]_vars
    PROVE  Lagging'
<1>1. ASSUME NEW r \in Requests, Passes(r) \/ Fail(r)
      PROVE  /\ \A u \in Users : RowGood(u)
             /\ \A o \in Pending' : RequestGood(o)
  <2>1. /\ req' = [req EXCEPT ![r] = req'[r]] /\ UNCHANGED <<users, rejected, clock>>
        /\ ~IsPending(req'[r])
    BY <1>1, PassFacts, FailFacts DEF IsPending
  <2>2. \A o \in Pending' : o \in Pending /\ req'[o] = req[o]
    BY <2>1, PendingStep DEF TypeOK, Pending
  <2> QED
    BY <2>1, <2>2, OthersGood
<1>2. ASSUME Tick \/ Rests
      PROVE  /\ \A u \in Users : RowGood(u)
             /\ \A o \in Pending' : RequestGood(o)
  <2>1. UNCHANGED <<req, users, rejected>> /\ clock' \in {clock, clock + 1}
    BY <1>2, TickFacts DEF Rests
  <2>2. Pending' = Pending
    BY <2>1 DEF Pending
  <2> QED
    BY <2>1, <2>2, OthersGood
<1>3. /\ \A u \in Users : RowGood(u)
      /\ \A o \in Pending' : RequestGood(o)
  BY <1>1, <1>2, BeginLags, LoadLags, CommitLags, InsertLags, StepCases
<1>4. IsFiniteSet(Pending') /\ Slack' >= 0
  BY SlackStep, LaggingIs DEF Lagging
<1> QED
  BY <1>3, <1>4 DEF Lagging, RowGood, RequestGood

-----------------------------------------------------------------------------
(***************************************************************************)
(* The lock.                                                               *)
(***************************************************************************)

\* What LockIsNear says of a user.
Near(row, count, k) ==
    count.count >= MAX_FAILED_LOGIN_ATTEMPTS + k =>
        /\ row.locked_until # None
        /\ k <= 1 => row.locked_until >= count.at + LOCKOUT_DURATION

LEMMA NearIs ==
    LockIsNear <=> \A u \in Users : Near(users[u], rejected[u], spent["overlap"])
  BY DEF LockIsNear, Near

\* A failure that is recorded, and reaches the number allowed, has decided on a
\* lock, and the lock is there.
LEMMA FailureLocks ==
    ASSUME TypeOK, StepInv, Lagging, [Next]_vars, NEW r \in Requests, Commit(r),
           req[r].kind = "bad_password"
    PROVE  Near(users'[req[r].user], rejected'[req[r].user], spent'["overlap"])
<1> DEFINE q == req[r]
           n == rejected[q.user].count
           row == users[q.user]
           new == users'[q.user]
           k == spent["overlap"]
<1>1. /\ q \in RequestStates /\ q.pc = "commit" /\ q.user \in Users
      /\ q.row \in UserRows /\ row \in UserRows
      /\ new.locked_until = IF q.lock \in {None, q.row.locked_until}
                            THEN row.locked_until ELSE q.lock
      /\ rejected'[q.user].count = n + 1 /\ rejected'[q.user].at = q.at
      /\ spent' = spent
  BY CommitFacts
<1>2. /\ Slack \in Int /\ Slack <= k /\ r \in Pending
  <2>1. /\ Slack \in Int /\ Slack' \in Int /\ Slack' >= Slack
        /\ Slack' <= spent'["overlap"] /\ r \in Pending
    BY SlackStep, LaggingIs
  <2>2. spent["overlap"] \in Nat
    BY DEF TypeOK
  <2> QED
    BY <1>1, <2>1, <2>2
<1>3. Lags(q, n, Slack) /\ Late(q, row, n, Slack)
  BY <1>2 DEF Lagging
<1>4. /\ q.lock # None => q.lock = q.at + LOCKOUT_DURATION
      /\ q.lock = None => q.seen + 1 < MAX_FAILED_LOGIN_ATTEMPTS
  BY <1>1, DistinctAssumption DEF StepInv
<1>5. /\ n \in Nat /\ q.seen \in Nat /\ k \in Nat
      /\ MAX_FAILED_LOGIN_ATTEMPTS \in Nat \ {0}
      /\ q.at \in Nat /\ LOCKOUT_DURATION \in Nat
      /\ q.lock \in Nat \cup {None}
  BY <1>1, Numbers, AuthAssumption DEF TypeOK, RequestStates
<1>6. CASE q.lock = None
  <2>1. n + 1 < MAX_FAILED_LOGIN_ATTEMPTS + k
    BY <1>2, <1>3, <1>4, <1>5, <1>6 DEF Lags
  <2> QED
    BY <1>1, <1>5, <2>1 DEF Near
<1>7. CASE q.lock # None /\ q.lock # q.row.locked_until
  <2>1. new.locked_until = q.at + LOCKOUT_DURATION /\ new.locked_until # None
    BY <1>1, <1>4, <1>7
  <2> QED
    BY <1>1, <1>5, <2>1 DEF Near
<1>8. CASE q.lock # None /\ q.lock = q.row.locked_until
  <2>1. /\ row.locked_until = None => n + 1 <= Slack
        /\ row.locked_until = q.lock \/ Slack >= 2
    BY <1>1, <1>3, <1>8 DEF Late
  <2>2. new.locked_until = row.locked_until
    BY <1>1, <1>8
  <2>3. new.locked_until = None => n + 1 < MAX_FAILED_LOGIN_ATTEMPTS + k
    BY <1>2, <1>5, <2>1, <2>2
  <2>4. k <= 1 => new.locked_until = q.at + LOCKOUT_DURATION
    BY <1>2, <1>4, <1>5, <1>8, <2>1, <2>2
  <2> QED
    BY <1>1, <1>5, <2>3, <2>4 DEF Near
<1> QED
  BY <1>6, <1>7, <1>8

LEMMA LockStep ==
    ASSUME TypeOK, StepInv, Lagging, LockIsNear, [Next]_vars
    PROVE  LockIsNear'
<1>1. spent'["overlap"] \in Nat /\ spent["overlap"] \in Nat
  BY TypeStep DEF TypeOK
<1>2. MAX_FAILED_LOGIN_ATTEMPTS \in Nat \ {0}
  BY AuthAssumption
<1>3. spent'["overlap"] >= spent["overlap"]
  BY <1>1, StepCases, BeginFacts, LoadFacts, CommitFacts, InsertFacts, PassFacts,
     FailFacts, TickFacts DEF Rests
<1>4. ASSUME NEW u \in Users, rejected'[u] = rejected[u],
             users'[u].locked_until = users[u].locked_until
      PROVE  Near(users'[u], rejected'[u], spent'["overlap"])
  <2>1. Near(users[u], rejected[u], spent["overlap"])
    BY NearIs
  <2>2. rejected[u].count \in Nat
    BY Numbers
  <2> QED
    BY <1>1, <1>2, <1>3, <1>4, <2>1, <2>2 DEF Near
<1>5. ASSUME NEW u \in Users
      PROVE  Near(users'[u], rejected'[u], spent'["overlap"])
  <2>1. ASSUME NEW r \in Requests, Commit(r)
        PROVE  Near(users'[u], rejected'[u], spent'["overlap"])
    <3> DEFINE q == req[r]
    <3>1. /\ users' = [users EXCEPT ![q.user] = users'[q.user]]
          /\ \A o \in Users \ {q.user} : rejected'[o] = rejected[o]
          /\ q.kind \in {"bad_password", "login", "role", "active"}
          /\ q.kind = "login" => rejected'[q.user].count = 0
          /\ q.kind \in {"role", "active"} =>
               /\ users'[q.user].locked_until = users[q.user].locked_until
               /\ rejected'[q.user] = rejected[q.user]
      BY <2>1, CommitFacts
    <3>2. CASE u # q.user
      <4>1. users'[u] = users[u] /\ rejected'[u] = rejected[u]
        BY <3>1, <3>2 DEF TypeOK
      <4> QED
        BY <1>4, <4>1
    <3>3. CASE u = q.user /\ q.kind = "bad_password"
      BY <2>1, <3>3, FailureLocks
    <3>4. CASE u = q.user /\ q.kind = "login"
      BY <1>1, <1>2, <3>1, <3>4 DEF Near
    <3>5. CASE u = q.user /\ q.kind \in {"role", "active"}
      BY <1>4, <3>1, <3>5
    <3> QED
      BY <3>1, <3>2, <3>3, <3>4, <3>5
  <2>2. ASSUME NEW r \in Requests, InsertUser(r)
        PROVE  Near(users'[u], rejected'[u], spent'["overlap"])
    <3>1. /\ rejected' = rejected
          /\ \/ /\ users[req[r].user] = None
                /\ users' = [users EXCEPT ![req[r].user] = users'[req[r].user]]
             \/ UNCHANGED users
      BY <2>2, InsertFacts
    <3>2. CASE users'[u] = users[u]
      BY <1>4, <3>1, <3>2
    <3>3. CASE users[u] = None
      <4>1. rejected[u].count = 0
        BY <3>3 DEF Lagging, RowLags
      <4> QED
        BY <1>1, <1>2, <3>1, <4>1 DEF Near
    <3> QED
      BY <3>1, <3>2, <3>3 DEF TypeOK
  <2>3. ASSUME NEW r \in Requests, Begins(r) \/ Load(r) \/ Passes(r) \/ Fail(r)
        PROVE  UNCHANGED <<users, rejected>>
    BY <2>3, BeginFacts, LoadFacts, PassFacts, FailFacts
  <2>4. Tick \/ Rests => UNCHANGED <<users, rejected>>
    BY TickFacts DEF Rests
  <2>5. UNCHANGED <<users, rejected>> =>
          Near(users'[u], rejected'[u], spent'["overlap"])
    BY <1>4
  <2> QED
    BY <2>1, <2>2, <2>3, <2>4, <2>5, StepCases
<1> QED
  BY <1>5 DEF LockIsNear, Near

-----------------------------------------------------------------------------
(***************************************************************************)
(* The theorems.                                                           *)
(***************************************************************************)

IInv == TypeOK /\ StepInv /\ Orderly /\ Lagging /\ LockIsNear

LEMMA InitInv ==
    ASSUME Init
    PROVE  IInv
<1> USE DEF Init
<1>1. TypeOK
  <2>1. NewUser("admin") \in UserRows
    BY DEF NewUser, UserRows
  <2> QED
    BY <2>1 DEF TypeOK
<1>2. StepInv /\ Orderly
  BY DEF StepInv, Orderly
<1>3. Pending = {}
  BY DEF Pending
<1>4. IsFiniteSet(Pending) /\ Slack = 0
  BY <1>3, FS_EmptySet DEF Slack
<1>5. \A u \in Users : rejected[u].count = 0
  OBVIOUS
<1>6. \A u \in Users : RowLags(users[u], rejected[u].count, Slack)
  <2>1. \A u \in Users : users[u] # None =>
          users[u].failed_login_attempts \in Nat
    BY <1>1, Numbers
  <2> QED
    BY <1>4, <1>5, <2>1 DEF RowLags
<1>7. Lagging
  BY <1>3, <1>4, <1>6 DEF Lagging
<1>8. LockIsNear
  BY <1>5, AuthAssumption DEF LockIsNear
<1> QED
  BY <1>1, <1>2, <1>7, <1>8 DEF IInv

\* The inductive invariant of the requests.
THEOREM Invariance == Spec => []IInv
<1>1. IInv /\ [Next]_vars => IInv'
  BY TypeStep, StepStep, OrderlyStep, LaggingStep, LockStep DEF IInv
<1> QED
  BY <1>1, InitInv, PTL DEF Spec

\* Every variable keeps its type, in every request and on every path out of it
\* (AuthService and AuthRepository).
THEOREM TypeCorrect == Spec => []TypeOK
<1>1. IInv => TypeOK
  BY DEF IInv
<1> QED
  BY <1>1, Invariance, PTL

\* For any number of users, requests at the same time and attempts, every
\* overlap lets at most one more wrong password in before the account is locked
\* (_record_failed_attempt).
THEOREM LockNear == Spec => []LockIsNear
<1>1. IInv => LockIsNear
  BY DEF IInv
<1> QED
  BY <1>1, Invariance, PTL

\* Requests that do not overlap act for an active admin only, at the moment
\* that they write (require_role).
THEOREM Revoked == Spec => []RevokedAtOnce
<1>1. IInv => RevokedAtOnce
  BY OrderlyIs DEF IInv
<1> QED
  BY <1>1, Invariance, PTL

\* Requests that do not overlap leave a lock that holds as it is, and give no
\* session to who is locked out (AuthService.login).
THEOREM LockKept == Spec => LockedOut
<1> DEFINE Kept ==
      Sequential => \A u \in Users :
         (/\ users[u] # None
          /\ users[u].locked_until # None
          /\ users[u].locked_until > clock) =>
           /\ users'[u].locked_until # None
           /\ users'[u].locked_until >= users[u].locked_until
           /\ \A s \in Sessions : HasSession(u, s)' => HasSession(u, s)
<1>1. IInv /\ [Next]_vars => Kept
  <2> SUFFICES ASSUME IInv, [Next]_vars, Sequential, NEW u \in Users,
                      users[u] # None, users[u].locked_until # None,
                      users[u].locked_until > clock
               PROVE  /\ users'[u].locked_until # None
                      /\ users'[u].locked_until >= users[u].locked_until
                      /\ \A s \in Sessions : HasSession(u, s)' => HasSession(u, s)
    OBVIOUS
  <2>1. TypeOK /\ StepInv /\ Orderly /\ Locked(users[u])
    BY DEF IInv, Locked
  <2>2. users'[u].locked_until = users[u].locked_until
    BY <2>1, LockStays
  <2>3. users[u].locked_until \in Nat
    BY <2>1, Numbers
  <2>4. ASSUME NEW s \in Sessions, HasSession(u, s)'
        PROVE  HasSession(u, s)
    BY <2>1, <2>4, NoNewSession DEF HasSession
  <2> QED
    BY <2>2, <2>3, <2>4
<1>2. IInv /\ [Next]_vars => [Kept]_vars
  BY <1>1
<1> QED
  BY <1>2, Invariance, PTL DEF Spec, LockedOut
=============================================================================
