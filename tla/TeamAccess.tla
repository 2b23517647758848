----------------------------- MODULE TeamAccess -----------------------------
(***************************************************************************)
(* The team of one MSP: its accounts, their roles and the tenants they     *)
(* see, their browser sessions, and the requests that sign in, use a       *)
(* tenant, sign out or change the account of somebody else.  A request     *)
(* looks at the database several times before it acts, and other requests  *)
(* change what it has seen.                                                *)
(***************************************************************************)
EXTENDS Integers, FiniteSets

CONSTANTS
    Requests,
    People, Tenants,
    Cases,       \* accounts at the start, what the requests may want, and bounds
    MaxRows,     \* bound: accounts
    Lifetime,    \* SESSION_TTL_HOURS
    IdleTime,    \* SESSION_IDLE_MINUTES
    TouchEvery,  \* TOUCH_EVERY_MS
    None

ASSUME TeamAssumption ==
    /\ {MaxRows, Lifetime, IdleTime, TouchEvery} \subseteq Nat
    /\ None \notin Nat \cup People \cup Requests /\ \A r \in Requests : r \notin Nat

Rows == 1..MaxRows
Roles == {"owner", "engineer", "readonly"}
UserRow == [person : People \cup {None}, role : Roles, active : BOOLEAN]

\* via: a sign-in, a bearer token or a cookie; who: a person or a session.  The schema of
\* the update leaves every field open; a session is kept under its row or its sign-in
Inputs == [role : Roles \cup {None}, active : BOOLEAN \cup {None}, tenants : (SUBSET Tenants) \cup {None}]
Plans == {p \in [via : {"sign in", "bearer", "cookie"}, who : People \cup Rows \cup Requests,
                 does : {"sign in", "use", "sign out", "update"}, target : Tenants \cup Rows \cup {None}, input : Inputs] :
             /\ p.does = "sign in" <=> p.via = "sign in"
             /\ p.does = "sign out" => p.via = "cookie"
             /\ p.via = "cookie" => p.who \in Rows \cup Requests
             /\ p.via # "cookie" => p.who \in People
             /\ p.does = "update" => p.target \in Rows}

ASSUME CasesAssumption ==
    \A c \in Cases : /\ \E n \in 0..MaxRows : c.users \in [1..n -> UserRow]
                     /\ c.sees \subseteq Tenants /\ c.plans \subseteq Plans
                     /\ c.bounds \in [ticks : Nat, faults : Nat]

VARIABLES
    now,
    users,      \* msp_users
    sees,       \* msp_user_tenants: the tenants of each account
    sessions,   \* user_sessions; one is there for each account at the start
    requests,
    given,      \* history: the role last given to an account, and whether a sign-in was under way
    plans,      \* what the requests of the case may want
    left        \* bounds: clock ticks and failures that are left

vars == <<now, users, sees, sessions, requests, given, plans, left>>

Least(i, set) == i \in set /\ \A x \in set : i <= x

NoUser == [person |-> None, role |-> "readonly", active |-> FALSE]
NoSession == [row |-> None, seen |-> 0, idle |-> 0, ends |-> 0, revoked |-> FALSE]
NewSession(i) == [row |-> i, seen |-> now, idle |-> now + IdleTime, ends |-> now + Lifetime, revoked |-> FALSE]

\* owners: those there were at the last look; held: the rights its account has had since it began;
\* open: its session was not revoked when it began
Waiting == [pc |-> "idle", plan |-> None, row |-> None, role |-> None, was |-> NoUser,
            owners |-> {}, held |-> {}, open |-> TRUE]

Owners(u) == {i \in Rows : u[i].role = "owner" /\ u[i].active}

Init ==
    /\ now = 0
    /\ \E c \in Cases :
          /\ users = [i \in Rows |-> IF i \in DOMAIN c.users THEN c.users[i] ELSE NoUser]
          /\ sees = [i \in Rows |-> IF i \in DOMAIN c.users THEN c.sees ELSE {}]
          /\ sessions = [s \in Rows \cup Requests |->
                            IF s \in DOMAIN c.users THEN [NoSession EXCEPT !.row = s, !.idle = IdleTime, !.ends = Lifetime] ELSE NoSession]
          /\ plans = c.plans /\ left = c.bounds
    /\ requests = [r \in Requests |-> Waiting]
    /\ given = [i \in Rows |-> [role |-> users[i].role, clash |-> FALSE]]

-----------------------------------------------------------------------------
(* A request and its plan *)

At(r, pc) == requests[r].pc = pc
Plan(r) == requests[r].plan
Over == {"idle", "acted", "done", "refused"}
UnderWay(x) == x.pc \notin Over
\* Of a request that is over nothing is kept
Kept(x) == IF x.pc \in {"done", "refused"} THEN [Waiting EXCEPT !.pc = x.pc] ELSE x
Becomes(r, x) == requests' = [requests EXCEPT ![r] = Kept(x)]
Goes(r, pc) == Becomes(r, [requests[r] EXCEPT !.pc = pc])
Same == UNCHANGED <<now, plans, left>>

\* The accounts a request may come to speak for
Accounts(x, u) == IF x.plan.via = "cookie" THEN {sessions[x.plan.who].row} \ {None} ELSE {i \in Rows : u[i].person = x.plan.who}
Rights(x, u, v) == {[row |-> i, active |-> u[i].active, role |-> u[i].role, sees |-> v[i]] : i \in Accounts(x, u)}

\* The step of r changes accounts or assignments; every request under way notes its rights
Changes(r, x, u, v) ==
    /\ users' = u /\ sees' = v
    /\ requests' = [q \in Requests |->
           LET y == IF q = r THEN Kept(x) ELSE requests[q]
           IN  IF UnderWay(y) THEN [y EXCEPT !.held = @ \cup Rights(y, u, v)] ELSE y]

Begin(r) ==
    /\ At(r, "idle")
    /\ \E p \in plans :
          LET x == [Waiting EXCEPT !.plan = p, !.pc = IF p.via = "cookie" THEN "resolve" ELSE "find"]
          IN  /\ p.via = "cookie" => sessions[p.who].row # None
              /\ Becomes(r, [x EXCEPT !.held = Rights(x, users, sees),
                                      !.open = p.via = "cookie" => ~sessions[p.who].revoked])
    /\ UNCHANGED <<users, sees, sessions, given>> /\ Same

\* What comes after the middleware; requireRole("owner") for changes of the team
AfterAuth(p, role) ==
    CASE p.does = "sign in" -> "session"
      [] p.does = "use" -> "see"
      [] p.does = "update" -> IF role = "owner" THEN "member" ELSE "refused"

-----------------------------------------------------------------------------
(* findOrCreateUser, for a sign-in and for a bearer token *)

\* Mutant: whoever is found gets the role of a new account
FindAsNew(r) ==
    LET known == {i \in Rows : users[i].person = Plan(r).who}
    IN  /\ At(r, "find")
        /\ \/ known = {} /\ Goes(r, "first")
           \/ \E i \in known :
                 Becomes(r, IF users[i].active
                            THEN [requests[r] EXCEPT !.pc = "stamp", !.row = i, !.role = "readonly", !.owners = Owners(users)]
                            ELSE [requests[r] EXCEPT !.pc = "refused"])
        /\ UNCHANGED <<users, sees, sessions, given>> /\ Same

\* Nothing keeps a person from having two accounts; any of them is found
Find(r) ==
    LET known == {i \in Rows : users[i].person = Plan(r).who}
    IN  /\ At(r, "find")
        /\ \/ known = {} /\ Goes(r, "first")
           \/ \E i \in known :
                 Becomes(r, IF users[i].active
                            THEN [requests[r] EXCEPT !.pc = "stamp", !.row = i, !.role = users[i].role, !.owners = Owners(users)]
                            ELSE [requests[r] EXCEPT !.pc = "refused"])
        /\ UNCHANGED <<users, sees, sessions, given>> /\ Same

\* lastLoginAt, and with it the role that was read
Stamp(r) ==
    LET x == requests[r]
    IN  /\ At(r, "stamp")
        /\ Changes(r, [x EXCEPT !.pc = AfterAuth(x.plan, x.role)], [users EXCEPT ![x.row].role = x.role], sees)
        /\ UNCHANGED <<sessions, given>> /\ Same

\* The first account of the organisation, which is there already, is an owner's
First(r) ==
    /\ At(r, "first")
    /\ Becomes(r, [requests[r] EXCEPT !.pc = "insert",
                                      !.role = IF \A i \in Rows : users[i] = NoUser THEN "owner" ELSE "readonly"])
    /\ UNCHANGED <<users, sees, sessions, given>> /\ Same

InsertUser(r) ==
    LET x == requests[r]
    IN  /\ At(r, "insert")
        /\ \E i \in Rows :
              /\ Least(i, {k \in Rows : users[k] = NoUser})
              /\ Changes(r, [x EXCEPT !.pc = AfterAuth(x.plan, x.role), !.row = i, !.owners = Owners(users) \cup IF x.role = "owner" THEN {i} ELSE {}],
                         [users EXCEPT ![i] = [person |-> x.plan.who, role |-> x.role, active |-> TRUE]], sees)
              /\ given' = [given EXCEPT ![i] = [role |-> x.role, clash |-> FALSE]]
        /\ UNCHANGED sessions /\ Same

-----------------------------------------------------------------------------
(* Sessions *)

CreateSession(r) ==
    /\ At(r, "session")
    /\ sessions' = [sessions EXCEPT ![r] = NewSession(requests[r].row)]
    /\ Goes(r, "done")
    /\ UNCHANGED <<users, sees, given>> /\ Same

Earlier(a, b) == IF a < b THEN a ELSE b
Valid(s) == s.row # None /\ ~s.revoked /\ s.ends > now /\ s.idle > now
AfterResolve(p) == IF p.does = "sign out" THEN "revoke" ELSE "load"

\* resolveSession; signing out goes on without a session
Resolve(r) ==
    LET s == sessions[Plan(r).who]
    IN  /\ At(r, "resolve")
        /\ Goes(r, CASE Valid(s) /\ now - s.seen > TouchEvery -> "touch"
                     [] ~Valid(s) /\ Plan(r).does # "sign out" -> "refused"
                     [] OTHER -> AfterResolve(Plan(r)))
        /\ UNCHANGED <<users, sees, sessions, given>> /\ Same

\* Mutant: the session is written back as a whole, as it was read
TouchWhole(r) ==
    LET s == Plan(r).who
    IN  /\ At(r, "touch")
        /\ sessions' = [sessions EXCEPT ![s] = IF @.row = None THEN @ ELSE [@ EXCEPT !.seen = now, !.idle = Earlier(now + IdleTime, sessions[s].ends), !.revoked = FALSE]]
        /\ Goes(r, AfterResolve(Plan(r)))
        /\ UNCHANGED <<users, sees, given>> /\ Same

\* The UPDATE does not look at revokedAt, nor does it touch it
Touch(r) ==
    LET s == Plan(r).who
    IN  /\ At(r, "touch")
        /\ sessions' = [sessions EXCEPT ![s] = IF @.row = None THEN @ ELSE [@ EXCEPT !.seen = now, !.idle = Earlier(now + IdleTime, sessions[s].ends)]]
        /\ Goes(r, AfterResolve(Plan(r)))
        /\ UNCHANGED <<users, sees, given>> /\ Same

RevokeSession(r) ==
    LET s == Plan(r).who
    IN  /\ At(r, "revoke")
        /\ sessions' = [sessions EXCEPT ![s] = IF @.row = None THEN @ ELSE [@ EXCEPT !.revoked = TRUE]]
        /\ Goes(r, "done")
        /\ UNCHANGED <<users, sees, given>> /\ Same

\* pruneSessions, long after the session has come to its end
Prune ==
    /\ \E s \in DOMAIN sessions :
          /\ sessions[s].row # None /\ ~Valid(sessions[s])
          /\ \A r \in Requests : UnderWay(requests[r]) => Plan(r).who # s
          /\ sessions' = [sessions EXCEPT ![s] = NoSession]
    /\ UNCHANGED <<users, sees, requests, given>> /\ Same

\* loadUser: role and state are those of now, not of the sign-in
Load(r) ==
    LET i == sessions[Plan(r).who].row
    IN  /\ At(r, "load")
        /\ Becomes(r, IF users[i].active
                      THEN [requests[r] EXCEPT !.pc = AfterAuth(Plan(r), users[i].role), !.row = i, !.role = users[i].role,
                                               !.owners = Owners(users)]
                      ELSE [requests[r] EXCEPT !.pc = "refused"])
        /\ UNCHANGED <<users, sees, sessions, given>> /\ Same

\* canAccessTenant
See(r) ==
    LET x == requests[r]
    IN  /\ At(r, "see")
        /\ Goes(r, IF x.role = "owner" \/ x.plan.target \in sees[x.row] THEN "acted" ELSE "refused")
        /\ UNCHANGED <<users, sees, sessions, given>> /\ Same

-----------------------------------------------------------------------------
(* updateTeamMember: role, state and tenants, each as far as it is given *)

Wants(x, field) == x.plan.input[field] # None
Self(x) == x.row = x.plan.target

AfterActive(x) == IF Wants(x, "tenants") THEN "unassign" ELSE "done"
AfterRole(x) ==
    CASE ~Wants(x, "active") \/ x.plan.input.active = x.was.active -> AfterActive(x)
      [] Wants(x, "active") /\ x.plan.input.active # x.was.active /\ Self(x) -> "refused"
      [] OTHER -> "setActive"

Member(r) ==
    LET x == [requests[r] EXCEPT !.was = users[Plan(r).target]]
    IN  /\ At(r, "member")
        /\ Becomes(r, [x EXCEPT !.pc = CASE x.was = NoUser -> "refused"
                                         [] x.was # NoUser /\ (~Wants(x, "role") \/ x.plan.input.role = x.was.role) -> AfterRole(x)
                                         [] OTHER -> IF Self(x) THEN "refused" ELSE IF x.was.role = "owner" THEN "count" ELSE "setRole"])
        /\ UNCHANGED <<users, sees, sessions, given>> /\ Same

\* Mutant: owners who have been deactivated are counted as well
CountAllOwners(r) ==
    /\ At(r, "count")
    /\ Becomes(r, [requests[r] EXCEPT !.owners = Owners(users),
                       !.pc = IF Cardinality({i \in Rows : users[i].role = "owner"}) <= 1 THEN "refused" ELSE "setRole"])
    /\ UNCHANGED <<users, sees, sessions, given>> /\ Same

CountOwners(r) ==
    /\ At(r, "count")
    /\ Becomes(r, [requests[r] EXCEPT !.owners = Owners(users),
                                      !.pc = IF Cardinality(Owners(users)) <= 1 THEN "refused" ELSE "setRole"])
    /\ UNCHANGED <<users, sees, sessions, given>> /\ Same

SetRole(r) ==
    LET x == requests[r]
        i == x.plan.target
        role == x.plan.input.role
    IN  /\ At(r, "setRole")
        /\ Changes(r, [x EXCEPT !.pc = AfterRole(x)], [users EXCEPT ![i].role = role], sees)
        /\ given' = [given EXCEPT ![i] = [role |-> role, clash |-> \E q \in Requests : At(q, "stamp") /\ requests[q].row = i /\ requests[q].role # role]]
        /\ UNCHANGED sessions /\ Same

SetActive(r) ==
    LET x == requests[r]
    IN  /\ At(r, "setActive")
        /\ Changes(r, [x EXCEPT !.pc = AfterActive(x)], [users EXCEPT ![x.plan.target].active = x.plan.input.active], sees)
        /\ UNCHANGED <<sessions, given>> /\ Same

\* The assignments are deleted and inserted in two statements
Unassign(r) ==
    LET x == requests[r]
    IN  /\ At(r, "unassign")
        /\ Changes(r, [x EXCEPT !.pc = "assign"], users, [sees EXCEPT ![x.plan.target] = {}])
        /\ UNCHANGED <<sessions, given>> /\ Same

Assign(r) ==
    LET x == requests[r]
    IN  /\ At(r, "assign")
        /\ Changes(r, [x EXCEPT !.pc = "done"], users, [sees EXCEPT ![x.plan.target] = @ \cup x.plan.input.tenants])
        /\ UNCHANGED <<sessions, given>> /\ Same

-----------------------------------------------------------------------------

\* A statement throws, or the process ends: the request stops where it is
Fails(r) ==
    /\ UnderWay(requests[r]) /\ left.faults > 0
    /\ left' = [left EXCEPT !.faults = @ - 1]
    /\ Goes(r, "done")
    /\ UNCHANGED <<now, users, sees, sessions, given, plans>>

\* A request writes the time it has read a moment before
Tick ==
    /\ left.ticks > 0 /\ \A r \in Requests : ~At(r, "touch")
    /\ left' = [left EXCEPT !.ticks = @ - 1]
    /\ now' = now + 1
    /\ UNCHANGED <<users, sees, sessions, requests, given, plans>>

Next ==
    \/ Prune \/ Tick
    \/ \E r \in Requests :
          \/ Begin(r) \/ Find(r) \/ Stamp(r) \/ First(r) \/ InsertUser(r) \/ CreateSession(r)
          \/ Resolve(r) \/ Touch(r) \/ RevokeSession(r) \/ Load(r) \/ See(r)
          \/ Member(r) \/ CountOwners(r) \/ SetRole(r) \/ SetActive(r) \/ Unassign(r) \/ Assign(r) \/ Fails(r)

Spec == Init /\ [][Next]_vars
=============================================================================
