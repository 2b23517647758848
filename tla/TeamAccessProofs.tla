-------------------------- MODULE TeamAccessProofs --------------------------
(***************************************************************************)
(* Proofs about the team.  "Types" is the shape of the state.  Of each     *)
(* request, "Planned" is what its step says about its plan, "Remembers"    *)
(* that the rights it goes by are among those its account has had,         *)
(* "Opened" that it goes by no session that was revoked before it began,   *)
(* "Informed" what it knows of the owners and of the role it writes back.  *)
(* "Fresh" says that nobody uses the session of a sign-in under way.       *)
(***************************************************************************)
EXTENDS TeamAccessProps, FiniteSetTheorems, TLAPS

SigningIn == {"find", "first", "insert", "stamp", "session"}
BySession == {"resolve", "touch", "revoke", "load"}
Steps == {"idle", "see", "acted", "done", "refused"} \cup SigningIn \cup BySession \cup Writes
\* The steps of a request that speaks for an account
Known == {"stamp", "session", "see"} \cup Writes

SessionType == [row : Rows \cup {None}, seen : Nat, idle : Nat, ends : Nat, revoked : BOOLEAN]
RightType == [row : Rows, active : BOOLEAN, role : Roles, sees : SUBSET Tenants]
RequestType == [pc : Steps, plan : Plans \cup {None}, row : Rows \cup {None}, role : Roles \cup {None}, was : UserRow,
                owners : SUBSET Rows, held : SUBSET RightType, open : BOOLEAN]

AccountsOK == users \in [Rows -> UserRow] /\ sees \in [Rows -> SUBSET Tenants]
SessionsOK == sessions \in [Rows \cup Requests -> SessionType]
RequestsOK == requests \in [Requests -> RequestType]
GivenOK == given \in [Rows -> [role : Roles, clash : BOOLEAN]]
BoundsOK == now \in Nat /\ plans \subseteq Plans /\ left \in [ticks : Nat, faults : Nat]

Types == AccountsOK /\ SessionsOK /\ RequestsOK /\ GivenOK /\ BoundsOK

Planned(x) ==
    /\ x.pc \notin {"idle", "done", "refused"} => x.plan \in Plans
    /\ x.pc \in SigningIn => x.plan.via # "cookie"
    /\ x.pc \in BySession => x.plan.via = "cookie"
    /\ x.pc = "load" => x.plan.does # "sign out"
    /\ x.pc \in {"see", "acted"} => x.plan.does = "use"
    /\ x.pc \in Writes => x.plan.does = "update" /\ x.role = "owner"
    /\ x.pc = "insert" => x.role \in Roles
    /\ x.pc \in {"count", "setRole"} => ~Self(x) /\ Wants(x, "role")
    /\ x.pc = "setActive" => ~Self(x) /\ Wants(x, "active")
    /\ x.pc \in {"unassign", "assign"} => Wants(x, "tenants")

Had(x) == {h \in x.held : h.row = x.row}

Remembers(x) ==
    /\ UnderWay(x) => Rights(x, users, sees) \subseteq x.held
    /\ x.pc \in Known => x.row \in Accounts(x, users)
    /\ x.pc \in Known \cup {"acted"} => (\E h \in Had(x) : h.active) /\ (\E h \in Had(x) : h.role = x.role)
    /\ x.pc = "acted" => x.role = "owner" \/ \E h \in Had(x) : x.plan.target \in h.sees

Opened(x) ==
    /\ x.pc \in Steps \ ({"idle", "done", "refused"} \cup BySession) => x.open
    /\ x.pc \in {"touch", "load"} => x.open
    /\ UnderWay(x) /\ x.plan.via = "cookie" => sessions[x.plan.who].row # None /\ (x.open \/ sessions[x.plan.who].revoked)

Informed(x) ==
    /\ x.pc = "stamp" => /\ x.role = "owner" <=> x.row \in x.owners
                         /\ x.role = given[x.row].role \/ given[x.row].clash
    /\ x.pc \in Writes => x.row \in x.owners \/ Cardinality(x.owners) > 1

Good(x) == Planned(x) /\ Remembers(x) /\ Opened(x) /\ Informed(x)

Fresh == \A r \in Requests : sessions[r].row # None => requests[r].pc = "done"

Inv == Types /\ (\A r \in Requests : Good(requests[r])) /\ Fresh /\ GivenRoleHolds
-----------------------------------------------------------------------------
(* Requests and what they remember *)

LEMMA NoUserIs == NoUser \in UserRow
  BY DEF NoUser, UserRow, Roles

LEMMA WaitingIs == Waiting \in RequestType /\ \A pc \in Steps : [Waiting EXCEPT !.pc = pc] \in RequestType
  BY NoUserIs DEF Waiting, RequestType, Steps

LEMMA RequestIs ==
  ASSUME Inv, NEW r \in Requests
  PROVE  /\ requests[r] \in RequestType /\ requests \in [Requests -> RequestType]
         /\ Planned(requests[r]) /\ Remembers(requests[r]) /\ Opened(requests[r]) /\ Informed(requests[r])
  BY DEF Inv, Types, RequestsOK, Good

LEMMA PlanIs ==
  ASSUME NEW p \in Plans
  PROVE  /\ p.via = "cookie" => p.who \in Rows \cup Requests
         /\ p.via # "cookie" => p.who \in People /\ p.who # None
         /\ p.does = "update" => p.target \in Rows
         /\ p.does = "sign out" => p.via = "cookie"
         /\ p.does \in {"sign in", "use", "sign out", "update"}
         /\ p.does = "sign in" => p.via # "cookie"
         /\ p.input \in Inputs
  BY TeamAssumption DEF Plans

\* Nothing is asked of a request that is over
LEMMA OverIsGood ==
  ASSUME NEW pc \in {"done", "refused"}
  PROVE  Good([Waiting EXCEPT !.pc = pc]) /\ Good([Waiting EXCEPT !.pc = pc])'
<1> DEFINE x == [Waiting EXCEPT !.pc = pc]
<1>1. x.pc = pc
  BY DEF Waiting
<1>2. Planned(x) /\ Planned(x)'
  BY <1>1 DEF Planned, SigningIn, BySession, Writes
<1>3. Remembers(x) /\ Remembers(x)'
  BY <1>1 DEF Remembers, UnderWay, Over, Known, Writes
<1>4. Opened(x) /\ Opened(x)'
  BY <1>1 DEF Opened, UnderWay, Over, BySession
<1>5. Informed(x) /\ Informed(x)'
  BY <1>1 DEF Informed, Writes
<1> QED BY <1>2, <1>3, <1>4, <1>5 DEF Good

LEMMA KeptIs ==
  ASSUME NEW x \in RequestType, Good(x)' \/ x.pc \in {"done", "refused"}
  PROVE  Kept(x) \in RequestType /\ Kept(x).pc = x.pc /\ Good(Kept(x))'
<1>1. CASE x.pc \in {"done", "refused"}
  <2>1. Kept(x) = [Waiting EXCEPT !.pc = x.pc]
    BY <1>1 DEF Kept
  <2>2. [Waiting EXCEPT !.pc = x.pc] \in RequestType /\ [Waiting EXCEPT !.pc = x.pc].pc = x.pc
    BY <1>1, WaitingIs DEF Waiting, Steps
  <2>3. Good([Waiting EXCEPT !.pc = x.pc])'
    BY <1>1, OverIsGood
  <2> QED BY <2>1, <2>2, <2>3
<1>2. CASE x.pc \notin {"done", "refused"}
  BY <1>2 DEF Kept
<1> QED BY <1>1, <1>2

\* A request remains good while its session keeps its account and stays revoked
LEMMA GoodStays ==
  ASSUME NEW x \in RequestType, Good(x), UNCHANGED <<users, sees, given>>,
         UnderWay(x) /\ x.plan.via = "cookie" =>
            /\ sessions'[x.plan.who].row = sessions[x.plan.who].row
            /\ sessions[x.plan.who].revoked => sessions'[x.plan.who].revoked
  PROVE  Good(x)'
<1>1. Planned(x)' /\ Informed(x)'
  BY DEF Good, Planned, Informed, Self, Wants
<1>2. UnderWay(x) => Accounts(x, users)' = Accounts(x, users)
  BY DEF Accounts
<1>3. UnderWay(x) => Rights(x, users, sees)' = Rights(x, users, sees)
  BY <1>2 DEF Rights
<1>4. x.pc \in Known => UnderWay(x)
  BY DEF Known, Writes, UnderWay, Over
<1>5. Remembers(x)'
  BY <1>2, <1>3, <1>4 DEF Good, Remembers, Had, UnderWay
<1>6. Opened(x)'
  BY DEF Good, Opened, UnderWay
<1> QED BY <1>1, <1>5, <1>6 DEF Good

\* The sessions a request under way may use keep their accounts and stay revoked
Holds(y) ==
    UnderWay(y) /\ y.plan.via = "cookie" =>
        /\ sessions'[y.plan.who].row = sessions[y.plan.who].row
        /\ sessions[y.plan.who].revoked => sessions'[y.plan.who].revoked

LEMMA GoodNow == ASSUME NEW q \in Requests, NEW y, requests'[q] = y, Good(y)' PROVE Good(requests[q])'
<1>1. Planned(requests[q])'
  BY DEF Good, Planned, Self, Wants
<1>2. Remembers(requests[q])'
  BY DEF Good, Remembers, Accounts, Rights, Had, UnderWay
<1>3. Opened(requests[q])' /\ Informed(requests[q])'
  BY DEF Good, Opened, Informed, UnderWay
<1> QED BY <1>1, <1>2, <1>3 DEF Good

\* A step of one request that leaves the accounts alone
LEMMA StepKeeps ==
  ASSUME Inv, NEW r \in Requests, NEW x \in RequestType, Good(x)' \/ x.pc \in {"done", "refused"}, Becomes(r, x),
         UNCHANGED <<users, sees, given>>, BoundsOK', SessionsOK', requests[r].pc # "done",
         \A q \in Requests : Holds(requests[q]),
         \A q \in Requests : sessions'[q].row # None => sessions[q].row # None \/ (q = r /\ x.pc = "done")
  PROVE  Inv'
<1>1. requests' = [requests EXCEPT ![r] = Kept(x)] /\ requests \in [Requests -> RequestType]
  BY RequestIs DEF Becomes
<1>2. Kept(x) \in RequestType /\ Kept(x).pc = x.pc /\ Good(Kept(x))'
  BY KeptIs
<1>3. /\ requests' \in [Requests -> RequestType]
      /\ requests'[r] = Kept(x) /\ \A q \in Requests \ {r} : requests'[q] = requests[q]
  BY <1>1, <1>2
<1>4. \A q \in Requests : Good(requests[q])'
  <2> TAKE q \in Requests
  <2>1. CASE q = r
    BY <2>1, <1>2, <1>3, GoodNow
  <2>2. CASE q # r
    <3>1. requests[q] \in RequestType /\ Good(requests[q])
      BY <1>1 DEF Inv
    <3>2. \A y \in RequestType : Good(y) /\ Holds(y) => Good(y)'
      BY GoodStays DEF Holds
    <3>3. requests'[q] = requests[q] /\ Holds(requests[q])
      BY <2>2, <1>3
    <3>4. \A y \in RequestType : requests'[q] = y /\ Good(y)' => Good(requests[q])'
      BY GoodNow
    <3> HIDE DEF Good
    <3>5. PICK y \in RequestType : y = requests[q]
      BY <3>1
    <3> QED BY <3>1, <3>2, <3>3, <3>4, <3>5
  <2> QED BY <2>1, <2>2
<1>5. Fresh'
  BY <1>2, <1>3 DEF Inv, Fresh
<1>6. Types'
  BY <1>3 DEF Inv, Types, AccountsOK, RequestsOK, GivenOK
<1>7. GivenRoleHolds'
  BY DEF Inv, GivenRoleHolds
<1> QED BY <1>4, <1>5, <1>6, <1>7 DEF Inv

\* The steps that only look
LEMMA LookKeeps ==
  ASSUME Inv, NEW r \in Requests, NEW x \in RequestType, Good(x) \/ x.pc \in {"done", "refused"}, Becomes(r, x),
         UNCHANGED <<users, sees, sessions, given>>, BoundsOK', requests[r].pc # "done"
  PROVE  Inv'
<1>1. Good(x)' \/ x.pc \in {"done", "refused"}
  BY GoodStays
<1>2. SessionsOK' /\ \A q \in Requests : Holds(requests[q])
  BY DEF Inv, Types, SessionsOK, Holds
<1> QED BY <1>1, <1>2, StepKeeps

LEMMA SameBounds == ASSUME Inv, Same PROVE BoundsOK'
  BY DEF Inv, Types, BoundsOK, Same

LEMMA RightsAre ==
  ASSUME Inv, NEW x \in RequestType, x.plan \in Plans
  PROVE  Accounts(x, users) \subseteq Rows /\ Rights(x, users, sees) \subseteq RightType
<1>1. Accounts(x, users) \subseteq Rows
  BY PlanIs DEF Inv, Types, SessionsOK, SessionType, Accounts
<1>2. Rights(x, users, sees) \subseteq RightType
  BY <1>1 DEF Inv, Types, AccountsOK, Rights, RightType, UserRow
<1> QED BY <1>1, <1>2

LEMMA OwnersAre == ASSUME NEW u PROVE Owners(u) \subseteq Rows
  BY DEF Owners

LEMMA BeginKeeps == ASSUME Inv, NEW r \in Requests, Begin(r) PROVE Inv'
<1>1. PICK p \in plans :
        LET x == [Waiting EXCEPT !.plan = p, !.pc = IF p.via = "cookie" THEN "resolve" ELSE "find"]
        IN  /\ p.via = "cookie" => sessions[p.who].row # None
            /\ Becomes(r, [x EXCEPT !.held = Rights(x, users, sees), !.open = p.via = "cookie" => ~sessions[p.who].revoked])
  BY DEF Begin
<1> DEFINE y == [Waiting EXCEPT !.plan = p, !.pc = IF p.via = "cookie" THEN "resolve" ELSE "find"]
           x == [y EXCEPT !.held = Rights(y, users, sees), !.open = p.via = "cookie" => ~sessions[p.who].revoked]
<1>2. p \in Plans /\ Becomes(r, x) /\ (p.via = "cookie" => sessions[p.who].row # None)
  BY <1>1 DEF Inv, Types, BoundsOK
<1>3. y \in RequestType /\ y.plan = p /\ y.pc = IF p.via = "cookie" THEN "resolve" ELSE "find"
  <2>1. (IF p.via = "cookie" THEN "resolve" ELSE "find") \in Steps
    BY DEF Steps, SigningIn, BySession
  <2> QED BY <1>2, <2>1, WaitingIs DEF RequestType
<1>4. Rights(y, users, sees) \in SUBSET RightType
  BY <1>2, <1>3, RightsAre
<1>5. p.via = "cookie" => sessions[p.who].revoked \in BOOLEAN
  BY <1>2, PlanIs DEF Inv, Types, SessionsOK, SessionType
<1>6. /\ x.plan = p /\ x.pc = IF p.via = "cookie" THEN "resolve" ELSE "find"
      /\ x.held = Rights(y, users, sees) /\ x.open = (p.via = "cookie" => ~sessions[p.who].revoked)
  BY <1>3 DEF RequestType
<1> HIDE DEF y
<1>7. x \in RequestType
  BY <1>3, <1>4, <1>5 DEF RequestType
<1> HIDE DEF x
<1>8. Planned(x)
  BY <1>2, <1>6 DEF Planned, SigningIn, BySession, Writes
<1>9. Remembers(x)
  <2>1. x.pc \notin Known \cup {"acted"}
    BY <1>6 DEF Known, Writes
  <2>2. Rights(x, users, sees) = x.held
    BY <1>3, <1>6 DEF Rights, Accounts
  <2> QED BY <2>1, <2>2 DEF Remembers
<1>10. Opened(x)
  BY <1>2, <1>5, <1>6 DEF Opened, BySession
<1>11. Informed(x)
  BY <1>6 DEF Informed, Writes
<1>12. BoundsOK' /\ requests[r].pc # "done"
  BY SameBounds DEF Begin, At
<1> QED BY <1>2, <1>7, <1>8, <1>9, <1>10, <1>11, <1>12, LookKeeps DEF Begin, Good

\* A request under way that stops with nothing done
LEMMA StopKeeps ==
  ASSUME Inv, NEW r \in Requests, NEW pc \in {"done", "refused"}, Goes(r, pc),
         UNCHANGED <<users, sees, sessions, given>>, BoundsOK', requests[r].pc # "done"
  PROVE  Inv'
<1> DEFINE x == [requests[r] EXCEPT !.pc = pc]
<1>1. x \in RequestType /\ x.pc = pc
  BY RequestIs DEF RequestType, Steps
<1> QED BY <1>1, LookKeeps DEF Goes

LEMMA FailsKeeps == ASSUME Inv, NEW r \in Requests, Fails(r) PROVE Inv'
<1>1. BoundsOK'
  BY DEF Fails, Inv, Types, BoundsOK
<1> QED BY <1>1, StopKeeps DEF Fails, UnderWay, Over

\* A record of an account as it is now is among its rights
LEMMA RightNow ==
  ASSUME NEW x, NEW i \in Rows, i \in Accounts(x, users), Rights(x, users, sees) \subseteq x.held
  PROVE  \E h \in x.held : h.row = i /\ (users[i].active => h.active) /\ h.role = users[i].role /\ h.sees = sees[i]
<1> DEFINE h == [row |-> i, active |-> users[i].active, role |-> users[i].role, sees |-> sees[i]]
<1>1. h \in x.held
  BY DEF Rights
<1>2. h.row = i /\ (users[i].active => h.active) /\ h.role = users[i].role /\ h.sees = sees[i]
  OBVIOUS
<1> QED BY <1>1, <1>2

LEMMA FindKeeps == ASSUME Inv, NEW r \in Requests, Find(r) PROVE Inv'
<1> DEFINE known == {i \in Rows : users[i].person = Plan(r).who}
<1>1. BoundsOK' /\ requests[r].pc = "find" /\ UNCHANGED <<users, sees, sessions, given>>
  BY SameBounds DEF Find, At
<1>2. /\ requests[r] \in RequestType /\ Planned(requests[r]) /\ Remembers(requests[r]) /\ Opened(requests[r])
      /\ requests[r].plan \in Plans /\ requests[r].plan.via # "cookie"
  BY <1>1, RequestIs DEF Planned, SigningIn
<1>3. requests[r].open
  BY <1>1, <1>2 DEF Opened, Steps, SigningIn, BySession
<1>4. CASE known = {} /\ Goes(r, "first")
  <2> DEFINE x == [requests[r] EXCEPT !.pc = "first"]
  <2>1. /\ x \in RequestType /\ x.pc = "first" /\ x.plan = requests[r].plan /\ x.held = requests[r].held
        /\ x.open = requests[r].open
    BY <1>2 DEF RequestType, Steps, SigningIn
  <2>2. Becomes(r, x)
    BY <1>4 DEF Goes
  <2> HIDE DEF x
  <2>3. Good(x)
    <3>1. Rights(x, users, sees) \subseteq x.held
      BY <1>1, <1>2, <2>1 DEF Remembers, UnderWay, Over, Rights, Accounts
    <3>2. Planned(x) /\ Informed(x)
      BY <1>2, <2>1 DEF Planned, Informed, SigningIn, BySession, Writes
    <3>3. Remembers(x) /\ Opened(x)
      BY <1>2, <1>3, <2>1, <3>1 DEF Remembers, Opened, Known, Writes, BySession
    <3> QED BY <3>2, <3>3 DEF Good
  <2> QED BY <1>1, <2>1, <2>2, <2>3, LookKeeps
<1>5. ASSUME NEW i \in known,
             Becomes(r, IF users[i].active
                        THEN [requests[r] EXCEPT !.pc = "stamp", !.row = i, !.role = users[i].role, !.owners = Owners(users)]
                        ELSE [requests[r] EXCEPT !.pc = "refused"])
      PROVE  Inv'
  <2>1. CASE ~users[i].active
    BY <1>1, <1>5, <2>1, StopKeeps DEF Goes
  <2>2. CASE users[i].active
    <3> DEFINE x == [requests[r] EXCEPT !.pc = "stamp", !.row = i, !.role = users[i].role, !.owners = Owners(users)]
    <3>1. users[i] \in UserRow /\ users[i].role \in Roles /\ i \in Rows
      BY DEF Inv, Types, AccountsOK, UserRow
    <3>2. /\ x \in RequestType /\ x.pc = "stamp" /\ x.plan = requests[r].plan /\ x.held = requests[r].held
          /\ x.open = requests[r].open /\ x.row = i /\ x.role = users[i].role /\ x.owners = Owners(users)
      BY <1>2, <3>1, OwnersAre DEF RequestType, Steps, SigningIn
    <3>3. Becomes(r, x)
      BY <1>5, <2>2
    <3> HIDE DEF x
    <3>4. Rights(x, users, sees) \subseteq x.held /\ i \in Accounts(x, users)
      BY <1>1, <1>2, <3>2 DEF Remembers, UnderWay, Over, Rights, Accounts, Plan
    <3>5. PICK h \in x.held : h.row = i /\ (users[i].active => h.active) /\ h.role = users[i].role
      BY <3>1, <3>4, RightNow
    <3>6. Remembers(x)
      BY <2>2, <3>2, <3>4, <3>5 DEF Remembers, Had
    <3>7. Planned(x)
      BY <1>2, <3>2 DEF Planned, SigningIn, BySession, Writes
    <3>8. Opened(x)
      BY <1>2, <1>3, <3>2 DEF Opened
    <3>9. Informed(x)
      BY <2>2, <3>1, <3>2 DEF Informed, Writes, Owners, Inv, GivenRoleHolds
    <3> QED BY <1>1, <3>2, <3>3, <3>6, <3>7, <3>8, <3>9, LookKeeps DEF Good
  <2> QED BY <2>1, <2>2
<1> QED BY <1>4, <1>5 DEF Find

\* What is known of a request that takes a step
LEMMA UnderWayIs ==
  ASSUME Inv, NEW r \in Requests, UnderWay(requests[r])
  PROVE  /\ requests[r].plan \in Plans /\ requests[r].pc \in Steps /\ requests[r].pc # "done"
         /\ Rights(requests[r], users, sees) \subseteq requests[r].held
         /\ Accounts(requests[r], users) \subseteq Rows
<1>1. requests[r] \in RequestType /\ Planned(requests[r]) /\ Remembers(requests[r])
  BY RequestIs
<1>2. requests[r].plan \in Plans
  BY <1>1 DEF Planned, UnderWay, Over
<1> QED BY <1>1, <1>2, RightsAre DEF Remembers, RequestType, UnderWay, Over

\* A request that goes on to a step before it speaks for an account
LEMMA GoesOn ==
  ASSUME Inv, NEW r \in Requests, UnderWay(requests[r]), NEW x \in RequestType, Becomes(r, x),
         x.plan = requests[r].plan, x.held = requests[r].held, x.open = requests[r].open,
         x.pc \in {"first", "insert", "touch", "revoke", "load"},
         Planned(x), x.pc # "revoke" => x.open,
         UNCHANGED <<users, sees, sessions, given>>, BoundsOK'
  PROVE  Inv'
<1>1. Rights(x, users, sees) \subseteq x.held
  BY UnderWayIs DEF Rights, Accounts
<1>2. Remembers(x)
  BY <1>1 DEF Remembers, Known, Writes
<1>3. Opened(x)
  BY RequestIs DEF Opened, BySession
<1>4. Informed(x)
  BY DEF Informed, Writes
<1> QED BY <1>2, <1>3, <1>4, UnderWayIs, LookKeeps DEF Good

LEMMA FirstKeeps == ASSUME Inv, NEW r \in Requests, First(r) PROVE Inv'
<1> DEFINE role == IF \A i \in Rows : users[i] = NoUser THEN "owner" ELSE "readonly"
           x == [requests[r] EXCEPT !.pc = "insert", !.role = role]
<1>1. /\ requests[r].pc = "first" /\ UnderWay(requests[r]) /\ Becomes(r, x)
      /\ UNCHANGED <<users, sees, sessions, given>> /\ BoundsOK'
  BY SameBounds DEF First, At, UnderWay, Over
<1>2. requests[r] \in RequestType /\ Planned(requests[r]) /\ Opened(requests[r])
  BY RequestIs
<1>3. role \in Roles
  BY DEF Roles
<1> HIDE DEF role
<1>4. /\ x \in RequestType /\ x.pc = "insert" /\ x.plan = requests[r].plan /\ x.held = requests[r].held
      /\ x.open = requests[r].open
  BY <1>2, <1>3 DEF RequestType, Steps, SigningIn
<1>5. x.role \in Roles
  BY <1>2, <1>3 DEF RequestType
<1> HIDE DEF x
<1>6. Planned(x)
  BY <1>1, <1>2, <1>4, <1>5 DEF Planned, SigningIn, BySession, Writes
<1>7. x.open
  BY <1>1, <1>2, <1>4 DEF Opened, Steps, SigningIn, BySession
<1> QED BY <1>1, <1>4, <1>6, <1>7, GoesOn

LEMMA ResolveKeeps == ASSUME Inv, NEW r \in Requests, Resolve(r) PROVE Inv'
<1> DEFINE s == sessions[Plan(r).who]
           pc == CASE Valid(s) /\ now - s.seen > TouchEvery -> "touch"
                   [] ~Valid(s) /\ Plan(r).does # "sign out" -> "refused"
                   [] OTHER -> AfterResolve(Plan(r))
           x == [requests[r] EXCEPT !.pc = pc]
<1>1. /\ requests[r].pc = "resolve" /\ UnderWay(requests[r]) /\ Becomes(r, x)
      /\ UNCHANGED <<users, sees, sessions, given>> /\ BoundsOK'
  BY SameBounds DEF Resolve, At, Goes, UnderWay, Over
<1>2. /\ requests[r] \in RequestType /\ Planned(requests[r]) /\ Opened(requests[r])
      /\ requests[r].plan.via = "cookie" /\ requests[r].plan \in Plans
  BY <1>1, RequestIs, UnderWayIs DEF Planned, BySession
<1>3. /\ pc \in {"touch", "refused", "revoke", "load"}
      /\ pc \in {"touch", "load"} => Valid(s)
      /\ pc = "load" => requests[r].plan.does # "sign out"
  BY DEF AfterResolve, Plan
<1> HIDE DEF pc
<1>4. /\ x \in RequestType /\ x.pc = pc /\ x.plan = requests[r].plan /\ x.held = requests[r].held
      /\ x.open = requests[r].open
  BY <1>2, <1>3 DEF RequestType, Steps, BySession
<1>5. CASE pc = "refused"
  BY <1>1, <1>4, <1>5, UnderWayIs, LookKeeps
<1>6. CASE pc # "refused"
  <2>1. Planned(x)
    BY <1>2, <1>3, <1>4, <1>6 DEF Planned, SigningIn, BySession, Writes
  <2>2. pc # "revoke" => x.open
    BY <1>1, <1>2, <1>3, <1>4, <1>6 DEF Opened, Valid, Plan
  <2> HIDE DEF x
  <2> QED BY <1>1, <1>3, <1>4, <1>6, <2>1, <2>2, GoesOn
<1> QED BY <1>5, <1>6

\* What follows the middleware, for an account that was just seen
LEMMA SpeaksKeeps ==
  ASSUME Inv, NEW r \in Requests, UnderWay(requests[r]), requests[r].open, NEW x \in RequestType, Becomes(r, x),
         NEW i \in Accounts(requests[r], users), x.row = i, x.owners = Owners(users), x.role = "owner" => i \in Owners(users),
         \E h \in Had(x) : h.active, \E h \in Had(x) : h.role = x.role,
         x.plan = requests[r].plan, x.held = requests[r].held, x.open = requests[r].open,
         x.plan.does # "sign out", x.plan.via = "cookie", x.pc = AfterAuth(x.plan, x.role),
         UNCHANGED <<users, sees, sessions, given>>, BoundsOK'
  PROVE  Inv'
<1>1. x.plan \in Plans /\ i \in Rows /\ Rights(requests[r], users, sees) \subseteq x.held
  BY UnderWayIs
<1>2. /\ x.pc \in {"see", "member", "refused"} /\ (x.pc = "see" => x.plan.does = "use")
      /\ x.pc = "member" => x.plan.does = "update" /\ x.role = "owner"
  BY <1>1, PlanIs DEF AfterAuth
<1>3. CASE x.pc = "refused"
  BY <1>3, UnderWayIs, LookKeeps
<1>4. CASE x.pc # "refused"
  <2>1. Rights(x, users, sees) \subseteq x.held /\ i \in Accounts(x, users)
    BY <1>1 DEF Rights, Accounts
  <2>3. Planned(x)
    BY <1>1, <1>2, <1>4 DEF Planned, SigningIn, BySession, Writes
  <2>4. Remembers(x)
    BY <1>2, <1>4, <2>1 DEF Remembers
  <2>5. Opened(x)
    BY RequestIs DEF Opened
  <2>6. Informed(x)
    BY <1>2, <1>4 DEF Informed, Writes
  <2> QED BY <2>3, <2>4, <2>5, <2>6, UnderWayIs, LookKeeps DEF Good
<1> QED BY <1>3, <1>4

LEMMA LoadKeeps == ASSUME Inv, NEW r \in Requests, Load(r) PROVE Inv'
<1> DEFINE i == sessions[Plan(r).who].row
           x == [requests[r] EXCEPT !.pc = AfterAuth(Plan(r), users[i].role), !.row = i, !.role = users[i].role,
                                    !.owners = Owners(users)]
<1>1. /\ requests[r].pc = "load" /\ UnderWay(requests[r])
      /\ UNCHANGED <<users, sees, sessions, given>> /\ BoundsOK'
  BY SameBounds DEF Load, At, UnderWay, Over
<1>2. /\ requests[r] \in RequestType /\ Planned(requests[r]) /\ Opened(requests[r])
      /\ requests[r].plan.via = "cookie" /\ requests[r].plan \in Plans /\ requests[r].plan.does # "sign out"
      /\ requests[r].open
  BY <1>1, RequestIs, UnderWayIs DEF Planned, Opened, BySession
<1>3. i \in Accounts(requests[r], users) /\ i \in Rows
  BY <1>1, <1>2, UnderWayIs DEF Accounts, Opened, Plan
<1>4. users[i].role \in Roles
  BY <1>3 DEF Inv, Types, AccountsOK, UserRow
<1>5. CASE ~users[i].active
  BY <1>1, <1>5, UnderWayIs, StopKeeps DEF Goes, Load
<1>6. CASE users[i].active
  <2>1. Becomes(r, x)
    BY <1>6 DEF Load
  <2>2. AfterAuth(Plan(r), users[i].role) \in {"see", "member", "refused"}
    BY <1>2, PlanIs DEF AfterAuth, Plan
  <2>3. /\ x \in RequestType /\ x.pc = AfterAuth(Plan(r), users[i].role) /\ x.plan = requests[r].plan /\ x.held = requests[r].held
        /\ x.open = requests[r].open /\ x.row = i /\ x.role = users[i].role /\ x.owners = Owners(users)
    BY <1>2, <1>3, <1>4, <2>2, OwnersAre DEF RequestType, Steps, Writes
  <2>4. PICK h \in requests[r].held : h.row = i /\ (users[i].active => h.active) /\ h.role = users[i].role
    BY <1>1, <1>3, UnderWayIs, RightNow
  <2> HIDE DEF x, i
  <2>5. (\E k \in Had(x) : k.active) /\ (\E k \in Had(x) : k.role = x.role)
    BY <1>6, <2>3, <2>4 DEF Had
  <2>6. x.role = "owner" => i \in Owners(users)
    BY <1>3, <1>6, <2>3 DEF Owners
  <2> QED BY <1>1, <1>2, <1>3, <2>1, <2>3, <2>5, <2>6, SpeaksKeeps DEF Plan
<1> QED BY <1>5, <1>6

LEMMA SeeKeeps == ASSUME Inv, NEW r \in Requests, See(r) PROVE Inv'
<1> DEFINE may == requests[r].role = "owner" \/ requests[r].plan.target \in sees[requests[r].row]
           x == [requests[r] EXCEPT !.pc = "acted"]
<1>1. /\ requests[r].pc = "see" /\ UnderWay(requests[r])
      /\ UNCHANGED <<users, sees, sessions, given>> /\ BoundsOK'
  BY SameBounds DEF See, At, UnderWay, Over
<1>2. /\ requests[r] \in RequestType /\ Planned(requests[r]) /\ Opened(requests[r]) /\ requests[r].open
      /\ requests[r].plan \in Plans /\ requests[r].plan.does = "use"
  BY <1>1, RequestIs, UnderWayIs DEF Planned, Opened, Steps, BySession
<1>3. /\ requests[r].row \in Accounts(requests[r], users) /\ Rights(requests[r], users, sees) \subseteq requests[r].held
      /\ (\E h \in Had(requests[r]) : h.active) /\ (\E h \in Had(requests[r]) : h.role = requests[r].role)
  BY <1>1, RequestIs DEF Remembers, Known
<1>4. requests[r].row \in Rows
  BY <1>1, <1>3, UnderWayIs
<1>5. CASE ~may
  BY <1>1, <1>5, UnderWayIs, StopKeeps DEF See
<1>6. CASE may
  <2>1. PICK h \in requests[r].held : h.row = requests[r].row /\ h.sees = sees[requests[r].row]
    BY <1>3, <1>4, RightNow
  <2>2. Becomes(r, x)
    BY <1>6 DEF See, Goes
  <2>3. /\ x \in RequestType /\ x.pc = "acted" /\ x.plan = requests[r].plan /\ x.held = requests[r].held
        /\ x.open = requests[r].open /\ x.row = requests[r].row /\ x.role = requests[r].role
    BY <1>2 DEF RequestType, Steps
  <2> HIDE DEF x
  <2>4. Planned(x)
    BY <1>2, <2>3 DEF Planned, SigningIn, BySession, Writes
  <2>5. Remembers(x)
    BY <1>3, <1>6, <2>1, <2>3 DEF Remembers, Had, UnderWay, Over, Known, Writes
  <2>6. Opened(x)
    BY <1>2, <2>3 DEF Opened, UnderWay, Over
  <2>7. Informed(x)
    BY <2>3 DEF Informed, Writes
  <2> QED BY <1>1, <2>2, <2>3, <2>4, <2>5, <2>6, <2>7, UnderWayIs, LookKeeps DEF Good
<1> QED BY <1>5, <1>6

-----------------------------------------------------------------------------
(* Changes of the team *)

LEMMA AfterActiveIs ==
  ASSUME NEW x PROVE AfterActive(x) \in {"unassign", "done"} /\ (AfterActive(x) = "unassign" => Wants(x, "tenants"))
  BY DEF AfterActive

LEMMA AfterRoleIs ==
  ASSUME NEW x
  PROVE  /\ AfterRole(x) \in {"unassign", "done", "refused", "setActive"}
         /\ AfterRole(x) = "unassign" => Wants(x, "tenants")
         /\ AfterRole(x) = "setActive" => ~Self(x) /\ Wants(x, "active")
<1>1. CASE ~Wants(x, "active") \/ x.plan.input.active = x.was.active
  BY <1>1, AfterActiveIs DEF AfterRole
<1>2. CASE Wants(x, "active") /\ x.plan.input.active # x.was.active
  BY <1>2 DEF AfterRole
<1> QED BY <1>1, <1>2

\* What a change goes on with
Goal(x) ==
    /\ x.pc \in {"count", "setRole"} => ~Self(x) /\ Wants(x, "role")
    /\ x.pc = "setActive" => ~Self(x) /\ Wants(x, "active")
    /\ x.pc \in {"unassign", "assign"} => Wants(x, "tenants")

LEMMA WriterIs ==
  ASSUME Inv, NEW r \in Requests, requests[r].pc \in Writes
  PROVE  /\ UnderWay(requests[r]) /\ requests[r] \in RequestType /\ requests[r].plan \in Plans
         /\ requests[r].plan.target \in Rows /\ requests[r].open
         /\ requests[r].plan.does = "update" /\ requests[r].role = "owner" /\ requests[r].row \in Accounts(requests[r], users)
<1>1. UnderWay(requests[r]) /\ requests[r].pc \in Known
  BY DEF Writes, UnderWay, Over, Known
<1>2. requests[r] \in RequestType /\ requests[r].plan \in Plans
  BY <1>1, RequestIs, UnderWayIs
<1>3. requests[r].plan.does = "update" /\ requests[r].role = "owner" /\ requests[r].row \in Accounts(requests[r], users)
  BY <1>1, RequestIs DEF Planned, Remembers
<1>4. requests[r].open
  BY RequestIs DEF Opened, Writes, Steps, SigningIn, BySession
<1> QED BY <1>1, <1>2, <1>3, <1>4, PlanIs

LEMMA WriterGoesOn ==
  ASSUME Inv, NEW r \in Requests, requests[r].pc \in Writes, NEW x \in RequestType, Becomes(r, x),
         x.plan = requests[r].plan, x.held = requests[r].held, x.open = requests[r].open,
         x.row = requests[r].row, x.role = requests[r].role,
         x.owners = requests[r].owners \/ Cardinality(x.owners) > 1,
         x.pc \in Writes, Goal(x), UNCHANGED <<users, sees, sessions, given>>, BoundsOK'
  PROVE  Inv'
<1>1. Rights(x, users, sees) \subseteq x.held /\ x.row \in Accounts(x, users)
  BY WriterIs, UnderWayIs DEF Rights, Accounts
<1>2. (\E h \in Had(x) : h.active) /\ (\E h \in Had(x) : h.role = x.role)
  BY RequestIs DEF Remembers, Had, Known
<1>3. x.pc \notin {"idle", "see", "acted", "done", "refused"} \cup SigningIn \cup BySession
  BY DEF Writes, SigningIn, BySession
<1>4. Planned(x)
  BY <1>3, WriterIs DEF Planned, Goal, SigningIn
<1>5. Remembers(x)
  BY <1>1, <1>2, <1>3 DEF Remembers
<1>6. Opened(x)
  BY <1>3, WriterIs, RequestIs DEF Opened, BySession
<1>7. Informed(x)
  BY <1>3, RequestIs DEF Informed, SigningIn
<1>8. requests[r].pc # "done"
  BY DEF Writes
<1> QED BY <1>4, <1>5, <1>6, <1>7, <1>8, LookKeeps DEF Good

LEMMA MemberKeeps == ASSUME Inv, NEW r \in Requests, Member(r) PROVE Inv'
<1> DEFINE x == [requests[r] EXCEPT !.was = users[Plan(r).target]]
           pc == CASE x.was = NoUser -> "refused"
                   [] x.was # NoUser /\ (~Wants(x, "role") \/ x.plan.input.role = x.was.role) -> AfterRole(x)
                   [] OTHER -> IF Self(x) THEN "refused" ELSE IF x.was.role = "owner" THEN "count" ELSE "setRole"
           y == [x EXCEPT !.pc = pc]
<1>1. /\ requests[r].pc = "member" /\ Becomes(r, y) /\ requests[r].pc \in Writes
      /\ UNCHANGED <<users, sees, sessions, given>> /\ BoundsOK'
  BY SameBounds DEF Member, At, Writes
<1>2. users[Plan(r).target] \in UserRow
  BY <1>1, WriterIs DEF Inv, Types, AccountsOK, Plan
<1>3. /\ x \in RequestType /\ x.plan = requests[r].plan /\ x.held = requests[r].held /\ x.open = requests[r].open
      /\ x.row = requests[r].row /\ x.role = requests[r].role /\ x.owners = requests[r].owners
  BY <1>2, RequestIs DEF RequestType
<1> HIDE DEF x
<1>4. /\ pc \in {"unassign", "done", "refused", "setActive", "count", "setRole"}
      /\ pc \in {"count", "setRole"} => ~Self(x) /\ Wants(x, "role")
      /\ pc = "setActive" => ~Self(x) /\ Wants(x, "active")
      /\ pc = "unassign" => Wants(x, "tenants")
  <2>1. CASE x.was = NoUser
    BY <2>1
  <2>2. CASE x.was # NoUser /\ (~Wants(x, "role") \/ x.plan.input.role = x.was.role)
    BY <2>2, AfterRoleIs
  <2>3. CASE x.was # NoUser /\ ~(~Wants(x, "role") \/ x.plan.input.role = x.was.role)
    BY <2>3
  <2> QED BY <2>1, <2>2, <2>3
<1> HIDE DEF pc
<1>5. /\ y \in RequestType /\ y.pc = pc /\ y.plan = x.plan /\ y.held = x.held /\ y.open = x.open
      /\ y.row = x.row /\ y.role = x.role /\ y.owners = x.owners
  BY <1>3, <1>4 DEF RequestType, Steps, Writes
<1> HIDE DEF y
<1>6. CASE pc \in {"done", "refused"}
  BY <1>1, <1>5, <1>6, LookKeeps
<1>7. CASE pc \notin {"done", "refused"}
  <2>1. Goal(y) /\ y.pc \in Writes
    BY <1>4, <1>5, <1>7 DEF Goal, Self, Wants, Writes
  <2> QED BY <1>1, <1>3, <1>5, <2>1, WriterGoesOn
<1> QED BY <1>6, <1>7

LEMMA CountOwnersKeeps == ASSUME Inv, NEW r \in Requests, CountOwners(r) PROVE Inv'
<1> DEFINE pc == IF Cardinality(Owners(users)) <= 1 THEN "refused" ELSE "setRole"
           y == [requests[r] EXCEPT !.owners = Owners(users), !.pc = pc]
<1>1. /\ requests[r].pc = "count" /\ Becomes(r, y) /\ requests[r].pc \in Writes
      /\ UNCHANGED <<users, sees, sessions, given>> /\ BoundsOK'
  BY SameBounds DEF CountOwners, At, Writes
<1>2. requests[r] \in RequestType /\ ~Self(requests[r]) /\ Wants(requests[r], "role")
  BY <1>1, RequestIs DEF Planned
<1>3. IsFiniteSet(Rows) /\ Cardinality(Owners(users)) \in Nat
  <2>1. IsFiniteSet(1..MaxRows)
    BY TeamAssumption, FS_Interval
  <2> QED BY <2>1, OwnersAre, FS_Subset, FS_CardinalityType DEF Rows
<1>4. pc \in {"refused", "setRole"} /\ (pc = "setRole" => Cardinality(Owners(users)) > 1)
  BY <1>3
<1> HIDE DEF pc
<1>5. /\ y \in RequestType /\ y.pc = pc /\ y.plan = requests[r].plan /\ y.held = requests[r].held /\ y.open = requests[r].open
      /\ y.row = requests[r].row /\ y.role = requests[r].role /\ y.owners = Owners(users)
  BY <1>2, <1>4, OwnersAre DEF RequestType, Steps, Writes
<1> HIDE DEF y
<1>6. CASE pc = "refused"
  BY <1>1, <1>5, <1>6, LookKeeps
<1>7. CASE pc = "setRole"
  <2>1. Goal(y) /\ y.pc \in Writes
    BY <1>2, <1>5, <1>7 DEF Goal, Self, Wants, Writes
  <2> QED BY <1>1, <1>4, <1>5, <1>7, <2>1, WriterGoesOn
<1> QED BY <1>4, <1>6, <1>7

-----------------------------------------------------------------------------
(* Sessions and time *)

LEMMA OthersStay ==
  ASSUME Inv, UNCHANGED <<users, sees, requests, given>>, BoundsOK', SessionsOK',
         \A q \in Requests : Holds(requests[q]), \A q \in Requests : sessions'[q].row # None => sessions[q].row # None
  PROVE  Inv'
<1>1. \A q \in Requests : Good(requests[q])'
  <2> TAKE q \in Requests
  <2>1. requests[q] \in RequestType /\ Good(requests[q]) /\ Holds(requests[q])
    BY DEF Inv, Types, RequestsOK
  <2>2. \A y \in RequestType : Good(y) /\ Holds(y) => Good(y)'
    BY GoodStays DEF Holds
  <2>3. \A y \in RequestType : requests'[q] = y /\ Good(y)' => Good(requests[q])'
    BY GoodNow
  <2>4. PICK y \in RequestType : y = requests[q]
    BY <2>1
  <2> HIDE DEF Good
  <2> QED BY <2>1, <2>2, <2>3, <2>4
<1>2. Types' /\ Fresh' /\ GivenRoleHolds'
  BY DEF Inv, Types, AccountsOK, RequestsOK, GivenOK, Fresh, GivenRoleHolds
<1> QED BY <1>1, <1>2 DEF Inv

\* The session of a request under way is one of somebody who has signed in
LEMMA HisSession ==
  ASSUME Inv, NEW q \in Requests, UnderWay(requests[q]), requests[q].plan.via = "cookie"
  PROVE  /\ requests[q].plan.who \in Rows \cup Requests /\ sessions[requests[q].plan.who].row # None
         /\ requests[q].plan.who \in Requests => requests[requests[q].plan.who].pc = "done"
<1>1. requests[q].plan.who \in Rows \cup Requests
  BY UnderWayIs, PlanIs
<1>2. sessions[requests[q].plan.who].row # None
  BY RequestIs DEF Opened
<1> QED BY <1>1, <1>2 DEF Inv, Fresh

LEMMA SessionIs ==
  ASSUME Inv, NEW s \in Rows \cup Requests
  PROVE  /\ sessions[s] \in SessionType /\ sessions[s].seen \in Nat /\ sessions[s].idle \in Nat /\ sessions[s].ends \in Nat
         /\ now \in Nat /\ now + IdleTime \in Nat /\ now + Lifetime \in Nat
         /\ sessions \in [Rows \cup Requests -> SessionType]
<1>1. sessions \in [Rows \cup Requests -> SessionType] /\ now \in Nat
  BY DEF Inv, Types, SessionsOK, BoundsOK
<1> QED BY <1>1, TeamAssumption DEF SessionType

LEMMA CreateSessionKeeps == ASSUME Inv, NEW r \in Requests, CreateSession(r) PROVE Inv'
<1> DEFINE x == [requests[r] EXCEPT !.pc = "done"]
<1>1. /\ requests[r].pc = "session" /\ UnderWay(requests[r]) /\ Becomes(r, x)
      /\ UNCHANGED <<users, sees, given>> /\ BoundsOK' /\ sessions' = [sessions EXCEPT ![r] = NewSession(requests[r].row)]
  BY SameBounds DEF CreateSession, At, Goes, UnderWay, Over
<1>2. requests[r].row \in Rows
  BY <1>1, RequestIs, UnderWayIs DEF Remembers, Known
<1>3. NewSession(requests[r].row) \in SessionType
  BY <1>2, SessionIs DEF NewSession, SessionType
<1>4. SessionsOK' /\ \A s \in (Rows \cup Requests) \ {r} : sessions'[s] = sessions[s]
  BY <1>1, <1>3, SessionIs DEF SessionsOK
<1>5. \A q \in Requests : Holds(requests[q])
  BY <1>1, <1>4, HisSession DEF Holds
<1>6. x \in RequestType /\ x.pc = "done"
  BY RequestIs DEF RequestType, Steps
<1>7. requests[r].pc # "done" /\ \A q \in Requests : sessions'[q].row # None => sessions[q].row # None \/ q = r
  BY <1>1, <1>4
<1> QED BY <1>1, <1>4, <1>5, <1>6, <1>7, StepKeeps

\* A session that is written keeps its account and stays revoked
LEMMA SessionWritten ==
  ASSUME Inv, NEW s \in Rows \cup Requests, NEW t \in SessionType, t.row = sessions[s].row,
         sessions[s].revoked => t.revoked, sessions' = [sessions EXCEPT ![s] = t]
  PROVE  /\ SessionsOK' /\ \A q \in Requests : Holds(requests[q])
         /\ \A q \in Requests : sessions'[q].row # None => sessions[q].row # None
<1>1. SessionsOK' /\ sessions'[s] = t /\ \A k \in (Rows \cup Requests) \ {s} : sessions'[k] = sessions[k]
  BY SessionIs DEF SessionsOK
<1>2. \A q \in Requests : Holds(requests[q])
  BY <1>1, HisSession DEF Holds
<1> QED BY <1>1, <1>2

LEMMA TouchKeeps == ASSUME Inv, NEW r \in Requests, Touch(r) PROVE Inv'
<1> DEFINE s == Plan(r).who
           t == IF sessions[s].row = None THEN sessions[s]
                ELSE [sessions[s] EXCEPT !.seen = now, !.idle = Earlier(now + IdleTime, sessions[s].ends)]
           pc == AfterResolve(Plan(r))
           x == [requests[r] EXCEPT !.pc = pc]
<1>1. /\ requests[r].pc = "touch" /\ UnderWay(requests[r]) /\ Becomes(r, x)
      /\ UNCHANGED <<users, sees, given>> /\ BoundsOK'
  BY SameBounds DEF Touch, At, Goes, UnderWay, Over
<1>2. /\ requests[r] \in RequestType /\ Planned(requests[r]) /\ Opened(requests[r]) /\ requests[r].open
      /\ requests[r].plan.via = "cookie" /\ requests[r].plan \in Plans
  BY <1>1, RequestIs, UnderWayIs DEF Planned, Opened, BySession
<1>3. s \in Rows \cup Requests
  BY <1>1, <1>2, HisSession DEF Plan
<1>4. sessions' = [sessions EXCEPT ![s] = t]
  BY DEF Touch
<1>5. t \in SessionType /\ t.row = sessions[s].row /\ (sessions[s].revoked => t.revoked)
  <2>1. Earlier(now + IdleTime, sessions[s].ends) \in Nat
    BY <1>3, SessionIs DEF Earlier
  <2> QED BY <1>3, <2>1, SessionIs DEF SessionType
<1>6. /\ SessionsOK' /\ \A q \in Requests : Holds(requests[q])
      /\ \A q \in Requests : sessions'[q].row # None => sessions[q].row # None
  <2> HIDE DEF t
  <2> QED BY <1>3, <1>4, <1>5, SessionWritten
<1>7. pc \in {"revoke", "load"} /\ (pc = "load" => requests[r].plan.does # "sign out")
  BY DEF AfterResolve, Plan
<1> HIDE DEF pc
<1>8. /\ x \in RequestType /\ x.pc = pc /\ x.plan = requests[r].plan /\ x.held = requests[r].held
      /\ x.open = requests[r].open
  BY <1>2, <1>7 DEF RequestType, Steps, BySession
<1>9. PICK w \in RequestType : /\ w.pc = pc /\ w.plan = requests[r].plan /\ w.held = requests[r].held
                              /\ w.open = requests[r].open /\ Becomes(r, w)
  BY <1>1, <1>8
<1> HIDE DEF x, t
<1>10. Good(w)
  <2>1. Planned(w)
    BY <1>2, <1>7, <1>9 DEF Planned, SigningIn, BySession, Writes
  <2>2. Rights(w, users, sees) \subseteq w.held
    BY <1>1, <1>9, UnderWayIs DEF Rights, Accounts
  <2>3. Remembers(w)
    BY <1>7, <1>9, <2>2 DEF Remembers, Known, Writes
  <2>4. Opened(w)
    BY <1>1, <1>2, <1>7, <1>9 DEF Opened, BySession
  <2>5. Informed(w)
    BY <1>7, <1>9 DEF Informed, Writes
  <2> QED BY <2>1, <2>3, <2>4, <2>5 DEF Good
<1>11. Good(w)'
  <2>1. Holds(requests[r]) /\ UnderWay(requests[r])
    BY <1>1, <1>6
  <2>2. /\ sessions'[w.plan.who].row = sessions[w.plan.who].row
        /\ sessions[w.plan.who].revoked => sessions'[w.plan.who].revoked
    BY <1>2, <1>9, <2>1 DEF Holds
  <2> QED BY <1>1, <1>10, <2>2, GoodStays
<1>12. requests[r].pc # "done"
  BY <1>1
<1> QED BY <1>1, <1>6, <1>9, <1>11, <1>12, StepKeeps

LEMMA RevokeSessionKeeps == ASSUME Inv, NEW r \in Requests, RevokeSession(r) PROVE Inv'
<1> DEFINE s == Plan(r).who
           t == IF sessions[s].row = None THEN sessions[s] ELSE [sessions[s] EXCEPT !.revoked = TRUE]
           x == [requests[r] EXCEPT !.pc = "done"]
<1>1. /\ requests[r].pc = "revoke" /\ UnderWay(requests[r]) /\ Becomes(r, x)
      /\ UNCHANGED <<users, sees, given>> /\ BoundsOK' /\ sessions' = [sessions EXCEPT ![s] = t]
  BY SameBounds DEF RevokeSession, At, Goes, UnderWay, Over
<1>2. s \in Rows \cup Requests
  BY <1>1, RequestIs, HisSession DEF Plan, Planned, BySession
<1>3. t \in SessionType /\ t.row = sessions[s].row /\ (sessions[s].revoked => t.revoked)
  BY <1>2, SessionIs DEF SessionType
<1>4. /\ SessionsOK' /\ \A q \in Requests : Holds(requests[q])
      /\ \A q \in Requests : sessions'[q].row # None => sessions[q].row # None
  <2> HIDE DEF t
  <2> QED BY <1>1, <1>2, <1>3, SessionWritten
<1>5. x \in RequestType /\ x.pc = "done" /\ requests[r].pc # "done"
  BY <1>1, RequestIs DEF RequestType, Steps
<1> HIDE DEF x
<1> QED BY <1>1, <1>4, <1>5, StepKeeps

LEMMA PruneKeeps == ASSUME Inv, Prune PROVE Inv'
<1>1. PICK s \in DOMAIN sessions :
         /\ \A r \in Requests : UnderWay(requests[r]) => Plan(r).who # s
         /\ sessions' = [sessions EXCEPT ![s] = NoSession]
  BY DEF Prune
<1>2. s \in Rows \cup Requests /\ NoSession \in SessionType
  BY DEF Inv, Types, SessionsOK, NoSession, SessionType
<1>3. SessionsOK' /\ sessions'[s] = NoSession /\ \A k \in (Rows \cup Requests) \ {s} : sessions'[k] = sessions[k]
  BY <1>1, <1>2 DEF Inv, Types, SessionsOK
<1>4. \A q \in Requests : Holds(requests[q])
  BY <1>1, <1>3, HisSession DEF Holds, Plan
<1>5. \A q \in Requests : sessions'[q].row # None => sessions[q].row # None
  BY <1>3 DEF NoSession
<1>6. BoundsOK' /\ UNCHANGED <<users, sees, requests, given>>
  BY SameBounds DEF Prune
<1> QED BY <1>3, <1>4, <1>5, <1>6, OthersStay

LEMMA TickKeeps == ASSUME Inv, Tick \/ UNCHANGED vars PROVE Inv'
<1>1. BoundsOK'
  BY DEF Tick, vars, Inv, Types, BoundsOK
<1>2. UNCHANGED <<users, sees, requests, given, sessions>>
  BY DEF Tick, vars
<1>3. SessionsOK' /\ \A q \in Requests : Holds(requests[q])
  BY <1>2 DEF Inv, Types, SessionsOK, Holds
<1> QED BY <1>1, <1>2, <1>3, OthersStay

-----------------------------------------------------------------------------
(* Steps that change accounts or assignments *)

\* What a request has noted of the accounts u and the assignments v, and what it must have or come to note
Noted(y, u, v) == IF UnderWay(y) THEN [y EXCEPT !.held = @ \cup Rights(y, u, v)] ELSE y
Ready(y, u) ==
    /\ y.pc \in Known => y.row \in Accounts(y, u)
    /\ y.pc \in Known \cup {"acted"} => (\E h \in Had(y) : h.active) \/ (y.pc \in Known /\ u[y.row].active = TRUE)
    /\ y.pc \in Known \cup {"acted"} => (\E h \in Had(y) : h.role = y.role) \/ (y.pc \in Known /\ u[y.row].role = y.role)
    /\ y.pc = "acted" => y.role = "owner" \/ \E h \in Had(y) : y.plan.target \in h.sees

\* The rights that requests note keep them good
LEMMA NotedIsGood ==
  ASSUME Inv, NEW u \in [Rows -> UserRow], NEW v \in [Rows -> SUBSET Tenants], users' = u, sees' = v, UNCHANGED sessions,
         NEW y \in RequestType, Planned(y), Opened(y), Informed(y)',
         Ready(y, u), NEW z, z = Noted(y, u, v)
  PROVE  z \in RequestType /\ z.pc = y.pc /\ Good(z)'
<1>1. UnderWay(y) => Accounts(y, u) \subseteq Rows /\ Rights(y, u, v) \subseteq RightType
  <2> SUFFICES ASSUME UnderWay(y) PROVE Accounts(y, u) \subseteq Rows /\ Rights(y, u, v) \subseteq RightType
    OBVIOUS
  <2>1. y.plan \in Plans
    BY DEF Planned, UnderWay, Over
  <2>2. Accounts(y, u) \subseteq Rows
    BY <2>1, PlanIs DEF Inv, Types, SessionsOK, SessionType, Accounts
  <2>3. Rights(y, u, v) \subseteq RightType
    BY <2>2 DEF Rights, RightType, UserRow
  <2> QED BY <2>2, <2>3
<1>2. /\ z \in RequestType /\ z.pc = y.pc /\ z.plan = y.plan /\ z.row = y.row /\ z.role = y.role /\ z.was = y.was
      /\ z.owners = y.owners /\ z.open = y.open /\ y.held \subseteq z.held
      /\ UnderWay(y) => Rights(y, u, v) \subseteq z.held
  <2>1. CASE UnderWay(y)
    <3>1. y.held \cup Rights(y, u, v) \in SUBSET RightType
      BY <1>1, <2>1 DEF RequestType
    <3>2. z = [y EXCEPT !.held = y.held \cup Rights(y, u, v)]
      BY <2>1 DEF Noted
    <3> QED BY <3>1, <3>2 DEF RequestType
  <2>2. CASE ~UnderWay(y)
    BY <2>2 DEF Noted
  <2> QED BY <2>1, <2>2
<1>3. Planned(z)'
  BY <1>2 DEF Planned, Self, Wants
<1>4. Opened(z)'
  BY <1>2 DEF Opened, UnderWay
<1>5. Informed(z)'
  BY <1>2 DEF Informed
<1>6. Accounts(z, users)' = Accounts(y, u) /\ Rights(z, users, sees)' = Rights(y, u, v)
  BY <1>2 DEF Accounts, Rights
<1>7. Had(y) \subseteq Had(z)
  BY <1>2 DEF Had
<1>8. ASSUME y.pc \in Known
      PROVE  \E h \in Had(z) : h.active = u[y.row].active /\ h.role = u[y.row].role
  <2>1. UnderWay(y) /\ y.row \in Accounts(y, u)
    BY <1>8 DEF Known, Writes, UnderWay, Over, Ready
  <2> DEFINE h == [row |-> y.row, active |-> u[y.row].active, role |-> u[y.row].role, sees |-> v[y.row]]
  <2>2. h \in Rights(y, u, v)
    BY <2>1 DEF Rights
  <2>3. h \in Had(z) /\ h.active = u[y.row].active /\ h.role = u[y.row].role
    BY <1>2, <2>1, <2>2 DEF Had
  <2> QED BY <2>3
<1>9. Remembers(z)'
  <2>1. (UnderWay(z) => Rights(z, users, sees) \subseteq z.held)'
    BY <1>2, <1>6 DEF UnderWay
  <2>2. (z.pc \in Known => z.row \in Accounts(z, users))'
    BY <1>2, <1>6 DEF Ready
  <2>3. z.pc \in Known \cup {"acted"} => (\E h \in Had(z) : h.active)
    BY <1>2, <1>7, <1>8 DEF Ready
  <2>4. z.pc \in Known \cup {"acted"} => (\E h \in Had(z) : h.role = z.role)
    BY <1>2, <1>7, <1>8 DEF Ready
  <2>5. z.pc = "acted" => z.role = "owner" \/ \E h \in Had(z) : z.plan.target \in h.sees
    BY <1>2, <1>7 DEF Ready
  <2> QED BY <2>1, <2>2, <2>3, <2>4, <2>5 DEF Remembers, Had
<1> QED BY <1>2, <1>3, <1>4, <1>5, <1>9 DEF Good

\* The account of a person stays his
LEMMA SameAccounts ==
  ASSUME Inv, NEW u \in [Rows -> UserRow], \A i \in Rows : users[i].person # None => u[i].person = users[i].person,
         NEW q \in Requests, UnderWay(requests[q]), requests[q].row \in Accounts(requests[q], users)
  PROVE  requests[q].row \in Accounts(requests[q], u)
<1>1. requests[q].plan \in Plans
  BY UnderWayIs
<1>2. CASE requests[q].plan.via = "cookie"
  BY <1>2 DEF Accounts
<1>3. CASE requests[q].plan.via # "cookie"
  BY <1>1, <1>3, PlanIs DEF Accounts
<1> QED BY <1>2, <1>3

LEMMA ChangesKeep ==
  ASSUME Inv, NEW r \in Requests, NEW x \in RequestType, requests[r].pc # "done",
         NEW u \in [Rows -> UserRow], NEW v \in [Rows -> SUBSET Tenants], Changes(r, x, u, v), UNCHANGED sessions,
         \A i \in Rows : users[i].person # None => u[i].person = users[i].person,
         \/ x.pc \in {"done", "refused"}
         \/ /\ x.pc \in Known /\ Planned(x) /\ Opened(x) /\ Informed(x)' /\ x.row \in Accounts(x, u)
            /\ (\E h \in Had(x) : h.active) \/ u[x.row].active = TRUE
            /\ (\E h \in Had(x) : h.role = x.role) \/ u[x.row].role = x.role,
         \A q \in Requests : requests[q].pc = "stamp" /\ q # r =>
            requests[q].role = given'[requests[q].row].role \/ given'[requests[q].row].clash,
         BoundsOK', GivenOK', GivenRoleHolds'
  PROVE  Inv'
<1> DEFINE Y(q) == IF q = r THEN Kept(x) ELSE requests[q]
<1>1. /\ users' = u /\ sees' = v
      /\ requests' = [q \in Requests |-> Noted(Y(q), u, v)]
  BY DEF Changes, Noted
<1>2. ASSUME NEW q \in Requests
      PROVE  requests'[q] \in RequestType /\ requests'[q].pc = Y(q).pc /\ Good(requests[q])'
  <2>1. PICK y \in RequestType :
           y = Y(q) /\ Planned(y) /\ Opened(y) /\ Informed(y)' /\ Ready(y, u)
    <3>1. CASE q = r /\ x.pc \in {"done", "refused"}
      <4>1. Kept(x) \in RequestType /\ Kept(x).pc \in {"done", "refused"}
        BY <3>1, KeptIs
      <4>2. PICK y \in RequestType : y = Kept(x) /\ y.pc \in {"done", "refused"}
        BY <4>1
      <4>3. Planned(y) /\ Opened(y) /\ Informed(y)' /\ y.pc \notin Known \cup {"acted"}
        BY <4>2 DEF Planned, Opened, Informed, Known, Writes, SigningIn, BySession, UnderWay, Over
      <4>4. Ready(y, u)
        BY <4>3 DEF Ready
      <4> QED BY <3>1, <4>2, <4>3, <4>4
    <3>2. CASE q = r /\ x.pc \notin {"done", "refused"}
      <4>1. Y(q) = x
        BY <3>2 DEF Kept
      <4>2. x.pc # "acted"
        BY <3>2 DEF Known, Writes
      <4> QED BY <3>2, <4>1, <4>2 DEF Ready
    <3>3. CASE q # r
      <4>1. PICK y \in RequestType : y = requests[q]
        BY RequestIs
      <4>2. Y(q) = y
        BY <3>3, <4>1
      <4> HIDE DEF Y
      <4>3. Planned(y) /\ Opened(y) /\ Remembers(y) /\ Informed(y)
        BY <4>1, RequestIs
      <4>4. Informed(y)'
        BY <3>3, <4>1, <4>3 DEF Informed
      <4>5. y.pc \in Known => y.row \in Accounts(y, u)
        <5>1. y.pc \in Known => UnderWay(requests[q]) /\ requests[q].row \in Accounts(requests[q], users)
          BY <4>1, <4>3 DEF Remembers, Known, Writes, UnderWay, Over
        <5> QED BY <4>1, <5>1, SameAccounts
      <4> QED BY <4>2, <4>3, <4>4, <4>5 DEF Remembers, Ready
    <3> QED BY <3>1, <3>2, <3>3
  <2>2. PICK z : z = Noted(y, u, v)
    OBVIOUS
  <2>3. requests'[q] = z
    <3> HIDE DEF Y
    <3> QED BY <1>1, <2>1, <2>2
  <2>4. z \in RequestType /\ z.pc = y.pc /\ Good(z)'
    <3>1. users' = u /\ sees' = v /\ UNCHANGED sessions
      BY <1>1
    <3> HIDE DEF Y
    <3> QED BY <2>1, <2>2, <3>1, NotedIsGood
  <2> QED BY <2>1, <2>3, <2>4, GoodNow
<1>3. Fresh'
  <2>1. \A q \in Requests : sessions[q].row # None => q # r /\ requests[q].pc = "done"
    BY DEF Inv, Fresh
  <2> QED BY <1>2, <2>1 DEF Fresh
<1>4. Types'
  <2>1. AccountsOK' /\ SessionsOK'
    BY <1>1 DEF AccountsOK, SessionsOK, Inv, Types
  <2>2. RequestsOK'
    <3> DEFINE G(q) == Noted(Y(q), u, v)
    <3>1. requests' = [q \in Requests |-> G(q)]
      BY <1>1
    <3> HIDE DEF G
    <3>2. \A q \in Requests : G(q) = requests'[q]
      BY <3>1
    <3>3. \A q \in Requests : G(q) \in RequestType
      BY <1>2, <3>2
    <3> QED BY <3>1, <3>3 DEF RequestsOK
  <2> QED BY <2>1, <2>2 DEF Types
<1> QED BY <1>2, <1>3, <1>4 DEF Inv

LEMMA AfterAuthIs ==
  ASSUME NEW p \in Plans, p.does # "sign out", NEW role
  PROVE  /\ AfterAuth(p, role) \in {"session", "see", "member", "refused"}
         /\ AfterAuth(p, role) = "session" => p.via # "cookie"
         /\ AfterAuth(p, role) = "see" => p.does = "use"
         /\ AfterAuth(p, role) = "member" => p.does = "update" /\ role = "owner"
  BY PlanIs DEF AfterAuth

LEMMA AccountsAre ==
  ASSUME Inv
  PROVE  /\ users \in [Rows -> UserRow] /\ sees \in [Rows -> SUBSET Tenants]
         /\ given \in [Rows -> [role : Roles, clash : BOOLEAN]] /\ GivenRoleHolds
         /\ \A i \in Rows : users[i] \in UserRow /\ users[i].role \in Roles /\ users[i].person \in People \cup {None}
  BY DEF Inv, Types, AccountsOK, GivenOK, UserRow

\* Whom a role is changed of
LEMMA RoleOf ==
  ASSUME Inv, NEW i \in Rows, NEW role \in Roles
  PROVE  LET u == [users EXCEPT ![i].role = role]
         IN  /\ u \in [Rows -> UserRow] /\ u[i].role = role /\ (u[i].active <=> users[i].active)
             /\ \A k \in Rows : u[k].person = users[k].person /\ (k # i => u[k] = users[k])
<1> DEFINE u == [users EXCEPT ![i].role = role]
<1>1. u[i] = [users[i] EXCEPT !.role = role] /\ \A k \in Rows : k # i => u[k] = users[k]
  BY AccountsAre
<1>2. [users[i] EXCEPT !.role = role] \in UserRow
  BY AccountsAre DEF UserRow
<1>3. u[i].role = role /\ u[i].active = users[i].active /\ u[i].person = users[i].person
  BY <1>1, AccountsAre DEF UserRow
<1>4. u \in [Rows -> UserRow]
  BY <1>1, <1>2, AccountsAre
<1> QED BY <1>1, <1>3, <1>4

LEMMA StampIs ==
  ASSUME Inv, NEW q \in Requests, requests[q].pc = "stamp"
  PROVE  /\ UnderWay(requests[q]) /\ requests[q] \in RequestType /\ requests[q].plan \in Plans /\ requests[q].plan.via # "cookie"
         /\ requests[q].row \in Rows /\ users[requests[q].row].person # None
         /\ requests[q].role \in Roles /\ requests[q].open
         /\ requests[q].role = "owner" <=> requests[q].row \in requests[q].owners
         /\ requests[q].role = given[requests[q].row].role \/ given[requests[q].row].clash
<1>1. /\ UnderWay(requests[q]) /\ requests[q].pc \in Known /\ requests[q].pc \in SigningIn
  BY DEF UnderWay, Over, Known, SigningIn
<1>2. /\ requests[q] \in RequestType /\ Planned(requests[q]) /\ Remembers(requests[q]) /\ Opened(requests[q])
      /\ Informed(requests[q]) /\ requests[q].plan \in Plans
  BY <1>1, RequestIs, UnderWayIs
<1>3. requests[q].plan.via # "cookie"
  BY <1>1, <1>2 DEF Planned
<1>4. requests[q].row \in Rows /\ users[requests[q].row].person # None
  BY <1>1, <1>2, <1>3, PlanIs DEF Remembers, Accounts
<1>5. PICK h \in requests[q].held : h.role = requests[q].role
  BY <1>1, <1>2 DEF Remembers, Had
<1>6. requests[q].role \in Roles
  BY <1>2, <1>5 DEF RequestType, RightType
<1>7. requests[q].open
  BY <1>1, <1>2 DEF Opened, Steps, SigningIn, BySession
<1> QED BY <1>1, <1>2, <1>3, <1>4, <1>6, <1>7 DEF Informed

LEMMA StampKeeps == ASSUME Inv, NEW r \in Requests, Stamp(r) PROVE Inv'
<1> DEFINE i == requests[r].row
           role == requests[r].role
           u == [users EXCEPT ![i].role = role]
           pc == AfterAuth(requests[r].plan, role)
           x == [requests[r] EXCEPT !.pc = pc]
<1>1. requests[r].pc = "stamp" /\ Changes(r, x, u, sees) /\ UNCHANGED <<sessions, given>> /\ BoundsOK'
  BY SameBounds DEF Stamp, At
<1>2. /\ i \in Rows /\ role \in Roles /\ requests[r] \in RequestType /\ requests[r].plan \in Plans /\ requests[r].open
      /\ requests[r].plan.via # "cookie" /\ (role = "owner" => i \in requests[r].owners)
      /\ role = given[i].role \/ given[i].clash
  BY <1>1, StampIs
<1>3. /\ u \in [Rows -> UserRow] /\ u[i].role = role /\ \A k \in Rows : u[k].person = users[k].person /\ (k # i => u[k] = users[k])
  BY <1>2, RoleOf
<1>4. /\ pc \in {"session", "see", "member", "refused"} /\ (pc = "session" => requests[r].plan.via # "cookie")
      /\ pc = "see" => requests[r].plan.does = "use"
      /\ pc = "member" => requests[r].plan.does = "update" /\ role = "owner"
  BY <1>2, PlanIs, AfterAuthIs
<1> HIDE DEF pc
<1>5. PICK w \in RequestType :
         /\ w = x /\ w.pc = pc /\ w.plan = requests[r].plan /\ w.held = requests[r].held /\ w.open = requests[r].open
         /\ w.row = i /\ w.role = role /\ w.owners = requests[r].owners
  <2>1. pc \in Steps
    BY <1>4 DEF Steps, SigningIn, Writes
  <2>2. /\ x \in RequestType /\ x.pc = pc /\ x.plan = requests[r].plan /\ x.held = requests[r].held /\ x.open = requests[r].open
        /\ x.row = i /\ x.role = role /\ x.owners = requests[r].owners
    BY <1>2, <2>1 DEF RequestType
  <2> HIDE DEF x
  <2> QED BY <2>2
<1>6. GivenOK' /\ GivenRoleHolds'
  <2>1. users' = u
    BY <1>1 DEF Changes
  <2> HIDE DEF u
  <2> QED BY <1>1, <1>2, <1>3, <2>1, AccountsAre DEF GivenOK, GivenRoleHolds
<1>7. \A q \in Requests : requests[q].pc = "stamp" =>
         requests[q].role = given'[requests[q].row].role \/ given'[requests[q].row].clash
  BY <1>1, StampIs
<1>8. pc # "refused" =>
         /\ w.pc \in Known /\ Planned(w) /\ Opened(w) /\ Informed(w)' /\ w.row \in Accounts(w, u)
         /\ (\E h \in Had(w) : h.active) /\ (\E h \in Had(w) : h.role = w.role)
  <2> SUFFICES ASSUME pc # "refused"
               PROVE  /\ w.pc \in Known /\ Planned(w) /\ Opened(w) /\ Informed(w)' /\ w.row \in Accounts(w, u)
                      /\ (\E h \in Had(w) : h.active) /\ (\E h \in Had(w) : h.role = w.role)
    OBVIOUS
  <2> HIDE DEF u, x
  <2>1. w.pc \in Known /\ Planned(w)
    BY <1>2, <1>4, <1>5 DEF Planned, Known, SigningIn, BySession, Writes
  <2>2. Opened(w)
    BY <1>2, <1>5 DEF Opened
  <2>3. Informed(w)'
    BY <1>2, <1>4, <1>5 DEF Informed, Writes
  <2>4. w.row \in Accounts(requests[r], users) /\ (\E h \in Had(w) : h.active) /\ (\E h \in Had(w) : h.role = w.role)
    BY <1>1, <1>5, RequestIs DEF Remembers, Known, Had
  <2>5. w.row \in Accounts(w, u)
    BY <1>2, <1>3, <1>5, <2>4 DEF Accounts
  <2> QED BY <2>1, <2>2, <2>3, <2>4, <2>5
<1>9. requests[r].pc # "done" /\ sees \in [Rows -> SUBSET Tenants] /\ Changes(r, w, u, sees)
  BY <1>1, <1>5, AccountsAre
<1> HIDE DEF u, x
<1> QED BY <1>1, <1>3, <1>5, <1>6, <1>7, <1>8, <1>9, ChangesKeep

LEMMA InsertUserKeeps == ASSUME Inv, NEW r \in Requests, InsertUser(r) PROVE Inv'
<1> DEFINE role == requests[r].role
           pc == AfterAuth(requests[r].plan, role)
           new == [person |-> requests[r].plan.who, role |-> role, active |-> TRUE]
<1>1. PICK i \in Rows :
         /\ users[i] = NoUser
         /\ Changes(r, [requests[r] EXCEPT !.pc = pc, !.row = i, !.owners = Owners(users) \cup IF role = "owner" THEN {i} ELSE {}],
                    [users EXCEPT ![i] = new], sees)
         /\ given' = [given EXCEPT ![i] = [role |-> role, clash |-> FALSE]]
  BY DEF InsertUser, Least
<1> DEFINE u == [users EXCEPT ![i] = new]
           owners == Owners(users) \cup IF role = "owner" THEN {i} ELSE {}
           x == [requests[r] EXCEPT !.pc = pc, !.row = i, !.owners = owners]
<1>2. requests[r].pc = "insert" /\ UnderWay(requests[r]) /\ UNCHANGED sessions /\ BoundsOK'
  BY SameBounds DEF InsertUser, At, UnderWay, Over
<1>3. /\ requests[r] \in RequestType /\ requests[r].plan \in Plans /\ requests[r].plan.via # "cookie"
      /\ role \in Roles /\ requests[r].open
  BY <1>2, RequestIs, UnderWayIs DEF Planned, Opened, Steps, SigningIn, BySession
<1>4. /\ pc \in {"session", "see", "member", "refused"} /\ (pc = "session" => requests[r].plan.via # "cookie")
      /\ pc = "see" => requests[r].plan.does = "use"
      /\ pc = "member" => requests[r].plan.does = "update" /\ role = "owner"
  BY <1>3, PlanIs, AfterAuthIs
<1>5. owners \in SUBSET Rows /\ (role = "owner" => i \in owners)
  BY OwnersAre
<1>6. new \in UserRow /\ new.person = requests[r].plan.who /\ new.role = role /\ new.active = TRUE
  BY <1>3, PlanIs DEF UserRow
<1> HIDE DEF pc, owners, new
<1>7. u \in [Rows -> UserRow] /\ u[i] = new /\ \A k \in Rows : k # i => u[k] = users[k]
  BY <1>6, AccountsAre
<1>8. \A k \in Rows : users[k].person # None => u[k].person = users[k].person
  BY <1>1, <1>7 DEF NoUser
<1>9. PICK w \in RequestType :
         /\ w = x /\ w.pc = pc /\ w.plan = requests[r].plan /\ w.held = requests[r].held /\ w.open = requests[r].open
         /\ w.row = i /\ w.role = role /\ w.owners = owners
  <2>1. pc \in Steps
    BY <1>4 DEF Steps, SigningIn, Writes
  <2>2. /\ x \in RequestType /\ x.pc = pc /\ x.plan = requests[r].plan /\ x.held = requests[r].held /\ x.open = requests[r].open
        /\ x.row = i /\ x.role = role /\ x.owners = owners
    BY <1>3, <1>5, <2>1 DEF RequestType
  <2> HIDE DEF x
  <2> QED BY <2>2
<1>10. users' = u /\ sees' = sees
  BY <1>1 DEF Changes, pc, owners, new
<1> HIDE DEF u
<1>11. GivenOK' /\ GivenRoleHolds'
  <2>1. [role |-> role, clash |-> FALSE] \in [role : Roles, clash : BOOLEAN]
    BY <1>3
  <2>2. given'[i].role = role /\ \A k \in Rows : k # i => given'[k] = given[k]
    BY <1>1, AccountsAre
  <2>3. GivenOK'
    BY <1>1, <2>1, AccountsAre DEF GivenOK
  <2>4. GivenRoleHolds'
    BY <1>6, <1>7, <1>10, <2>2, AccountsAre DEF GivenRoleHolds
  <2> QED BY <2>3, <2>4
<1>12. \A q \in Requests : requests[q].pc = "stamp" =>
          requests[q].role = given'[requests[q].row].role \/ given'[requests[q].row].clash
  <2> SUFFICES ASSUME NEW q \in Requests, requests[q].pc = "stamp"
               PROVE  requests[q].role = given'[requests[q].row].role \/ given'[requests[q].row].clash
    OBVIOUS
  <2>1. requests[q].row \in Rows /\ requests[q].row # i
    BY <1>1, StampIs DEF NoUser
  <2>2. given'[requests[q].row] = given[requests[q].row]
    BY <1>1, <2>1, AccountsAre
  <2> QED BY <2>2, StampIs
<1>13. pc # "refused" =>
          /\ w.pc \in Known /\ Planned(w) /\ Opened(w) /\ Informed(w)' /\ w.row \in Accounts(w, u)
          /\ u[w.row].active = TRUE /\ u[w.row].role = w.role
  <2> SUFFICES ASSUME pc # "refused"
               PROVE  /\ w.pc \in Known /\ Planned(w) /\ Opened(w) /\ Informed(w)' /\ w.row \in Accounts(w, u)
                      /\ u[w.row].active = TRUE /\ u[w.row].role = w.role
    OBVIOUS
  <2> HIDE DEF x
  <2>1. w.pc \in Known /\ Planned(w)
    BY <1>3, <1>4, <1>9 DEF Planned, Known, SigningIn, BySession, Writes
  <2>2. Opened(w)
    BY <1>3, <1>9 DEF Opened
  <2>3. Informed(w)'
    BY <1>4, <1>5, <1>9 DEF Informed, Writes
  <2>4. w.row \in Accounts(w, u) /\ u[w.row].active = TRUE /\ u[w.row].role = w.role
    BY <1>3, <1>6, <1>7, <1>9 DEF Accounts
  <2> QED BY <2>1, <2>2, <2>3, <2>4
<1>14. requests[r].pc # "done" /\ sees \in [Rows -> SUBSET Tenants] /\ Changes(r, w, u, sees)
  BY <1>1, <1>2, <1>9, AccountsAre DEF u, owners, new, pc
<1> HIDE DEF x
<1> QED BY <1>2, <1>4, <1>7, <1>8, <1>9, <1>11, <1>12, <1>13, <1>14, ChangesKeep

\* A change of the team that is written
LEMMA WriteKeeps ==
  ASSUME Inv, NEW r \in Requests, requests[r].pc \in Writes, NEW pc \in Writes \cup {"done", "refused"},
         NEW u \in [Rows -> UserRow], NEW v \in [Rows -> SUBSET Tenants],
         Changes(r, [requests[r] EXCEPT !.pc = pc], u, v), UNCHANGED sessions,
         \A k \in Rows : u[k].person = users[k].person,
         pc \in Writes => Goal([requests[r] EXCEPT !.pc = pc]),
         \A q \in Requests : requests[q].pc = "stamp" =>
            requests[q].role = given'[requests[q].row].role \/ given'[requests[q].row].clash,
         BoundsOK', GivenOK', GivenRoleHolds'
  PROVE  Inv'
<1> DEFINE x == [requests[r] EXCEPT !.pc = pc]
<1>1. /\ requests[r] \in RequestType /\ requests[r].plan.does = "update" /\ requests[r].role = "owner" /\ requests[r].open
      /\ requests[r].plan \in Plans /\ requests[r].row \in Accounts(requests[r], users) /\ UnderWay(requests[r])
  BY WriterIs
<1>2. PICK w \in RequestType :
         /\ w = x /\ w.pc = pc /\ w.plan = requests[r].plan /\ w.held = requests[r].held /\ w.open = requests[r].open
         /\ w.row = requests[r].row /\ w.role = requests[r].role /\ w.owners = requests[r].owners
  <2>1. /\ x \in RequestType /\ x.pc = pc /\ x.plan = requests[r].plan /\ x.held = requests[r].held /\ x.open = requests[r].open
        /\ x.row = requests[r].row /\ x.role = requests[r].role /\ x.owners = requests[r].owners
    BY <1>1 DEF RequestType, Steps
  <2> HIDE DEF x
  <2> QED BY <2>1
<1>3. Changes(r, w, u, v) /\ (pc \in Writes => Goal(w))
  BY <1>2
<1> HIDE DEF x
<1>4. pc \in Writes =>
         /\ w.pc \in Known /\ Planned(w) /\ Opened(w) /\ Informed(w)' /\ w.row \in Accounts(w, u)
         /\ (\E h \in Had(w) : h.active) /\ (\E h \in Had(w) : h.role = w.role)
  <2> SUFFICES ASSUME pc \in Writes
               PROVE  /\ w.pc \in Known /\ Planned(w) /\ Opened(w) /\ Informed(w)' /\ w.row \in Accounts(w, u)
                      /\ (\E h \in Had(w) : h.active) /\ (\E h \in Had(w) : h.role = w.role)
    OBVIOUS
  <2>1. w.pc \in Known /\ w.pc \notin {"idle", "see", "acted", "done", "refused"} \cup SigningIn \cup BySession
    BY <1>2 DEF Known, SigningIn, BySession, Writes
  <2>2. Planned(w)
    BY <1>1, <1>2, <1>3, <2>1 DEF Planned, Goal, SigningIn
  <2>3. Opened(w)
    BY <1>1, <1>2, <2>1, RequestIs DEF Opened, BySession
  <2>4. Informed(w)'
    BY <1>2, <2>1, RequestIs DEF Informed, SigningIn
  <2>5. w.row \in Accounts(w, u)
    <3>1. requests[r].row \in Accounts(requests[r], u)
      BY <1>1, SameAccounts
    <3> QED BY <1>2, <3>1 DEF Accounts
  <2>6. (\E h \in Had(w) : h.active) /\ (\E h \in Had(w) : h.role = w.role)
    BY <1>2, RequestIs DEF Remembers, Known, Had
  <2> QED BY <2>1, <2>2, <2>3, <2>4, <2>5, <2>6
<1>5. requests[r].pc # "done"
  BY DEF Writes
<1> QED BY <1>2, <1>3, <1>4, <1>5, ChangesKeep

LEMMA InputIs ==
  ASSUME Inv, NEW r \in Requests, requests[r].pc \in Writes
  PROVE  /\ Wants(requests[r], "role") => requests[r].plan.input.role \in Roles
         /\ Wants(requests[r], "active") => requests[r].plan.input.active \in BOOLEAN
         /\ Wants(requests[r], "tenants") => requests[r].plan.input.tenants \in SUBSET Tenants
  BY WriterIs, PlanIs DEF Wants, Inputs

LEMMA SetRoleKeeps == ASSUME Inv, NEW r \in Requests, SetRole(r) PROVE Inv'
<1> DEFINE i == requests[r].plan.target
           role == requests[r].plan.input.role
           u == [users EXCEPT ![i].role = role]
           clash == \E q \in Requests : At(q, "stamp") /\ requests[q].row = i /\ requests[q].role # role
           pc == AfterRole(requests[r])
           x == [requests[r] EXCEPT !.pc = pc]
<1>1. /\ requests[r].pc = "setRole" /\ requests[r].pc \in Writes /\ Changes(r, x, u, sees) /\ UNCHANGED sessions /\ BoundsOK'
      /\ given' = [given EXCEPT ![i] = [role |-> role, clash |-> clash]]
  BY SameBounds DEF SetRole, At, Writes
<1>2. i \in Rows /\ role \in Roles /\ requests[r] \in RequestType
  BY <1>1, RequestIs, WriterIs, InputIs DEF Planned
<1>3. u \in [Rows -> UserRow] /\ u[i].role = role /\ \A k \in Rows : u[k].person = users[k].person /\ (k # i => u[k] = users[k])
  BY <1>2, RoleOf
<1>4. pc \in Writes \cup {"done", "refused"}
  BY AfterRoleIs DEF Writes
<1>5. pc \in Writes => Goal(x)
  BY <1>2, AfterRoleIs DEF Goal, Writes, Self, Wants, RequestType
<1>6. users' = u
  BY <1>1 DEF Changes
<1>7. clash \in BOOLEAN
  OBVIOUS
<1>8. \A q \in Requests : requests[q].pc = "stamp" /\ requests[q].row = i => requests[q].role = role \/ clash
  BY DEF At
<1> HIDE DEF clash, u, x, pc
<1>9. /\ given'[i] = [role |-> role, clash |-> clash] /\ \A k \in Rows : k # i => given'[k] = given[k]
      /\ given' \in [Rows -> [role : Roles, clash : BOOLEAN]]
  BY <1>1, <1>2, <1>7, AccountsAre
<1>10. GivenOK' /\ GivenRoleHolds'
  <2>1. GivenOK'
    BY <1>9 DEF GivenOK
  <2>2. GivenRoleHolds'
    BY <1>3, <1>6, <1>9, AccountsAre DEF GivenRoleHolds
  <2> QED BY <2>1, <2>2
<1>11. \A q \in Requests : requests[q].pc = "stamp" =>
          requests[q].role = given'[requests[q].row].role \/ given'[requests[q].row].clash
  <2> SUFFICES ASSUME NEW q \in Requests, requests[q].pc = "stamp"
               PROVE  requests[q].role = given'[requests[q].row].role \/ given'[requests[q].row].clash
    OBVIOUS
  <2>1. CASE requests[q].row = i
    <3>1. given'[i].role = role /\ given'[i].clash = clash
      BY <1>9
    <3> QED BY <1>8, <2>1, <3>1
  <2>2. CASE requests[q].row # i
    BY <1>9, <2>2, StampIs
  <2> QED BY <2>1, <2>2
<1>12. /\ Changes(r, x, u, sees) /\ UNCHANGED sessions /\ BoundsOK'
       /\ sees \in [Rows -> SUBSET Tenants]
       /\ \A k \in Rows : u[k].person = users[k].person
  BY <1>1, <1>3, AccountsAre
<1> QED BY <1>1, <1>3, <1>4, <1>5, <1>10, <1>11, <1>12, WriteKeeps, SMTT(20) DEF x

LEMMA StampsStay ==
  ASSUME Inv, UNCHANGED given
  PROVE  /\ GivenOK' /\ \A q \in Requests : requests[q].pc = "stamp" =>
                           requests[q].role = given'[requests[q].row].role \/ given'[requests[q].row].clash
  BY StampIs, AccountsAre DEF GivenOK

LEMMA SetActiveKeeps == ASSUME Inv, NEW r \in Requests, SetActive(r) PROVE Inv'
<1> DEFINE i == requests[r].plan.target
           active == requests[r].plan.input.active
           u == [users EXCEPT ![i].active = active]
           pc == AfterActive(requests[r])
           x == [requests[r] EXCEPT !.pc = pc]
<1>1. /\ requests[r].pc = "setActive" /\ requests[r].pc \in Writes /\ Changes(r, x, u, sees)
      /\ UNCHANGED <<sessions, given>> /\ BoundsOK'
  BY SameBounds DEF SetActive, At, Writes
<1>2. i \in Rows /\ active \in BOOLEAN /\ requests[r] \in RequestType
  BY <1>1, RequestIs, WriterIs, InputIs DEF Planned
<1>3. u \in [Rows -> UserRow] /\ \A k \in Rows : u[k].person = users[k].person /\ u[k].role = users[k].role
  <2>1. u[i] = [users[i] EXCEPT !.active = active] /\ \A k \in Rows : k # i => u[k] = users[k]
    BY <1>2, AccountsAre
  <2>2. [users[i] EXCEPT !.active = active] \in UserRow
    BY <1>2, AccountsAre DEF UserRow
  <2>3. u[i].role = users[i].role /\ u[i].person = users[i].person
    BY <1>2, <2>1, AccountsAre DEF UserRow
  <2>4. u \in [Rows -> UserRow]
    BY <2>1, <2>2, AccountsAre
  <2> QED BY <2>1, <2>3, <2>4
<1>4. pc \in Writes \cup {"done", "refused"}
  BY AfterActiveIs DEF Writes
<1>5. pc \in Writes => Goal(x)
  BY <1>2, AfterActiveIs DEF Goal, Writes, Self, Wants, RequestType
<1>6. users' = u
  BY <1>1 DEF Changes
<1> HIDE DEF u, pc
<1>7. GivenRoleHolds'
  BY <1>1, <1>3, <1>6, AccountsAre DEF GivenRoleHolds
<1>8. /\ sees \in [Rows -> SUBSET Tenants]
      /\ \A k \in Rows : u[k].person = users[k].person
  BY <1>3, AccountsAre
<1>9. GivenOK' /\ \A q \in Requests : requests[q].pc = "stamp" =>
                    requests[q].role = given'[requests[q].row].role \/ given'[requests[q].row].clash
  BY <1>1, StampsStay
<1> QED BY <1>1, <1>3, <1>4, <1>5, <1>7, <1>8, <1>9, WriteKeeps, SMTT(20)

LEMMA AssignKeeps ==
  ASSUME Inv, NEW r \in Requests, requests[r].pc \in Writes, Wants(requests[r], "tenants"), NEW pc \in {"assign", "done"},
         NEW v \in [Rows -> SUBSET Tenants], Changes(r, [requests[r] EXCEPT !.pc = pc], users, v),
         UNCHANGED <<sessions, given>>, BoundsOK'
  PROVE  Inv'
<1>1. Goal([requests[r] EXCEPT !.pc = pc])
  BY WriterIs DEF Goal, Self, Wants, RequestType
<1>2. users' = users
  BY DEF Changes
<1>3. GivenRoleHolds'
  BY <1>2, AccountsAre DEF GivenRoleHolds
<1>4. pc \in Writes \cup {"done", "refused"}
  BY DEF Writes
<1> QED BY <1>1, <1>3, <1>4, StampsStay, WriteKeeps, AccountsAre

LEMMA UnassignKeeps == ASSUME Inv, NEW r \in Requests, Unassign(r) \/ Assign(r) PROVE Inv'
<1> DEFINE i == requests[r].plan.target
           none == [sees EXCEPT ![i] = {}]
           more == [sees EXCEPT ![i] = @ \cup requests[r].plan.input.tenants]
<1>1. requests[r].pc \in Writes /\ UNCHANGED <<sessions, given>> /\ BoundsOK' /\ Wants(requests[r], "tenants")
  BY SameBounds, RequestIs DEF Unassign, Assign, At, Writes, Planned
<1>2. none \in [Rows -> SUBSET Tenants] /\ more \in [Rows -> SUBSET Tenants]
  BY <1>1, WriterIs, InputIs, AccountsAre
<1>3. CASE Unassign(r)
  <2>1. Changes(r, [requests[r] EXCEPT !.pc = "assign"], users, none)
    BY <1>3 DEF Unassign
  <2> HIDE DEF none
  <2> QED BY <1>1, <1>2, <2>1, AssignKeeps
<1>4. CASE Assign(r)
  <2>1. Changes(r, [requests[r] EXCEPT !.pc = "done"], users, more)
    BY <1>4 DEF Assign
  <2> HIDE DEF more
  <2> QED BY <1>1, <1>2, <2>1, AssignKeeps
<1> QED BY <1>3, <1>4

-----------------------------------------------------------------------------

LEMMA InvInit == Init => Inv
<1> SUFFICES ASSUME Init PROVE Inv
  OBVIOUS
<1>1. PICK c \in Cases :
         /\ users = [i \in Rows |-> IF i \in DOMAIN c.users THEN c.users[i] ELSE NoUser]
         /\ sees = [i \in Rows |-> IF i \in DOMAIN c.users THEN c.sees ELSE {}]
         /\ sessions = [s \in Rows \cup Requests |->
                           IF s \in DOMAIN c.users THEN [NoSession EXCEPT !.row = s, !.idle = IdleTime, !.ends = Lifetime] ELSE NoSession]
         /\ plans = c.plans /\ left = c.bounds
  BY DEF Init
<1>2. PICK n \in 0..MaxRows : c.users \in [1..n -> UserRow]
  BY CasesAssumption
<1>3. DOMAIN c.users = 1..n /\ 1..n \subseteq Rows /\ c.sees \subseteq Tenants /\ c.plans \subseteq Plans
      /\ c.bounds \in [ticks : Nat, faults : Nat]
  BY <1>2, CasesAssumption, TeamAssumption DEF Rows
<1>4. AccountsOK
  BY <1>1, <1>2, <1>3, NoUserIs DEF AccountsOK
<1>5. SessionsOK
  <2>1. NoSession \in SessionType /\ \A s \in Rows : [NoSession EXCEPT !.row = s, !.idle = IdleTime, !.ends = Lifetime] \in SessionType
    BY TeamAssumption DEF NoSession, SessionType
  <2> QED BY <1>1, <1>3, <2>1 DEF SessionsOK
<1>6. RequestsOK /\ \A r \in Requests : requests[r] = Waiting
  BY WaitingIs DEF Init, RequestsOK
<1>7. GivenOK /\ GivenRoleHolds
  <2>1. \A i \in Rows : users[i].role \in Roles
    BY <1>4 DEF AccountsOK, UserRow
  <2> QED BY <2>1 DEF Init, GivenOK, GivenRoleHolds
<1>8. BoundsOK
  BY <1>1, <1>3 DEF Init, BoundsOK
<1>9. Good(Waiting)
  BY DEF Waiting, Good, Planned, Remembers, Opened, Informed, UnderWay, Over, Known, Writes, SigningIn, BySession
<1>10. Fresh
  <2>1. \A r \in Requests : r \notin 1..n
    BY <1>2, TeamAssumption
  <2> QED BY <1>1, <1>3, <2>1 DEF Fresh, NoSession
<1>11. \A r \in Requests : Good(requests[r])
  BY <1>6, <1>9
<1> QED BY <1>4, <1>5, <1>6, <1>7, <1>8, <1>10, <1>11 DEF Inv, Types

LEMMA InvNext == Inv /\ [Next]_vars => Inv'
<1> SUFFICES ASSUME Inv, [Next]_vars PROVE Inv'
  OBVIOUS
<1>1. CASE Prune
  BY <1>1, PruneKeeps
<1>2. CASE Tick \/ UNCHANGED vars
  BY <1>2, TickKeeps
<1>3. ASSUME NEW r \in Requests,
             Begin(r) \/ Find(r) \/ First(r) \/ Resolve(r) \/ Load(r) \/ See(r) \/ Member(r) \/ CountOwners(r) \/ Fails(r)
      PROVE  Inv'
  BY <1>3, BeginKeeps, FindKeeps, FirstKeeps, ResolveKeeps, LoadKeeps, SeeKeeps, MemberKeeps, CountOwnersKeeps, FailsKeeps
<1>4. ASSUME NEW r \in Requests, CreateSession(r) \/ Touch(r) \/ RevokeSession(r)
      PROVE  Inv'
  BY <1>4, CreateSessionKeeps, TouchKeeps, RevokeSessionKeeps
<1>5. ASSUME NEW r \in Requests, Stamp(r) \/ InsertUser(r) \/ SetRole(r) \/ SetActive(r) \/ Unassign(r) \/ Assign(r)
      PROVE  Inv'
  BY <1>5, StampKeeps, InsertUserKeeps, SetRoleKeeps, SetActiveKeeps, UnassignKeeps
<1> QED BY <1>1, <1>2, <1>3, <1>4, <1>5 DEF Next

LEMMA InvAlways == Spec => []Inv
<1> QED BY InvInit, InvNext, PTL DEF Spec

\* auth.ts:61-66 (middleware) and access.ts:15-24: whoever uses a tenant or changes the team was active,
\* in that role and for that tenant, since his request began, and his session was not revoked before it.
THEOREM PresentRights == Spec => []ActsWithPresentRights
<1>1. Inv => ActsWithPresentRights
  <2> SUFFICES ASSUME Inv, NEW r \in Requests, requests[r].pc = "acted" \/ requests[r].pc \in Writes
               PROVE  LET x == requests[r]
                          had == {h \in x.held : h.row = x.row}
                      IN  /\ x.open
                          /\ \E h \in had : h.active
                          /\ \E h \in had : h.role = x.role
                          /\ x.pc = "acted" => x.role = "owner" \/ \E h \in had : x.plan.target \in h.sees
                          /\ x.pc \in Writes => x.role = "owner"
    BY DEF ActsWithPresentRights
  <2>1. requests[r].pc \in Known \cup {"acted"}
    BY DEF Known
  <2>2. requests[r].open
    BY RequestIs DEF Opened, Steps, Writes, BySession
  <2> QED BY <2>1, <2>2, RequestIs DEF Remembers, Planned, Had
<1> QED BY <1>1, InvAlways, PTL

\* users.ts:25-26: the role a sign-in writes back is the one last given, unless it was under way when that was given.
THEOREM GivenRole == Spec => []GivenRoleHolds
<1>1. Inv => GivenRoleHolds
  BY DEF Inv
<1> QED BY <1>1, InvAlways, PTL

-----------------------------------------------------------------------------
(* The last owner *)

LEMMA ChangesPc ==
  ASSUME NEW r \in Requests, NEW x \in RequestType, NEW u, NEW v, Changes(r, x, u, v)
  PROVE  users' = u /\ requests'[r].pc = x.pc
<1>1. Kept(x) \in RequestType /\ Kept(x).pc = x.pc
  BY WaitingIs DEF Kept, Waiting, RequestType
<1>2. requests'[r] = Noted(Kept(x), u, v)
  BY DEF Changes, Noted
<1>3. \A y \in RequestType : Noted(y, u, v).pc = y.pc
  BY DEF Noted, RequestType
<1> QED BY <1>1, <1>2, <1>3 DEF Changes

LEMMA AnotherOwner ==
  ASSUME NEW S \in SUBSET Rows, Cardinality(S) > 1, NEW i PROVE \E k \in S : k # i
<1>1. IsFiniteSet(S)
  <2>1. IsFiniteSet(1..MaxRows)
    BY TeamAssumption, FS_Interval
  <2> QED BY <2>1, FS_Subset DEF Rows
<1>2. CASE S \subseteq {i}
  <2>1. Cardinality(S) <= Cardinality({i})
    BY <1>2, FS_Subset, FS_Singleton
  <2>2. Cardinality({i}) = 1 /\ Cardinality(S) \in Nat
    BY <1>1, FS_Singleton, FS_CardinalityType
  <2> QED BY <2>1, <2>2
<1>3. CASE ~(S \subseteq {i})
  BY <1>3
<1> QED BY <1>2, <1>3

\* An owner who changes somebody else and knows the owners leaves one
LEMMA WriterLeavesOwner ==
  ASSUME Inv, NEW r \in Requests, requests[r].pc \in Writes, ~Self(requests[r]), requests[r].owners = Owners(users)
  PROVE  \E k \in Owners(users) : k # requests[r].plan.target
<1>1. requests[r].row \in Owners(users) \/ Cardinality(Owners(users)) > 1
  BY RequestIs DEF Informed
<1>2. CASE requests[r].row \in Owners(users)
  BY <1>2 DEF Self
<1>3. CASE Cardinality(Owners(users)) > 1
  BY <1>3, OwnersAre, AnotherOwner
<1> QED BY <1>1, <1>2, <1>3

\* What one request does to the owners it knows of
LEMMA OwnerStays ==
  ASSUME Inv, NEW r \in Requests, Stamp(r) \/ InsertUser(r) \/ SetRole(r) \/ SetActive(r), Owners(users) # {}
  PROVE  Owners(users') # {} \/ (requests'[r].pc # requests[r].pc /\ requests[r].owners # Owners(users))
<1>0. requests[r] \in RequestType /\ users \in [Rows -> UserRow]
  BY RequestIs, AccountsAre
<1>1. CASE Stamp(r)
  <2> DEFINE pc == AfterAuth(requests[r].plan, requests[r].role)
             x == [requests[r] EXCEPT !.pc = pc]
             u == [users EXCEPT ![requests[r].row].role = requests[r].role]
  <2>1. requests[r].pc = "stamp" /\ Changes(r, x, u, sees)
    BY <1>1 DEF Stamp, At
  <2>2. /\ requests[r].row \in Rows /\ requests[r].role \in Roles /\ requests[r].plan \in Plans /\ requests[r].plan.via # "cookie"
        /\ requests[r].role = "owner" <=> requests[r].row \in requests[r].owners
    BY <2>1, StampIs
  <2>3. pc \in {"session", "see", "member", "refused"}
    BY <2>2, PlanIs, AfterAuthIs
  <2> HIDE DEF pc
  <2>4. x \in RequestType /\ x.pc = pc
    BY <1>0, <2>3 DEF RequestType, Steps, SigningIn, Writes
  <2>5. users' = u /\ requests'[r].pc = pc
    <3> HIDE DEF x, u
    <3> QED BY <2>1, <2>4, ChangesPc
  <2>6. /\ u[requests[r].row].role = requests[r].role /\ (u[requests[r].row].active <=> users[requests[r].row].active)
        /\ \A k \in Rows : k # requests[r].row => u[k] = users[k]
    <3> DEFINE i == requests[r].row
               role == requests[r].role
    <3>1. i \in Rows /\ role \in Roles
      BY <2>2
    <3> HIDE DEF i, role
    <3>2. LET v == [users EXCEPT ![i].role = role]
          IN  v[i].role = role /\ (v[i].active <=> users[i].active) /\ \A k \in Rows : k # i => v[k] = users[k]
      BY <3>1, RoleOf
    <3> QED BY <3>2 DEF i, role
  <2> HIDE DEF u, x
  <2>7. requests[r].owners = Owners(users) => Owners(u) # {}
    BY <2>2, <2>6 DEF Owners
  <2> QED BY <2>1, <2>3, <2>5, <2>7
<1>2. CASE InsertUser(r)
  <2>1. PICK i \in Rows : \E n : users[i] = NoUser /\ users' = [users EXCEPT ![i] = n]
    BY <1>2 DEF InsertUser, Changes, Least
  <2>2. Owners(users) \subseteq Owners(users')
    BY <1>0, <2>1 DEF Owners, NoUser
  <2> QED BY <2>2
<1>3. CASE SetRole(r) \/ SetActive(r)
  <2>1. requests[r].pc \in {"setRole", "setActive"} /\ requests[r].pc \in Writes
    BY <1>3 DEF SetRole, SetActive, At, Writes
  <2>2. ~Self(requests[r]) /\ requests[r].plan.target \in Rows
    BY <2>1, RequestIs, WriterIs DEF Planned
  <2>3. \A k \in Rows : k # requests[r].plan.target => users'[k] = users[k]
    BY <1>0, <1>3, <2>2 DEF SetRole, SetActive, Changes
  <2>4. requests[r].owners = Owners(users) => Owners(users') # {}
    BY <2>1, <2>2, <2>3, WriterLeavesOwner DEF Owners
  <2>5. requests'[r].pc # requests[r].pc
    <3>1. CASE SetRole(r)
      <4> DEFINE pc == AfterRole(requests[r])
                 x == [requests[r] EXCEPT !.pc = pc]
      <4>1. pc \in Steps /\ pc # "setRole"
        BY AfterRoleIs DEF Steps, Writes
      <4> HIDE DEF pc
      <4>2. x \in RequestType /\ x.pc = pc
        BY <1>0, <4>1 DEF RequestType
      <4>3. requests[r].pc = "setRole" /\ \E u, v : Changes(r, x, u, v)
        BY <3>1 DEF SetRole, At, pc
      <4> HIDE DEF x
      <4> QED BY <4>1, <4>2, <4>3, ChangesPc
    <3>2. CASE SetActive(r)
      <4> DEFINE pc == AfterActive(requests[r])
                 x == [requests[r] EXCEPT !.pc = pc]
      <4>1. pc \in Steps /\ pc # "setActive"
        BY AfterActiveIs DEF Steps, Writes
      <4> HIDE DEF pc
      <4>2. x \in RequestType /\ x.pc = pc
        BY <1>0, <4>1 DEF RequestType
      <4>3. requests[r].pc = "setActive" /\ \E u, v : Changes(r, x, u, v)
        BY <3>2 DEF SetActive, At, pc
      <4> HIDE DEF x
      <4> QED BY <4>1, <4>2, <4>3, ChangesPc
    <3> QED BY <1>3, <3>1, <3>2
  <2> QED BY <2>4, <2>5
<1> QED BY <1>1, <1>2, <1>3

\* access.ts:69-70, "Der letzte Owner bleibt Owner": only a request after whose look the owners have
\* changed takes the last one; who changes nobody and who has counted right before leaves one.
THEOREM LastOwner == Spec => OnlyStaleTakesLastOwner
<1>1. Inv /\ [Next]_vars => [Owners(users) # {} /\ Owners(users') = {} =>
         \E r \in Requests : requests'[r].pc # requests[r].pc /\ requests[r].owners # Owners(users)]_vars
  <2> SUFFICES ASSUME Inv, Next, Owners(users) # {}, Owners(users') = {}
               PROVE  \E r \in Requests : requests'[r].pc # requests[r].pc /\ requests[r].owners # Owners(users)
    OBVIOUS
  <2>1. users' # users
    OBVIOUS
  <2>2. PICK r \in Requests : Stamp(r) \/ InsertUser(r) \/ SetRole(r) \/ SetActive(r)
    BY <2>1 DEF Next, Prune, Tick, Begin, Find, First, CreateSession, Resolve, Touch, RevokeSession, Load, See, Member,
                CountOwners, Unassign, Assign, Fails, Changes
  <2> QED BY <2>2, OwnerStays
<1> QED BY <1>1, InvAlways, PTL DEF Spec, OnlyStaleTakesLastOwner
=============================================================================
