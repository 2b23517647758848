----------------------------- MODULE SignInRules -----------------------------
(***************************************************************************)
(* The fixed rules over the sign-ins of a time window (anomaly-rules.ts).  *)
(* A window is a sequence of events in the order of their times; a rule    *)
(* yields at most one finding for a user, or for the tenant.               *)
(***************************************************************************)
EXTENDS Integers, Sequences, FiniteSets

LOCAL INSTANCE FiniteSetsExt

CONSTANTS
    Users, Tenant,
    FailedPerUser, FailedWindow,
    SprayFailures, SprayUsers,
    FailuresBeforeSuccess, RecoveryWindow,
    CountryHop,
    DayLength

ASSUME RuleAssumption ==
    /\ {FailedPerUser, SprayFailures, SprayUsers, FailuresBeforeSuccess, DayLength} \subseteq Nat \ {0}
    /\ {FailedWindow, RecoveryWindow, CountryHop} \subseteq Nat

Day(t) == t \div DayLength

\* key: the time whose day goes into the fingerprint
Finding(rule, subject, key, first, last, count) ==
    [print |-> <<rule, subject, Day(key)>>, first |-> first, last |-> last, count |-> count]

Of(s, u) == SelectSeq(s, LAMBDA e : e.user = u)
Failures(s) == SelectSeq(s, LAMBDA e : e.outcome = "failure")
UsersOf(s) == {s[i].user : i \in DOMAIN s}

\* The first window that is full enough, as far as it reaches
FailedBurst(s) ==
    LET F(u) == Failures(Of(s, u))
        Reach(f, i) == Max({k \in i..Len(f) : f[k].at - f[i].at <= FailedWindow})
        Full(f) == {i \in DOMAIN f : Reach(f, i) - i + 1 >= FailedPerUser}
    IN  {LET f == F(u)
             i == Min(Full(f))
             j == Reach(f, i)
         IN  Finding("failed-burst", u, f[i].at, f[i].at, f[j].at, j - i + 1) : u \in {v \in Users : Full(F(v)) # {}}}

PasswordSpray(s) ==
    LET f == Failures(s)
    IN  IF Len(f) >= SprayFailures /\ Cardinality(UsersOf(f)) >= SprayUsers
        THEN {Finding("password-spray", Tenant, f[1].at, f[1].at, f[Len(f)].at, Len(f))} ELSE {}

\* Failures in an unbroken row before the event at k
Streak(l, k) == Cardinality({i \in 1..(k - 1) : \A x \in i..(k - 1) : l[x].outcome = "failure"})

Recoveries(l) ==
    {k \in DOMAIN l : /\ l[k].outcome = "success" /\ Streak(l, k) >= FailuresBeforeSuccess
                      /\ l[k].at - l[k - 1].at <= RecoveryWindow}

SuccessAfterFailures(s) ==
    {LET l == Of(s, u)
         k == Min(Recoveries(l))
     IN  Finding("success-after-failures", u, l[k].at, l[k - Streak(l, k)].at, l[k].at, Streak(l, k) + 1)
     : u \in {v \in Users : Recoveries(Of(s, v)) # {}}}

Placed(s, u) == SelectSeq(Of(s, u), LAMBDA e : e.outcome = "success" /\ e.country # "none")
Hops(l) == {k \in 2..Len(l) : l[k].country # l[k - 1].country /\ l[k].at - l[k - 1].at <= CountryHop}

CountryChange(s) ==
    {LET l == Placed(s, u)
         k == Min(Hops(l))
     IN  Finding("country-hop", u, l[k].at, l[k - 1].at, l[k].at, 2)
     : u \in {v \in Users : Hops(Placed(s, v)) # {}}}

\* Each user's successes of one kind: without modern authentication, or risky
Successes(s, u, kind) == SelectSeq(Of(s, u), LAMBDA e : e.outcome = "success" /\ kind \in e.marks)

Marked(s, rule, kind) ==
    {LET l == Successes(s, u, kind) IN Finding(rule, u, l[1].at, l[1].at, l[Len(l)].at, Len(l))
     : u \in {v \in Users : Successes(s, v, kind) # <<>>}}

Findings(s) ==
    FailedBurst(s) \cup PasswordSpray(s) \cup SuccessAfterFailures(s) \cup CountryChange(s)
    \cup Marked(s, "legacy-auth-success", "legacy") \cup Marked(s, "risky-success", "risky")

=============================================================================
