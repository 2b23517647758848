-------------------------- MODULE TeamAccessProps --------------------------
EXTENDS TeamAccess

Writes == {"member", "count", "setRole", "setActive", "unassign", "assign"}

\* auth.ts:61-66 (middleware) and access.ts:15-24: a request acts for an account that was active,
\* in a role and for a tenant it had, each at some moment since the request began, and never for a
\* session that was revoked before, however roles, assignments and sessions change meanwhile.
ActsWithPresentRights ==
    \A r \in Requests :
        LET x == requests[r]
            had == {h \in x.held : h.row = x.row}
        IN  x.pc = "acted" \/ x.pc \in Writes =>
              /\ x.open
              /\ \E h \in had : h.active
              /\ \E h \in had : h.role = x.role
              /\ x.pc = "acted" => x.role = "owner" \/ \E h \in had : x.plan.target \in h.sees
              /\ x.pc \in Writes => x.role = "owner"

\* access.ts:69-70, "Der letzte Owner bleibt Owner": the last active owner is demoted or deactivated
\* only by a request after whose look at the accounts the owners have changed.
OnlyStaleTakesLastOwner ==
    [][Owners(users) # {} /\ Owners(users') = {} =>
          \E r \in Requests : requests'[r].pc # requests[r].pc /\ requests[r].owners # Owners(users)]_vars

\* users.ts:25-26 writes the role back at every sign-in and with every bearer token: an account
\* has the role it was last given, unless one of those was under way when it was given.
GivenRoleHolds == \A i \in Rows : users[i].role # given[i].role => given[i].clash
=============================================================================
