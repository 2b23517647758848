---------------------------- MODULE MCTeamAccess ----------------------------
(* Three owners change each other; an owner changes an engineer at work; the first sign-ins. *)
EXTENDS TeamAccessProps

CONSTANTS r1, r2, r3, a, b, c, t1, t2

NoInput == [role |-> None, active |-> None, tenants |-> None]
Does(via, who, does, target, input) == [via |-> via, who |-> who, does |-> does, target |-> target, input |-> input]
Update(via, who, i, input) == Does(via, who, "update", i, input)
Role(x) == [NoInput EXCEPT !.role = x]
Active(x) == [NoInput EXCEPT !.active = x]
User(p, role, active) == [person |-> p, role |-> role, active |-> active]
Bounds(ticks, faults) == [ticks |-> ticks, faults |-> faults]

MCCases ==
  { [users |-> <<User(a, "owner", TRUE), User(b, "owner", TRUE), User(c, "owner", FALSE)>>, sees |-> {},
     plans |-> {Update("cookie", 1, 2, Role("engineer")), Update("cookie", 2, 1, Role("readonly")), Update("cookie", 2, 2, Active(FALSE)),
                Update("bearer", b, 1, Active(FALSE)), Update("bearer", a, 3, [NoInput EXCEPT !.role = "engineer", !.active = TRUE])},
     bounds |-> Bounds(0, 1)],
    [users |-> <<User(a, "owner", TRUE), User(b, "engineer", TRUE)>>, sees |-> {t1},
     plans |-> {Update("cookie", 1, 2, [NoInput EXCEPT !.role = "readonly", !.tenants = {t2}]), Update("cookie", 1, 2, Role("owner")),
                Update("cookie", 1, 2, Active(FALSE)),
                Does("cookie", 2, "use", t1, NoInput), Does("bearer", b, "use", t2, NoInput), Does("cookie", 2, "sign out", None, NoInput)},
     bounds |-> Bounds(2, 0)],
    [users |-> <<>>, sees |-> {},
     plans |-> {Does("sign in", a, "sign in", None, NoInput), Does("sign in", b, "sign in", None, NoInput),
                Does("bearer", a, "use", t1, NoInput), Update("bearer", a, 2, Role("owner")), Does("cookie", r1, "use", t1, NoInput)},
     bounds |-> Bounds(2, 0)] }
=============================================================================
