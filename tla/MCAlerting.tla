----------------------------- MODULE MCAlerting -----------------------------
(* Failed sign-ins of two users; a mixture of sign-ins; a full disk and a running machine. *)
EXTENDS AlertingProps, TLC

CONSTANTS u1, u2, tick, request

Failure(u) == [user |-> u, outcome |-> "failure", country |-> "none", marks |-> {}, at |-> 0]
Success(u, c, m) == [user |-> u, outcome |-> "success", country |-> c, marks |-> m, at |-> 0]

Bounds(ticks, requests, changes, faults) == [ticks |-> ticks, requests |-> requests, changes |-> changes, faults |-> faults]

Conditions == {[rule |-> "disk-space", subject |-> u1], [rule |-> "vm-outside-hours", subject |-> u2]}

MCCases ==
    {[signIns |-> Failure(u1) :> 2, conditions |-> {}, bounds |-> Bounds(7, 0, 0, 1)],
     [signIns |-> Failure(u1) :> 2 @@ Failure(u2) :> 1, conditions |-> {}, bounds |-> Bounds(7, 0, 0, 0)],
     [signIns |-> Failure(u1) :> 3, conditions |-> {}, bounds |-> Bounds(2, 1, 1, 1)],
     [signIns |-> Failure(u1) :> 2 @@ Failure(u2) :> 1, conditions |-> {}, bounds |-> Bounds(1, 1, 0, 1)],
     [signIns |-> Failure(u1) :> 1 @@ Success(u1, "A", {"legacy"}) :> 1 @@ Success(u1, "B", {"risky"}) :> 1,
      conditions |-> {}, bounds |-> Bounds(1, 1, 0, 0)],
     [signIns |-> Failure(u1) :> 0, conditions |-> Conditions, bounds |-> Bounds(3, 1, 2, 2)]}
=============================================================================
