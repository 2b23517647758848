------------------------------- MODULE JobGate -------------------------------
(***************************************************************************)
(* What the job queue promises to the owner of a customer tenant, without  *)
(* rows, requests and workers: a change that needs approval is accepted    *)
(* for execution only after one, a job is accepted at most once and never  *)
(* reopened, and it takes effect only while it is accepted and only a      *)
(* bounded number of times.                                                *)
(***************************************************************************)
EXTENDS Integers

CONSTANTS Jobs, NeedsApproval, MaxUses

VARIABLES approved, stage, uses

gateVars == <<approved, stage, uses>>

Init ==
    /\ approved = {}
    /\ stage = [j \in Jobs |-> "open"]
    /\ uses = [j \in Jobs |-> 0]

Approve(j) ==
    /\ j \notin approved
    /\ approved' = approved \cup {j}
    /\ UNCHANGED <<stage, uses>>

Accept(j) ==
    /\ stage[j] = "open"
    /\ j \in NeedsApproval => j \in approved
    /\ stage' = [stage EXCEPT ![j] = "accepted"]
    /\ UNCHANGED <<approved, uses>>

Use(j) ==
    /\ stage[j] = "accepted"
    /\ uses[j] < MaxUses
    /\ uses' = [uses EXCEPT ![j] = @ + 1]
    /\ UNCHANGED <<approved, stage>>

Close(j) ==
    /\ stage[j] = "accepted"
    /\ stage' = [stage EXCEPT ![j] = "closed"]
    /\ UNCHANGED <<approved, uses>>

Next == \E j \in Jobs : Approve(j) \/ Accept(j) \/ Use(j) \/ Close(j)

GateSpec == Init /\ [][Next]_gateVars
=============================================================================
