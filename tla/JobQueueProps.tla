---------------------------- MODULE JobQueueProps ----------------------------
(***************************************************************************)
(* What the job queue guarantees, and what its documentation says of it.   *)
(***************************************************************************)
EXTENDS JobQueue

\* The abstract gate, read off the row and the BullMQ entry of each job
Gate == INSTANCE JobGate WITH
    NeedsApproval <- Previewed,
    MaxUses <- Attempts + MaxStalled,
    approved <- {j \in Jobs : rows[j].approvals # <<>>},
    stage <- [j \in Jobs |-> CASE bull[j].state = "none" -> "open"
                               [] bull[j].state \in {"waiting", "active"} -> "accepted"
                               [] OTHER -> "closed"],
    uses <- effects

CallPcs == {"idle", "preview", "add", "mark", "refresh", "save_first", "save_approved",
            "audit", "save_cancel", "done"}

\* Every variable keeps the shape its column, entry or local variable has, and
\* no list of approvals, stored or held by a request, exceeds two.
TypeOK ==
    /\ now \in 0..MaxTime
    /\ rows \in [Jobs -> [status : Statuses, expires : Nat, approvals : Seq(Users),
                          second : BOOLEAN, createdAt : Nat, retryCount : Nat]]
    /\ bull \in [Jobs -> [state : {"none", "waiting", "active", "completed", "failed"},
                          made : Nat, stalled : Nat]]
    /\ calls \in [Calls -> [pc : CallPcs, job : Jobs \cup {None}, user : Users \cup {None},
                            approvals : Seq(Users), previewed : BOOLEAN]]
    /\ runs \in [Slots -> [pc : {"idle", "start", "handle", "save", "audit", "finish"},
                           job : Jobs \cup {None},
                           outcome : {"none", "success", "failure", "thrown"}]]
    /\ approvalLog \in [Jobs -> SUBSET [user : Users \cup {None},
                            label : {"job.approve", "job.approve.first", "job.approve.second"}]]
    /\ outcomeLog \in [Jobs -> SUBSET {"success", "failure"}]
    /\ effects \in [Jobs -> Nat]
    /\ crashes \in 0..MaxCrashes
    /\ \A j \in Jobs : Len(rows[j].approvals) <= 2
    /\ \A c \in Calls : Len(calls[c].approvals) <= 2

-----------------------------------------------------------------------------
(* Safety *)

\* approveJob: a job whose type needs a preview reaches the worker only with
\* an approval in its row, whatever requests, sweeps and crashes interleave.
ApprovedBeforeRun ==
    \A j \in Previewed : bull[j].state # "none" => rows[j].approvals # <<>>

\* approveJob's SAME_APPROVER check works on a snapshot; still no row ever
\* holds two approvals of one person, however the requests overlap.
DistinctApprovers ==
    \A j \in Jobs : Len(rows[j].approvals) = 2 =>
        rows[j].approvals[1] # rows[j].approvals[2]

\* BullMQ's retries and stall checks bound how often a handler can take effect.
EffectsWithinAttempts ==
    \A j \in Jobs : effects[j] <= Attempts + MaxStalled

\* The worker writes the audit entry before BullMQ learns the result, so a job
\* BullMQ counts as completed has one, whatever failed or crashed on the way.
CompletedIsAudited == \A j \in Jobs : bull[j].state = "completed" => outcomeLog[j] # {}

\* A job no request is about to enqueue and BullMQ has never seen
Settled(j) ==
    /\ rows[j].status \in Terminal
    /\ bull[j].state = "none"
    /\ \A c \in Calls : calls[c].job = j => calls[c].pc \notin
           {"add", "mark", "save_first", "save_approved"}

\* cancelJob and the sweep: a job that was cancelled before an approval was
\* under way stays cancelled; no later request, refresh or sweep revives it.
SettledStays == [][\A j \in Jobs : Settled(j) => Settled(j)']_vars

\* The queue keeps what the gate promises, faults included.
GateKept == Gate!GateSpec

-----------------------------------------------------------------------------
(* Liveness *)

\* failStaleActive and cancelExpiredPending: whatever the requests, the worker
\* and the crashes leave behind, no row stays open for ever, even when
\* handlers hang.
EveryRowCloses ==
    \A j \in Jobs : <>[](rows[j].status \in Terminal \cup {"absent"})

\* A job BullMQ has accepted is executed to the end or given up, across
\* retries, crashes and stall checks, if handlers return.
AcceptedFinishes ==
    (\A s \in Slots : WF_vars(Handle(s))) =>
        \A j \in Jobs : bull[j].state = "waiting" ~> bull[j].state \in {"completed", "failed"}

-----------------------------------------------------------------------------
(* A statement of the documentation that the code does not keep *)

\* docs/setup/local-development.md: after the first of two approvals the job
\* stands on "Zweite Freigabe noetig"; the row must take that status.
FirstApprovalStored ==
    [][\A c \in Calls : At(c, "save_first") /\ ~At(c, "save_first")' =>
          rows'[calls[c].job].status = "pending_second_approval"]_vars

=============================================================================
