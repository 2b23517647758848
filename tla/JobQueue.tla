------------------------------ MODULE JobQueue ------------------------------
(***************************************************************************)
(* The job queue of the cockpit: every change to a customer tenant is a    *)
(* row of the "jobs" table that is previewed, approved by one or two       *)
(* people, handed to BullMQ and executed by the worker inside the API      *)
(* process.                                                                *)
(*                                                                         *)
(* A step of this module is what the code does between two awaits: one     *)
(* read or one UPDATE of the row, one call of BullMQ, one handler.  The    *)
(* interleavings are therefore those of the requests, the worker slots,    *)
(* the one-minute sweep and a crash of the process.                        *)
(***************************************************************************)
EXTENDS Integers, Sequences, FiniteSets

CONSTANTS
    Jobs,           \* job ids
    Users,          \* people who may approve
    Calls,          \* API requests, each made at most once
    Slots,          \* concurrent executions of the worker
    Previewed,      \* the jobs whose type has requiresPreview
    PolicyAnswers,  \* what approvalPolicy may answer: second approval or not
    PreviewTtl,     \* PREVIEW_TTL_MS
    SecondWindow,   \* SECOND_APPROVAL_WINDOW_MS
    PendingTtl,     \* PENDING_APPROVAL_TTL_MS
    ActiveTtl,      \* ACTIVE_JOB_TTL_MS
    Attempts,       \* defaultJobOptions.attempts
    MaxStalled,     \* BullMQ's default maxStalledCount
    ColumnWidth,    \* what the JobStore's status column holds: varchar(20) in schema.ts
    LastCreate,     \* bound: jobs are created up to this time
    MaxTime,        \* bound: the clock stops here
    MaxCrashes,     \* bound: crashes of the API process
    StoreMayFail,   \* whether a statement to PostgreSQL or Redis may throw
    PromptCalls,    \* whether a request ends before the clock moves
    None            \* no job, no user

ASSUME SetsAssumption ==
    /\ Previewed \subseteq Jobs
    /\ PolicyAnswers \subseteq BOOLEAN
    /\ None \notin Jobs \cup Users
    /\ {StoreMayFail, PromptCalls} \subseteq BOOLEAN

ASSUME TimesAssumption ==
    /\ {PreviewTtl, SecondWindow, Attempts} \subseteq Nat \ {0}
    /\ {PendingTtl, ActiveTtl, MaxStalled, ColumnWidth} \subseteq Nat
    /\ {LastCreate, MaxTime, MaxCrashes} \subseteq Nat

VARIABLES
    now,        \* the clock
    rows,       \* the table "jobs"
    bull,       \* the BullMQ entry with the job's id
    calls,      \* the requests and what they have read
    runs,       \* the worker's executions
    approvalLog,\* audit entries of approvals: who, under which label
    outcomeLog, \* audit entries of executions, by result
    effects,    \* history: how often a handler has reported success
    crashes

vars == <<now, rows, bull, calls, runs, approvalLog, outcomeLog, effects, crashes>>
queueVars == <<runs, outcomeLog, effects, crashes>>

Statuses == {"absent", "pending_approval", "pending_second_approval", "queued",
             "running", "completed", "failed", "cancelled"}
Terminal == {"completed", "failed", "cancelled"}
Active == {"queued", "running"}
Pending == {"pending_approval", "pending_second_approval"}

\* expires = 0: the row has no preview yet
NoRow == [status |-> "absent", expires |-> 0, approvals |-> <<>>, second |-> FALSE,
          createdAt |-> 0, retryCount |-> 0]
NoEntry == [state |-> "none", made |-> 0, stalled |-> 0]
Idle(pc) == [pc |-> pc, job |-> None, user |-> None, approvals |-> <<>>, previewed |-> FALSE]
NoRun == [pc |-> "idle", job |-> None, outcome |-> "none"]

Init ==
    /\ now = 0
    /\ rows = [j \in Jobs |-> NoRow]
    /\ bull = [j \in Jobs |-> NoEntry]
    /\ calls = [c \in Calls |-> Idle("idle")]
    /\ runs = [s \in Slots |-> NoRun]
    /\ approvalLog = [j \in Jobs |-> {}]
    /\ outcomeLog = [j \in Jobs |-> {}]
    /\ effects = [j \in Jobs |-> 0]
    /\ crashes = 0

-----------------------------------------------------------------------------
(* Requests *)

At(c, pc) == calls[c].pc = pc
Go(c, pc) == calls' = [calls EXCEPT ![c].pc = pc]
End(c) == calls' = [calls EXCEPT ![c] = Idle("done")]

\* A request holds on to the snapshot its first read returned
Begin(c, pc, j, u, list) ==
    /\ At(c, "idle")
    /\ calls' = [calls EXCEPT ![c] =
                    [pc |-> pc, job |-> j, user |-> u, approvals |-> list,
                     previewed |-> rows[j].expires # 0]]

OnlyCalls == UNCHANGED <<now, rows, bull, approvalLog, queueVars>>
RowAndCall == UNCHANGED <<now, bull, approvalLog, queueVars>>

\* createJob: the row exists, and can be approved, before its preview does
CreateInsert(c, j) ==
    /\ rows[j].status = "absent"
    /\ now <= LastCreate
    /\ Begin(c, IF j \in Previewed THEN "preview" ELSE "add", j, None, <<>>)
    /\ rows' = [rows EXCEPT ![j] =
                   [NoRow EXCEPT !.status = IF j \in Previewed
                                            THEN "pending_approval" ELSE "queued",
                                 !.createdAt = now]]
    /\ RowAndCall

\* Mutant: a refreshed preview reopens the job
SavePreviewReopens(c) ==
    /\ At(c, "preview")
    /\ \E second \in PolicyAnswers :
          rows' = [rows EXCEPT ![calls[c].job] =
                      [@ EXCEPT !.status = "pending_approval",
                                !.expires = now + PreviewTtl, !.second = second]]
    /\ End(c)
    /\ RowAndCall

\* The preview and the policy's answer to it reach the row in one UPDATE
SavePreview(c) ==
    /\ At(c, "preview")
    /\ \E second \in PolicyAnswers :
          rows' = [rows EXCEPT ![calls[c].job].expires = now + PreviewTtl,
                               ![calls[c].job].second = second]
    /\ End(c)
    /\ RowAndCall

\* queue.add: BullMQ ignores an id it already has
AddToBull(c) ==
    /\ At(c, "add")
    /\ bull' = IF bull[calls[c].job].state = "none"
               THEN [bull EXCEPT ![calls[c].job].state = "waiting"]
               ELSE bull
    /\ Go(c, "mark")
    /\ UNCHANGED <<now, rows, approvalLog, queueVars>>

MarkQueued(c) ==
    /\ At(c, "mark")
    /\ rows' = [rows EXCEPT ![calls[c].job].status = "queued"]
    /\ IF calls[c].user = None THEN End(c) ELSE Go(c, "audit")
    /\ RowAndCall

Expired(j) == rows[j].expires # 0 /\ rows[j].expires < now

\* Mutant: the same person may approve twice
SameApproverUnchecked(j, u) == FALSE

SameApprover(j, u) == rows[j].approvals # <<>> /\ rows[j].approvals[1] = u

\* approveJob ends without a write: wrong status, second window over, same person
ApproveRefused(c, j, u) ==
    /\ rows[j].status # "absent"
    /\ \/ rows[j].status \notin Pending
       \/ rows[j].status = "pending_second_approval" /\ (Expired(j) \/ SameApprover(j, u))
    /\ At(c, "idle")
    /\ End(c)
    /\ OnlyCalls

ApproveExpired(c, j, u) ==
    /\ rows[j].status = "pending_approval"
    /\ Expired(j)
    /\ Begin(c, "refresh", j, u, <<>>)
    /\ OnlyCalls

\* refreshPreview reads the row again before it generates
RefreshRead(c) ==
    /\ At(c, "refresh")
    /\ IF rows[calls[c].job].status = "pending_approval" THEN Go(c, "preview") ELSE End(c)
    /\ OnlyCalls

ApproveFirst(c, j, u) ==
    /\ rows[j].status = "pending_approval"
    /\ ~Expired(j)
    /\ rows[j].second
    /\ Begin(c, "save_first", j, u, Append(rows[j].approvals, u))
    /\ OnlyCalls

ApproveFinal(c, j, u) ==
    /\ \/ rows[j].status = "pending_approval" /\ ~rows[j].second
       \/ rows[j].status = "pending_second_approval" /\ ~SameApprover(j, u)
    /\ ~Expired(j)
    /\ Begin(c, "save_approved", j, u, Append(rows[j].approvals, u))
    /\ OnlyCalls

\* PostgreSQL rejects a value longer than its varchar column
Storable(status) ==
    LET length == [pending_approval |-> 16, pending_second_approval |-> 23, queued |-> 6,
                   running |-> 7, completed |-> 9, failed |-> 6, cancelled |-> 9]
    IN  length[status] <= ColumnWidth

SaveFirstApproval(c) ==
    /\ At(c, "save_first")
    /\ Storable("pending_second_approval")
    /\ rows' = [rows EXCEPT ![calls[c].job] =
                   [@ EXCEPT !.status = "pending_second_approval",
                             !.approvals = calls[c].approvals,
                             !.expires = IF calls[c].previewed THEN now + SecondWindow
                                         ELSE rows[calls[c].job].expires]]
    /\ Go(c, "audit")
    /\ RowAndCall

\* The UPDATE throws, the request ends with an error and the row is unchanged
FirstApprovalRejected(c) ==
    /\ At(c, "save_first")
    /\ ~Storable("pending_second_approval")
    /\ End(c)
    /\ OnlyCalls

\* Mutant: the status is written without the approvals
SaveApprovedStatusOnly(c) ==
    /\ At(c, "save_approved")
    /\ rows' = [rows EXCEPT ![calls[c].job].status = "queued"]
    /\ Go(c, "add")
    /\ RowAndCall

\* Mutant: the request's list is appended to the row's
SaveApprovedAppended(c) ==
    /\ At(c, "save_approved")
    /\ rows' = [rows EXCEPT ![calls[c].job] =
                   [@ EXCEPT !.status = "queued", !.approvals = @ \o calls[c].approvals]]
    /\ Go(c, "add")
    /\ RowAndCall

SaveApproved(c) ==
    /\ At(c, "save_approved")
    /\ rows' = [rows EXCEPT ![calls[c].job] =
                   [@ EXCEPT !.status = "queued", !.approvals = calls[c].approvals]]
    /\ Go(c, "add")
    /\ RowAndCall

\* The route labels the approval from the row it reads back
LabelOf(row) ==
    CASE row.status = "pending_second_approval" -> "job.approve.first"
      [] row.status # "pending_second_approval" /\ Len(row.approvals) > 1 -> "job.approve.second"
      [] OTHER -> "job.approve"

AuditApproval(c) ==
    /\ At(c, "audit")
    /\ approvalLog' = [approvalLog EXCEPT ![calls[c].job] =
                          @ \cup {[user |-> calls[c].user, label |-> LabelOf(rows[calls[c].job])]}]
    /\ End(c)
    /\ UNCHANGED <<now, rows, bull, queueVars>>

CancelRead(c, j) ==
    /\ rows[j].status \notin Terminal \cup {"absent"}
    /\ Begin(c, "save_cancel", j, None, <<>>)
    /\ OnlyCalls

\* cancelJob's guard: a finished job stays as it is
CancelRefused(c, j) ==
    /\ rows[j].status \in Terminal
    /\ At(c, "idle")
    /\ End(c)
    /\ OnlyCalls

SaveCancel(c) ==
    /\ At(c, "save_cancel")
    /\ rows' = [rows EXCEPT ![calls[c].job].status = "cancelled"]
    /\ End(c)
    /\ RowAndCall

\* The preview generator asks Microsoft and may throw at any time; the other
\* steps throw when PostgreSQL or Redis does.  Nothing is rolled back.
CallFails(c) ==
    /\ calls[c].pc \notin {"idle", "done"}
    /\ At(c, "preview") \/ StoreMayFail
    /\ End(c)
    /\ OnlyCalls

Request(c) ==
    \E j \in Jobs :
       \/ CreateInsert(c, j)
       \/ CancelRead(c, j)
       \/ CancelRefused(c, j)
       \/ \E u \in Users : \/ ApproveRefused(c, j, u)
                           \/ ApproveExpired(c, j, u)
                           \/ ApproveFirst(c, j, u)
                           \/ ApproveFinal(c, j, u)

CallStep(c) ==
    \/ SavePreview(c) \/ AddToBull(c) \/ MarkQueued(c) \/ RefreshRead(c)
    \/ SaveFirstApproval(c) \/ FirstApprovalRejected(c) \/ SaveApproved(c) \/ AuditApproval(c) \/ SaveCancel(c)

-----------------------------------------------------------------------------
(* The worker *)

RunAt(s, pc) == runs[s].pc = pc
RunGo(s, pc) == runs' = [runs EXCEPT ![s].pc = pc]
Catch(s) == runs' = [runs EXCEPT ![s].pc = "save", ![s].outcome = "thrown"]

\* BullMQ hands a waiting entry to a free slot
Take(s, j) ==
    /\ RunAt(s, "idle")
    /\ bull[j].state = "waiting"
    /\ bull' = [bull EXCEPT ![j].state = "active"]
    /\ runs' = [runs EXCEPT ![s] = [pc |-> "start", job |-> j, outcome |-> "none"]]
    /\ UNCHANGED <<now, rows, calls, approvalLog, outcomeLog, effects, crashes>>

\* The row becomes running whatever its status is
Start(s) ==
    /\ RunAt(s, "start")
    /\ rows' = [rows EXCEPT ![runs[s].job].status = "running",
                            ![runs[s].job].retryCount = bull[runs[s].job].made]
    /\ RunGo(s, "handle")
    /\ UNCHANGED <<now, bull, calls, approvalLog, outcomeLog, effects, crashes>>

Handle(s) ==
    /\ RunAt(s, "handle")
    /\ \E outcome \in {"success", "failure", "thrown"} :
          /\ runs' = [runs EXCEPT ![s].pc = "save", ![s].outcome = outcome]
          /\ effects' = IF outcome = "success"
                        THEN [effects EXCEPT ![runs[s].job] = @ + 1]
                        ELSE effects
    /\ UNCHANGED <<now, rows, bull, calls, approvalLog, outcomeLog, crashes>>

\* Mutant: only successes are audited
SaveOutcomeUnaudited(s) ==
    /\ RunAt(s, "save")
    /\ rows' = [rows EXCEPT ![runs[s].job].status =
                   IF runs[s].outcome = "success" THEN "completed" ELSE "failed"]
    /\ RunGo(s, IF runs[s].outcome = "success" THEN "audit" ELSE "finish")
    /\ UNCHANGED <<now, bull, calls, approvalLog, outcomeLog, effects, crashes>>

SaveOutcome(s) ==
    /\ RunAt(s, "save")
    /\ rows' = [rows EXCEPT ![runs[s].job].status =
                   IF runs[s].outcome = "success" THEN "completed" ELSE "failed"]
    /\ RunGo(s, "audit")
    /\ UNCHANGED <<now, bull, calls, approvalLog, outcomeLog, effects, crashes>>

AuditOutcome(s) ==
    /\ RunAt(s, "audit")
    /\ outcomeLog' = [outcomeLog EXCEPT ![runs[s].job] =
                         @ \cup {IF runs[s].outcome = "success" THEN "success" ELSE "failure"}]
    /\ RunGo(s, "finish")
    /\ UNCHANGED <<now, rows, bull, calls, approvalLog, effects, crashes>>

\* Mutant: a throw never uses up the last attempt
EntryAfterForever(entry, thrown) ==
    [entry EXCEPT !.made = IF @ + 1 < Attempts THEN @ + 1 ELSE @,
                  !.state = IF thrown THEN "waiting" ELSE "completed"]

\* Mutant: a finished entry is removed and its id is free again
EntryAfterReopened(entry, thrown) ==
    [entry EXCEPT !.made = @ + 1,
                  !.state = IF thrown /\ entry.made + 1 < Attempts THEN "waiting" ELSE "none"]

\* The processor has returned or thrown; only a throw is retried
EntryAfter(entry, thrown) ==
    [entry EXCEPT !.made = @ + 1,
                  !.state = IF ~thrown THEN "completed"
                            ELSE IF entry.made + 1 < Attempts THEN "waiting" ELSE "failed"]

Release(s, thrown) ==
    /\ bull' = [bull EXCEPT ![runs[s].job] = EntryAfter(@, thrown)]
    /\ runs' = [runs EXCEPT ![s] = NoRun]

Finish(s) ==
    /\ RunAt(s, "finish")
    /\ Release(s, runs[s].outcome = "thrown")
    /\ UNCHANGED <<now, rows, calls, approvalLog, outcomeLog, effects, crashes>>

\* A statement of the processor throws: before the try block and inside the
\* catch block the error goes to BullMQ, inside the try block to the catch
RunFails(s) ==
    /\ StoreMayFail
    /\ runs[s].pc \in {"start", "save", "audit"}
    /\ IF RunAt(s, "start") \/ runs[s].outcome = "thrown"
       THEN Release(s, TRUE)
       ELSE Catch(s) /\ UNCHANGED bull
    /\ UNCHANGED <<now, rows, calls, approvalLog, outcomeLog, effects, crashes>>

RunStep(s) == Start(s) \/ SaveOutcome(s) \/ AuditOutcome(s) \/ Finish(s)

-----------------------------------------------------------------------------
(* The process, BullMQ's stall check, the sweep and the clock *)

\* Requests and executions are gone; the table and Redis remain
Crash ==
    /\ crashes < MaxCrashes
    /\ crashes' = crashes + 1
    /\ calls' = [c \in Calls |-> IF At(c, "idle") THEN calls[c] ELSE Idle("done")]
    /\ runs' = [s \in Slots |-> NoRun]
    /\ UNCHANGED <<now, rows, bull, approvalLog, outcomeLog, effects>>

Stalled(j) ==
    /\ bull[j].state = "active"
    /\ \A s \in Slots : runs[s].job # j
    /\ bull' = [bull EXCEPT ![j].stalled = @ + 1,
                            ![j].state = IF bull[j].stalled < MaxStalled THEN "waiting" ELSE "failed"]
    /\ UNCHANGED <<now, rows, calls, approvalLog, queueVars>>

Older(j, ttl) == rows[j].createdAt + ttl < now

\* One UPDATE ... WHERE status IN from AND createdAt < now - ttl
SweepStatus(from, ttl, to) ==
    LET due == {j \in Jobs : rows[j].status \in from /\ Older(j, ttl)}
    IN  /\ due # {}
        /\ rows' = [j \in Jobs |-> IF j \in due THEN [rows[j] EXCEPT !.status = to] ELSE rows[j]]
        /\ UNCHANGED <<now, bull, calls, approvalLog, queueVars>>

SweepPending == SweepStatus({"pending_approval"}, PendingTtl, "cancelled")
SweepSecond == SweepStatus({"pending_second_approval"}, SecondWindow + PendingTtl, "cancelled")
\* Mutant: the sweep forgets the jobs that never started
SweepActiveRunning == SweepStatus({"running"}, ActiveTtl, "failed")

SweepActive == SweepStatus(Active, ActiveTtl, "failed")

Tick ==
    /\ now < MaxTime
    /\ PromptCalls => \A c \in Calls : calls[c].pc \in {"idle", "done"}
    /\ now' = now + 1
    /\ UNCHANGED <<rows, bull, calls, approvalLog, queueVars>>

Next ==
    \/ \E c \in Calls : Request(c) \/ CallStep(c) \/ CallFails(c)
    \/ \E s \in Slots : RunStep(s) \/ Handle(s) \/ RunFails(s) \/ \E j \in Jobs : Take(s, j)
    \/ \E j \in Jobs : Stalled(j)
    \/ Crash
    \/ SweepPending \/ SweepSecond \/ SweepActive
    \/ Tick

Spec == Init /\ [][Next]_vars

\* Users need not do anything, and a handler may hang: nothing enforces the
\* timeoutSeconds of its registration.  The event loop runs a pending
\* continuation, BullMQ polls its queue and checks for stalls, the sweep is a
\* timer.
Fairness ==
    /\ \A c \in Calls : WF_vars(CallStep(c))
    /\ \A s \in Slots : WF_vars(RunStep(s)) /\ WF_vars(\E j \in Jobs : Take(s, j))
    /\ \A j \in Jobs : WF_vars(Stalled(j))
    /\ WF_vars(SweepPending) /\ WF_vars(SweepSecond) /\ WF_vars(SweepActive)
    /\ WF_vars(Tick)

FairSpec == Spec /\ Fairness
=============================================================================
