--------------------------- MODULE ExchangeQueue ---------------------------
(***************************************************************************)
(* Jobs that an Exchange worker carries out.  The handler of such a job    *)
(* enqueues a row of exchange_jobs and waits for its result, for at most   *)
(* twenty minutes; the workers poll for rows, carry them out with their    *)
(* own identity and report.  BullMQ runs a handler again that a crash of   *)
(* the API cut off.                                                        *)
(*                                                                         *)
(* A worker waits for each of its requests, so the handler that serves it  *)
(* is a stretch of the worker's "pc".                                      *)
(***************************************************************************)
EXTENDS Integers, FiniteSets

CONSTANTS
    Jobs,       \* jobs of the cockpit, approved
    Workers,
    Reliable,   \* the workers that keep polling and finish what they began
    MaxFaults,  \* bound: crashes, failed statements and lost answers
    None

ASSUME ExchangeAssumption ==
    /\ IsFiniteSet(Jobs) /\ Reliable \subseteq Workers
    /\ MaxFaults \in Nat
    /\ None \notin Nat \cup Jobs \cup Workers \cup {"succeeded", "failed"}

VARIABLES
    jobs,       \* the handler runs, with the BullMQ entry that starts them
    rows,       \* exchange_jobs, in order of created_at
    facts,      \* exchange_facts of the tenant: the row that delivered them
    workers,
    effects,    \* history: how often the operation of a row was carried out
    faults

vars == <<jobs, rows, facts, workers, effects, faults>>

\* A handler runs at most twice
Rows == 1..(2 * Cardinality(Jobs))
First(i, set) == i \in set /\ \A x \in set : i <= x

NoRow == [status |-> "absent", job |-> None, worker |-> None, silent |-> FALSE]
NewJob(collect) == [pc |-> "waiting", collect |-> collect, runs |-> 0, row |-> None, result |-> None]
IdleWorker == [pc |-> "idle", row |-> None, ok |-> FALSE]
Held == {"claimed", "running"}
Closed == {"succeeded", "failed"}

Init ==
    /\ \E c \in [Jobs -> BOOLEAN] : jobs = [j \in Jobs |-> NewJob(c[j])]   \* type exchange.collect-facts or not
    /\ rows = [i \in Rows |-> NoRow]
    /\ facts = None
    /\ workers = [w \in Workers |-> IdleWorker]
    /\ effects = [i \in Rows |-> 0]
    /\ faults = 0

Fault == faults < MaxFaults /\ faults' = faults + 1

-----------------------------------------------------------------------------
(* The job handler *)

Run(j) ==
    /\ jobs[j].pc = "waiting"
    /\ jobs' = [jobs EXCEPT ![j].pc = "enqueue", ![j].runs = @ + 1, ![j].row = None]
    /\ UNCHANGED <<rows, facts, workers, effects, faults>>

Insert(j, i) ==
    /\ First(i, {x \in Rows : rows[x].status = "absent"})
    /\ rows' = [rows EXCEPT ![i] = [NoRow EXCEPT !.status = "queued", !.job = j]]

Return(j, result) == jobs' = [jobs EXCEPT ![j].pc = "ended", ![j].result = result]

\* validateExchangeParameters refuses the payload
Invalid(j) ==
    /\ jobs[j].pc = "enqueue" /\ ~jobs[j].collect
    /\ Return(j, "invalid")
    /\ UNCHANGED <<rows, facts, workers, effects, faults>>

Enqueue(j) ==
    /\ jobs[j].pc = "enqueue"
    /\ \E i \in Rows : Insert(j, i) /\ jobs' = [jobs EXCEPT ![j].pc = "wait", ![j].row = i]
    /\ UNCHANGED <<facts, workers, effects, faults>>

\* EXCHANGE_ENQUEUE_FAILED, with the row inserted or not
EnqueueFails(j) ==
    /\ jobs[j].pc = "enqueue" /\ Fault
    /\ Return(j, "enqueue_failed")
    /\ UNCHANGED rows \/ \E i \in Rows : Insert(j, i)
    /\ UNCHANGED <<facts, workers, effects>>

\* waitForExchangeJob finds the row closed
Told(j) ==
    /\ jobs[j].pc = "wait"
    /\ rows[jobs[j].row].status \in Closed
    /\ Return(j, rows[jobs[j].row].status)
    /\ UNCHANGED <<rows, facts, workers, effects, faults>>

\* EXCHANGE_TIMEOUT; the row stays
GiveUp(j) ==
    /\ jobs[j].pc = "wait"
    /\ Return(j, "timeout")
    /\ UNCHANGED <<rows, facts, workers, effects, faults>>

HandlerStep(j) == Run(j) \/ Invalid(j) \/ Enqueue(j) \/ Told(j) \/ GiveUp(j)

\* The stall check: an entry whose run was cut off waits again once, then it fails
Stalled(j) ==
    /\ jobs[j].pc = "orphan"
    /\ IF jobs[j].runs = 1 THEN jobs' = [jobs EXCEPT ![j].pc = "waiting"] ELSE Return(j, "stalled")
    /\ UNCHANGED <<rows, facts, workers, effects, faults>>

-----------------------------------------------------------------------------
(* The worker and the handlers of routes/worker.ts *)

Go(w, pc) == workers' = [workers EXCEPT ![w].pc = pc]
Rest(w) == workers' = [workers EXCEPT ![w] = IdleWorker]

\* Mutant: whatever was claimed an hour ago
StaleClosed(i) == rows[i].worker # None /\ rows[i].silent

\* Mutant: a worker that did not get beyond the claim is waited for
StaleRunning(i) == rows[i].status = "running" /\ rows[i].silent

Stale(i) == rows[i].status \in Held /\ rows[i].silent

\* Mutant: a silent row is given to another worker
ExpireRequeue == [i \in Rows |-> IF Stale(i) THEN [rows[i] EXCEPT !.status = "queued"] ELSE rows[i]]

Expire == [i \in Rows |-> IF Stale(i) THEN [rows[i] EXCEPT !.status = "failed"] ELSE rows[i]]

Poll(w) ==
    /\ workers[w].pc = "idle"
    /\ rows' = Expire
    /\ Go(w, "claim")
    /\ UNCHANGED <<jobs, facts, effects, faults>>

\* One statement, for update skip locked
Claim(w) ==
    LET waiting == {i \in Rows : rows[i].status = "queued"}
    IN  /\ workers[w].pc = "claim"
        /\ \/ waiting = {} /\ Rest(w) /\ UNCHANGED rows
           \/ \E i \in waiting :
                 /\ First(i, waiting)
                 /\ rows' = [rows EXCEPT ![i].status = "claimed", ![i].worker = w, ![i].silent = FALSE]
                 /\ workers' = [workers EXCEPT ![w].pc = "domain", ![w].row = i]
        /\ UNCHANGED <<jobs, facts, effects, faults>>

\* The tenant's domain is known and the worker gets its answer
SetRunning(w) ==
    /\ workers[w].pc = "domain"
    /\ rows' = [rows EXCEPT ![workers[w].row].status = "running"]
    /\ Go(w, "log")
    /\ UNCHANGED <<jobs, facts, effects, faults>>

Owned(i, w) == rows[i].worker = w /\ rows[i].status \in Held

\* Write-Step before the operation; a line that is refused or lost stops nobody
AppendLog(w) ==
    /\ workers[w].pc = "log"
    /\ \/ Owned(workers[w].row, w) /\ rows' = [rows EXCEPT ![workers[w].row].silent = FALSE]
       \/ UNCHANGED rows
    /\ Go(w, "exec")
    /\ UNCHANGED <<jobs, facts, effects, faults>>

\* Mutant: without ErrorAction Stop an error of the cmdlet goes unseen
OperateHopeful(w) ==
    /\ workers[w].pc = "exec"
    /\ workers' = [workers EXCEPT ![w].pc = "report", ![w].ok = TRUE]
    /\ \E n \in {0, 1} : effects' = [effects EXCEPT ![workers[w].row] = @ + n]
    /\ UNCHANGED <<jobs, rows, facts, faults>>

\* The cmdlet; an error may come after its effect
Operate(w) ==
    /\ workers[w].pc = "exec"
    /\ \E n \in {0, 1}, ok \in BOOLEAN :
          /\ ok => n = 1
          /\ workers' = [workers EXCEPT ![w].pc = "report", ![w].ok = ok]
          /\ effects' = [effects EXCEPT ![workers[w].row] = @ + n]
    /\ UNCHANGED <<jobs, rows, facts, faults>>

\* finishExchangeJob: a row that is not the worker's any more is left alone
FinishRead(w) ==
    /\ workers[w].pc = "report"
    /\ IF Owned(workers[w].row, w) THEN Go(w, "facts") ELSE Rest(w)
    /\ UNCHANGED <<jobs, rows, facts, effects, faults>>

\* normalizeFacts may find nothing of use
FinishFacts(w) ==
    /\ workers[w].pc = "facts"
    /\ IF workers[w].ok /\ jobs[rows[workers[w].row].job].collect
       THEN \/ facts' = workers[w].row /\ Go(w, "close")
            \/ UNCHANGED facts /\ workers' = [workers EXCEPT ![w].pc = "close", ![w].ok = FALSE]
       ELSE UNCHANGED facts /\ Go(w, "close")
    /\ UNCHANGED <<jobs, rows, effects, faults>>

FinishRow(w) ==
    /\ workers[w].pc = "close"
    /\ rows' = [rows EXCEPT ![workers[w].row].status = IF workers[w].ok THEN "succeeded" ELSE "failed"]
    /\ Rest(w)
    /\ UNCHANGED <<jobs, facts, effects, faults>>

ApiStep(w) == Claim(w) \/ SetRunning(w) \/ FinishRead(w) \/ FinishFacts(w) \/ FinishRow(w)
WorkerStep(w) == Poll(w) \/ AppendLog(w) \/ Operate(w) \/ ApiStep(w)

-----------------------------------------------------------------------------
(* Faults and time *)

\* A request ends with an error or its answer is lost; a worker is killed
RequestFails(w) ==
    /\ workers[w].pc \in {"claim", "domain", "report", "facts", "close"} \/ (workers[w].pc \in {"log", "exec"} /\ w \notin Reliable)
    /\ Fault /\ Rest(w)
    /\ UNCHANGED <<jobs, rows, facts, effects>>

\* The poll of a waiting handler throws: the job fails, the row stays
WaitThrows(j) ==
    /\ jobs[j].pc = "wait" /\ Fault
    /\ Return(j, "thrown")
    /\ UNCHANGED <<rows, facts, workers, effects>>

\* The API process ends: handlers are cut off, the workers' requests fail
Crash ==
    /\ Fault
    /\ jobs' = [j \in Jobs |-> IF jobs[j].pc \in {"enqueue", "wait"} THEN [jobs[j] EXCEPT !.pc = "orphan"] ELSE jobs[j]]
    /\ workers' = [w \in Workers |-> IF workers[w].pc \in {"idle", "log", "exec", "report"} THEN workers[w] ELSE IdleWorker]
    /\ UNCHANGED <<rows, facts, effects>>

\* An hour without a sign of life since the claim.  Waits are shorter, and so
\* are the look-ups between claim and answer: neither is under way by then
GrowSilent(i) ==
    /\ rows[i].worker # None /\ ~rows[i].silent
    /\ \A j \in Jobs : jobs[j].pc = "wait" => jobs[j].row # i
    /\ \A w \in Workers : workers[w].pc = "domain" => workers[w].row # i
    /\ rows' = [rows EXCEPT ![i].silent = TRUE]
    /\ UNCHANGED <<jobs, facts, workers, effects, faults>>

Next ==
    \/ \E j \in Jobs : HandlerStep(j) \/ EnqueueFails(j) \/ WaitThrows(j) \/ Stalled(j)
    \/ \E w \in Workers : WorkerStep(w) \/ RequestFails(w)
    \/ \E i \in Rows : GrowSilent(i)
    \/ Crash

Spec == Init /\ [][Next]_vars

\* Time passes, the API runs its handlers, and the reliable workers poll and work
FairSpec ==
    /\ Spec
    /\ \A j \in Jobs : WF_vars(HandlerStep(j) \/ Stalled(j))
    /\ \A w \in Workers : WF_vars(ApiStep(w))
    /\ \A w \in Reliable : WF_vars(WorkerStep(w))
    /\ \A i \in Rows : WF_vars(GrowSilent(i))
=============================================================================
