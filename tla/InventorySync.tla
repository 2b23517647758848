--------------------------- MODULE InventorySync ---------------------------
(***************************************************************************)
(* The inventory snapshots of one tenant: the loads of the API process,    *)
(* the pages that read a snapshot or wait for a load, the BullMQ queue     *)
(* with its tick, manual refreshes, and the removal of the tenant.         *)
(*                                                                         *)
(* Time is a choice: a run grows late and a snapshot grows stale in steps  *)
(* of their own, whatever the intervals are.                               *)
(***************************************************************************)
EXTENDS Integers, FiniteSets

CONSTANTS
    Kinds,          \* InventoryKind
    Requests,       \* requests of users, each made at most once
    MaxLoads,       \* bound: loads under way at once
    Concurrency,    \* worker slots
    MaxSource,      \* bound: changes of the tenant at Microsoft
    MaxFaults,      \* bound: crashes and failed statements
    None

ASSUME InventoryAssumption ==
    /\ {MaxLoads, Concurrency, MaxSource, MaxFaults} \subseteq Nat
    /\ None \notin Nat \cup Kinds

VARIABLES
    source,     \* version of the tenant's data at Microsoft
    tenant,     \* the row of managed_tenants
    rows,       \* inventory_snapshots
    loads,      \* the runs of sync(); one not idle is the inflight entry of its kind
    queue,      \* the BullMQ entry sync_<tenant>_<kind>
    tick,       \* kinds the running tick found due, or None
    requests,
    faults

vars == <<source, tenant, rows, loads, queue, tick, requests, faults>>

Loads == 1..MaxLoads
First(l, set) == l \in set /\ \A x \in set : l <= x

NoRow == [status |-> "absent", payload |-> None, late |-> FALSE, stale |-> TRUE]
IdleLoad == [pc |-> "idle", kind |-> None, seen |-> None]
NoEntry == [at |-> "none", stalls |-> 0]
NewRequest == [pc |-> "idle", kind |-> None]

Init ==
    /\ source = 0
    /\ tenant = [active |-> TRUE, removal |-> "none"]
    /\ rows = [k \in Kinds |-> NoRow]
    /\ loads = [l \in Loads |-> IdleLoad]
    /\ queue = [k \in Kinds |-> NoEntry]
    /\ tick = None
    /\ requests = [r \in Requests |-> NewRequest]
    /\ faults = 0

-----------------------------------------------------------------------------
(* The snapshot rows; all writes are upserts *)

Put(k, row) == rows' = [rows EXCEPT ![k] = row]

MarkRunning(k) == Put(k, [rows[k] EXCEPT !.status = "running", !.late = FALSE])
Complete(k, v) == Put(k, [rows[k] EXCEPT !.status = "ready", !.payload = v, !.stale = FALSE])

\* The age of an error counts from the start of its run, so it may be due at once
Fail(k) == \E late \in {x \in BOOLEAN : rows[k].late => x} :
              Put(k, [rows[k] EXCEPT !.status = "error", !.late = late])

\* Mutant: a run that never ended is never due again
DueUnlessRunning(row) ==
    \/ row.status = "absent"
    \/ row.status = "error" /\ row.late
    \/ row.status = "ready" /\ row.stale

\* planSync
Due(row) ==
    \/ row.status = "absent"
    \/ row.status \in {"running", "error"} /\ row.late
    \/ row.status = "ready" /\ row.stale

\* A running row that is late is shown as an error
Shown(row) == IF row.status = "running" /\ row.late THEN "error" ELSE row.status

-----------------------------------------------------------------------------
(* BullMQ: an entry that exists, waiting or active, is not added again *)

Enqueued(kinds) ==
    [k \in Kinds |-> IF k \in kinds /\ queue[k].at = "none" THEN [NoEntry EXCEPT !.at = "waiting"] ELSE queue[k]]

-----------------------------------------------------------------------------
(* sync(): a call joins the load of its kind or begins one *)

LoadsOf(k) == {l \in Loads : loads[l].kind = k}
Begin(k) ==
    \E l \in Loads : /\ First(l, LoadsOf(None))
                     /\ loads' = [loads EXCEPT ![l] = [pc |-> "mark", kind |-> k, seen |-> None]]

\* Mutant: every call begins a load of its own
JoinNone(k) == Begin(k)

Join(k) == IF LoadsOf(k) = {} THEN Begin(k) ELSE UNCHANGED loads

\* The promise settles: it leaves the inflight map, the requests that await it
\* go on, and the job of the worker ends, whose entry goes in a step of its own
Settle(l, outcome) ==
    LET k == loads[l].kind
    IN  /\ loads' = [loads EXCEPT ![l] = IdleLoad]
        /\ requests' = [r \in Requests |->
               IF requests[r].pc = "wait" /\ requests[r].kind = k
               THEN [requests[r] EXCEPT !.pc = outcome] ELSE requests[r]]
        /\ queue' = IF queue[k].at = "active" THEN [queue EXCEPT ![k].at = "ended"] ELSE queue

Step(l, from, to) == loads[l].pc = from /\ loads' = [loads EXCEPT ![l].pc = to]
Stay == UNCHANGED <<source, tenant, tick, faults>>
Apart == UNCHANGED <<requests, queue>>

Mark(l) == Step(l, "mark", "ask") /\ MarkRunning(loads[l].kind) /\ Apart /\ Stay

\* The loader: its answer is the tenant's state at some moment of the load
Ask(l) ==
    /\ \/ loads[l].pc = "ask" /\ loads' = [loads EXCEPT ![l].pc = "store", ![l].seen = source]
       \/ Step(l, "ask", "fail")
    /\ UNCHANGED rows /\ Apart /\ Stay

Store(l) == Step(l, "store", "synced") /\ Complete(loads[l].kind, loads[l].seen) /\ Apart /\ Stay

\* onSynced may throw after the snapshot is stored
Synced(l) == (Step(l, "synced", "reread") \/ Step(l, "synced", "fail")) /\ UNCHANGED rows /\ Apart /\ Stay

Reread(l) ==
    /\ loads[l].pc = "reread"
    /\ IF rows[loads[l].kind].status = "absent" THEN Step(l, "reread", "fail") /\ Apart ELSE Settle(l, "done")
    /\ UNCHANGED rows /\ Stay

RecordError(l) == loads[l].pc = "fail" /\ Fail(loads[l].kind) /\ Settle(l, "failed") /\ Stay

\* A statement throws: before the try block or in the catch block the call fails
\* without a trace, inside it the error is recorded
LoadFails(l) ==
    /\ faults < MaxFaults /\ faults' = faults + 1
    /\ \/ loads[l].pc \in {"mark", "fail"} /\ Settle(l, "failed")
       \/ loads[l].pc \in {"store", "reread"} /\ Step(l, loads[l].pc, "fail") /\ Apart
    /\ UNCHANGED <<source, tenant, rows, tick>>

LoadStep(l) == Mark(l) \/ Ask(l) \/ Store(l) \/ Synced(l) \/ Reread(l) \/ RecordError(l)

-----------------------------------------------------------------------------
(* Requests of a tenant that is connected: tenantContextMiddleware, then a   *)
(* page that reads, a look-up of a device, or a manual refresh               *)

Go(r, pc) == requests' = [requests EXCEPT ![r].pc = pc]

Open(r) ==
    /\ requests[r].pc = "idle" /\ tenant.active
    /\ \E k \in Kinds, pc \in {"get", "find", "refresh"} :
          requests' = [requests EXCEPT ![r] = [pc |-> pc, kind |-> k]]
    /\ UNCHANGED <<rows, loads, queue>> /\ Stay

\* getOrLoad with a snapshot: a stale one is answered and refreshed behind the page
GetSnapshot(r) ==
    LET k == requests[r].kind
        row == rows[k]
    IN  /\ requests[r].pc \in {"get", "find"} /\ row.payload # None
        /\ queue' = IF row.stale /\ Shown(row) # "running" THEN Enqueued({k}) ELSE queue
        /\ Go(r, "done") \/ (requests[r].pc = "find" /\ Go(r, "sync"))
        /\ UNCHANGED <<rows, loads>> /\ Stay

GetNothing(r) ==
    LET k == requests[r].kind
    IN  /\ requests[r].pc \in {"get", "find"} /\ rows[k].payload = None
        /\ Go(r, "wait") /\ Join(k)
        /\ UNCHANGED <<rows, queue>> /\ Stay

\* findDevice: a device the snapshot does not know asks for one load
FindSync(r) == requests[r].pc = "sync" /\ Go(r, "wait") /\ Join(requests[r].kind) /\ UNCHANGED <<rows, queue>> /\ Stay

Refresh(r) ==
    /\ requests[r].pc = "refresh"
    /\ queue' = Enqueued({requests[r].kind})
    /\ Go(r, "accepted")
    /\ UNCHANGED <<rows, loads>> /\ Stay

RequestStep(r) == GetSnapshot(r) \/ GetNothing(r) \/ FindSync(r) \/ Refresh(r)

-----------------------------------------------------------------------------
(* The worker: ticks and sync jobs *)

\* Mutant: removed tenants are targets of the tick
TargetsAll == TRUE

\* listTargets, of a tenant that is connected
Targets == tenant.active

Tick ==
    /\ tick = None /\ Targets
    /\ tick' = {k \in Kinds : Due(rows[k])}
    /\ tick' # {}
    /\ UNCHANGED <<source, tenant, rows, loads, queue, requests, faults>>

TickEnqueue ==
    /\ tick # None
    /\ queue' = Enqueued(tick)
    /\ tick' = None
    /\ UNCHANGED <<source, tenant, rows, loads, requests, faults>>

Take(k) ==
    /\ queue[k].at = "waiting"
    /\ Cardinality({x \in Kinds : queue[x].at \in {"active", "ended"}}) < Concurrency
    /\ queue' = [queue EXCEPT ![k].at = "active"]
    /\ Join(k)
    /\ UNCHANGED <<rows, requests>> /\ Stay

\* removeOnComplete; a failed sync is no failed job
EntryEnds(k) ==
    /\ queue[k].at = "ended"
    /\ queue' = [queue EXCEPT ![k] = NoEntry]
    /\ UNCHANGED <<rows, loads, requests>> /\ Stay

\* The stall check: the first time the entry waits again, then it fails and is removed
Stalled(k) ==
    /\ queue[k].at = "orphan"
    /\ queue' = [queue EXCEPT ![k] = IF @.stalls = 0 THEN [at |-> "waiting", stalls |-> 1] ELSE NoEntry]
    /\ UNCHANGED <<rows, loads, requests>> /\ Stay

WorkerStep(k) == Take(k) \/ EntryEnds(k) \/ Stalled(k)

-----------------------------------------------------------------------------
(* The tenant, the clock and crashes *)

Change ==
    /\ source < MaxSource /\ source' = source + 1
    /\ UNCHANGED <<tenant, rows, loads, queue, tick, requests, faults>>

\* DELETE /tenants/:tenantId: two statements; it can be repeated
Remove ==
    /\ tenant.removal # "delete"
    /\ tenant' = [tenant EXCEPT !.active = FALSE, !.removal = "delete"]
    /\ UNCHANGED <<source, rows, loads, queue, tick, requests, faults>>

DeleteForTenant ==
    /\ tenant.removal = "delete"
    /\ tenant' = [tenant EXCEPT !.removal = "done"]
    /\ rows' = [k \in Kinds |-> NoRow]
    /\ UNCHANGED <<source, loads, queue, tick, requests, faults>>

\* RUNNING_STUCK_MS and ERROR_RETRY_MS since startedAt; the interval since syncedAt
GrowLate(k) == rows[k].status \in {"running", "error"} /\ ~rows[k].late /\ Put(k, [rows[k] EXCEPT !.late = TRUE])
GrowStale(k) == ~rows[k].stale /\ Put(k, [rows[k] EXCEPT !.stale = TRUE])
Age(k) == (GrowLate(k) \/ GrowStale(k)) /\ UNCHANGED <<source, tenant, loads, queue, tick, requests, faults>>

Crash ==
    /\ faults < MaxFaults /\ faults' = faults + 1
    /\ loads' = [l \in Loads |-> IdleLoad]
    /\ tick' = None
    /\ requests' = [r \in Requests |->
           IF requests[r].pc \in {"idle", "done", "accepted"} THEN requests[r] ELSE [requests[r] EXCEPT !.pc = "failed"]]
    /\ queue' = [k \in Kinds |-> IF queue[k].at \in {"active", "ended"} THEN [queue[k] EXCEPT !.at = "orphan"] ELSE queue[k]]
    /\ tenant' = [tenant EXCEPT !.removal = IF @ = "delete" THEN "lost" ELSE @]
    /\ UNCHANGED <<source, rows>>

Next ==
    \/ \E l \in Loads : LoadStep(l) \/ LoadFails(l)
    \/ \E r \in Requests : Open(r) \/ RequestStep(r)
    \/ \E k \in Kinds : WorkerStep(k) \/ Age(k)
    \/ Tick \/ TickEnqueue \/ Change \/ Remove \/ DeleteForTenant \/ Crash

Spec == Init /\ [][Next]_vars

\* The process works, its timers fire and Microsoft answers; users and faults owe nothing
FairSpec ==
    /\ Spec
    /\ WF_vars(Tick) /\ WF_vars(TickEnqueue)
    /\ \A l \in Loads : WF_vars(LoadStep(l))
    /\ \A r \in Requests : WF_vars(RequestStep(r))
    /\ \A k \in Kinds : WF_vars(WorkerStep(k)) /\ WF_vars(GrowLate(k) /\ Age(k))
=============================================================================
