--------------------- MODULE InventoryAndAlertingProofs ---------------------
(***************************************************************************)
(* The two services that a tick drives for each tenant.  The first part is *)
(* about the inventory sync, which implements SnapshotCache: "Types" is    *)
(* the shape of the state, "Single" the one load per kind that the map of  *)
(* loads under way is for, "Current" that neither a snapshot nor the       *)
(* answer about to be stored is of the future, nor the answer older than   *)
(* the snapshot it replaces.  The second part is about the alerts:         *)
(* "Telling" says what an evaluation has yet to tell of, "MadeByOne" that  *)
(* no two evaluations have made the same alert.                            *)
(***************************************************************************)
EXTENDS InventorySyncProps, AlertingProps, TLAPS

(* The inventory: shapes and the inductive invariant *)

RowType == [status : {"absent", "running", "ready", "error"}, payload : Nat \cup {None}, late : BOOLEAN, stale : BOOLEAN]
LoadType == [pc : {"idle", "mark", "ask", "store", "synced", "reread", "fail"}, kind : Kinds \cup {None}, seen : Nat \cup {None}]
RequestPcs == {"idle", "get", "find", "refresh", "sync", "wait", "accepted", "done", "failed"}
RequestType == [pc : RequestPcs, kind : Kinds \cup {None}]

RowsOK == source \in Nat /\ rows \in [Kinds -> RowType]
LoadsOK == loads \in [Loads -> LoadType]
RequestsOK == requests \in [Requests -> RequestType]
TenantOK == tenant \in [active : BOOLEAN, removal : {"none", "delete", "done", "lost"}]

Types == RowsOK /\ LoadsOK /\ RequestsOK /\ TenantOK

Named == \A l \in Loads : loads[l].pc = "idle" <=> loads[l].kind = None
Asked == \A r \in Requests : requests[r].pc # "idle" => requests[r].kind \in Kinds
Single == \A l, m \in Loads : loads[l].kind = loads[m].kind /\ loads[l].kind # None => l = m
Current ==
    /\ \A k \in Kinds : rows[k].payload # None => rows[k].payload <= source
    /\ \A l \in Loads : loads[l].pc = "store" =>
          /\ loads[l].seen \in 0..source
          /\ rows[loads[l].kind].payload # None => loads[l].seen >= rows[loads[l].kind].payload
Removed == tenant.removal # "none" => ~tenant.active

Inv == Types /\ Named /\ Asked /\ Single /\ Current /\ Removed

\* No load comes to its answer in this step
Unanswered == \A l \in Loads : loads'[l].pc = "store" => loads'[l] = loads[l]
LoadsGood == LoadsOK /\ Named /\ Single

-----------------------------------------------------------------------------
(* What the steps do to the loads *)

LEMMA LoadIs ==
  ASSUME Inv, NEW l \in Loads
  PROVE  /\ loads[l] \in LoadType /\ loads \in [Loads -> LoadType]
         /\ loads[l].pc # "idle" => loads[l].kind \in Kinds
  BY DEF Inv, Types, LoadsOK, Named, LoadType

LEMMA BeginIs == ASSUME Inv, NEW k \in Kinds, LoadsOf(k) = {}, Begin(k) PROVE LoadsGood' /\ Unanswered
<1> DEFINE new == [pc |-> "mark", kind |-> k, seen |-> None]
<1>1. PICK l \in Loads : loads' = [loads EXCEPT ![l] = new]
  BY DEF Begin
<1>2. new \in LoadType /\ new.pc = "mark" /\ new.kind = k
  BY DEF LoadType
<1> HIDE DEF new
<1>3. /\ loads' \in [Loads -> LoadType] /\ loads'[l] = new /\ \A m \in Loads \ {l} : loads'[m] = loads[m]
  BY <1>1, <1>2 DEF Inv, Types, LoadsOK
<1>4. k # None /\ \A m \in Loads : loads[m].kind # k
  BY InventoryAssumption DEF LoadsOf
<1>5. Named'
  BY <1>2, <1>3, <1>4 DEF Inv, Named
<1>6. Single'
  BY <1>2, <1>3, <1>4 DEF Inv, Single
<1>7. Unanswered
  BY <1>2, <1>3 DEF Unanswered
<1> QED BY <1>3, <1>5, <1>6, <1>7 DEF LoadsGood, LoadsOK

LEMMA SameLoads == ASSUME Inv, UNCHANGED loads PROVE LoadsGood' /\ Unanswered
  BY DEF Inv, Types, LoadsGood, LoadsOK, Named, Single, Unanswered

LEMMA JoinIs == ASSUME Inv, NEW k \in Kinds, Join(k) PROVE LoadsGood' /\ Unanswered
<1>1. CASE LoadsOf(k) = {}
  BY <1>1, BeginIs DEF Join
<1>2. CASE LoadsOf(k) # {}
  BY <1>2, SameLoads DEF Join
<1> QED BY <1>1, <1>2

\* A load that stays one of its kind
LEMMA LoadWritten ==
  ASSUME Inv, NEW l \in Loads, NEW x \in LoadType, loads' = [loads EXCEPT ![l] = x],
         (x.kind = loads[l].kind /\ loads[l].pc # "idle" /\ x.pc # "idle") \/ x = IdleLoad
  PROVE  LoadsGood' /\ loads'[l] = x /\ \A m \in Loads \ {l} : loads'[m] = loads[m]
<1>1. loads' \in [Loads -> LoadType] /\ loads'[l] = x /\ \A m \in Loads \ {l} : loads'[m] = loads[m]
  BY DEF Inv, Types, LoadsOK
<1>2. x.kind = loads[l].kind \/ x.kind = None
  BY DEF IdleLoad
<1>3. Named'
  BY <1>1 DEF Inv, Named, IdleLoad
<1>4. Single'
  BY <1>1, <1>2 DEF Inv, Single
<1> QED BY <1>1, <1>3, <1>4 DEF LoadsGood, LoadsOK

Running == {"mark", "ask", "synced", "reread", "fail"}

LEMMA StepIs ==
  ASSUME Inv, NEW l \in Loads, NEW from, from # "idle", NEW to \in Running, Step(l, from, to)
  PROVE  LoadsGood' /\ Unanswered
<1> DEFINE x == [loads[l] EXCEPT !.pc = to]
<1>1. loads[l] \in LoadType /\ loads[l].pc # "idle"
  BY LoadIs DEF Step
<1>2. x \in LoadType /\ x.pc = to /\ x.kind = loads[l].kind
  BY <1>1 DEF LoadType, Running
<1>3. loads' = [loads EXCEPT ![l] = x]
  BY DEF Step
<1> HIDE DEF x
<1>4. LoadsGood' /\ loads'[l] = x /\ \A m \in Loads \ {l} : loads'[m] = loads[m]
  BY <1>1, <1>2, <1>3, LoadWritten DEF Running
<1> QED BY <1>2, <1>4 DEF Unanswered, Running

LEMMA SettleIs ==
  ASSUME Inv, NEW l \in Loads, NEW outcome \in {"done", "failed"}, Settle(l, outcome)
  PROVE  LoadsGood' /\ Unanswered /\ RequestsOK' /\ Asked'
<1>1. loads' = [loads EXCEPT ![l] = IdleLoad] /\ IdleLoad \in LoadType /\ IdleLoad.pc = "idle"
  BY DEF Settle, IdleLoad, LoadType
<1>2. LoadsGood' /\ Unanswered
  <2>1. LoadsGood' /\ loads'[l] = IdleLoad /\ \A m \in Loads \ {l} : loads'[m] = loads[m]
    BY <1>1, LoadWritten
  <2> QED BY <1>1, <2>1 DEF Unanswered
<1>3. \A r \in Requests : [requests[r] EXCEPT !.pc = outcome] \in RequestType /\ [requests[r] EXCEPT !.pc = outcome].kind = requests[r].kind
  BY DEF Inv, Types, RequestsOK, RequestType, RequestPcs
<1>4. RequestsOK' /\ Asked'
  BY <1>3 DEF Settle, Inv, Types, RequestsOK, Asked
<1> QED BY <1>2, <1>4

-----------------------------------------------------------------------------
(* Every step is one of SnapshotCache, or changes nothing it shows *)

Snap == [k \in Kinds |-> rows[k].payload]
Shows == <<source, Snap, tenant.active>>
Implements == [Cache!Next]_Shows

LEMMA RowIs == ASSUME Inv, NEW k \in Kinds PROVE rows[k] \in RowType /\ rows \in [Kinds -> RowType]
  BY DEF Inv, Types, RowsOK

LEMMA RequestsStay == ASSUME Inv, UNCHANGED requests PROVE RequestsOK' /\ Asked'
  BY DEF Inv, Types, RequestsOK, Asked

\* A step that neither stores nor removes a snapshot
LEMMA Hidden ==
  ASSUME Inv, LoadsGood', Unanswered, RequestsOK', Asked', UNCHANGED <<source, tenant>>,
         rows' \in [Kinds -> RowType], \A k \in Kinds : rows'[k].payload = rows[k].payload
  PROVE  Inv' /\ Implements
<1>1. Types' /\ Named' /\ Single' /\ Removed'
  BY DEF LoadsGood, Inv, Types, RowsOK, TenantOK, Removed
<1>2. Current'
  <2>1. \A l \in Loads : loads'[l].pc = "store" => loads'[l] = loads[l] /\ loads[l].kind \in Kinds
    BY LoadIs DEF Unanswered
  <2> QED BY <2>1 DEF Inv, Current
<1>3. Snap' = Snap
  BY DEF Snap
<1> QED BY <1>1, <1>2, <1>3 DEF Inv, Implements, Shows

\* A row that is written with the snapshot it has
LEMMA RowWritten ==
  ASSUME Inv, NEW k \in Kinds, NEW row \in RowType, row.payload = rows[k].payload, Put(k, row)
  PROVE  rows' \in [Kinds -> RowType] /\ \A x \in Kinds : rows'[x].payload = rows[x].payload
<1>1. rows' = [rows EXCEPT ![k] = row] /\ rows \in [Kinds -> RowType]
  BY RowIs DEF Put
<1> QED BY <1>1

LEMMA RowsStay ==
  ASSUME Inv, UNCHANGED rows
  PROVE  rows' \in [Kinds -> RowType] /\ \A x \in Kinds : rows'[x].payload = rows[x].payload
  BY DEF Inv, Types, RowsOK

LEMMA MarkKeeps == ASSUME Inv, NEW l \in Loads, Mark(l) PROVE Inv' /\ Implements
<1>1. LoadsGood' /\ Unanswered /\ loads[l].kind \in Kinds
  BY StepIs, LoadIs DEF Mark, Step, Running
<1>2. rows' \in [Kinds -> RowType] /\ \A x \in Kinds : rows'[x].payload = rows[x].payload
  <2> DEFINE row == [rows[loads[l].kind] EXCEPT !.status = "running", !.late = FALSE]
  <2>1. row \in RowType /\ row.payload = rows[loads[l].kind].payload
    BY <1>1, RowIs DEF RowType
  <2>2. Put(loads[l].kind, row)
    BY DEF Mark, MarkRunning
  <2> HIDE DEF row
  <2> QED BY <1>1, <2>1, <2>2, RowWritten
<1> QED BY <1>1, <1>2, Hidden, RequestsStay DEF Mark, Apart, Stay

LEMMA AskKeeps == ASSUME Inv, NEW l \in Loads, Ask(l) PROVE Inv' /\ Implements
<1>1. CASE Step(l, "ask", "fail")
  <2>1. LoadsGood' /\ Unanswered
    BY <1>1, StepIs DEF Running
  <2> QED BY <2>1, RowsStay, Hidden, RequestsStay DEF Ask, Apart, Stay
<1>2. CASE loads[l].pc = "ask" /\ loads' = [loads EXCEPT ![l].pc = "store", ![l].seen = source]
  <2> DEFINE x == [loads[l] EXCEPT !.pc = "store", !.seen = source]
  <2>1. loads[l] \in LoadType /\ source \in Nat /\ loads[l].kind \in Kinds
    BY <1>2, LoadIs DEF Inv, Types, RowsOK
  <2>2. x \in LoadType /\ x.pc = "store" /\ x.kind = loads[l].kind /\ x.seen = source
    BY <2>1 DEF LoadType
  <2>3. loads' = [loads EXCEPT ![l] = x]
    BY <1>2, LoadIs DEF LoadType
  <2> HIDE DEF x
  <2>4. LoadsGood' /\ loads'[l] = x /\ \A m \in Loads \ {l} : loads'[m] = loads[m]
    BY <1>2, <2>2, <2>3, LoadWritten
  <2>5. Types' /\ Named' /\ Single' /\ Removed' /\ Asked'
    BY <2>4, RowsStay, RequestsStay DEF LoadsGood, Inv, Types, RowsOK, TenantOK, Removed, Ask, Apart, Stay
  <2>6. UNCHANGED <<rows, source>>
    BY DEF Ask, Stay
  <2>7. rows[x.kind].payload # None => rows[x.kind].payload <= source
    BY <2>1, <2>2 DEF Inv, Current
  <2>8. Current'
    BY <2>1, <2>2, <2>4, <2>6, <2>7 DEF Inv, Current
  <2> QED BY <2>5, <2>8 DEF Inv, Implements, Shows, Snap, Ask, Stay
<1> QED BY <1>1, <1>2 DEF Ask

\* The one step that puts another snapshot in place
LEMMA StoreKeeps == ASSUME Inv, NEW l \in Loads, Store(l) PROVE Inv' /\ Implements
<1>1. LoadsGood' /\ Unanswered /\ loads[l].pc = "store" /\ UNCHANGED <<source, tenant, requests>>
  BY StepIs DEF Store, Step, Running, Stay, Apart
<1>2. PICK k \in Kinds : k = loads[l].kind
  BY <1>1, LoadIs
<1>3. PICK v \in Nat : v = loads[l].seen /\ v \in 0..source /\ (rows[k].payload # None => v >= rows[k].payload)
  <2>1. loads[l].seen \in 0..source /\ source \in Nat
    BY <1>1 DEF Inv, Current, Types, RowsOK
  <2> QED BY <1>1, <1>2, <2>1 DEF Inv, Current
<1> DEFINE row == [rows[k] EXCEPT !.status = "ready", !.payload = v, !.stale = FALSE]
<1>4. row \in RowType /\ row.payload = v
  BY RowIs DEF RowType
<1>5. rows' = [rows EXCEPT ![k] = row]
  BY <1>2, <1>3 DEF Store, Complete, Put
<1> HIDE DEF row
<1>6. rows' \in [Kinds -> RowType] /\ rows'[k].payload = v /\ \A x \in Kinds \ {k} : rows'[x] = rows[x]
  BY <1>4, <1>5, RowIs
<1>7. Types' /\ Named' /\ Single' /\ Removed' /\ Asked'
  BY <1>1, <1>6, RequestsStay DEF LoadsGood, Inv, Types, RowsOK, TenantOK, Removed
<1>8. Current'
  <2>1. \A m \in Loads : loads'[m].pc = "store" => loads'[m] = loads[m] /\ loads[m].kind \in Kinds /\ loads[m].kind # k
    <3>1. loads'[l].pc # "store"
      BY LoadIs DEF Store, Step, LoadType
    <3>2. \A m \in Loads : m # l => loads[m].kind # k
      BY <1>2, InventoryAssumption DEF Inv, Single
    <3> QED BY <1>1, <3>1, <3>2, LoadIs DEF Unanswered
  <2> QED BY <1>1, <1>3, <1>6, <2>1 DEF Inv, Current, Types, RowsOK
<1>9. \E x \in Kinds : Cache!Publish(x)
  <2>1. Snap' = [Snap EXCEPT ![k] = v] /\ Snap[k] = rows[k].payload
    BY <1>6 DEF Snap
  <2>2. Cache!Publish(k)
    BY <1>1, <1>3, <2>1 DEF Cache!Publish, Snap
  <2> QED BY <2>2
<1>10. Cache!Next
  BY <1>9 DEF Cache!Next
<1> QED BY <1>7, <1>8, <1>10 DEF Inv, Implements

LEMMA SyncedKeeps == ASSUME Inv, NEW l \in Loads, Synced(l) PROVE Inv' /\ Implements
<1>1. LoadsGood' /\ Unanswered
  BY StepIs DEF Synced, Running
<1> QED BY <1>1, RowsStay, Hidden, RequestsStay DEF Synced, Apart, Stay

LEMMA RereadKeeps == ASSUME Inv, NEW l \in Loads, Reread(l) PROVE Inv' /\ Implements
<1>1. CASE Settle(l, "done")
  BY <1>1, SettleIs, RowsStay, Hidden DEF Reread, Stay
<1>2. CASE Step(l, "reread", "fail") /\ Apart
  <2>1. LoadsGood' /\ Unanswered
    BY <1>2, StepIs DEF Running
  <2> QED BY <1>2, <2>1, RowsStay, Hidden, RequestsStay DEF Reread, Apart, Stay
<1> QED BY <1>1, <1>2 DEF Reread

LEMMA RecordErrorKeeps == ASSUME Inv, NEW l \in Loads, RecordError(l) PROVE Inv' /\ Implements
<1>1. loads[l].kind \in Kinds
  BY LoadIs DEF RecordError
<1>2. rows' \in [Kinds -> RowType] /\ \A x \in Kinds : rows'[x].payload = rows[x].payload
  <2>1. PICK late \in BOOLEAN : Put(loads[l].kind, [rows[loads[l].kind] EXCEPT !.status = "error", !.late = late])
    BY DEF RecordError, Fail
  <2> DEFINE row == [rows[loads[l].kind] EXCEPT !.status = "error", !.late = late]
  <2>2. row \in RowType /\ row.payload = rows[loads[l].kind].payload
    BY <1>1, RowIs DEF RowType
  <2> HIDE DEF row
  <2> QED BY <1>1, <2>1, <2>2, RowWritten DEF row
<1> QED BY <1>2, SettleIs, Hidden DEF RecordError, Stay

LEMMA LoadFailsKeeps == ASSUME Inv, NEW l \in Loads, LoadFails(l) PROVE Inv' /\ Implements
<1>1. CASE Settle(l, "failed")
  BY <1>1, SettleIs, RowsStay, Hidden DEF LoadFails
<1>2. CASE loads[l].pc \in {"store", "reread"} /\ Step(l, loads[l].pc, "fail") /\ Apart
  <2>1. LoadsGood' /\ Unanswered
    BY <1>2, StepIs DEF Running
  <2> QED BY <1>2, <2>1, RowsStay, Hidden, RequestsStay DEF LoadFails, Apart
<1> QED BY <1>1, <1>2 DEF LoadFails

-----------------------------------------------------------------------------
(* Requests, the worker, the tenant and crashes *)

LEMMA RequestIs ==
  ASSUME Inv, NEW r \in Requests, requests[r].pc # "idle"
  PROVE  requests[r] \in RequestType /\ requests \in [Requests -> RequestType] /\ requests[r].kind \in Kinds
  BY DEF Inv, Types, RequestsOK, Asked

LEMMA GoIs == ASSUME Inv, NEW r \in Requests, requests[r].pc # "idle", NEW pc \in RequestPcs, Go(r, pc) PROVE RequestsOK' /\ Asked'
<1> DEFINE x == [requests[r] EXCEPT !.pc = pc]
<1>1. x \in RequestType /\ x.kind = requests[r].kind
  BY RequestIs DEF RequestType
<1>2. requests' = [requests EXCEPT ![r] = x]
  BY DEF Go
<1> HIDE DEF x
<1>3. requests' \in [Requests -> RequestType] /\ requests'[r] = x /\ \A q \in Requests \ {r} : requests'[q] = requests[q]
  BY <1>1, <1>2, RequestIs
<1> QED BY <1>1, <1>3, RequestIs DEF Inv, RequestsOK, Asked

LEMMA RequestKeeps == ASSUME Inv, NEW r \in Requests, Open(r) \/ RequestStep(r) PROVE Inv' /\ Implements
<1>1. CASE Open(r)
  <2>1. PICK k \in Kinds, pc \in {"get", "find", "refresh"} : requests' = [requests EXCEPT ![r] = [pc |-> pc, kind |-> k]]
    BY <1>1 DEF Open
  <2> DEFINE x == [pc |-> pc, kind |-> k]
  <2>2. x \in RequestType /\ x.kind \in Kinds
    BY DEF RequestType, RequestPcs
  <2> HIDE DEF x
  <2>3. requests' \in [Requests -> RequestType] /\ requests'[r] = x /\ \A q \in Requests \ {r} : requests'[q] = requests[q]
    BY <2>1, <2>2 DEF Inv, Types, RequestsOK, x
  <2>4. RequestsOK' /\ Asked'
    BY <2>2, <2>3 DEF Inv, RequestsOK, Asked
  <2> QED BY <1>1, <2>4, SameLoads, RowsStay, Hidden DEF Open, Stay
<1>2. CASE GetSnapshot(r)
  <2>1. RequestsOK' /\ Asked'
    <3>1. requests[r].pc # "idle" /\ (Go(r, "done") \/ Go(r, "sync"))
      BY <1>2 DEF GetSnapshot
    <3> QED BY <3>1, GoIs DEF RequestPcs
  <2> QED BY <1>2, <2>1, SameLoads, RowsStay, Hidden DEF GetSnapshot, Stay
<1>3. CASE GetNothing(r) \/ FindSync(r)
  <2>1. requests[r].pc # "idle" /\ Go(r, "wait") /\ Join(requests[r].kind)
    BY <1>3 DEF GetNothing, FindSync
  <2>2. RequestsOK' /\ Asked' /\ LoadsGood' /\ Unanswered
    BY <2>1, GoIs, JoinIs, RequestIs DEF RequestPcs
  <2> QED BY <1>3, <2>2, RowsStay, Hidden DEF GetNothing, FindSync, Stay
<1>4. CASE Refresh(r)
  <2>1. RequestsOK' /\ Asked'
    BY <1>4, GoIs DEF Refresh, RequestPcs
  <2> QED BY <1>4, <2>1, SameLoads, RowsStay, Hidden DEF Refresh, Stay
<1> QED BY <1>1, <1>2, <1>3, <1>4 DEF RequestStep

LEMMA WorkerKeeps ==
  ASSUME Inv, (\E k \in Kinds : WorkerStep(k)) \/ Tick \/ TickEnqueue \/ UNCHANGED vars PROVE Inv' /\ Implements
<1>1. UNCHANGED <<source, tenant, rows, requests>>
  BY DEF WorkerStep, Take, EntryEnds, Stalled, Tick, TickEnqueue, Stay, vars
<1>2. LoadsGood' /\ Unanswered
  <2>1. (\E k \in Kinds : Join(k)) \/ UNCHANGED loads
    BY DEF WorkerStep, Take, EntryEnds, Stalled, Tick, TickEnqueue, vars
  <2> QED BY <2>1, JoinIs, SameLoads
<1> QED BY <1>1, <1>2, RowsStay, RequestsStay, Hidden

LEMMA AgeKeeps == ASSUME Inv, NEW k \in Kinds, Age(k) PROVE Inv' /\ Implements
<1>1. PICK row \in RowType : row.payload = rows[k].payload /\ Put(k, row)
  <2>1. [rows[k] EXCEPT !.late = TRUE] \in RowType /\ [rows[k] EXCEPT !.late = TRUE].payload = rows[k].payload
    BY RowIs DEF RowType
  <2>2. [rows[k] EXCEPT !.stale = TRUE] \in RowType /\ [rows[k] EXCEPT !.stale = TRUE].payload = rows[k].payload
    BY RowIs DEF RowType
  <2> QED BY <2>1, <2>2 DEF Age, GrowLate, GrowStale
<1>2. rows' \in [Kinds -> RowType] /\ \A x \in Kinds : rows'[x].payload = rows[x].payload
  BY <1>1, RowWritten
<1> QED BY <1>2, SameLoads, RequestsStay, Hidden DEF Age

LEMMA ChangeKeeps == ASSUME Inv, Change PROVE Inv' /\ Implements
<1>1. source \in Nat /\ source' = source + 1 /\ UNCHANGED <<tenant, rows, loads, requests>>
  BY DEF Change, Inv, Types, RowsOK
<1>2. Types' /\ Named' /\ Asked' /\ Single' /\ Removed'
  BY <1>1 DEF Inv, Types, RowsOK, LoadsOK, RequestsOK, TenantOK, Named, Asked, Single, Removed
<1>3. Current'
  <2>1. \A k \in Kinds : rows[k].payload # None => rows[k].payload \in Nat
    BY RowIs DEF RowType
  <2> QED BY <1>1, <2>1 DEF Inv, Current
<1>4. Cache!Change
  BY <1>1 DEF Cache!Change
<1> QED BY <1>2, <1>3, <1>4 DEF Inv, Implements, Cache!Next

LEMMA RemoveKeeps == ASSUME Inv, Remove PROVE Inv' /\ Implements
<1>1. /\ tenant' = [tenant EXCEPT !.active = FALSE, !.removal = "delete"]
      /\ UNCHANGED <<source, rows, loads, requests>>
  BY DEF Remove
<1>2. TenantOK' /\ tenant'.active = FALSE
  BY <1>1 DEF Inv, Types, TenantOK
<1>3. Inv'
  BY <1>1, <1>2 DEF Inv, Types, RowsOK, LoadsOK, RequestsOK, Named, Asked, Single, Current, Removed
<1>4. Cache!Remove
  BY <1>1, <1>2 DEF Cache!Remove
<1> QED BY <1>3, <1>4 DEF Implements, Cache!Next

LEMMA DeleteForTenantKeeps == ASSUME Inv, DeleteForTenant PROVE Inv' /\ Implements
<1>1. /\ tenant.removal = "delete" /\ tenant' = [tenant EXCEPT !.removal = "done"]
      /\ rows' = [k \in Kinds |-> NoRow] /\ UNCHANGED <<source, loads, requests>>
  BY DEF DeleteForTenant
<1>2. TenantOK' /\ tenant'.active = tenant.active /\ ~tenant.active
  BY <1>1 DEF Inv, Types, TenantOK, Removed
<1>3. NoRow \in RowType /\ NoRow.payload = None
  BY DEF NoRow, RowType
<1>4. Inv'
  <2>1. Types' /\ Named' /\ Asked' /\ Single' /\ Removed'
    BY <1>1, <1>2, <1>3 DEF Inv, Types, RowsOK, LoadsOK, RequestsOK, Named, Asked, Single, Removed
  <2>2. Current'
    BY <1>1, <1>3, LoadIs DEF Inv, Current
  <2> QED BY <2>1, <2>2 DEF Inv
<1>5. Cache!Clear
  BY <1>1, <1>2, <1>3 DEF Cache!Clear
<1> QED BY <1>4, <1>5 DEF Implements, Cache!Next

LEMMA CrashKeeps == ASSUME Inv, Crash PROVE Inv' /\ Implements
<1>1. loads' = [l \in Loads |-> IdleLoad] /\ UNCHANGED <<source, rows>>
  BY DEF Crash
<1>2. IdleLoad \in LoadType /\ IdleLoad.pc = "idle" /\ IdleLoad.kind = None
  BY DEF IdleLoad, LoadType
<1>3. LoadsOK' /\ Named' /\ Single' /\ Current'
  BY <1>1, <1>2 DEF LoadsOK, Named, Single, Current, Inv
<1>4. RequestsOK' /\ Asked'
  <2>1. \A r \in Requests : /\ [requests[r] EXCEPT !.pc = "failed"] \in RequestType
                            /\ [requests[r] EXCEPT !.pc = "failed"].kind = requests[r].kind
    BY DEF Inv, Types, RequestsOK, RequestType, RequestPcs
  <2> QED BY <2>1 DEF Crash, Inv, Types, RequestsOK, Asked
<1>5. TenantOK' /\ tenant'.active = tenant.active /\ Removed'
  BY DEF Crash, Inv, Types, TenantOK, Removed
<1> QED BY <1>1, <1>3, <1>4, <1>5 DEF Inv, Types, RowsOK, Implements, Shows, Snap

-----------------------------------------------------------------------------

LEMMA InvInit == Init => Inv /\ Cache!Init
<1> SUFFICES ASSUME Init PROVE Inv /\ Cache!Init
  OBVIOUS
<1>1. NoRow \in RowType /\ NoRow.payload = None /\ IdleLoad \in LoadType /\ NewRequest \in RequestType
  BY DEF NoRow, RowType, IdleLoad, LoadType, NewRequest, RequestType, RequestPcs
<1>2. Types
  BY <1>1 DEF Init, Types, RowsOK, LoadsOK, RequestsOK, TenantOK
<1>3. Named /\ Asked /\ Single /\ Current /\ Removed
  BY <1>1 DEF Init, Named, Asked, Single, Current, Removed, IdleLoad, NewRequest
<1>4. Cache!Init
  BY <1>1 DEF Init, Cache!Init
<1> QED BY <1>2, <1>3, <1>4 DEF Inv

LEMMA InvNext == Inv /\ [Next]_vars => Inv' /\ Implements
<1> SUFFICES ASSUME Inv, [Next]_vars PROVE Inv' /\ Implements
  OBVIOUS
<1>1. ASSUME NEW l \in Loads, LoadStep(l) \/ LoadFails(l) PROVE Inv' /\ Implements
  BY <1>1, MarkKeeps, AskKeeps, StoreKeeps, SyncedKeeps, RereadKeeps, RecordErrorKeeps, LoadFailsKeeps DEF LoadStep
<1>2. CASE (\E k \in Kinds : WorkerStep(k)) \/ Tick \/ TickEnqueue \/ UNCHANGED vars
  BY <1>2, WorkerKeeps
<1>3. CASE Change \/ Remove \/ DeleteForTenant \/ Crash
  BY <1>3, ChangeKeeps, RemoveKeeps, DeleteForTenantKeeps, CrashKeeps
<1> QED BY <1>1, <1>2, <1>3, RequestKeeps, AgeKeeps DEF Next

\* snapshot-store.ts:5: whatever fails, is repeated or is cut off, the snapshots are states the tenant
\* had, are never replaced by an older one and go only with the tenant: the sync implements SnapshotCache.
THEOREM SyncImplementsCache == Spec => IsSnapshotCache
<1>1. Init => Inv /\ Cache!Init
  BY InvInit
<1>2. Inv /\ [Next]_vars => Inv' /\ [Cache!Next]_<<source, [k \in Kinds |-> rows[k].payload], tenant.active>>
  BY InvNext DEF Implements, Shows, Snap
<1> QED BY <1>1, <1>2, PTL DEF Spec, IsSnapshotCache, Cache!Spec

-----------------------------------------------------------------------------
(* The alerts: what an evaluation and a row look like *)

EvalFields == {"pc", "phase", "todo", "finding", "seen", "created", "tries", "told"}
AlertFields == {"status", "first", "last", "count", "notified", "mails", "lost", "tellers"}
IsEval(x) == x = [k \in EvalFields |-> x[k]]
IsAlert(r) == r = [k \in AlertFields |-> r[k]]

\* Every mail but one has lost its answer
Counted(r) ==
    /\ {r.mails, r.lost, r.tellers} \subseteq Nat
    /\ r.lost <= r.mails /\ r.mails <= r.lost + 1 /\ r.mails <= Attempts /\ r.tellers <= 1

Answered(r) == r.mails = r.lost + 1
Untold(r) == r.tellers = 0

\* An alert is marked only after the mail that was answered
RowOK(r) == IsAlert(r) /\ Counted(r) /\ r.notified \in BOOLEAN /\ (r.notified => Answered(r))
AlertsOK == \A p \in DOMAIN alerts : RowOK(alerts[p])

Waits(x, r) == r.mails = r.lost /\ r.lost <= x.tries
Tries(x) == x.tries \in Nat /\ x.tries < Attempts
Fresh(x) == x.tries = 0

\* How far x has told of an alert that it has made
ToldOf(x, r) ==
    /\ r.notified = FALSE
    /\ IF x.pc = "stamp" THEN Answered(r) ELSE Waits(x, r) /\ (x.told = FALSE => Untold(r))

\* What x has made is stored, and the mail is sent when nothing is left to be stored
Telling(x) ==
    /\ IsEval(x) /\ x.pc \in {"idle", "next", "store", "write", "stamp"}
    /\ x.created \subseteq DOMAIN alerts
    /\ x.pc \in {"idle", "next"} => x.created = {}
    /\ Tries(x) /\ x.told \in BOOLEAN
    /\ Fresh(x) => x.told = FALSE
    /\ ~Fresh(x) => x.todo = {} /\ x.pc # "write"
    /\ \A p \in x.created : ToldOf(x, alerts[p])

\* An alert is made by one evaluation
MadeByOne == \A d, e \in Evaluators : d # e => evals[d].created \cap evals[e].created = {}

AlertInv ==
    /\ AlertsOK
    /\ DOMAIN evals = Evaluators /\ evals = [e \in Evaluators |-> evals[e]]
    /\ \A e \in Evaluators : Telling(evals[e])
    /\ MadeByOne

-----------------------------------------------------------------------------

LEMMA AttemptsAreSome == Attempts \in Nat /\ 0 < Attempts
  BY AlertingAssumption

\* Who has sent nothing yet
LEMMA FreshTells ==
  ASSUME NEW x, IsEval(x), x.pc \in {"idle", "next", "store", "write", "stamp"}, x.created = {}, x.tries = 0, x.told = FALSE
  PROVE  Telling(x)
<1>1. Tries(x) /\ Fresh(x)
  BY AttemptsAreSome DEF Tries, Fresh
<1> QED BY <1>1 DEF Telling

LEMMA IdleTells == IsEval(Idle) /\ Telling(Idle) /\ Idle.created = {} /\ Idle.tries = 0 /\ Idle.told = FALSE
<1> DEFINE x == Idle
<1>1. IsEval(x) /\ x.pc = "idle" /\ x.created = {} /\ x.tries = 0 /\ x.told = FALSE
  BY DEF Idle, IsEval, EvalFields
<1> HIDE DEF x
<1>2. Telling(x)
  BY <1>1, FreshTells
<1> QED BY <1>1, <1>2 DEF x

LEMMA AlertInvInit == AlertingInit => AlertInv
<1> SUFFICES ASSUME AlertingInit PROVE AlertInv
  OBVIOUS
<1>1. DOMAIN alerts = {} /\ evals = [e \in Evaluators |-> Idle]
  BY DEF AlertingInit, NoRows
<1> QED BY <1>1, IdleTells DEF AlertInv, AlertsOK, MadeByOne

\* The step of one evaluator that leaves the table alone and makes nothing
LEMMA EvaluatorMoves ==
  ASSUME AlertInv, NEW e \in Evaluators, NEW x, Telling(x), x.created \subseteq evals[e].created,
         evals' = [evals EXCEPT ![e] = x], UNCHANGED alerts
  PROVE  AlertInv'
<1>1. evals'[e] = x /\ \A d \in Evaluators \ {e} : evals'[d] = evals[d]
  BY DEF AlertInv
<1>2. \A d \in Evaluators : evals'[d].created \subseteq evals[d].created /\ Telling(evals'[d])
  BY <1>1 DEF AlertInv
<1>3. \A d \in Evaluators : Telling(evals[d])'
  BY <1>2 DEF Telling
<1>4. AlertsOK'
  BY DEF AlertInv, AlertsOK
<1>5. MadeByOne'
  BY <1>2 DEF AlertInv, MadeByOne
<1> QED BY <1>3, <1>4, <1>5 DEF AlertInv

LEMMA BothTell == ASSUME AlertInv, NEW e \in Evaluators PROVE Telling(After(e)) /\ After(e).created = {}
<1> DEFINE x == After(e)
<1>1. IsEval(x) /\ x.pc \in {"idle", "next"} /\ x.created = {} /\ x.tries = 0 /\ x.told = FALSE
  BY DEF After, Idle, IsEval, EvalFields
<1> HIDE DEF x
<1>2. Telling(x)
  BY <1>1, FreshTells
<1> QED BY <1>1, <1>2 DEF x

\* An evaluation that begins has made nothing
LEMMA EvaluateKeeps == ASSUME AlertInv, NEW e \in Evaluators, Evaluate(e) \/ BeginOperational(e) PROVE AlertInv'
<1>1. CASE Evaluate(e)
  <2>1. PICK page \in Pages(Recent) :
          evals' = [evals EXCEPT ![e] = [Idle EXCEPT !.pc = "store", !.phase = "signIns", !.todo = Findings(page)]]
    BY <1>1 DEF Evaluate, Becomes
  <2> DEFINE todo == Findings(page)
             x == [Idle EXCEPT !.pc = "store", !.phase = "signIns", !.todo = todo]
  <2>2. evals' = [evals EXCEPT ![e] = x] /\ UNCHANGED alerts
    BY <1>1, <2>1 DEF Evaluate
  <2> HIDE DEF todo
  <2>3. Telling(x) /\ x.created = {}
    <3>1. IsEval(x) /\ x.pc = "store" /\ x.created = {} /\ x.tries = 0 /\ x.told = FALSE
      BY IdleTells DEF IsEval, EvalFields, Idle
    <3> HIDE DEF x
    <3> QED BY <3>1, FreshTells
  <2> HIDE DEF x
  <2> QED BY <2>2, <2>3, EvaluatorMoves
<1>2. CASE BeginOperational(e)
  <2> DEFINE todo == OperationalFindings
             x == [Idle EXCEPT !.pc = "store", !.phase = "operational", !.todo = todo]
  <2>1. UNCHANGED alerts /\ (evals' = [evals EXCEPT ![e] = x] \/ evals' = [evals EXCEPT ![e] = Idle])
    BY <1>2 DEF BeginOperational, Becomes
  <2> HIDE DEF todo
  <2>2. Telling(x) /\ x.created = {}
    <3>1. IsEval(x) /\ x.pc = "store" /\ x.created = {} /\ x.tries = 0 /\ x.told = FALSE
      BY IdleTells DEF IsEval, EvalFields, Idle
    <3> HIDE DEF x
    <3> QED BY <3>1, FreshTells
  <2> HIDE DEF x
  <2> QED BY <2>1, <2>2, IdleTells, EvaluatorMoves
<1> QED BY <1>1, <1>2

LEMMA LookKeeps == ASSUME AlertInv, NEW e \in Evaluators, Look(e) PROVE AlertInv'
<1>1. PICK f \in evals[e].todo :
        evals' = [evals EXCEPT ![e] = [evals[e] EXCEPT !.pc = "write", !.todo = @ \ {f}, !.finding = f,
                                                       !.seen = IF f.print \in DOMAIN alerts THEN alerts[f.print] ELSE Absent]]
  BY DEF Look, Becomes
<1> DEFINE seen == IF f.print \in DOMAIN alerts THEN alerts[f.print] ELSE Absent
           x == [evals[e] EXCEPT !.pc = "write", !.todo = @ \ {f}, !.finding = f, !.seen = seen]
<1>2. Telling(evals[e]) /\ evals[e].pc = "store" /\ UNCHANGED alerts
  BY DEF AlertInv, Look, In
<1>3. evals' = [evals EXCEPT ![e] = x]
  BY <1>1 DEF AlertInv
<1> HIDE DEF seen
<1>4. x.pc = "write" /\ x.created = evals[e].created /\ x.tries = evals[e].tries /\ x.told = evals[e].told /\ IsEval(x)
  <2>1. IsEval(evals[e])
    BY <1>2 DEF Telling
  <2> QED BY <2>1 DEF IsEval, EvalFields
<1> HIDE DEF x
<1>5. Telling(x)
  <2>1. Fresh(evals[e])
    BY <1>2 DEF Telling
  <2>2. Fresh(x) /\ Tries(x)
    BY <1>2, <1>4, <2>1 DEF Telling, Fresh, Tries
  <2>3. ASSUME NEW p \in x.created PROVE ToldOf(x, alerts[p])
    <3>1. ToldOf(evals[e], alerts[p])
      BY <1>2, <1>4 DEF Telling
    <3>2. Waits(evals[e], alerts[p]) <=> Waits(x, alerts[p])
      BY <1>4 DEF Waits
    <3> QED BY <1>2, <1>4, <3>1, <3>2 DEF ToldOf
  <2> QED BY <1>2, <1>4, <2>1, <2>2, <2>3 DEF Telling
<1> QED BY <1>2, <1>3, <1>4, <1>5, EvaluatorMoves

\* A change that leaves the history of a row alone
SameTelling(r, s) ==
    IsAlert(s) /\ s.mails = r.mails /\ s.lost = r.lost /\ s.tellers = r.tellers /\ s.notified = r.notified

LEMMA SameIsOK == ASSUME NEW r, NEW s, RowOK(r), SameTelling(r, s) PROVE RowOK(s)
<1>1. Counted(s) /\ (Answered(r) <=> Answered(s))
  BY DEF RowOK, SameTelling, Counted, Answered
<1> QED BY <1>1 DEF RowOK, SameTelling

LEMMA SameTells ==
  ASSUME NEW x, Telling(x), DOMAIN alerts' = DOMAIN alerts, \A q \in DOMAIN alerts : SameTelling(alerts[q], alerts'[q])
  PROVE  Telling(x)'
<1>1. \A q \in x.created : ToldOf(x, alerts'[q])
  <2>1. ASSUME NEW q \in x.created PROVE ToldOf(x, alerts'[q])
    <3>1. ToldOf(x, alerts[q]) /\ SameTelling(alerts[q], alerts'[q])
      BY DEF Telling
    <3>2. /\ Answered(alerts[q]) <=> Answered(alerts'[q])
          /\ Waits(x, alerts[q]) <=> Waits(x, alerts'[q])
          /\ Untold(alerts[q]) <=> Untold(alerts'[q])
      BY <3>1 DEF SameTelling, Answered, Waits, Untold
    <3> QED BY <3>1, <3>2 DEF ToldOf, SameTelling
  <2> QED BY <2>1
<1> QED BY <1>1 DEF Telling

\* An alert that is made is in no other evaluation's hands, an alert brought up to date keeps its marks
LEMMA WriteKeeps == ASSUME AlertInv, NEW e \in Evaluators, Write(e) PROVE AlertInv'
<1> DEFINE f == evals[e].finding
           seen == evals[e].seen
           inserted == seen = Absent /\ f.print \notin DOMAIN alerts
           created == IF inserted THEN evals[e].created \cup {f.print} ELSE evals[e].created
           x == [evals[e] EXCEPT !.pc = "store", !.finding = Absent, !.seen = Absent, !.created = created]
<1>1. Telling(evals[e]) /\ evals[e].pc = "write"
  BY DEF AlertInv, Write, In
<1>2. evals' = [evals EXCEPT ![e] = x]
  BY DEF AlertInv, Write, Becomes
<1>3. x.pc = "store" /\ x.created = created /\ x.tries = 0 /\ x.told = FALSE /\ IsEval(x)
  <2> HIDE DEF created
  <2>1. IsEval(evals[e]) /\ evals[e].tries = 0 /\ evals[e].told = FALSE
    BY <1>1 DEF Telling, Fresh
  <2> QED BY <2>1 DEF IsEval, EvalFields
<1>4. CASE inserted
  <2>1. alerts' = WithRow(f.print, NewRow(f))
    BY <1>4 DEF Write
  <2> DEFINE r == NewRow(f)
  <2>2. RowOK(r) /\ ToldOf(x, r)
    <3>1. IsAlert(r) /\ r.mails = 0 /\ r.lost = 0 /\ r.tellers = 0 /\ r.notified = FALSE
      BY DEF NewRow, IsAlert, AlertFields
    <3> HIDE DEF r, x, f
    <3>2. Counted(r) /\ Untold(r)
      BY <3>1, AttemptsAreSome DEF Counted, Untold
    <3>3. Waits(x, r)
      BY <1>3, <3>1 DEF Waits
    <3> QED BY <1>3, <3>1, <3>2, <3>3 DEF RowOK, ToldOf
  <2> HIDE DEF r
  <2> DEFINE p == f.print
  <2>3. /\ p \notin DOMAIN alerts /\ DOMAIN alerts' = DOMAIN alerts \cup {p} /\ alerts'[p] = r
        /\ \A q \in DOMAIN alerts : alerts'[q] = alerts[q]
    BY <1>4, <2>1 DEF WithRow, r
  <2>4. created = evals[e].created \cup {p}
    BY <1>4
  <2> HIDE DEF f, seen, inserted, created, x, p
  <2>5. AlertsOK'
    <3>1. ASSUME NEW q \in DOMAIN alerts'
          PROVE  RowOK(alerts'[q])
      <4>1. CASE q = p
        BY <2>2, <2>3, <4>1
      <4>2. CASE q \in DOMAIN alerts
        BY <2>3, <4>2 DEF AlertInv, AlertsOK
      <4> QED BY <2>3, <4>1, <4>2
    <3> QED BY <3>1 DEF AlertsOK
  <2>6. evals'[e] = x /\ \A d \in Evaluators \ {e} : evals'[d] = evals[d]
    BY <1>2 DEF AlertInv
  <2>7. \A d \in Evaluators : evals[d].created \subseteq DOMAIN alerts
    BY DEF AlertInv, Telling
  <2>8. \A d \in Evaluators : Telling(evals[d])'
    <3>1. Telling(evals[e])'
      <4>1. ASSUME NEW q \in created PROVE ToldOf(x, alerts'[q])
        <5>1. CASE q \in evals[e].created
          <6>1. alerts'[q] = alerts[q] /\ ToldOf(evals[e], alerts[q])
            BY <1>1, <2>3, <5>1 DEF Telling
          <6>2. Fresh(evals[e]) /\ evals[e].told = FALSE
            BY <1>1 DEF Telling
          <6>3. Waits(evals[e], alerts[q]) => Waits(x, alerts[q])
            BY <1>3, <6>2 DEF Waits, Fresh
          <6> QED BY <1>1, <1>3, <6>1, <6>2, <6>3 DEF ToldOf
        <5> QED BY <2>2, <2>3, <2>4, <5>1
      <4>2. created \subseteq DOMAIN alerts'
        BY <1>1, <2>3, <2>4 DEF Telling
      <4>3. Tries(x) /\ Fresh(x)
        BY <1>3, AttemptsAreSome DEF Tries, Fresh
      <4> QED BY <1>3, <2>6, <4>1, <4>2, <4>3 DEF Telling
    <3>2. ASSUME NEW d \in Evaluators, d # e PROVE Telling(evals[d])'
      <4>1. evals'[d] = evals[d] /\ Telling(evals[d])
        BY <3>2, <2>6 DEF AlertInv
      <4>2. \A q \in evals[d].created : alerts'[q] = alerts[q]
        BY <2>3, <4>1 DEF Telling
      <4> QED BY <4>1, <4>2, <2>3 DEF Telling
    <3> QED BY <3>1, <3>2
  <2>9. MadeByOne'
    BY <1>3, <2>3, <2>4, <2>6, <2>7 DEF AlertInv, MadeByOne
  <2>10. (DOMAIN evals = Evaluators /\ evals = [d \in Evaluators |-> evals[d]])'
    BY <1>2 DEF AlertInv
  <2> QED BY <2>5, <2>8, <2>9, <2>10 DEF AlertInv
<1>5. CASE ~inserted
  <2>1. \/ alerts' = alerts
        \/ alerts' = [alerts EXCEPT ![f.print].last = f.last, ![f.print].count = Larger(seen.count, f.count)]
    BY <1>5 DEF Write
  <2>2. created = evals[e].created
    BY <1>5
  <2> DEFINE p == f.print
             l == f.last
             n == Larger(seen.count, f.count)
  <2>3. alerts' = alerts \/ alerts' = [alerts EXCEPT ![p].last = l, ![p].count = n]
    BY <2>1
  <2> HIDE DEF f, seen, inserted, created, x, p, l, n
  <2>4. DOMAIN alerts' = DOMAIN alerts /\ \A q \in DOMAIN alerts : alerts'[q] = alerts[q] \/ alerts'[q] = [alerts[q] EXCEPT !.last = l, !.count = n]
    BY <2>3
  <2>5. ASSUME NEW q \in DOMAIN alerts
        PROVE SameTelling(alerts[q], alerts'[q])
    <3>1. IsAlert(alerts[q])
      BY DEF AlertInv, AlertsOK, RowOK
    <3>2. CASE alerts'[q] = alerts[q]
      BY <3>1, <3>2 DEF SameTelling
    <3>3. CASE alerts'[q] = [alerts[q] EXCEPT !.last = l, !.count = n]
      BY <3>1, <3>3 DEF IsAlert, AlertFields, SameTelling
    <3> QED BY <2>4, <3>2, <3>3
  <2>6. AlertsOK'
    BY <2>4, <2>5, SameIsOK DEF AlertInv, AlertsOK
  <2>7. evals'[e] = x /\ \A d \in Evaluators \ {e} : evals'[d] = evals[d]
    BY <1>2 DEF AlertInv
  <2>8. \A d \in Evaluators : Telling(evals[d])'
    <3>1. Telling(evals[e])'
      <4>1. Fresh(evals[e]) /\ evals[e].told = FALSE /\ created \subseteq DOMAIN alerts
        BY <1>1, <2>2 DEF Telling
      <4>2. ASSUME NEW q \in created PROVE ToldOf(x, alerts'[q])
        <5>1. ToldOf(evals[e], alerts[q]) /\ SameTelling(alerts[q], alerts'[q])
          BY <1>1, <2>2, <2>5, <4>1 DEF Telling
        <5>2. Waits(evals[e], alerts[q]) => Waits(x, alerts'[q])
          BY <1>3, <4>1, <5>1 DEF Waits, Fresh, SameTelling
        <5>3. Untold(alerts[q]) => Untold(alerts'[q])
          BY <5>1 DEF Untold, SameTelling
        <5> QED BY <1>1, <1>3, <4>1, <5>1, <5>2, <5>3 DEF ToldOf, SameTelling
      <4>3. Tries(x) /\ Fresh(x)
        BY <1>3, AttemptsAreSome DEF Tries, Fresh
      <4> QED BY <1>3, <2>4, <2>7, <4>1, <4>2, <4>3 DEF Telling
    <3>2. ASSUME NEW d \in Evaluators, d # e PROVE Telling(evals[d])'
      <4>1. evals'[d] = evals[d] /\ Telling(evals[d])
        BY <3>2, <2>7 DEF AlertInv
      <4> QED BY <4>1, <2>4, <2>5, SameTells
    <3> QED BY <3>1, <3>2
  <2>9. MadeByOne'
    BY <1>3, <2>2, <2>7 DEF AlertInv, MadeByOne
  <2>10. (DOMAIN evals = Evaluators /\ evals = [d \in Evaluators |-> evals[d]])'
    BY <1>2 DEF AlertInv
  <2> QED BY <2>6, <2>8, <2>9, <2>10 DEF AlertInv
<1> QED BY <1>4, <1>5

\* A mail changes the rows of its maker's alerts only
LEMMA MailedRow ==
  ASSUME NEW x, NEW p \in DOMAIN alerts, RowOK(alerts[p]), NEW lost \in {0, 1}, p \in x.created => ToldOf(x, alerts[p]),
         x.pc = "store", Tries(x), x.told \in BOOLEAN, alerts' = Mailed(x, lost)
  PROVE  /\ RowOK(alerts'[p])
         /\ p \notin x.created => alerts'[p] = alerts[p]
         /\ p \in x.created => /\ alerts'[p].notified = FALSE /\ alerts'[p].lost = alerts[p].lost + lost
                               /\ alerts'[p].mails = alerts[p].mails + 1
<1>1. CASE p \in x.created
  <2> DEFINE r == alerts[p]
             s == alerts'[p]
             tellers == IF x.told THEN r.tellers ELSE r.tellers + 1
  <2>1. s = [r EXCEPT !.mails = @ + 1, !.lost = @ + lost, !.tellers = tellers]
    BY <1>1 DEF Mailed
  <2>2. RowOK(r) /\ ToldOf(x, r)
    BY <1>1
  <2>3. tellers \in Nat /\ tellers <= 1
    <3>1. r.tellers \in Nat /\ r.tellers <= 1
      BY <2>2 DEF RowOK, Counted
    <3>2. CASE x.told = TRUE
      BY <3>1, <3>2
    <3>3. CASE x.told = FALSE
      <4>1. Untold(r) /\ tellers = r.tellers + 1
        BY <2>2, <3>3 DEF ToldOf
      <4> HIDE DEF tellers, r
      <4> QED BY <4>1 DEF Untold
    <3> QED BY <3>2, <3>3
  <2>4. Waits(x, r) /\ Counted(r) /\ r.notified = FALSE
    BY <2>2 DEF ToldOf, RowOK
  <2> HIDE DEF r, s, tellers
  <2>5. IsAlert(s) /\ s.mails = r.mails + 1 /\ s.lost = r.lost + lost /\ s.tellers = tellers /\ s.notified = r.notified
    BY <2>1, <2>2 DEF RowOK, IsAlert, AlertFields
  <2>6. Counted(s)
    BY <2>3, <2>4, <2>5, AttemptsAreSome DEF Waits, Counted, Tries
  <2>7. RowOK(s)
    BY <2>4, <2>5, <2>6 DEF RowOK
  <2>8. s.notified = FALSE
    BY <2>4, <2>5
  <2> QED BY <1>1, <2>5, <2>7, <2>8 DEF r, s
<1>2. CASE p \notin x.created
  BY <1>2 DEF Mailed
<1> QED BY <1>1, <1>2

\* Only the maker mails, and before its mark
LEMMA MailKeeps == ASSUME AlertInv, NEW e \in Evaluators, Mail(e) PROVE AlertInv'
<1> DEFINE x == [evals[e] EXCEPT !.pc = "stamp"]
<1>1. Telling(evals[e]) /\ evals[e].pc = "store" /\ alerts' = Mailed(evals[e], 0)
  BY DEF AlertInv, Mail, Stored, In
<1>2. evals' = [evals EXCEPT ![e] = x]
  BY DEF AlertInv, Mail, Becomes
<1>3. x.pc = "stamp" /\ x.created = evals[e].created /\ x.tries = evals[e].tries /\ x.told = evals[e].told /\ x.todo = evals[e].todo /\ IsEval(x)
  BY <1>1 DEF Telling, IsEval, EvalFields
<1> HIDE DEF x
<1>4. evals'[e] = x /\ \A d \in Evaluators \ {e} : evals'[d] = evals[d]
  BY <1>2 DEF AlertInv
<1>5. DOMAIN alerts' = DOMAIN alerts
  BY <1>1 DEF Mailed
<1>6. ASSUME NEW p \in DOMAIN alerts
      PROVE  /\ RowOK(alerts'[p])
             /\ p \notin evals[e].created => alerts'[p] = alerts[p]
             /\ p \in evals[e].created => ToldOf(x, alerts'[p])
  <2>1. RowOK(alerts[p]) /\ (p \in evals[e].created => ToldOf(evals[e], alerts[p]))
    BY <1>1 DEF AlertInv, AlertsOK, Telling
  <2>2. /\ RowOK(alerts'[p])
        /\ p \notin evals[e].created => alerts'[p] = alerts[p]
        /\ p \in evals[e].created => /\ alerts'[p].notified = FALSE /\ alerts'[p].lost = alerts[p].lost + 0
                                     /\ alerts'[p].mails = alerts[p].mails + 1
    BY <1>1, <2>1, MailedRow DEF Telling
  <2>3. p \in evals[e].created => Waits(evals[e], alerts[p]) /\ Counted(alerts[p])
    BY <1>1, <2>1 DEF ToldOf, RowOK
  <2>4. p \in evals[e].created => Answered(alerts'[p])
    BY <2>2, <2>3 DEF Waits, Counted, Answered
  <2> QED BY <1>3, <2>2, <2>4 DEF ToldOf
<1>7. AlertsOK'
  BY <1>5, <1>6 DEF AlertsOK
<1>8. \A d \in Evaluators : Telling(evals[d])'
  <2>1. Telling(evals[e])'
    <3>1. (Tries(evals[e]) <=> Tries(x)) /\ (Fresh(evals[e]) <=> Fresh(x))
      BY <1>3 DEF Tries, Fresh
    <3> QED BY <1>1, <1>3, <1>4, <1>5, <1>6, <3>1 DEF Telling
  <2>2. ASSUME NEW d \in Evaluators, d # e PROVE Telling(evals[d])'
    <3>1. evals'[d] = evals[d] /\ Telling(evals[d]) /\ evals[d].created \cap evals[e].created = {}
      BY <2>2, <1>4 DEF AlertInv, MadeByOne
    <3> QED BY <3>1, <1>5, <1>6 DEF Telling
  <2> QED BY <2>1, <2>2
<1>9. MadeByOne'
  BY <1>3, <1>4 DEF AlertInv, MadeByOne
<1>10. (DOMAIN evals = Evaluators /\ evals = [d \in Evaluators |-> evals[d]])'
  BY <1>2 DEF AlertInv
<1> QED BY <1>7, <1>8, <1>9, <1>10 DEF AlertInv

\* A mail without an answer is counted as lost, and not repeated beyond the attempts
LEMMA MailUnansweredKeeps == ASSUME AlertInv, NEW e \in Evaluators, MailUnanswered(e) PROVE AlertInv'
<1> DEFINE x == evals[e]
<1>1. Telling(x) /\ x.pc = "store" /\ x.todo = {}
  BY DEF AlertInv, MailUnanswered, Stored, In
<1>2. PICK out \in BOOLEAN :
        /\ alerts' = IF out THEN Mailed(x, 1) ELSE alerts
        /\ evals' = [evals EXCEPT ![e] = IF x.tries + 1 < Attempts THEN [x EXCEPT !.tries = @ + 1, !.told = @ \/ out] ELSE After(e)]
  BY DEF MailUnanswered, Becomes
<1> DEFINE told == x.told \/ out
           y == [x EXCEPT !.tries = @ + 1, !.told = told]
           z == IF x.tries + 1 < Attempts THEN y ELSE After(e)
<1>3. evals' = [evals EXCEPT ![e] = z]
  BY <1>2
<1>4. told \in BOOLEAN /\ (out => told = TRUE) /\ (told = FALSE => x.told = FALSE)
  BY <1>1, <1>2 DEF Telling
<1>5. y.pc = "store" /\ y.created = x.created /\ y.tries = x.tries + 1 /\ y.told = told /\ y.todo = {} /\ IsEval(y)
  <2> HIDE DEF told, x
  <2> QED BY <1>1 DEF Telling, IsEval, EvalFields
<1>6. DOMAIN alerts' = DOMAIN alerts
  BY <1>2 DEF Mailed
<1> HIDE DEF x, y, z, told
<1>7. ASSUME NEW p \in DOMAIN alerts
      PROVE  /\ RowOK(alerts'[p])
             /\ p \notin x.created => alerts'[p] = alerts[p]
             /\ p \in x.created => ToldOf(y, alerts'[p])
  <2>1. RowOK(alerts[p]) /\ (p \in x.created => ToldOf(x, alerts[p]))
    BY <1>1 DEF AlertInv, AlertsOK, Telling
  <2>2. p \in x.created => /\ Waits(x, alerts[p]) /\ Counted(alerts[p]) /\ Tries(x)
                           /\ alerts[p].notified = FALSE /\ (x.told = FALSE => Untold(alerts[p]))
    BY <1>1, <2>1 DEF ToldOf, RowOK, Telling
  <2>3. CASE out
    <3>1. alerts' = Mailed(x, 1)
      BY <1>2, <2>3
    <3>2. /\ RowOK(alerts'[p])
          /\ p \notin x.created => alerts'[p] = alerts[p]
          /\ p \in x.created => /\ alerts'[p].notified = FALSE /\ alerts'[p].lost = alerts[p].lost + 1
                                /\ alerts'[p].mails = alerts[p].mails + 1
      BY <1>1, <2>1, <3>1, MailedRow DEF Telling
    <3>3. told = TRUE
      BY <1>4, <2>3
    <3>4. p \in x.created => Waits(y, alerts'[p])
      BY <1>5, <2>2, <3>2 DEF Waits, Counted, Tries
    <3> QED BY <1>5, <3>2, <3>3, <3>4 DEF ToldOf
  <2>4. CASE ~out
    <3>1. alerts'[p] = alerts[p]
      BY <1>2, <2>4
    <3>2. p \in x.created => Waits(y, alerts[p])
      BY <1>5, <2>2 DEF Waits, Counted, Tries
    <3> QED BY <1>4, <1>5, <2>1, <2>2, <3>1, <3>2 DEF ToldOf
  <2> QED BY <2>3, <2>4
<1>8. AlertsOK'
  BY <1>6, <1>7 DEF AlertsOK
<1>9. evals'[e] = z /\ \A d \in Evaluators \ {e} : evals'[d] = evals[d]
  BY <1>3 DEF AlertInv
<1>10. Telling(evals[e])' /\ z.created \subseteq x.created
  <2>1. CASE x.tries + 1 < Attempts
    <3>1. evals'[e] = y /\ z = y
      BY <1>9, <2>1 DEF z
    <3>2. Tries(x)
      BY <1>1 DEF Telling
    <3>3. Tries(y) /\ ~Fresh(y)
      BY <1>5, <2>1, <3>2 DEF Tries, Fresh
    <3> QED BY <1>1, <1>4, <1>5, <1>6, <1>7, <3>1, <3>3 DEF Telling
  <2>2. CASE ~(x.tries + 1 < Attempts)
    <3>1. evals'[e] = z /\ Telling(z) /\ z.created = {}
      BY <1>9, <2>2, BothTell DEF z
    <3> QED BY <3>1, <1>6 DEF Telling
  <2> QED BY <2>1, <2>2
<1>11. \A d \in Evaluators : Telling(evals[d])'
  <2>1. ASSUME NEW d \in Evaluators, d # e PROVE Telling(evals[d])'
    <3>1. evals'[d] = evals[d] /\ Telling(evals[d]) /\ evals[d].created \cap x.created = {}
      BY <2>1, <1>9 DEF AlertInv, MadeByOne, x
    <3> QED BY <3>1, <1>6, <1>7 DEF Telling
  <2> QED BY <1>10, <2>1
<1>12. MadeByOne'
  BY <1>9, <1>10 DEF AlertInv, MadeByOne, x
<1>13. (DOMAIN evals = Evaluators /\ evals = [d \in Evaluators |-> evals[d]])'
  BY <1>3 DEF AlertInv
<1> QED BY <1>8, <1>11, <1>12, <1>13 DEF AlertInv

\* A mark comes after the answer, and leaves the mails alone
LEMMA StampKeeps == ASSUME AlertInv, NEW e \in Evaluators, Stamp(e) PROVE AlertInv'
<1> DEFINE x == After(e)
<1>1. Telling(evals[e]) /\ evals[e].pc = "stamp" /\ Telling(x) /\ x.created = {}
  BY BothTell DEF AlertInv, Stamp, In
<1>2. evals' = [evals EXCEPT ![e] = x]
  BY DEF Stamp, Becomes
<1> HIDE DEF x
<1>4. evals'[e] = x /\ \A d \in Evaluators \ {e} : evals'[d] = evals[d]
  BY <1>2 DEF AlertInv
<1>5. DOMAIN alerts' = DOMAIN alerts /\ \A p \in DOMAIN alerts : p \notin evals[e].created => alerts'[p] = alerts[p]
  BY DEF Stamp
<1>6. ASSUME NEW p \in evals[e].created PROVE RowOK(alerts'[p])
  <2>1. p \in DOMAIN alerts /\ RowOK(alerts[p]) /\ Answered(alerts[p])
    BY <1>1 DEF AlertInv, AlertsOK, Telling, ToldOf
  <2>2. alerts'[p] = [alerts[p] EXCEPT !.notified = TRUE]
    BY <2>1 DEF Stamp
  <2> DEFINE r == alerts[p]
             s == alerts'[p]
  <2> HIDE DEF r, s
  <2>3. IsAlert(s) /\ s.mails = r.mails /\ s.lost = r.lost /\ s.tellers = r.tellers /\ s.notified = TRUE
    BY <2>1, <2>2 DEF RowOK, IsAlert, AlertFields, r, s
  <2>4. Counted(r) /\ Answered(r)
    BY <2>1 DEF RowOK, r
  <2>5. Counted(s) /\ Answered(s)
    BY <2>3, <2>4 DEF Counted, Answered
  <2> QED BY <2>3, <2>5 DEF RowOK, s
<1>7. AlertsOK'
  <2>1. \A p \in DOMAIN alerts : RowOK(alerts[p])
    BY DEF AlertInv, AlertsOK
  <2> QED BY <2>1, <1>5, <1>6 DEF AlertsOK
<1>8. \A d \in Evaluators : Telling(evals[d])'
  <2>1. ASSUME NEW d \in Evaluators PROVE Telling(evals[d])'
    <3>1. Telling(evals'[d]) /\ evals'[d].created \cap evals[e].created = {}
      BY <1>1, <1>4 DEF AlertInv, MadeByOne
    <3> QED BY <3>1, <1>5 DEF Telling
  <2> QED BY <2>1
<1>9. MadeByOne'
  BY <1>1, <1>4 DEF AlertInv, MadeByOne
<1>10. (DOMAIN evals = Evaluators /\ evals = [d \in Evaluators |-> evals[d]])'
  BY <1>2 DEF AlertInv
<1> QED BY <1>7, <1>8, <1>9, <1>10 DEF AlertInv

LEMMA SetStatusKeeps == ASSUME AlertInv, SetStatus PROVE AlertInv'
<1>1. PICK p \in DOMAIN alerts, s \in {"open", "acknowledged", "resolved"} : alerts' = [alerts EXCEPT ![p].status = s]
  BY DEF SetStatus
<1>2. evals' = evals /\ DOMAIN alerts' = DOMAIN alerts
  BY <1>1 DEF SetStatus
<1>3. ASSUME NEW q \in DOMAIN alerts PROVE RowOK(alerts[q]) /\ SameTelling(alerts[q], alerts'[q])
  <2>1. RowOK(alerts[q])
    BY DEF AlertInv, AlertsOK
  <2>2. alerts'[q] = alerts[q] \/ alerts'[q] = [alerts[q] EXCEPT !.status = s]
    BY <1>1
  <2> QED BY <2>1, <2>2 DEF RowOK, IsAlert, AlertFields, SameTelling
<1>4. AlertsOK'
  BY <1>2, <1>3, SameIsOK DEF AlertsOK
<1>5. \A d \in Evaluators : Telling(evals[d])'
  <2>1. ASSUME NEW d \in Evaluators PROVE Telling(evals[d])'
    <3>1. Telling(evals[d])
      BY DEF AlertInv
    <3> QED BY <1>2, <1>3, <3>1, SameTells DEF Telling
  <2> QED BY <2>1
<1> QED BY <1>2, <1>4, <1>5 DEF AlertInv, MadeByOne

LEMMA AlertInvKept == ASSUME AlertInv, [AlertingNext]_alertingVars PROVE AlertInv'
<1>1. ASSUME UNCHANGED <<alerts, evals>> PROVE AlertInv'
  BY <1>1 DEF AlertInv, AlertsOK, Telling, MadeByOne
<1>2. CASE Advance \/ SignIn \/ ConditionChanges \/ UNCHANGED alertingVars
  BY <1>1, <1>2 DEF Advance, SignIn, ConditionChanges, alertingVars
<1>3. CASE ProcessEnds
  <2>1. evals' = [e \in Evaluators |-> Idle] /\ UNCHANGED alerts
    BY <1>3 DEF ProcessEnds
  <2>2. \A e \in Evaluators : Telling(evals[e])' /\ evals'[e].created = {}
    BY <2>1, IdleTells DEF Telling
  <2> QED BY <2>1, <2>2 DEF AlertInv, AlertsOK, MadeByOne
<1>4. CASE SetStatus
  BY <1>4, SetStatusKeeps
<1>5. ASSUME NEW e \in Evaluators,
             Evaluate(e) \/ BeginOperational(e) \/ Look(e) \/ Write(e) \/ NothingNew(e) \/ Mail(e) \/ MailUnanswered(e)
             \/ Stamp(e) \/ Fails(e)
      PROVE  AlertInv'
  <2>1. CASE NothingNew(e) \/ Fails(e)
    <3>1. UNCHANGED alerts /\ (evals' = [evals EXCEPT ![e] = After(e)] \/ evals' = [evals EXCEPT ![e] = Idle])
      BY <2>1 DEF NothingNew, Fails, Becomes
    <3> QED BY <3>1, BothTell, IdleTells, EvaluatorMoves
  <2> QED BY <1>5, <2>1, EvaluateKeeps, LookKeeps, WriteKeeps, MailKeeps, MailUnansweredKeeps, StampKeeps
<1> QED BY <1>2, <1>3, <1>4, <1>5 DEF AlertingNext

LEMMA AlertInvariance == AlertingSpec => []AlertInv
<1>1. AlertInv /\ [AlertingNext]_alertingVars => AlertInv'
  BY AlertInvKept
<1> QED BY <1>1, AlertInvInit, PTL DEF AlertingSpec

\* alerting.ts:85, graph-client.ts:67-135: at most one evaluation tells of an alert, whatever ticks,
\* requests, failures and restarts repeat; its mail goes out again only after a lost answer and no
\* oftener than the client tries, and the alert is marked as notified only if a mail was answered
THEOREM MailedOnce == AlertingSpec => []MailOnce
<1>1. AlertInv => MailOnce
  <2>1. \A p \in DOMAIN alerts : RowOK(alerts[p]) => Counted(alerts[p]) /\ (alerts[p].notified => Answered(alerts[p]))
    BY DEF RowOK
  <2>2. \A p \in DOMAIN alerts : Counted(alerts[p]) => /\ alerts[p].tellers <= 1 /\ alerts[p].mails <= alerts[p].lost + 1
                                                      /\ alerts[p].mails <= Attempts
    BY DEF Counted
  <2> QED BY <2>1, <2>2 DEF AlertInv, AlertsOK, MailOnce, Answered
<1> QED BY <1>1, AlertInvariance, PTL

\* operational-rules.ts:8-10: no evaluation changes a resolved alert that it had not read, or made,
\* before it was resolved
THEOREM ResolvedIsQuiet == AlertingSpec => ResolvedStaysQuiet
<1> DEFINE Quiet == \A p \in DOMAIN alerts :
               alerts[p].status = "resolved" /\ (\A e \in Evaluators : ~Holds(e, p))
               /\ (\A e \in Evaluators : p \notin evals[e].created) /\ evals' # evals => alerts'[p] = alerts[p]
<1>1. ASSUME AlertInv, [AlertingNext]_alertingVars PROVE [Quiet]_alertingVars
  <2>1. SUFFICES ASSUME NEW p \in DOMAIN alerts, \A e \in Evaluators : ~Holds(e, p) /\ p \notin evals[e].created, evals' # evals
                 PROVE  alerts'[p] = alerts[p]
    OBVIOUS
  <2>2. CASE \E e \in Evaluators : Write(e) \/ Mail(e) \/ MailUnanswered(e) \/ Stamp(e)
    <3>1. PICK e \in Evaluators : Write(e) \/ Mail(e) \/ MailUnanswered(e) \/ Stamp(e)
      BY <2>2
    <3>2. CASE Mail(e) \/ MailUnanswered(e) \/ Stamp(e)
      BY <2>1, <3>2 DEF Mail, MailUnanswered, Mailed, Stamp
    <3>3. CASE Write(e)
      <4> DEFINE f == evals[e].finding
                 seen == evals[e].seen
      <4>1. evals[e].pc = "write"
        BY <3>3 DEF Write, In
      <4>2. CASE seen = Absent /\ f.print \notin DOMAIN alerts
        <5>1. alerts' = WithRow(f.print, NewRow(f)) /\ p # f.print
          BY <3>3, <4>2 DEF Write
        <5> QED BY <5>1 DEF WithRow
      <4>3. CASE seen # Absent /\ seen.status # "resolved"
        <5>1. alerts' = [alerts EXCEPT ![f.print].last = f.last, ![f.print].count = Larger(seen.count, f.count)]
          BY <3>3, <4>3 DEF Write
        <5>2. p # f.print
          BY <2>1, <4>1, <4>3 DEF Holds
        <5> QED BY <5>1, <5>2
      <4>4. CASE ~(seen = Absent /\ f.print \notin DOMAIN alerts) /\ ~(seen # Absent /\ seen.status # "resolved")
        BY <3>3, <4>4 DEF Write
      <4> QED BY <4>2, <4>3, <4>4
    <3> QED BY <3>1, <3>2, <3>3
  <2>3. CASE ~\E e \in Evaluators : Write(e) \/ Mail(e) \/ MailUnanswered(e) \/ Stamp(e)
    <3>1. UNCHANGED alerts \/ UNCHANGED evals
      BY <1>1, <2>3 DEF AlertingNext, Advance, SignIn, ConditionChanges, SetStatus, ProcessEnds, Evaluate, BeginOperational, Look,
                        NothingNew, Fails, alertingVars
    <3> QED BY <2>1, <3>1
  <2> QED BY <2>2, <2>3
<1>2. QED BY <1>1, AlertInvariance, PTL DEF AlertingSpec, ResolvedStaysQuiet

=============================================================================
