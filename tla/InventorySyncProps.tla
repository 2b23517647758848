------------------------ MODULE InventorySyncProps ------------------------
EXTENDS InventorySync

\* snapshot-store.ts:5: whatever fails, is repeated or is cut off, the snapshots
\* are what SnapshotCache promises: states of the source, never
\* replaced by an older one, gone only with the tenant.
Cache == INSTANCE SnapshotCache WITH snap <- [k \in Kinds |-> rows[k].payload], active <- tenant.active
IsSnapshotCache == Cache!Spec

\* planSync: a stale snapshot of a managed tenant is refreshed, or the error
\* shown, also after a run that a crash cut off.
StaleIsRefreshed ==
    \A k \in Kinds : rows[k].stale ~> (~rows[k].stale \/ rows[k].status = "error" \/ ~tenant.active)

\* Once its tenant is removed, loads and queue entries run out for good.
RemovedFallsSilent ==
    ~tenant.active ~> [](\A k \in Kinds : LoadsOf(k) = {} /\ queue[k].at = "none")

=============================================================================
