----------------------------- MODULE AppRollout -----------------------------
(***************************************************************************)
(* Rollout of one package to one tenant.  Every rollout makes a job        *)
(* apps.publish and writes the one deployment row of package and tenant;   *)
(* the job's handler reads and writes the same row while it creates an app *)
(* in Intune and uploads its content in steps.  Several rollouts overlap,  *)
(* a job is repeated after a crash, the package may be deleted meanwhile.  *)
(***************************************************************************)
EXTENDS Integers

CONSTANTS
    Jobs,        \* a rollout and the job it makes
    None,
    MaxFaults,   \* bound: requests and statements that fail, answers that are lost
    MaxCrashes   \* bound: crashes of the worker

\* An app in Intune: its content, and whether the version of it is pinned
Apps == [content : {"none", "committing", "committed"}, pinned : BOOLEAN]

ASSUME RolloutAssumption == MaxFaults \in Nat /\ MaxCrashes \in Nat /\ None \notin Apps

VARIABLES
    kind,      \* of the package: store (no content), win32
    pkg,       \* ready to roll out, in another status, deleted
    row,       \* app_deployments; by: the job that recorded the app
    requests,  \* POST /packages/:id/rollout
    runs,      \* the jobs and their handlers
    faults, crashes

vars == <<kind, pkg, row, requests, runs, faults, crashes>>

Attempts == 3
MaxStalled == 1
Absent == [status |-> "absent", app |-> None, by |-> None]

\* absent: upsertDeployment has found no row
NoRun == [pc |-> "none", absent |-> FALSE, app |-> None, tries |-> 0, stalled |-> 0, result |-> "none"]

Init ==
    /\ kind \in {"store", "win32"} /\ pkg = "ready"
    /\ row = Absent
    /\ requests = [j \in Jobs |-> "idle"] /\ runs = [j \in Jobs |-> NoRun]
    /\ faults = 0 /\ crashes = 0

-----------------------------------------------------------------------------
(* Steps that requests and runs share *)

InRun(j, pc) == runs[j].pc = pc
GoTo(j, pc) == runs' = [runs EXCEPT ![j].pc = pc, ![j].absent = FALSE, ![j].app = IF pc = "failed" THEN None ELSE @]
Fault == faults < MaxFaults /\ faults' = faults + 1
NoFault == UNCHANGED <<faults, crashes>>

\* The write of upsertDeployment: the update of a row that is there is one step with the read
\* (if the row goes in between, the update finds nothing), an insert comes later than its read
Upsert(absent, patch) ==
    /\ absent <=> row = Absent
    /\ absent => pkg # "deleted"
    /\ row' = patch

\* Another insert was faster, or the package is gone
InsertFails(absent) == absent /\ (row # Absent \/ pkg = "deleted")

-----------------------------------------------------------------------------
(* The rollout *)

Rollout(j) ==
    /\ requests[j] = "idle" /\ pkg = "ready"
    /\ requests' = [requests EXCEPT ![j] = "write"]
    /\ runs' = [runs EXCEPT ![j].pc = "open"]
    /\ UNCHANGED <<kind, pkg, row>> /\ NoFault

LookPending(j) ==
    /\ requests[j] = "write" /\ row = Absent
    /\ requests' = [requests EXCEPT ![j] = "insert"]
    /\ UNCHANGED <<kind, pkg, row, runs>> /\ NoFault

WritePending(j) ==
    /\ requests[j] \in {"write", "insert"}
    /\ Upsert(requests[j] = "insert", [row EXCEPT !.status = "pending"])
    /\ requests' = [requests EXCEPT ![j] = "done"]
    /\ UNCHANGED <<kind, pkg, runs>> /\ NoFault

\* The error ends the request; its job is there, without a row
PendingFails(j) ==
    /\ requests[j] \in {"write", "insert"}
    /\ IF InsertFails(requests[j] = "insert") THEN UNCHANGED faults ELSE Fault
    /\ requests' = [requests EXCEPT ![j] = "done"]
    /\ UNCHANGED <<kind, pkg, row, runs, crashes>>

\* Approved by hand as soon as the job is there, or by the rollout itself (autoApprove); or cancelled
Decide(j) ==
    /\ InRun(j, "open")
    /\ \/ GoTo(j, "load")
       \/ GoTo(j, "ended")
    /\ UNCHANGED <<kind, pkg, row, requests>> /\ NoFault

\* An edit, a new build, or a deletion that takes the rows with it
ChangePackage ==
    /\ pkg # "deleted"
    /\ \/ pkg' = (IF pkg = "ready" THEN "other" ELSE "ready") /\ kind = "win32" /\ UNCHANGED row
       \/ pkg' = "deleted" /\ row' = Absent
    /\ UNCHANGED <<kind, requests, runs>> /\ NoFault

-----------------------------------------------------------------------------
(* The handler *)

Ends(j, result) ==
    runs' = [runs EXCEPT ![j].pc = "finish", ![j].absent = FALSE, ![j].result = result,
                         ![j].app = IF result = "succeeded" THEN @ ELSE None]

\* ready: what the handler has loaded stays as it is for the rest of the run
Load(j) ==
    /\ InRun(j, "load")
    /\ IF pkg = "deleted" THEN Ends(j, "failed") ELSE GoTo(j, IF pkg = "ready" THEN "check" ELSE "check unready")
    /\ UNCHANGED <<kind, pkg, row, requests>> /\ NoFault

\* Mutant: the row is not asked
CheckNothing(j) ==
    /\ runs[j].pc \in {"check", "check unready"}
    /\ GoTo(j, IF InRun(j, "check") THEN "publishing" ELSE "publishing unready")
    /\ UNCHANGED <<kind, pkg, row, requests>> /\ NoFault

Check(j) ==
    /\ runs[j].pc \in {"check", "check unready"}
    /\ IF row.status = "published" /\ row.app # None
       THEN runs' = [runs EXCEPT ![j].pc = "finish", ![j].result = "succeeded", ![j].app = row.app]
       ELSE GoTo(j, IF InRun(j, "check") THEN "publishing" ELSE "publishing unready")
    /\ UNCHANGED <<kind, pkg, row, requests>> /\ NoFault

Records == {"publishing", "publishing unready", "published", "failed"}

LookRecord(j) ==
    /\ runs[j].pc \in Records /\ row = Absent /\ ~runs[j].absent
    /\ runs' = [runs EXCEPT ![j].absent = TRUE]
    /\ UNCHANGED <<kind, pkg, row, requests>> /\ NoFault

\* Store packages need no content, whatever their status
WriteRecord(j) ==
    /\ runs[j].pc \in Records
    /\ CASE InRun(j, "publishing") -> Upsert(runs[j].absent, [row EXCEPT !.status = "publishing"]) /\ GoTo(j, "post")
         [] InRun(j, "publishing unready") -> Upsert(runs[j].absent, [row EXCEPT !.status = "publishing"]) /\ GoTo(j, "failed")
         [] InRun(j, "published") ->
               Upsert(runs[j].absent, [status |-> "published", app |-> runs[j].app, by |-> j]) /\ Ends(j, "succeeded")
         [] InRun(j, "failed") -> Upsert(runs[j].absent, [row EXCEPT !.status = "failed"]) /\ Ends(j, "failed")
    /\ UNCHANGED <<kind, pkg, requests>> /\ NoFault

\* Thrown out of the handler: BullMQ runs the job again as long as attempts are left
Thrown(j) ==
    runs' = [runs EXCEPT ![j].absent = FALSE, ![j].app = None, ![j].tries = @ + 1,
                         ![j].pc = IF runs[j].tries + 1 < Attempts THEN "load" ELSE "ended",
                         ![j].result = IF runs[j].tries + 1 < Attempts THEN "none" ELSE "failed"]

\* Only the record of the published app is inside the try block
RecordFails(j) ==
    /\ runs[j].pc \in Records
    /\ IF InsertFails(runs[j].absent) THEN UNCHANGED faults ELSE Fault
    /\ IF InRun(j, "published") THEN GoTo(j, "failed") ELSE Thrown(j)
    /\ UNCHANGED <<kind, pkg, row, requests, crashes>>

-----------------------------------------------------------------------------
(* The upload *)

Created == [content |-> IF kind = "store" THEN "committed" ELSE "none", pinned |-> kind = "store"]
Moves(j, pc, app) == runs' = [runs EXCEPT ![j].pc = pc, ![j].app = app]

\* A request that is repeated for a lost answer makes another app; TenantJobs has that
Post(j) ==
    /\ InRun(j, "post")
    /\ Moves(j, IF kind = "store" THEN "published" ELSE "register", Created)
    /\ UNCHANGED <<kind, pkg, row, requests>> /\ NoFault

\* Content version and file; then the blocks, their list and the commit
Upload(j) ==
    /\ \/ InRun(j, "register") /\ Moves(j, "address", runs[j].app)
       \/ InRun(j, "blocks") /\ Moves(j, "await", [runs[j].app EXCEPT !.content = "committing"])
    /\ UNCHANGED <<kind, pkg, row, requests>> /\ NoFault

Pin(j) ==
    /\ InRun(j, "pin")
    /\ Moves(j, "published", [runs[j].app EXCEPT !.pinned = TRUE])
    /\ UNCHANGED <<kind, pkg, row, requests>> /\ NoFault

\* Mutant: one look after the commit instead of a loop; Intune is still at work
PollOnce(j) ==
    /\ \/ InRun(j, "address") /\ GoTo(j, "blocks")
       \/ InRun(j, "await") /\ GoTo(j, "pin")
       \/ runs[j].pc \in {"address", "await"} /\ GoTo(j, "failed")
    /\ UNCHANGED <<kind, pkg, row, requests>> /\ NoFault

\* Ask until Intune has given an address, or taken the content, or refuses, or the deadline is over
Poll(j) ==
    /\ \/ InRun(j, "address") /\ GoTo(j, "blocks")
       \/ InRun(j, "await") /\ Moves(j, "pin", [runs[j].app EXCEPT !.content = "committed"])
       \/ runs[j].pc \in {"address", "await"} /\ GoTo(j, "failed")
    /\ UNCHANGED <<kind, pkg, row, requests>> /\ NoFault

\* Mutant: the error is reported and the row left as it is
ThrowOnly(j) ==
    /\ runs[j].pc \in {"post", "register", "address", "blocks", "await", "pin"}
    /\ Fault /\ Ends(j, "failed")
    /\ UNCHANGED <<kind, pkg, row, requests, crashes>>

\* A request fails for good, carried out or not: the catch block; the app that was made stays and is nobody's
UploadFails(j) ==
    /\ runs[j].pc \in {"post", "register", "address", "blocks", "await", "pin"}
    /\ Fault /\ GoTo(j, "failed")
    /\ UNCHANGED <<kind, pkg, row, requests, crashes>>

-----------------------------------------------------------------------------
(* The queue's part *)

Finish(j) ==
    /\ InRun(j, "finish")
    /\ runs' = [runs EXCEPT ![j].pc = "ended", ![j].tries = 0, ![j].stalled = 0]
    /\ UNCHANGED <<kind, pkg, row, requests>> /\ NoFault

\* The result cannot be stored: thrown, although the handler has returned
FinishFails(j) ==
    /\ InRun(j, "finish") /\ Fault
    /\ Thrown(j)
    /\ UNCHANGED <<kind, pkg, row, requests, crashes>>

\* The stalled check hands the job to a worker again, once
Crash(j) ==
    /\ runs[j].pc \notin {"none", "open", "ended"} /\ crashes < MaxCrashes
    /\ crashes' = crashes + 1
    /\ runs' = [runs EXCEPT ![j].absent = FALSE, ![j].app = None, ![j].stalled = @ + 1,
                            ![j].pc = IF runs[j].stalled < MaxStalled THEN "load" ELSE "ended",
                            ![j].result = IF runs[j].stalled < MaxStalled THEN "none" ELSE "failed"]
    /\ UNCHANGED <<kind, pkg, row, requests, faults>>

RunStep(j) ==
    \/ Load(j) \/ Check(j) \/ LookRecord(j) \/ WriteRecord(j) \/ RecordFails(j)
    \/ Post(j) \/ Upload(j) \/ Pin(j) \/ Poll(j) \/ UploadFails(j) \/ Finish(j)

Next ==
    \/ ChangePackage
    \/ \E j \in Jobs :
          \/ Rollout(j) \/ LookPending(j) \/ WritePending(j) \/ PendingFails(j) \/ Decide(j)
          \/ RunStep(j) \/ FinishFails(j) \/ Crash(j)

\* The worker goes on with what it has taken; nobody owes a rollout or a decision
Spec == Init /\ [][Next]_vars /\ \A j \in Jobs : WF_vars(RunStep(j))

=============================================================================
