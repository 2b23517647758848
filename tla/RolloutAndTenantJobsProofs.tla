-------------------- MODULE RolloutAndTenantJobsProofs ---------------------
(***************************************************************************)
(* The jobs that change a customer's tenant.  The first part is about the  *)
(* rollout of an app: "Types" is the shape of the state, "Uploaded" what   *)
(* each step of an upload has of its app, "Recorded" that a published row  *)
(* and a success have the complete app, and "Settled" that the job that    *)
(* recorded it will not write the row again.                               *)
(*                                                                         *)
(* The second part is about the handlers of TenantJobs: "Shaped" is the    *)
(* shape of a job, "Counted" that the owners of a group were counted       *)
(* before one of them is removed, "OnItsWay" what a run that nobody has    *)
(* interfered with finds in the tenant at each of its steps, and "Comes"   *)
(* what has become of the preview meanwhile.  A request is a step that     *)
(* keeps the next preview what the first was: Sends is the lemma.          *)
(***************************************************************************)
EXTENDS AppRolloutProps, TenantJobsProps, FiniteSetTheorems, TLAPS

-----------------------------------------------------------------------------
(* The rollout of an app: shapes and the inductive invariant *)

Uploading == {"register", "address", "blocks", "await", "pin", "published"}
Steps == {"none", "open", "load", "check", "check unready", "publishing", "publishing unready", "post",
          "failed", "finish", "ended"} \cup Uploading
RunType == [pc : Steps, absent : BOOLEAN, app : Apps \cup {None}, tries : Nat, stalled : Nat,
            result : {"none", "succeeded", "failed"}]
RowType == [status : {"absent", "pending", "publishing", "published", "failed"}, app : Apps \cup {None}, by : Jobs \cup {None}]

RunsOK == runs \in [Jobs -> RunType]
RestOK ==
    /\ kind \in {"store", "win32"} /\ pkg \in {"ready", "other", "deleted"}
    /\ row \in RowType
    /\ requests \in [Jobs -> {"idle", "write", "insert", "done"}]
    /\ faults \in Nat /\ crashes \in Nat

Types == RunsOK /\ RestOK

\* Content is committed before its version is pinned, and a success has both
Uploaded(x) ==
    /\ x.pc \in Uploading => x.app \in Apps
    /\ x.pc = "pin" => x.app.content = "committed"
    /\ x.pc = "published" => x.app = Complete
    /\ x.result = "succeeded" => x.pc \in {"finish", "ended"} /\ x.app = Complete

\* Where a job is after it has recorded its app, also if it is repeated
Past == {"finish", "ended", "load", "check", "check unready"}

Recorded == row.status = "published" => row.app = Complete
Settled == \A j \in Jobs : row.status = "published" /\ row.by = j => runs[j].pc \in Past

\* A job is there from its rollout on
Begun == \A j \in Jobs : requests[j] = "idle" => runs[j].pc = "none"

Inv == Types /\ (\A j \in Jobs : Uploaded(runs[j])) /\ Recorded /\ Settled /\ Begun

-----------------------------------------------------------------------------

LEMMA CompleteIs == Complete \in Apps /\ Complete # None
<1>1. Complete \in Apps
  BY DEF Complete, Apps
<1> QED BY <1>1, RolloutAssumption

LEMMA PinnedIs == ASSUME NEW app \in Apps, app.content = "committed" PROVE [app EXCEPT !.pinned = TRUE] = Complete
<1>1. [app EXCEPT !.pinned = TRUE] \in Apps
  BY DEF Apps
<1>2. [app EXCEPT !.pinned = TRUE].pinned = TRUE /\ [app EXCEPT !.pinned = TRUE].content = "committed"
  BY DEF Apps
<1>3. \A x \in Apps : x.content = "committed" /\ x.pinned = TRUE => x = Complete
  BY DEF Apps, Complete
<1> QED BY <1>1, <1>2, <1>3

LEMMA InvInit == Init => Inv
<1> SUFFICES ASSUME Init PROVE Inv
  OBVIOUS
<1>1. NoRun \in RunType /\ Absent \in RowType
  BY DEF NoRun, Absent, RunType, RowType, Steps
<1>2. Types
  BY <1>1 DEF Init, Types, RunsOK, RestOK
<1>3. Uploaded(NoRun)
  BY DEF Uploaded, NoRun, Uploading
<1>4. Recorded /\ Settled /\ Begun
  BY DEF Init, Recorded, Settled, Absent, Begun, NoRun
<1> QED BY <1>2, <1>3, <1>4 DEF Init, Inv

\* A step of one job that leaves the row alone
LEMMA RunOnly ==
  ASSUME Inv, NEW j \in Jobs, NEW x \in RunType, Uploaded(x), runs' = [runs EXCEPT ![j] = x],
         UNCHANGED row, RestOK',
         (runs[j].pc # "none" /\ UNCHANGED requests) \/ requests' = [requests EXCEPT ![j] = "write"],
         runs[j].pc \in Past /\ row.status = "published" /\ row.app = Complete => x.pc \in Past
  PROVE  Inv'
<1>1. runs' \in [Jobs -> RunType] /\ runs'[j] = x /\ \A k \in Jobs : k # j => runs'[k] = runs[k]
  BY DEF Inv, Types, RunsOK
<1>2. Types'
  BY <1>1 DEF Types, RunsOK
<1>3. \A k \in Jobs : Uploaded(runs'[k])
  BY <1>1 DEF Inv
<1>4. Recorded'
  BY DEF Inv, Recorded
<1>5. Settled'
  BY <1>1 DEF Inv, Recorded, Settled
<1>6. Begun'
  BY <1>1 DEF Inv, Begun, Types, RestOK
<1> QED BY <1>2, <1>3, <1>4, <1>5, <1>6 DEF Inv

\* What is known of a run before its step
LEMMA RunIs == ASSUME Inv, NEW j \in Jobs PROVE runs[j] \in RunType /\ Uploaded(runs[j])
  BY DEF Inv, Types, RunsOK

LEMMA GoToIs ==
  ASSUME Inv, NEW j \in Jobs, NEW pc \in Steps, GoTo(j, pc)
  PROVE  \E x \in RunType : /\ runs' = [runs EXCEPT ![j] = x] /\ x.pc = pc /\ x.result = runs[j].result
                            /\ x.app = IF pc = "failed" THEN None ELSE runs[j].app
<1> DEFINE x == [runs[j] EXCEPT !.pc = pc, !.absent = FALSE, !.app = IF pc = "failed" THEN None ELSE runs[j].app]
<1>1. runs[j] \in RunType /\ runs \in [Jobs -> RunType]
  BY RunIs DEF Inv, Types, RunsOK
<1>2. runs' = [runs EXCEPT ![j] = x]
  BY <1>1 DEF GoTo
<1>3. x \in RunType /\ x.pc = pc /\ x.result = runs[j].result /\ x.app = IF pc = "failed" THEN None ELSE runs[j].app
  BY <1>1 DEF RunType
<1> QED BY <1>2, <1>3

LEMMA EndsIs ==
  ASSUME Inv, NEW j \in Jobs, NEW result \in {"succeeded", "failed"}, Ends(j, result)
  PROVE  \E x \in RunType : /\ runs' = [runs EXCEPT ![j] = x] /\ x.pc = "finish" /\ x.result = result
                            /\ x.app = IF result = "succeeded" THEN runs[j].app ELSE None
<1> DEFINE x == [runs[j] EXCEPT !.pc = "finish", !.absent = FALSE, !.result = result,
                                !.app = IF result = "succeeded" THEN runs[j].app ELSE None]
<1>1. runs[j] \in RunType /\ runs \in [Jobs -> RunType]
  BY RunIs DEF Inv, Types, RunsOK
<1>2. runs' = [runs EXCEPT ![j] = x]
  BY <1>1 DEF Ends
<1>3. x \in RunType /\ x.pc = "finish" /\ x.result = result /\ x.app = IF result = "succeeded" THEN runs[j].app ELSE None
  BY <1>1 DEF RunType, Steps
<1> QED BY <1>2, <1>3

LEMMA MovesIs ==
  ASSUME Inv, NEW j \in Jobs, NEW pc \in Steps, NEW app \in Apps \cup {None}, Moves(j, pc, app)
  PROVE  \E x \in RunType : runs' = [runs EXCEPT ![j] = x] /\ x.pc = pc /\ x.result = runs[j].result /\ x.app = app
<1> DEFINE x == [runs[j] EXCEPT !.pc = pc, !.app = app]
<1>1. runs[j] \in RunType /\ runs \in [Jobs -> RunType]
  BY RunIs DEF Inv, Types, RunsOK
<1>2. runs' = [runs EXCEPT ![j] = x]
  BY <1>1 DEF Moves
<1>3. x \in RunType /\ x.pc = pc /\ x.result = runs[j].result /\ x.app = app
  BY <1>1 DEF RunType
<1> QED BY <1>2, <1>3

LEMMA ThrownIs ==
  ASSUME Inv, NEW j \in Jobs, Thrown(j)
  PROVE  \E x \in RunType : /\ runs' = [runs EXCEPT ![j] = x]
                            /\ x.pc \in {"load", "ended"} /\ x.result \in {"none", "failed"}
<1>1. runs[j] \in RunType /\ runs \in [Jobs -> RunType]
  BY RunIs DEF Inv, Types, RunsOK
<1> DEFINE again == runs[j].tries + 1 < Attempts
           x == [runs[j] EXCEPT !.absent = FALSE, !.app = None, !.tries = runs[j].tries + 1,
                                !.pc = IF again THEN "load" ELSE "ended", !.result = IF again THEN "none" ELSE "failed"]
<1>2. runs[j].tries + 1 \in Nat
  BY <1>1 DEF RunType
<1>3. runs' = [runs EXCEPT ![j] = x]
  BY <1>1 DEF Thrown
<1> HIDE DEF again
<1>4. x \in RunType /\ x.pc \in {"load", "ended"} /\ x.result \in {"none", "failed"}
  BY <1>1, <1>2 DEF RunType, Steps
<1> QED BY <1>3, <1>4

\* Every goal of a GoTo but the upload's own is without a result of its own
LEMMA GoesOn ==
  ASSUME Inv, NEW j \in Jobs, NEW pc \in Steps \ {"pin", "published", "none", "open"}, GoTo(j, pc),
         pc \in Uploading => runs[j].app \in Apps,
         runs[j].result # "succeeded",
         runs[j].pc \in Past /\ row.status = "published" /\ row.app = Complete => pc \in Past,
         runs[j].pc # "none", UNCHANGED <<row, requests>>, RestOK'
  PROVE  Inv'
<1>1. PICK x \in RunType : /\ runs' = [runs EXCEPT ![j] = x] /\ x.pc = pc /\ x.result = runs[j].result
                           /\ x.app = IF pc = "failed" THEN None ELSE runs[j].app
  BY GoToIs
<1>2. Uploaded(x)
  BY <1>1 DEF Uploaded, Uploading
<1> QED BY <1>1, <1>2, RunOnly

-----------------------------------------------------------------------------
(* The requests, the package and the decision *)

LEMMA RequestKeeps ==
  ASSUME Inv, NEW j \in Jobs, LookPending(j) \/ WritePending(j) \/ PendingFails(j) PROVE Inv'
<1>1. runs' = runs
  BY DEF LookPending, WritePending, PendingFails
<1>2. RestOK'
  <2>1. row' \in RowType
    BY DEF LookPending, WritePending, PendingFails, Upsert, Inv, Types, RestOK, RowType
  <2>2. requests' \in [Jobs -> {"idle", "write", "insert", "done"}]
    BY DEF LookPending, WritePending, PendingFails, Inv, Types, RestOK
  <2> QED BY <2>1, <2>2 DEF LookPending, WritePending, PendingFails, Fault, NoFault, Inv, Types, RestOK
<1>3. row'.status = "published" => row' = row
  BY DEF LookPending, WritePending, PendingFails, Upsert, Inv, Types, RestOK, RowType
<1>4. Recorded' /\ Settled'
  BY <1>1, <1>3 DEF Inv, Recorded, Settled
<1>5. Begun'
  BY <1>1 DEF LookPending, WritePending, PendingFails, Inv, Begun, Types, RestOK
<1> QED BY <1>1, <1>2, <1>4, <1>5 DEF Inv, Types, RunsOK

LEMMA PackageKeeps == ASSUME Inv, ChangePackage PROVE Inv'
<1>1. runs' = runs /\ (row' = row \/ row' = Absent) /\ Absent \in RowType
  BY DEF ChangePackage, Absent, RowType
<1>2. RestOK'
  BY <1>1 DEF ChangePackage, NoFault, Inv, Types, RestOK
<1>3. Recorded' /\ Settled'
  BY <1>1 DEF Inv, Recorded, Settled, Absent
<1> QED BY <1>1, <1>2, <1>3 DEF ChangePackage, Inv, Types, RunsOK, Begun

LEMMA RolloutKeeps == ASSUME Inv, NEW j \in Jobs, Rollout(j) \/ Decide(j) PROVE Inv'
<1>0. runs[j] \in RunType /\ Uploaded(runs[j])
  BY RunIs
<1>1. RestOK' /\ UNCHANGED row
  BY DEF Rollout, Decide, NoFault, Inv, Types, RestOK
<1>2. CASE Rollout(j)
  <2> DEFINE x == [runs[j] EXCEPT !.pc = "open"]
  <2>1. runs' = [runs EXCEPT ![j] = x]
    BY <1>2 DEF Rollout, Inv, Types, RunsOK
  <2>2. x \in RunType /\ Uploaded(x)
    <3>1. runs[j].pc = "none"
      BY <1>2 DEF Rollout, Inv, Begun
    <3> QED BY <1>0, <3>1 DEF RunType, Steps, Uploaded, Uploading
  <2>3. runs[j].pc \notin Past
    BY <1>2 DEF Rollout, Inv, Begun, Past
  <2> HIDE DEF x
  <2> QED BY <1>1, <1>2, <2>1, <2>2, <2>3, RunOnly DEF Rollout
<1>3. CASE Decide(j)
  <2>1. PICK pc \in {"load", "ended"} : GoTo(j, pc)
    BY <1>3 DEF Decide
  <2>2. runs[j].result # "succeeded" /\ runs[j].pc # "none" /\ UNCHANGED requests
    BY <1>0, <1>3 DEF Decide, InRun, Uploaded
  <2> QED BY <1>1, <2>1, <2>2, GoesOn DEF Steps, Uploading, Past
<1> QED BY <1>2, <1>3

-----------------------------------------------------------------------------
(* The handler *)

\* What the steps of a run leave alone
Aside == UNCHANGED <<kind, pkg, requests>> /\ faults' \in Nat /\ crashes' \in Nat

LEMMA AsideOK == ASSUME Inv, Aside, row' = row PROVE RestOK' /\ UNCHANGED <<row, requests>>
  BY DEF Aside, Inv, Types, RestOK

LEMMA NoFaultAside == ASSUME Inv, UNCHANGED <<kind, pkg, requests>>, NoFault PROVE Aside
  BY DEF Inv, Types, RestOK, NoFault, Aside

LEMMA FaultAside == ASSUME Inv, UNCHANGED <<kind, pkg, requests, crashes>>, Fault \/ UNCHANGED faults PROVE Aside
  BY DEF Inv, Types, RestOK, Fault, Aside

LEMMA StopKeeps ==
  ASSUME Inv, NEW j \in Jobs, NEW x \in RunType, runs' = [runs EXCEPT ![j] = x], UNCHANGED row, Aside,
         x.pc \in {"load", "ended"}, x.result \in {"none", "failed"}, runs[j].pc # "none"
  PROVE  Inv'
<1>1. Uploaded(x) /\ x.pc \in Past
  BY DEF Uploaded, Uploading, Past
<1> QED BY <1>1, AsideOK, RunOnly

LEMMA FailKeeps ==
  ASSUME Inv, NEW j \in Jobs, NEW x \in RunType, runs' = [runs EXCEPT ![j] = x], UNCHANGED row, Aside,
         x.pc = "finish", x.result = "failed", runs[j].pc # "none"
  PROVE  Inv'
<1>1. Uploaded(x) /\ x.pc \in Past
  BY DEF Uploaded, Uploading, Past
<1> QED BY <1>1, AsideOK, RunOnly

LEMMA LoadKeeps == ASSUME Inv, NEW j \in Jobs, Load(j) \/ Check(j) \/ LookRecord(j) PROVE Inv'
<1>0. runs[j] \in RunType /\ Uploaded(runs[j]) /\ runs \in [Jobs -> RunType]
  BY RunIs DEF Inv, Types, RunsOK
<1>1. Aside /\ UNCHANGED <<row, requests>> /\ RestOK'
  BY NoFaultAside, AsideOK DEF Load, Check, LookRecord
<1>2. CASE Load(j)
  <2>1. runs[j].pc = "load" /\ runs[j].result # "succeeded"
    BY <1>0, <1>2 DEF Load, InRun, Uploaded
  <2>2. CASE Ends(j, "failed")
    BY <1>1, <2>1, <2>2, EndsIs, FailKeeps
  <2>3. ASSUME NEW pc \in {"check", "check unready"}, GoTo(j, pc) PROVE Inv'
    BY <1>1, <2>1, <2>3, GoesOn DEF Steps, Uploading, Past
  <2> QED BY <1>2, <2>2, <2>3 DEF Load
<1>3. CASE Check(j)
  <2>1. runs[j].pc \in {"check", "check unready"} /\ runs[j].result # "succeeded"
    BY <1>0, <1>3 DEF Check, Uploaded
  <2>2. CASE row.status = "published" /\ row.app # None
    <3> DEFINE x == [runs[j] EXCEPT !.pc = "finish", !.result = "succeeded", !.app = row.app]
    <3>1. runs' = [runs EXCEPT ![j] = x]
      BY <1>0, <1>3, <2>2 DEF Check
    <3>2. row.app = Complete /\ Complete \in Apps
      BY <2>2, CompleteIs DEF Inv, Recorded
    <3>3. x \in RunType /\ x.pc = "finish" /\ x.result = "succeeded" /\ x.app = Complete
      BY <1>0, <3>2 DEF RunType, Steps
    <3> HIDE DEF x
    <3>4. Uploaded(x) /\ x.pc \in Past
      BY <3>3 DEF Uploaded, Uploading, Past
    <3> QED BY <1>1, <2>1, <3>1, <3>3, <3>4, RunOnly
  <2>3. CASE ~(row.status = "published" /\ row.app # None)
    <3>1. PICK pc \in {"publishing", "publishing unready"} : GoTo(j, pc)
      BY <1>3, <2>3 DEF Check
    <3>2. ~(row.status = "published" /\ row.app = Complete)
      BY <2>3, CompleteIs
    <3> QED BY <1>1, <2>1, <3>1, <3>2, GoesOn DEF Steps, Uploading
  <2> QED BY <2>2, <2>3
<1>4. CASE LookRecord(j)
  <2> DEFINE x == [runs[j] EXCEPT !.absent = TRUE]
  <2>1. runs' = [runs EXCEPT ![j] = x]
    BY <1>0, <1>4 DEF LookRecord
  <2>2. x \in RunType /\ x.pc = runs[j].pc /\ x.app = runs[j].app /\ x.result = runs[j].result
    BY <1>0 DEF RunType
  <2> HIDE DEF x
  <2>3. Uploaded(x)
    BY <1>0, <2>2 DEF Uploaded
  <2> QED BY <1>1, <1>4, <2>1, <2>2, <2>3, RunOnly DEF LookRecord, Records
<1> QED BY <1>2, <1>3, <1>4

LEMMA UploadKeeps ==
  ASSUME Inv, NEW j \in Jobs, Post(j) \/ Upload(j) \/ Pin(j) \/ Poll(j) \/ UploadFails(j) PROVE Inv'
<1>0. runs[j] \in RunType /\ Uploaded(runs[j])
  BY RunIs
<1>1. Aside
  BY NoFaultAside, FaultAside DEF Post, Upload, Pin, Poll, UploadFails
<1>2. RestOK' /\ UNCHANGED <<row, requests>>
  BY <1>1, AsideOK DEF Post, Upload, Pin, Poll, UploadFails
<1>3. runs[j].pc \in (Uploading \cup {"post"}) \ {"published"}
  BY DEF Post, Upload, Pin, Poll, UploadFails, InRun, Uploading
<1>4. runs[j].result # "succeeded" /\ runs[j].pc # "none" /\ runs[j].pc \notin Past
  BY <1>0, <1>3 DEF Uploaded, Uploading, Past
<1>5. ASSUME NEW pc \in {"failed", "blocks"}, GoTo(j, pc), pc = "blocks" => runs[j].app \in Apps PROVE Inv'
  BY <1>2, <1>4, <1>5, GoesOn DEF Steps, Uploading
<1>6. ASSUME NEW pc \in Uploading, NEW app \in Apps, Moves(j, pc, app),
             pc = "pin" => app.content = "committed", pc = "published" => app = Complete
      PROVE  Inv'
  <2>1. PICK x \in RunType : runs' = [runs EXCEPT ![j] = x] /\ x.pc = pc /\ x.result = runs[j].result /\ x.app = app
    <3>1. pc \in Steps /\ app \in Apps \cup {None}
      BY DEF Steps
    <3> QED BY <1>6, <3>1, MovesIs
  <2>2. Uploaded(x)
    BY <1>4, <1>6, <2>1 DEF Uploaded
  <2> QED BY <1>2, <1>4, <2>1, <2>2, RunOnly
<1>7. CASE Post(j)
  <2>1. Created \in Apps /\ (kind = "store" => Created = Complete)
    BY DEF Created, Apps, Complete
  <2> QED BY <1>6, <1>7, <2>1 DEF Post, Uploading
<1>8. runs[j].pc \in Uploading => runs[j].app \in Apps
  BY <1>0 DEF Uploaded
<1>9. CASE Upload(j)
  <2>1. CASE Moves(j, "address", runs[j].app) /\ runs[j].pc = "register"
    BY <1>6, <1>8, <2>1 DEF Uploading
  <2>2. CASE Moves(j, "await", [runs[j].app EXCEPT !.content = "committing"]) /\ runs[j].pc = "blocks"
    <3>1. [runs[j].app EXCEPT !.content = "committing"] \in Apps
      BY <1>8, <2>2 DEF Apps, Uploading
    <3> QED BY <1>6, <2>2, <3>1 DEF Uploading
  <2> QED BY <1>9, <2>1, <2>2 DEF Upload, InRun
<1>10. CASE Pin(j)
  <2>1. runs[j].app \in Apps /\ runs[j].app.content = "committed"
    BY <1>0, <1>8, <1>10 DEF Pin, InRun, Uploading, Uploaded
  <2>2. [runs[j].app EXCEPT !.pinned = TRUE] = Complete
    BY <2>1, PinnedIs
  <2> QED BY <1>6, <1>10, <2>2, CompleteIs DEF Pin, Uploading
<1>11. CASE Poll(j)
  <2>1. CASE runs[j].pc = "await" /\ Moves(j, "pin", [runs[j].app EXCEPT !.content = "committed"])
    <3>1. /\ [runs[j].app EXCEPT !.content = "committed"] \in Apps
          /\ [runs[j].app EXCEPT !.content = "committed"].content = "committed"
      BY <1>8, <2>1 DEF Apps, Uploading
    <3> QED BY <1>6, <2>1, <3>1 DEF Uploading
  <2> QED BY <1>5, <1>8, <1>11, <2>1 DEF Poll, InRun, Uploading
<1>12. CASE UploadFails(j)
  BY <1>5, <1>12 DEF UploadFails
<1> QED BY <1>7, <1>9, <1>10, <1>11, <1>12

-----------------------------------------------------------------------------
(* The record, and the queue *)

\* What a record writes, and what becomes of its run
LEMMA RecordIs ==
  ASSUME Inv, NEW j \in Jobs, WriteRecord(j)
  PROVE  /\ runs[j].pc \in Records
         /\ \E x \in RunType : /\ runs' = [runs EXCEPT ![j] = x] /\ Uploaded(x) /\ x.pc # "none"
                               /\ row' \in RowType
                               /\ row'.status = "published" => row'.by = j /\ row'.app = Complete /\ x.pc = "finish"
<1>0. runs[j] \in RunType /\ Uploaded(runs[j]) /\ row \in RowType
  BY RunIs DEF Inv, Types, RestOK
<1>1. runs[j].pc \in Records /\ runs[j].result # "succeeded"
  BY <1>0 DEF WriteRecord, Records, Uploaded
<1>2. ASSUME NEW pc \in {"post", "failed"}, GoTo(j, pc), row' = [row EXCEPT !.status = "publishing"]
      PROVE  \E x \in RunType : /\ runs' = [runs EXCEPT ![j] = x] /\ Uploaded(x) /\ x.pc # "none"
                                /\ row' \in RowType /\ row'.status # "published"
  <2>1. PICK x \in RunType : runs' = [runs EXCEPT ![j] = x] /\ x.pc = pc /\ x.result = runs[j].result
    <3>1. pc \in Steps
      BY DEF Steps
    <3> QED BY <1>2, <3>1, GoToIs
  <2>2. Uploaded(x)
    BY <1>1, <2>1 DEF Uploaded, Uploading
  <2>3. row' \in RowType /\ row'.status # "published"
    BY <1>0, <1>2 DEF RowType
  <2> QED BY <2>1, <2>2, <2>3
<1>3. CASE InRun(j, "publishing") \/ InRun(j, "publishing unready")
  BY <1>1, <1>2, <1>3 DEF WriteRecord, InRun, Upsert
<1>4. CASE InRun(j, "published")
  <2>1. Ends(j, "succeeded") /\ row' = [status |-> "published", app |-> runs[j].app, by |-> j]
    BY <1>4 DEF WriteRecord, InRun, Upsert
  <2>2. PICK x \in RunType : /\ runs' = [runs EXCEPT ![j] = x] /\ x.pc = "finish" /\ x.result = "succeeded"
                             /\ x.app = runs[j].app
    BY <2>1, EndsIs
  <2>3. runs[j].app = Complete
    BY <1>0, <1>4 DEF InRun, Uploaded
  <2>4. Uploaded(x)
    BY <2>2, <2>3 DEF Uploaded, Uploading
  <2>5. row' \in RowType /\ row'.by = j /\ row'.app = Complete
    BY <2>1, <2>3, CompleteIs DEF RowType
  <2> QED BY <1>1, <2>2, <2>4, <2>5
<1>5. CASE InRun(j, "failed")
  <2>1. Ends(j, "failed") /\ row' = [row EXCEPT !.status = "failed"]
    BY <1>5 DEF WriteRecord, InRun, Upsert
  <2>2. PICK x \in RunType : runs' = [runs EXCEPT ![j] = x] /\ x.pc = "finish" /\ x.result = "failed"
    BY <2>1, EndsIs
  <2>3. Uploaded(x)
    BY <2>2 DEF Uploaded, Uploading
  <2>4. row' \in RowType /\ row'.status # "published"
    BY <1>0, <2>1 DEF RowType
  <2> QED BY <1>1, <2>2, <2>3, <2>4
<1> QED BY <1>1, <1>3, <1>4, <1>5 DEF Records, InRun

LEMMA RecordKeeps == ASSUME Inv, NEW j \in Jobs, WriteRecord(j) PROVE Inv'
<1>1. PICK x \in RunType : /\ runs' = [runs EXCEPT ![j] = x] /\ Uploaded(x) /\ x.pc # "none"
                           /\ row' \in RowType
                           /\ row'.status = "published" => row'.by = j /\ row'.app = Complete /\ x.pc = "finish"
  BY RecordIs
<1>2. runs' \in [Jobs -> RunType] /\ runs'[j] = x /\ \A k \in Jobs : k # j => runs'[k] = runs[k]
  BY <1>1 DEF Inv, Types, RunsOK
<1>3. Types'
  BY <1>1, <1>2 DEF WriteRecord, NoFault, Inv, Types, RunsOK, RestOK
<1>4. \A k \in Jobs : Uploaded(runs'[k])
  BY <1>1, <1>2 DEF Inv
<1>5. Recorded' /\ Settled'
  BY <1>1, <1>2 DEF Recorded, Settled, Past
<1>6. Begun'
  <2>1. runs[j].pc # "none" /\ requests' = requests
    BY DEF WriteRecord, Records
  <2> QED BY <1>2, <2>1 DEF Inv, Begun
<1> QED BY <1>3, <1>4, <1>5, <1>6 DEF Inv

LEMMA QueueKeeps ==
  ASSUME Inv, NEW j \in Jobs, RecordFails(j) \/ Finish(j) \/ FinishFails(j) \/ Crash(j) PROVE Inv'
<1>0. runs[j] \in RunType /\ Uploaded(runs[j]) /\ runs \in [Jobs -> RunType]
  BY RunIs DEF Inv, Types, RunsOK
<1>1. Aside /\ row' = row
  <2>1. CASE RecordFails(j)
    BY <2>1, FaultAside DEF RecordFails
  <2>2. CASE Finish(j)
    BY <2>2, NoFaultAside DEF Finish
  <2>3. CASE FinishFails(j)
    BY <2>3, FaultAside DEF FinishFails
  <2>4. CASE Crash(j)
    BY <2>4 DEF Crash, Aside, Inv, Types, RestOK
  <2> QED BY <2>1, <2>2, <2>3, <2>4
<1>2. RestOK' /\ UNCHANGED <<row, requests>>
  BY <1>1, AsideOK
<1>3. runs[j].pc # "none"
  BY DEF RecordFails, Finish, FinishFails, Crash, Records, InRun
<1>4. CASE Thrown(j)
  BY <1>1, <1>3, <1>4, ThrownIs, StopKeeps
<1>5. CASE RecordFails(j)
  <2>1. CASE GoTo(j, "failed") /\ runs[j].pc = "published"
    <3>1. runs[j].result # "succeeded" /\ runs[j].pc \notin Past
      BY <1>0, <2>1 DEF Uploaded, Past
    <3> QED BY <1>2, <1>3, <2>1, <3>1, GoesOn DEF Steps, Uploading
  <2> QED BY <1>4, <1>5, <2>1 DEF RecordFails, InRun
<1>6. CASE FinishFails(j)
  BY <1>4, <1>6 DEF FinishFails
<1>7. CASE Finish(j)
  <2> DEFINE x == [runs[j] EXCEPT !.pc = "ended", !.tries = 0, !.stalled = 0]
  <2>1. runs' = [runs EXCEPT ![j] = x]
    BY <1>0, <1>7 DEF Finish
  <2>2. x \in RunType /\ x.pc = "ended" /\ x.result = runs[j].result /\ x.app = runs[j].app
    BY <1>0 DEF RunType, Steps
  <2> HIDE DEF x
  <2>3. Uploaded(x) /\ x.pc \in Past
    BY <1>0, <2>2 DEF Uploaded, Uploading, Past
  <2> QED BY <1>2, <1>3, <2>1, <2>2, <2>3, RunOnly
<1>8. CASE Crash(j)
  <2> DEFINE again == runs[j].stalled < MaxStalled
             x == [runs[j] EXCEPT !.absent = FALSE, !.app = None, !.stalled = runs[j].stalled + 1,
                                  !.pc = IF again THEN "load" ELSE "ended", !.result = IF again THEN "none" ELSE "failed"]
  <2>1. runs' = [runs EXCEPT ![j] = x]
    BY <1>0, <1>8 DEF Crash
  <2>2. runs[j].stalled + 1 \in Nat
    BY <1>0 DEF RunType
  <2> HIDE DEF again
  <2>3. x \in RunType /\ x.pc \in {"load", "ended"} /\ x.result \in {"none", "failed"}
    BY <1>0, <2>2 DEF RunType, Steps
  <2> HIDE DEF x
  <2> QED BY <1>1, <1>3, <2>1, <2>3, StopKeeps
<1> QED BY <1>5, <1>6, <1>7, <1>8

-----------------------------------------------------------------------------
(* The invariant always holds *)

LEMMA InvNext == Inv /\ [Next]_vars => Inv'
<1> SUFFICES ASSUME Inv, [Next]_vars PROVE Inv'
  OBVIOUS
<1>1. CASE UNCHANGED vars
  BY <1>1 DEF vars, Inv, Types, RunsOK, RestOK, Recorded, Settled, Begun
<1>2. CASE ChangePackage
  BY <1>2, PackageKeeps
<1>3. ASSUME NEW j \in Jobs, Rollout(j) \/ LookPending(j) \/ WritePending(j) \/ PendingFails(j) \/ Decide(j) PROVE Inv'
  BY <1>3, RolloutKeeps, RequestKeeps
<1>4. ASSUME NEW j \in Jobs, RunStep(j) \/ FinishFails(j) \/ Crash(j) PROVE Inv'
  BY <1>4, LoadKeeps, UploadKeeps, RecordKeeps, QueueKeeps DEF RunStep
<1> QED BY <1>1, <1>2, <1>3, <1>4 DEF Next

LEMMA InvAlways == Spec => []Inv
  BY InvInit, InvNext, PTL DEF Spec

\* app-provider.ts:392: a row is published and a job succeeds only with an app
\* whose content Intune has taken and pinned.
THEOREM OnlyCompleteApps == Spec => []PublishedIsComplete
<1>1. Inv => PublishedIsComplete
  BY DEF Inv, Recorded, Uploaded, PublishedIsComplete
<1> QED BY <1>1, InvAlways, PTL

\* app-publish-job-handlers.ts:77: the job that recorded its app does not write
\* the row again, however often it is repeated.
THEOREM RecordedStays == Spec => RecordedAppStays
<1> DEFINE Stays == \A j \in Jobs : row.status = "published" /\ row.by = j /\ runs'[j] # runs[j]
                       => row'.status \in {"published", "absent"}
<1>1. Inv /\ [Next]_vars => [Stays]_vars
  <2> SUFFICES ASSUME Inv, Next, NEW j \in Jobs, row.status = "published", row.by = j, runs'[j] # runs[j]
               PROVE  row' = row \/ row' = Absent
    BY DEF Absent
  <2>1. runs[j].pc \in Past /\ runs \in [Jobs -> RunType]
    BY DEF Inv, Settled, Types, RunsOK
  <2>2. CASE ChangePackage
    BY <2>2 DEF ChangePackage
  <2>3. ASSUME NEW k \in Jobs, Rollout(k) \/ LookPending(k) \/ PendingFails(k) \/ Decide(k) \/ FinishFails(k) \/ Crash(k)
        PROVE  row' = row
    BY <2>3 DEF Rollout, LookPending, PendingFails, Decide, FinishFails, Crash
  <2>4. ASSUME NEW k \in Jobs, WritePending(k) PROVE FALSE
    BY <2>4 DEF WritePending
  <2>5. ASSUME NEW k \in Jobs, WriteRecord(k) PROVE FALSE
    <3>1. runs[k].pc \in Records /\ \E x \in RunType : runs' = [runs EXCEPT ![k] = x]
      BY <2>5, RecordIs
    <3>2. k = j
      BY <2>1, <3>1
    <3> QED BY <2>1, <3>1, <3>2 DEF Past, Records
  <2>6. ASSUME NEW k \in Jobs, RunStep(k), ~WriteRecord(k) PROVE row' = row
    BY <2>6 DEF RunStep, Load, Check, LookRecord, RecordFails, Post, Upload, Pin, Poll, UploadFails, Finish
  <2> QED BY <2>2, <2>3, <2>4, <2>5, <2>6 DEF Next
<1> QED BY <1>1, InvAlways, PTL DEF Spec, RecordedAppStays

-----------------------------------------------------------------------------
(* The handlers of TenantJobs: shapes and the inductive invariant *)

JobFields == {"p", "pc", "at", "run", "seen", "promise", "previewed", "quiet", "quietRun", "sent", "twice", "blind",
              "paged", "unified", "op"}
Waiting == {"new", "previewed"}
Places(p) == 1..Len(Program(p))
IsRequest(step) == step \notin Reads \cup Operations \cup {"wait"}

\* The shape of a job, whatever the tenant
Shaped(job) ==
    /\ job = [k \in JobFields |-> job[k]]
    /\ IsPlan(job.p) /\ job.at \in Places(job.p) /\ job.run \in 0..2
    /\ job.sent \subseteq {n \in Places(job.p) : IsRequest(Program(job.p)[n])}
    /\ job.pc \in Waiting \cup {"running", "succeeded", "failed", "refused", "missing"}
    /\ job.previewed \in BOOLEAN /\ job.quiet \in BOOLEAN /\ job.quietRun \in BOOLEAN
    /\ job.twice \in BOOLEAN /\ job.blind \in BOOLEAN /\ job.paged \in BOOLEAN /\ job.unified \in BOOLEAN
    /\ job.op \in {"none", "going", "done", "failed"}
    /\ IsFiniteSet(job.seen) /\ \A f \in job.seen : WellFormed(f)
    /\ job.pc \in Waiting => job.at = 1 /\ job.sent = {} /\ job.op = "none"
    /\ job.pc = "new" => ~job.previewed
    /\ job.previewed => job.p.type \notin Unprepared
    /\ job.quiet /\ job.pc \notin Waiting => job.quietRun
    /\ job.op # "none" => job.p.area \in {"vm", "avd"} /\ job.p.type \notin Unprepared
    /\ job.paged => job.p.area = "apps"

\* The owners have been counted before one is removed, if the group was found to be one that needs an
\* owner; a job that writes a list back and has read no list in part has read it whole
LastSeen(job) == job.unified /\ Cardinality(Named(job.seen, "owner")) <= 1
Counted(job) ==
    /\ job.p.type = "group.remove" /\ job.p.as = "owner" /\ job.at = 4 => ~LastSeen(job)
    /\ Program(job.p)[job.at] = "replaceAssignments" /\ ~job.paged => Whole(job.seen)

-----------------------------------------------------------------------------
(* What a run that nobody has interfered with finds at each of its steps *)

Words == {"required", "available", "uninstall"}
Dynamic(p, facts) == p.as = "member" /\ <<"dynamic">> \in facts
LastOwner(facts) == <<"m365">> \in facts /\ Cardinality(Named(facts, "owner")) <= 1
Merged(p, seen, facts) == Merge(Named(facts, "assigned"), AddedBy(p, seen), RemovedBy(p))
AsRead(p, seen, facts) == Whole(seen) => Merged(p, seen, seen) = Merged(p, seen, facts)
Rules == {"mailbox.set-rule", "mailbox.delete-rule"}

AccountWay(p, at, facts) == p.type = "identity.disable-user" /\ at = 2 => <<"enabled">> \notin facts

GroupWay(p, at, sent, facts) ==
    /\ at >= 2 => ~Dynamic(p, facts)
    /\ p.type = "group.remove" /\ p.as = "owner" =>
          /\ at = 3 => <<"owner", p.of>> \in facts /\ <<"m365">> \in facts
          /\ at = 4 /\ 4 \notin sent => ~LastOwner(facts)

AppWay(p, at, sent, seen, facts) ==
    /\ p.type # "apps.create-deployment-groups" /\ at = 2 => AsRead(p, seen, facts)
    /\ p.type = "apps.create-deployment-groups" =>
          /\ \A i \in 1..3 : /\ at = 2 * i => at \in sent \/ Named(facts, Intents[i]) = {}
                             /\ at > 2 * i => Named(facts, Intents[i]) # {}
          /\ at = 8 => AsRead(p, seen, facts) /\ \A w \in Words : Named(seen, w) # {}

MailboxWay(p, at, facts) == p.type \in Rules /\ at = 3 => <<"readonly", p.of>> \notin facts

MachineWay(p, at, op, run, facts) ==
    /\ p.type = "vm.deploy" =>
          /\ at >= 2 => <<"resourceGroup">> \in facts
          /\ (at = 3 /\ op = "done") \/ at = 4 => Goal(p, facts, run)
    /\ p.type \in PowerTypes \cup {"vm.resize"} /\ ((at = 2 /\ op = "done") \/ at = 3) => Goal(p, facts, run)

MonitorWay(p, at, facts) == p.type = "tenant.monitor-enable" /\ at = 2 => <<"script">> \in facts

Way(p, at, sent, seen, op, run, facts) ==
    /\ p.area = "identity" => AccountWay(p, at, facts)
    /\ p.area = "group" => GroupWay(p, at, sent, facts)
    /\ p.area = "apps" => AppWay(p, at, sent, seen, facts)
    /\ p.area = "mailbox" => MailboxWay(p, at, facts)
    /\ p.area \in {"vm", "avd"} => MachineWay(p, at, op, run, facts)
    /\ p.area = "monitor" => MonitorWay(p, at, facts)

\* The kind of the group is still what it was when it was loaded
Kind(p, at, unified, facts) == p.area = "group" /\ at >= 2 => unified = (<<"m365">> \in facts)

\* A job that has not waited for its operation knows nothing of it
Waits == PowerTypes \cup {"vm.resize"}
Unwaited(job) == job.blind /\ job.p.type \in Waits

OnItsWay(job, facts) ==
    job.quietRun =>
        /\ job.pc = "running" => Kind(job.p, job.at, job.unified, facts)
        /\ job.pc = "running" /\ ~Unwaited(job) => Way(job.p, job.at, job.sent, job.seen, job.op, job.run, facts)
        /\ job.pc = "succeeded" /\ ~job.blind => Goal(job.p, facts, job.run)

-----------------------------------------------------------------------------
(* What has become of the preview as long as nobody has interfered *)

\* Each run makes an object that was not there
Fresh(p) == p.type = "mailbox.create-forward-rule" \/ p.area = "device"

\* A preview of the facts would say the same as one of the others
SamePreview(v, w) == v.scope = w.scope /\ v.after = w.after

\* What holds once a step has taken effect
Under(p, facts) ==
    /\ p.area = "group" => ~Dynamic(p, facts) /\ (p.type = "group.remove" => <<p.as, p.of>> \notin facts)
    /\ p.type \in Rules => <<"readonly", p.of>> \notin facts

\* The preview when the list of assignments is read whole and Azure finds the template valid
Foretold(p, facts) ==
    IF p.type \in {"apps.assign", "apps.unassign"}
    THEN [scope |-> {"assigned"}, after |-> Merged(p, facts, facts), refused |-> FALSE]
    ELSE PreviewOf(p, facts, TRUE)

Comes(job, facts) ==
    /\ job.sent = {} /\ job.p.type \notin Warned => job.promise.refused = Foretold(job.p, facts).refused
    /\ job.sent = {} /\ ~job.paged => SamePreview(job.promise, Foretold(job.p, facts))
    /\ job.sent # {} => Under(job.p, facts) /\ (job.p.type \notin Warned => ~job.promise.refused)
    /\ ~job.twice /\ Fresh(job.p) /\ job.sent # {} => Scope(facts, job.promise.scope) = job.promise.after
    /\ ~job.twice /\ ~job.paged /\ ~Fresh(job.p) => SamePreview(job.promise, Foretold(job.p, facts))
    /\ job.p.type = "mailbox.set-rule" => About(facts, "rule", job.p.of) # {}
    /\ job.pc = "succeeded" /\ Fresh(job.p) => job.sent # {}
    /\ job.pc = "refused" => job.promise.refused \/ Nowhere(job.p)

Promised(job, facts) == job.previewed /\ job.quiet => Comes(job, facts)

Good(job, facts) == Shaped(job) /\ Counted(job) /\ OnItsWay(job, facts) /\ Promised(job, facts)

JobsInv ==
    /\ Possible(tenant) /\ \A f \in portal : WellFormed(f)
    /\ jobs = [j \in Handlers |-> jobs[j]]
    /\ \A j \in Handlers : Good(jobs[j], tenant)

-----------------------------------------------------------------------------
(* Facts *)

\* Among one more number than there are objects, one is free
LEMMA NewIdIsNew ==
  ASSUME NEW facts, IsFiniteSet(facts), NEW word
  PROVE  NewId(facts, word) \in Nat /\ About(facts, word, NewId(facts, word)) = {}
<1> DEFINE N == Named(facts, word)
           c == Cardinality(N)
<1>1. IsFiniteSet(N) /\ c \in Nat
  BY FS_Subset, FS_CardinalityType DEF Named
<1>2. IsFiniteSet(1..(c + 1)) /\ Cardinality(1..(c + 1)) = c + 1
  BY <1>1, FS_Interval
<1>3. \E n \in 1..(c + 1) : About(facts, word, n) = {}
  <2> SUFFICES ASSUME \A n \in 1..(c + 1) : About(facts, word, n) # {} PROVE FALSE
    OBVIOUS
  <2> DEFINE g == [n \in 1..(c + 1) |-> CHOOSE f \in N : f[2] = n]
  <2>1. \A n \in 1..(c + 1) : g[n] \in N /\ g[n][2] = n
    <3>1. \A n \in 1..(c + 1) : \E f \in N : f[2] = n
      BY DEF About
    <3> QED BY <3>1
  <2>2. g \in [1..(c + 1) -> N]
    BY <2>1
  <2> HIDE DEF g, N
  <2>3. \E x, y \in 1..(c + 1) : x # y /\ g[x] = g[y]
    BY <1>1, <1>2, <2>2, FS_PigeonHole
  <2> QED BY <2>1, <2>3
<1>4. NewId(facts, word) \in 1..(c + 1) /\ About(facts, word, NewId(facts, word)) = {}
  BY <1>3 DEF NewId
<1> QED BY <1>1, <1>4

LEMMA FirstId ==
  ASSUME NEW facts, NEW word, Named(facts, word) = {}
  PROVE  NewId(facts, word) = 1
<1>1. Cardinality(Named(facts, word)) = 0
  BY FS_EmptySet
<1>2. 1..(0 + 1) = {1}
  OBVIOUS
<1>3. About(facts, word, 1) = {}
  BY DEF About
<1> QED BY <1>1, <1>2, <1>3 DEF NewId

\* A change that leaves the rules and the script alone
LEMMA PlainChange ==
  ASSUME NEW facts, Possible(facts), NEW drop, NEW add, IsFiniteSet(add), \A f \in add : WellFormed(f),
         \A f \in add : f[1] # "rule" /\ f # <<"schedule">>, <<"script">> \notin drop
  PROVE  Possible(Apply(facts, Change(drop, add)))
<1> DEFINE after == (facts \ drop) \cup add
<1>1. IsFiniteSet(after)
  BY FS_Subset, FS_Union DEF Possible
<1>2. \A f \in after : WellFormed(f)
  BY DEF Possible
<1>3. Named(after, "rule") \subseteq Named(facts, "rule")
  BY DEF Named
<1>4. <<"schedule">> \in after => <<"script">> \in after
  BY DEF Possible
<1> QED BY <1>1, <1>2, <1>3, <1>4 DEF Possible, Apply, Change

-----------------------------------------------------------------------------
(* Which steps a job has *)

LEMMA LicencePlan ==
  ASSUME NEW p, IsPlan(p), p.type \in Licences
  PROVE  p.area = "identity" /\ Program(p) = LicenceProgram(p)
BY DEF IsPlan, Licences, Unprepared, Program

LEMMA AreaProgram ==
  ASSUME NEW p, IsPlan(p)
  PROVE  /\ p.area = "identity" /\ p.type \notin Licences => Program(p) = AccountProgram(p)
         /\ p.area = "group" => Program(p) = GroupProgram(p)
         /\ p.area = "apps" => Program(p) = AppProgram(p)
         /\ p.area = "mailbox" => Program(p) = MailboxProgram(p)
         /\ p.area = "vm" => Program(p) = VmProgram(p)
         /\ p.area = "avd" /\ p.type \in Unprepared => Program(p) = SessionProgram(p)
         /\ p.area = "avd" /\ p.type \notin Unprepared => Program(p) = HostProgram(p)
         /\ p.area = "device" => Program(p) = DeviceProgram(p)
         /\ p.area = "monitor" => Program(p) = MonitorProgram(p)
BY DEF IsPlan, Licences, Unprepared, Program

LEMMA AreaPreview ==
  ASSUME NEW p, IsPlan(p), NEW facts
  PROVE  /\ p.type \in Licences => Foretold(p, facts) = LicencePreview(p, facts)
         /\ p.area = "identity" /\ p.type \notin Licences => Foretold(p, facts) = AccountPreview(p, facts)
         /\ p.area = "group" => Foretold(p, facts) = GroupPreview(p, facts)
         /\ p.type \in {"apps.assign", "apps.unassign"} =>
               Foretold(p, facts) = [scope |-> {"assigned"}, after |-> Merged(p, facts, facts), refused |-> FALSE]
         /\ p.type = "apps.create-deployment-groups" => Foretold(p, facts) = DeploymentPreview(p, facts)
         /\ p.area = "mailbox" => Foretold(p, facts) = MailboxPreview(p, facts)
         /\ p.area = "vm" => Foretold(p, facts) = VmPreview(p, facts, TRUE)
         /\ p.area = "avd" => Foretold(p, facts) = HostPreview(p)
         /\ p.area = "device" => Foretold(p, facts) = DevicePreview(p, facts)
         /\ p.area = "monitor" => Foretold(p, facts) = MonitorPreview(p)
BY DEF IsPlan, Licences, PreviewOf, Foretold

LEMMA AreaEffect ==
  ASSUME NEW p, IsPlan(p), NEW step, NEW facts, NEW seen, NEW run
  PROVE  /\ p.area = "identity" => Effect(p, step, facts, seen, run) = IdentityEffect(p, step, facts, run)
         /\ p.area = "group" => Effect(p, step, facts, seen, run) = GroupEffect(p, step)
         /\ p.area = "apps" => Effect(p, step, facts, seen, run) = AppEffect(p, step, facts, seen)
         /\ p.area = "mailbox" => Effect(p, step, facts, seen, run) = MailboxEffect(p, step, facts)
         /\ p.area = "vm" => Effect(p, step, facts, seen, run) = ResourceGroupEffect
         /\ p.area = "avd" => Effect(p, step, facts, seen, run) = SessionEffect(p, step, facts)
         /\ p.area = "device" => Effect(p, step, facts, seen, run) = DeviceEffect(p, facts)
         /\ p.area = "monitor" => Effect(p, step, facts, seen, run) = MonitorEffect(p, step)
BY DEF Effect

LEMMA AreaVerdict ==
  ASSUME NEW p, NEW step, NEW facts, NEW unified, NEW readable
  PROVE  /\ p.area = "group" => Verdict(p, step, facts, unified, readable) = GroupVerdict(p, step, facts, unified)
         /\ p.area = "apps" => Verdict(p, step, facts, unified, readable) = AppVerdict(p, step, facts)
         /\ p.area = "mailbox" => Verdict(p, step, facts, unified, readable) = MailboxVerdict(p, step, facts)
         /\ p.area = "monitor" => Verdict(p, step, facts, unified, readable) = MonitorVerdict(facts, readable)
         /\ p.area = "vm" => Verdict(p, step, facts, unified, readable) = "go"
BY DEF Verdict

\* What a job of each area may be about
LEMMA AreaTypes ==
  ASSUME NEW p, IsPlan(p)
  PROVE  /\ p.area = "identity" => p.type \in Licences \cup {"identity.disable-user", "identity.enable-user",
                                                            "identity.revoke-sessions", "identity.reset-password"}
         /\ p.area = "group" => p.type \in {"group.add", "group.remove"} /\ p.as \in {"member", "owner"}
         /\ p.area = "apps" => p.type \in {"apps.assign", "apps.unassign", "apps.create-deployment-groups"}
         /\ p.area = "mailbox" => p.type \in {"mailbox.set-auto-reply", "mailbox.create-forward-rule",
                                             "mailbox.set-rule", "mailbox.delete-rule"}
         /\ p.area = "vm" => p.type \in {"vm.start", "vm.stop", "vm.restart", "vm.resize", "vm.deploy"}
         /\ p.area = "avd" => p.type \in Unprepared \cup {"avd.start-session-host", "avd.stop-session-host"}
         /\ p.area = "device" => p.type \in {"device.sync", "device.restart", "device.defender-scan"}
         /\ p.area = "monitor" => p.type \in {"tenant.monitor-enable", "tenant.monitor-disable"}
         /\ p.area \in {"identity", "group", "apps", "mailbox", "vm", "avd", "device", "monitor"}
BY DEF IsPlan, Licences, Unprepared

LEMMA OneAdded ==
  ASSUME NEW facts, Possible(facts), NEW f, WellFormed(f), f[1] # "rule", f # <<"schedule">>, NEW drop, <<"script">> \notin drop
  PROVE  Possible(Apply(facts, Change(drop, {f})))
BY PlainChange, FS_Singleton

LEMMA SomeDropped ==
  ASSUME NEW facts, Possible(facts), NEW drop, <<"script">> \notin drop
  PROVE  Possible(Apply(facts, Change(drop, {})))
BY PlainChange, FS_EmptySet

-----------------------------------------------------------------------------
(* What a request makes of the facts, kind by kind *)

\* The facts after a request leave the run on its way, and the preview true
SentWell(p, at, sent, seen, op, run, facts, after) ==
    /\ Way(p, at, sent \cup {at}, seen, op, run, after)
    /\ at = Len(Program(p)) => Goal(p, after, run)
    /\ at < Len(Program(p)) => Way(p, at + 1, sent \cup {at}, seen, op, run, after)
    /\ Under(p, after)
    /\ sent = {} /\ p.type \notin Unprepared \cup Warned => ~Foretold(p, facts).refused
    /\ p.area = "group" => (<<"m365">> \in after <=> <<"m365">> \in facts)
    /\ p.type \notin Unprepared /\ Fresh(p) => Scope(after, Foretold(p, facts).scope) = Foretold(p, facts).after
    /\ /\ p.type \notin Unprepared /\ ~Fresh(p) /\ ~(Program(p)[at] \in Makes /\ at \in sent)
       /\ Program(p)[at] = "replaceAssignments" => Whole(seen)
       => SamePreview(Foretold(p, facts), Foretold(p, after))
    /\ p.type = "mailbox.set-rule" => About(after, "rule", p.of) # {}

\* What the request of a job that is at a place changes
Changed(p, at, facts, seen, run) == Apply(facts, Effect(p, Program(p)[at], facts, seen, run))

LEMMA LicenceSends ==
  ASSUME NEW p, IsPlan(p), p.type \in Licences, NEW at \in Places(p), NEW sent, NEW seen, NEW op, NEW run,
         NEW facts, Possible(facts), NEW after, after = Changed(p, at, facts, seen, run)
  PROVE  Possible(after) /\ SentWell(p, at, sent, seen, op, run, facts, after)
<1> DEFINE licence == <<"licence", p.of>>
<1>1. p.area = "identity" /\ Program(p) = LicenceProgram(p)
  BY LicencePlan
<1>2. Len(Program(p)) = 1 /\ at = 1
  BY <1>1 DEF LicenceProgram, Places
<1>3. Way(p, at, sent \cup {at}, seen, op, run, after) /\ Under(p, after)
  BY <1>1, <1>2 DEF Way, AccountWay, Under, Rules, Licences
<1>4. Effect(p, Program(p)[at], facts, seen, run) = IdentityEffect(p, Program(p)[at], facts, run)
  BY <1>1, AreaEffect
<1>5. Foretold(p, facts) = LicencePreview(p, facts) /\ Foretold(p, after) = LicencePreview(p, after)
  BY AreaPreview
<1>6. ~Fresh(p) /\ p.type # "mailbox.set-rule" /\ p.area # "group"
  BY <1>1 DEF Fresh, Licences
<1>9. ~LicencePreview(p, facts).refused
  BY DEF LicencePreview
<1>10. Goal(p, after, run) /\ LicencePreview(p, facts) = LicencePreview(p, after) => SentWell(p, at, sent, seen, op, run, facts, after)
  BY <1>2, <1>3, <1>5, <1>6, <1>9 DEF SentWell, SamePreview
<1>7. CASE p.type = "identity.assign-license"
  <2>1. after = Apply(facts, Change({}, {licence}))
    BY <1>1, <1>2, <1>4, <1>7 DEF Changed, LicenceProgram, IdentityEffect
  <2>2. Possible(after)
    <3>1. IsFiniteSet({licence}) /\ WellFormed(licence)
      BY FS_Singleton DEF WellFormed, Flags
    <3> QED BY <2>1, <3>1, PlainChange
  <2>3. after = facts \cup {licence}
    BY <2>1 DEF Apply, Change
  <2>4. Goal(p, after, run)
    BY <1>1, <1>7, <2>3 DEF Goal
  <2>5. LicencePreview(p, facts) = LicencePreview(p, after)
    BY <1>7, <2>3 DEF LicencePreview, Named
  <2> QED BY <1>10, <2>2, <2>4, <2>5
<1>8. CASE p.type = "identity.remove-license"
  <2>1. after = Apply(facts, Change({licence}, {}))
    BY <1>1, <1>2, <1>4, <1>8 DEF Changed, LicenceProgram, IdentityEffect
  <2>2. Possible(after)
    BY <2>1, PlainChange, FS_EmptySet
  <2>3. after = facts \ {licence}
    BY <2>1 DEF Apply, Change
  <2>4. Goal(p, after, run)
    BY <1>1, <1>8, <2>3 DEF Goal
  <2>5. LicencePreview(p, facts) = LicencePreview(p, after)
    BY <1>8 DEF LicencePreview
  <2> QED BY <1>10, <2>2, <2>4, <2>5
<1> QED BY <1>7, <1>8 DEF Licences

LEMMA AccountSends ==
  ASSUME NEW p, IsPlan(p), p.area = "identity", p.type \notin Licences, NEW at \in Places(p), NEW sent, NEW seen, NEW op, NEW run,
         NEW facts, Possible(facts), NEW after, after = Changed(p, at, facts, seen, run)
  PROVE  Possible(after) /\ (Way(p, at, sent, seen, op, run, facts) => SentWell(p, at, sent, seen, op, run, facts, after))
<1>1. Program(p) = AccountProgram(p)
  BY AreaProgram
<1>2. Effect(p, Program(p)[at], facts, seen, run) = IdentityEffect(p, Program(p)[at], facts, run)
  BY AreaEffect
<1>3. Foretold(p, facts) = AccountPreview(p, facts) /\ Foretold(p, after) = AccountPreview(p, after)
  BY AreaPreview
<1>4. ~Fresh(p) /\ p.type # "mailbox.set-rule" /\ Under(p, after)
  BY AreaTypes DEF Fresh, Under, Rules, Licences
<1>5. AccountPreview(p, facts) = AccountPreview(p, after) /\ ~AccountPreview(p, facts).refused
  BY AreaTypes DEF AccountPreview
<1>6. \A n, s, fs : Way(p, n, s, seen, op, run, fs) <=> AccountWay(p, n, fs)
  BY DEF Way
<1> SUFFICES /\ Possible(after)
             /\ AccountWay(p, at, facts) =>
                  /\ AccountWay(p, at, after)
                  /\ at = Len(Program(p)) => Goal(p, after, run)
                  /\ at < Len(Program(p)) => AccountWay(p, at + 1, after)
  BY <1>3, <1>4, <1>5, <1>6 DEF SentWell, SamePreview
<1>7. CASE p.type = "identity.disable-user"
  <2>1. Len(Program(p)) = IF p.as = "revoke" THEN 2 ELSE 1
    BY <1>1, <1>7 DEF AccountProgram
  <2>2. CASE at = 1
    <3>1. after = Apply(facts, Change({<<"enabled">>}, {}))
      BY <1>1, <1>2, <1>7, <2>2 DEF Changed, AccountProgram, IdentityEffect
    <3>2. Possible(after)
      BY <3>1, SomeDropped
    <3>3. <<"enabled">> \notin after
      BY <3>1 DEF Apply, Change
    <3> QED BY <1>7, <2>1, <2>2, <3>2, <3>3 DEF Goal, AccountWay
  <2>3. CASE at = 2
    <3>1. after = Apply(facts, Change({<<"session">>}, {})) /\ Len(Program(p)) = 2
      BY <1>1, <1>2, <1>7, <2>1, <2>3 DEF Changed, AccountProgram, IdentityEffect, Places
    <3>2. Possible(after)
      BY <3>1, SomeDropped
    <3>3. <<"session">> \notin after /\ (<<"enabled">> \notin facts => <<"enabled">> \notin after)
      BY <3>1 DEF Apply, Change
    <3> QED BY <1>7, <2>3, <3>1, <3>2, <3>3 DEF Goal, AccountWay
  <2> QED BY <2>1, <2>2, <2>3 DEF Places
<1>8. CASE p.type = "identity.enable-user"
  <2>1. after = Apply(facts, Change({}, {<<"enabled">>})) /\ Len(Program(p)) = 1 /\ at = 1
    BY <1>1, <1>2, <1>8 DEF Changed, AccountProgram, IdentityEffect, Places
  <2>2. Possible(after)
    BY <2>1, OneAdded DEF WellFormed, Flags
  <2> QED BY <1>8, <2>1, <2>2 DEF Goal, AccountWay, Apply, Change
<1>9. CASE p.type = "identity.revoke-sessions"
  <2>1. after = Apply(facts, Change({<<"session">>}, {})) /\ Len(Program(p)) = 1 /\ at = 1
    BY <1>1, <1>2, <1>9 DEF Changed, AccountProgram, IdentityEffect, Places
  <2>2. Possible(after)
    BY <2>1, SomeDropped
  <2> QED BY <1>9, <2>1, <2>2 DEF Goal, AccountWay, Apply, Change
<1>10. CASE p.type = "identity.reset-password"
  <2>1. after = Apply(facts, Change(Named(facts, "password"), {<<"password", run>>})) /\ Len(Program(p)) = 1 /\ at = 1
    BY <1>1, <1>2, <1>10 DEF Changed, AccountProgram, IdentityEffect, Places
  <2>2. Possible(after)
    BY <2>1, OneAdded DEF WellFormed, Flags, Named
  <2>3. Named(after, "password") = {<<"password", run>>}
    BY <2>1 DEF Named, Apply, Change
  <2> QED BY <1>10, <2>1, <2>2, <2>3 DEF Goal, AccountWay
<1> QED BY <1>7, <1>8, <1>9, <1>10, AreaTypes

LEMMA GroupPlaces ==
  ASSUME NEW p, IsPlan(p), p.area = "group"
  PROVE  /\ p.as \in {"member", "owner"}
         /\ p.type = "group.add" \/ p.type = "group.remove"
         /\ p.type = "group.add" => Program(p) = <<"loadGroup", "hasRelation", "addRelation">>
         /\ p.type = "group.remove" /\ p.as = "owner" =>
               Program(p) = <<"loadGroup", "hasRelation", "countOwners", "removeRelation">>
         /\ p.type = "group.remove" /\ p.as = "member" => Program(p) = <<"loadGroup", "hasRelation", "removeRelation">>
<1>1. p.as \in {"member", "owner"} /\ p.type \in {"group.add", "group.remove"}
  BY AreaTypes
<1>2. Program(p) = GroupProgram(p)
  BY AreaProgram
<1> QED BY <1>1, <1>2 DEF GroupProgram

LEMMA GroupSends ==
  ASSUME NEW p, IsPlan(p), p.area = "group", NEW at \in Places(p), IsRequest(Program(p)[at]), NEW sent, NEW seen, NEW op, NEW run,
         NEW facts, Possible(facts), NEW after, after = Changed(p, at, facts, seen, run)
  PROVE  Possible(after) /\ (Way(p, at, sent, seen, op, run, facts) => SentWell(p, at, sent, seen, op, run, facts, after))
<1> DEFINE relation == <<p.as, p.of>>
<1>1. Effect(p, Program(p)[at], facts, seen, run) = GroupEffect(p, Program(p)[at])
  BY AreaEffect
<1>2. Foretold(p, facts) = GroupPreview(p, facts) /\ Foretold(p, after) = GroupPreview(p, after)
  BY AreaPreview
<1>3. ~Fresh(p) /\ p.type # "mailbox.set-rule" /\ p.type \notin Rules
  BY AreaTypes DEF Fresh, Rules
<1>4. \A n, s, fs : Way(p, n, s, seen, op, run, fs) <=> GroupWay(p, n, s, fs)
  BY DEF Way
<1>5. relation[1] \in {"member", "owner"} /\ relation # <<"script">> /\ relation # <<"schedule">> /\ relation # <<"dynamic">>
      /\ relation # <<"m365">>
  BY GroupPlaces
<1> SUFFICES /\ Possible(after)
             /\ GroupWay(p, at, sent, facts) =>
                  /\ GroupWay(p, at, sent \cup {at}, after)
                  /\ at = Len(Program(p)) /\ Goal(p, after, run)
                  /\ ~Dynamic(p, after) /\ (p.type = "group.remove" => relation \notin after)
                  /\ sent = {} => ~GroupPreview(p, facts).refused
                  /\ SamePreview(GroupPreview(p, facts), GroupPreview(p, after))
                  /\ <<"m365">> \in after <=> <<"m365">> \in facts
  BY <1>2, <1>3, <1>4 DEF SentWell, Under
<1>6. CASE p.type = "group.add"
  <2>1. Program(p)[at] = "addRelation" /\ at = 3 /\ Len(Program(p)) = 3
    BY <1>6, GroupPlaces DEF Places, IsRequest, Reads
  <2>2. after = Apply(facts, Change({}, {relation}))
    BY <1>1, <2>1 DEF Changed, GroupEffect
  <2>3. Possible(after)
    BY <1>5, <2>2, OneAdded DEF WellFormed, Flags
  <2>4. after = facts \cup {relation}
    BY <2>2 DEF Apply, Change
  <2>5. Goal(p, after, run) /\ (Dynamic(p, after) <=> Dynamic(p, facts)) /\ (<<"m365">> \in after <=> <<"m365">> \in facts)
    BY <1>5, <1>6, <2>4 DEF Goal, Dynamic
  <2>6. GroupPreview(p, facts).refused = Dynamic(p, facts) /\ SamePreview(GroupPreview(p, facts), GroupPreview(p, after))
    BY <1>6, <2>4 DEF GroupPreview, SamePreview, Named, Dynamic
  <2> QED BY <1>6, <2>1, <2>3, <2>5, <2>6 DEF GroupWay
<1>7. CASE p.type = "group.remove"
  <2>1. Program(p)[at] = "removeRelation" /\ at = Len(Program(p)) /\ at = IF p.as = "owner" THEN 4 ELSE 3
    <3>1. CASE p.as = "owner"
      <4>1. Program(p) = <<"loadGroup", "hasRelation", "countOwners", "removeRelation">>
        BY <1>7, <3>1, GroupPlaces
      <4>2. at \in 1..4 /\ Len(Program(p)) = 4
        BY <4>1 DEF Places
      <4> QED BY <3>1, <4>1, <4>2 DEF IsRequest, Reads
    <3>2. CASE p.as = "member"
      <4>1. Program(p) = <<"loadGroup", "hasRelation", "removeRelation">>
        BY <1>7, <3>2, GroupPlaces
      <4>2. at \in 1..3 /\ Len(Program(p)) = 3
        BY <4>1 DEF Places
      <4> QED BY <3>2, <4>1, <4>2 DEF IsRequest, Reads
    <3> QED BY <3>1, <3>2, GroupPlaces
  <2>2. after = Apply(facts, Change({relation}, {}))
    BY <1>1, <2>1 DEF Changed, GroupEffect
  <2>3. Possible(after)
    BY <1>5, <2>2, SomeDropped
  <2>4. after = facts \ {relation}
    BY <2>2 DEF Apply, Change
  <2>5. Goal(p, after, run) /\ (Dynamic(p, after) <=> Dynamic(p, facts)) /\ relation \notin after
        /\ (<<"m365">> \in after <=> <<"m365">> \in facts)
    BY <1>5, <1>7, <2>4 DEF Goal, Dynamic
  <2>6. SamePreview(GroupPreview(p, facts), GroupPreview(p, after))
    BY <1>7, <2>4 DEF GroupPreview, SamePreview, Named
  <2>7. GroupPreview(p, facts).refused => Dynamic(p, facts) \/ (p.as = "owner" /\ LastOwner(facts))
    BY <1>7 DEF GroupPreview, Dynamic, LastOwner
  <2>8. GroupWay(p, at, sent, facts) => GroupWay(p, at, sent \cup {at}, after)
    BY <1>7, <2>1, <2>5, GroupPlaces DEF GroupWay
  <2>9. GroupWay(p, at, sent, facts) /\ sent = {} => ~Dynamic(p, facts) /\ (p.as = "owner" => ~LastOwner(facts))
    BY <1>7, <2>1, GroupPlaces DEF GroupWay
  <2> QED BY <2>1, <2>3, <2>5, <2>6, <2>7, <2>8, <2>9, GroupPlaces DEF GroupWay
<1> QED BY <1>6, <1>7, GroupPlaces

Deploys(p) == p.type = "apps.create-deployment-groups"
GroupTarget(i) == <<"assigned", <<Intents[i], 1>>, Intents[i]>>
GroupTargets == {GroupTarget(1), GroupTarget(2), GroupTarget(3)}

LEMMA IntentsAre == Intents[1] = "required" /\ Intents[2] = "available" /\ Intents[3] = "uninstall"
BY DEF Intents

LEMMA AddedIs ==
  ASSUME NEW p, IsPlan(p), p.area = "apps", NEW facts
  PROVE  /\ IsFiniteSet(AddedBy(p, facts)) /\ \A f \in AddedBy(p, facts) : f[1] = "assigned"
         /\ p.type = "apps.assign" => AddedBy(p, facts) = {<<"assigned", p.of, p.as>>}
         /\ p.type = "apps.unassign" => AddedBy(p, facts) = {}
         /\ Deploys(p) => AddedBy(p, facts) \subseteq GroupTargets
         /\ Deploys(p) /\ (\A w \in Words : Named(facts, w) # {}) => AddedBy(p, facts) = GroupTargets
<1>1. CASE p.type = "apps.assign"
  <2> DEFINE t == <<"assigned", p.of, p.as>>
  <2>1. AddedBy(p, facts) = {t} /\ t[1] = "assigned"
    BY <1>1 DEF AddedBy
  <2> HIDE DEF t
  <2>2. IsFiniteSet({t})
    BY FS_Singleton
  <2> QED BY <1>1, <2>1, <2>2 DEF Deploys, t
<1>2. CASE p.type = "apps.unassign"
  BY <1>2, FS_EmptySet DEF AddedBy, Deploys
<1>3. CASE Deploys(p)
  <2>1. AddedBy(p, facts) = {GroupTarget(i) : i \in {k \in 1..3 : Named(facts, Intents[k]) # {}}}
    BY <1>3 DEF AddedBy, Deploys, GroupTarget
  <2>2. AddedBy(p, facts) \subseteq GroupTargets
    BY <2>1 DEF GroupTargets
  <2>3. IsFiniteSet(GroupTargets)
    <3>1. IsFiniteSet({GroupTarget(1)}) /\ IsFiniteSet({GroupTarget(2)}) /\ IsFiniteSet({GroupTarget(3)})
      BY FS_Singleton
    <3>2. IsFiniteSet({GroupTarget(1)} \cup {GroupTarget(2)} \cup {GroupTarget(3)})
      BY <3>1, FS_Union
    <3>3. GroupTargets = {GroupTarget(1)} \cup {GroupTarget(2)} \cup {GroupTarget(3)}
      BY DEF GroupTargets
    <3> QED BY <3>2, <3>3
  <2>4. IsFiniteSet(AddedBy(p, facts))
    BY <2>2, <2>3, FS_Subset
  <2>5. \A f \in GroupTargets : f[1] = "assigned"
    BY DEF GroupTargets, GroupTarget
  <2>6. ASSUME \A w \in Words : Named(facts, w) # {} PROVE GroupTargets \subseteq AddedBy(p, facts)
    <3>1. \A k \in 1..3 : Named(facts, Intents[k]) # {}
      BY <2>6, IntentsAre DEF Words
    <3> QED BY <2>1, <3>1 DEF GroupTargets
  <2> QED BY <1>3, <2>2, <2>4, <2>5, <2>6 DEF Deploys
<1> QED BY <1>1, <1>2, <1>3, AreaTypes DEF Deploys

LEMMA AddedSame ==
  ASSUME NEW p, IsPlan(p), p.area = "apps", NEW facts, NEW seen,
         ~Deploys(p) \/ \A w \in Words : Named(facts, w) # {} /\ Named(seen, w) # {}
  PROVE  AddedBy(p, facts) = AddedBy(p, seen)
BY AddedIs, AreaTypes DEF Deploys

LEMMA RemovedIs ==
  ASSUME NEW p, IsPlan(p), p.area = "apps"
  PROVE  /\ p.type = "apps.unassign" => RemovedBy(p) = {<<"assigned", p.of, p.as>>}
         /\ p.type # "apps.unassign" => RemovedBy(p) = {}
BY DEF RemovedBy

\* An assignment that is replaced again stays what it is
LEMMA MergeTwice ==
  ASSUME NEW E, NEW A, NEW R, A \cap R = {}
  PROVE  Merge(Merge(E, A, R), A, R) = Merge(E, A, R)
BY DEF Merge

LEMMA MergedIs ==
  ASSUME NEW p, IsPlan(p), p.area = "apps", NEW facts, IsFiniteSet(facts), NEW seen
  PROVE  /\ IsFiniteSet(Merged(p, seen, facts)) /\ \A f \in Merged(p, seen, facts) : f[1] = "assigned"
         /\ Merge(Merged(p, seen, facts), AddedBy(p, seen), RemovedBy(p)) = Merged(p, seen, facts)
<1> DEFINE kept == {e \in Named(facts, "assigned") \ RemovedBy(p) : ~\E a \in AddedBy(p, seen) : a[2] = e[2]}
<1>1. Merged(p, seen, facts) = kept \cup AddedBy(p, seen)
  BY DEF Merged, Merge
<1>2. kept \subseteq facts /\ \A f \in kept : f[1] = "assigned"
  BY DEF Named
<1>3. IsFiniteSet(kept \cup AddedBy(p, seen)) /\ \A f \in kept \cup AddedBy(p, seen) : f[1] = "assigned"
  BY <1>2, AddedIs, FS_Subset, FS_Union
<1>4. AddedBy(p, seen) \cap RemovedBy(p) = {}
  BY AddedIs, RemovedIs
<1> QED BY <1>1, <1>3, <1>4, MergeTwice DEF Merged

\* A list of which only so many are read can be read in part
LEMMA SomePage ==
  ASSUME NEW S, IsFiniteSet(S), NEW n \in Nat, ~(Cardinality(S) <= n)
  PROVE  \E page \in SUBSET S : Cardinality(page) = n
<1> DEFINE c == Cardinality(S)
<1>1. c \in Nat /\ ExistsBijection(1..c, S)
  BY FS_CardinalityType
<1>2. PICK g \in Bijection(1..c, S) : TRUE
  BY <1>1 DEF ExistsBijection
<1> HIDE DEF c
<1>3. n <= c /\ 1..n \subseteq 1..c
  BY <1>1 DEF c
<1> DEFINE page == {g[i] : i \in 1..n}
           h == [i \in 1..n |-> g[i]]
<1>4. \A i \in 1..c : g[i] \in S
  BY <1>2 DEF Bijection, Injection
<1>5. page \in SUBSET S
  BY <1>3, <1>4
<1>6. \A i, k \in 1..c : g[i] = g[k] => i = k
  BY <1>2 DEF Bijection, Injection, IsInjective
<1>7. h \in [1..n -> page]
  OBVIOUS
<1>8. \A i, k \in 1..n : h[i] = h[k] => i = k
  BY <1>3, <1>6
<1>9. \A x \in page : \E i \in 1..n : h[i] = x
  OBVIOUS
<1> HIDE DEF page, h
<1>10. h \in Bijection(1..n, page)
  BY <1>7, <1>8, <1>9 DEF Bijection, Injection, Surjection, IsInjective
<1>11. IsFiniteSet(1..n) /\ Cardinality(1..n) = n
  BY FS_Interval
<1>12. Cardinality(page) = n
  BY <1>10, <1>11, FS_Bijection DEF ExistsBijection
<1> QED BY <1>5, <1>12

LEMMA PageIs ==
  ASSUME NEW facts, IsFiniteSet(facts)
  PROVE  FirstPage(facts) \subseteq Named(facts, "assigned") /\ (Whole(facts) => FirstPage(facts) = Named(facts, "assigned"))
<1>1. IsFiniteSet(Named(facts, "assigned"))
  BY FS_Subset DEF Named
<1>2. ~Whole(facts) => \E page \in SUBSET Named(facts, "assigned") : Cardinality(page) = PageSize
  BY <1>1, SomePage, PageAssumption DEF Whole
<1> QED BY <1>2 DEF FirstPage

\* What is written back
Written(p, seen) == Merge(FirstPage(seen), AddedBy(p, seen), RemovedBy(p))

LEMMA WrittenIs ==
  ASSUME NEW p, IsPlan(p), p.area = "apps", NEW seen, IsFiniteSet(seen)
  PROVE  /\ IsFiniteSet(Written(p, seen)) /\ \A f \in Written(p, seen) : f[1] = "assigned"
         /\ Whole(seen) => Written(p, seen) = Merged(p, seen, seen)
<1> DEFINE kept == {e \in FirstPage(seen) \ RemovedBy(p) : ~\E a \in AddedBy(p, seen) : a[2] = e[2]}
<1>1. Written(p, seen) = kept \cup AddedBy(p, seen)
  BY DEF Written, Merge
<1>2. kept \subseteq seen /\ \A f \in kept : f[1] = "assigned"
  BY PageIs DEF Named
<1>3. IsFiniteSet(kept \cup AddedBy(p, seen)) /\ \A f \in kept \cup AddedBy(p, seen) : f[1] = "assigned"
  BY <1>2, AddedIs, FS_Subset, FS_Union
<1>4. Whole(seen) => Written(p, seen) = Merged(p, seen, seen)
  BY PageIs DEF Written, Merged
<1> QED BY <1>1, <1>3, <1>4

LEMMA Replaced ==
  ASSUME NEW p, IsPlan(p), p.area = "apps", NEW facts, Possible(facts), NEW seen, IsFiniteSet(seen), NEW after,
         after = Apply(facts, AppEffect(p, "replaceAssignments", facts, seen))
  PROVE  /\ Possible(after)
         /\ Named(after, "assigned") = Written(p, seen)
         /\ \A w : w \notin {"assigned", "settings"} => Named(after, w) = Named(facts, w)
         /\ Whole(seen) => Merged(p, seen, after) = Merged(p, seen, seen)
<1> DEFINE new == Written(p, seen)
           old == Named(facts, "assigned") \cup Named(facts, "settings")
<1>1. AppEffect(p, "replaceAssignments", facts, seen) = Change(old, new)
  BY DEF AppEffect, Written
<1>2. IsFiniteSet(new) /\ \A f \in new : f[1] = "assigned"
  BY WrittenIs
<1> HIDE DEF new
<1>3. Possible(after)
  <2>1. \A f \in new : WellFormed(f) /\ f[1] # "rule" /\ f # <<"schedule">>
    BY <1>2 DEF WellFormed, Flags
  <2>2. <<"script">> \notin old
    BY DEF Named
  <2> QED BY <1>1, <1>2, <2>1, <2>2, PlainChange
<1>4. after = (facts \ old) \cup new
  BY <1>1 DEF Apply, Change
<1>5. Named(after, "assigned") = new
  BY <1>2, <1>4 DEF Named
<1>6. \A w : w \notin {"assigned", "settings"} => Named(after, w) = Named(facts, w)
  BY <1>2, <1>4 DEF Named
<1>7. ASSUME Whole(seen) PROVE Merged(p, seen, after) = Merged(p, seen, seen)
  <2>1. Named(after, "assigned") = Merged(p, seen, seen)
    BY <1>5, <1>7, WrittenIs DEF new
  <2>2. Merged(p, seen, after) = Merge(Merged(p, seen, seen), AddedBy(p, seen), RemovedBy(p))
    BY <2>1 DEF Merged
  <2>3. Merge(Merged(p, seen, seen), AddedBy(p, seen), RemovedBy(p)) = Merged(p, seen, seen)
    BY MergedIs
  <2> QED BY <2>2, <2>3
<1> QED BY <1>3, <1>5, <1>6, <1>7 DEF new

LEMMA AppPlaces ==
  ASSUME NEW p, IsPlan(p), p.area = "apps"
  PROVE  /\ p.type \in {"apps.assign", "apps.unassign"} \/ Deploys(p)
         /\ ~Deploys(p) => Program(p) = <<"getAssignments", "replaceAssignments">>
         /\ Deploys(p) /\ p.as = "assign" =>
               Program(p) = <<"findRequired", "createRequired", "findAvailable", "createAvailable",
                              "findUninstall", "createUninstall", "getAssignments", "replaceAssignments">>
         /\ Deploys(p) /\ p.as # "assign" =>
               Program(p) = <<"findRequired", "createRequired", "findAvailable", "createAvailable",
                              "findUninstall", "createUninstall">>
<1>1. p.type \in {"apps.assign", "apps.unassign", "apps.create-deployment-groups"}
  BY AreaTypes
<1>2. Program(p) = AppProgram(p)
  BY AreaProgram
<1> QED BY <1>1, <1>2 DEF AppProgram, Deploys

\* The step at each place of a deployment
LEMMA DeployPlaces ==
  ASSUME NEW p, IsPlan(p), p.area = "apps", Deploys(p), NEW at \in Places(p)
  PROVE  /\ at \in 1..8 /\ (at > 6 => p.as = "assign")
         /\ Len(Program(p)) = IF p.as = "assign" THEN 8 ELSE 6
         /\ Program(p)[at] = CASE at = 1 -> "findRequired" [] at = 2 -> "createRequired"
                               [] at = 3 -> "findAvailable" [] at = 4 -> "createAvailable"
                               [] at = 5 -> "findUninstall" [] at = 6 -> "createUninstall"
                               [] at = 7 -> "getAssignments" [] at = 8 -> "replaceAssignments"
<1>1. CASE p.as = "assign"
  <2>1. Program(p) = <<"findRequired", "createRequired", "findAvailable", "createAvailable",
                       "findUninstall", "createUninstall", "getAssignments", "replaceAssignments">>
    BY <1>1, AppPlaces
  <2>2. Len(Program(p)) = 8 /\ at \in 1..8
    BY <2>1 DEF Places
  <2> QED BY <1>1, <2>1, <2>2
<1>2. CASE p.as # "assign"
  <2>1. Program(p) = <<"findRequired", "createRequired", "findAvailable", "createAvailable",
                       "findUninstall", "createUninstall">>
    BY <1>2, AppPlaces
  <2>2. Len(Program(p)) = 6 /\ at \in 1..6
    BY <2>1 DEF Places
  <2> QED BY <1>2, <2>1, <2>2
<1> QED BY <1>1, <1>2

LEMMA AssignSends ==
  ASSUME NEW p, IsPlan(p), p.area = "apps", ~Deploys(p), NEW at \in Places(p), IsRequest(Program(p)[at]),
         NEW sent, NEW seen, IsFiniteSet(seen), NEW op, NEW run,
         NEW facts, Possible(facts), NEW after, after = Changed(p, at, facts, seen, run)
  PROVE  Possible(after) /\ (Way(p, at, sent, seen, op, run, facts) => SentWell(p, at, sent, seen, op, run, facts, after))
<1>1. Program(p)[at] = "replaceAssignments" /\ at = 2 /\ Len(Program(p)) = 2
  <2>1. Program(p) = <<"getAssignments", "replaceAssignments">>
    BY AppPlaces
  <2> QED BY <2>1 DEF Places, IsRequest, Reads
<1>2. after = Apply(facts, AppEffect(p, "replaceAssignments", facts, seen))
  BY <1>1, AreaEffect DEF Changed
<1>3. /\ Possible(after) /\ Named(after, "assigned") = Written(p, seen)
      /\ Whole(seen) => Merged(p, seen, after) = Merged(p, seen, seen)
  BY <1>2, Replaced
<1>4. \A n, s, fs : Way(p, n, s, seen, op, run, fs) <=> AppWay(p, n, s, seen, fs)
  BY DEF Way
<1>5. \A fs : Foretold(p, fs) = [scope |-> {"assigned"}, after |-> Merged(p, fs, fs), refused |-> FALSE]
  BY AreaPreview, AppPlaces
<1>6. \A fs : Foretold(p, fs).after = Merged(p, seen, fs) /\ Foretold(p, fs).scope = {"assigned"} /\ ~Foretold(p, fs).refused
  <2>1. \A fs : AddedBy(p, fs) = AddedBy(p, seen)
    BY AddedSame
  <2> QED BY <1>5, <2>1 DEF Merged
<1>7. ~Fresh(p) /\ p.type # "mailbox.set-rule" /\ Under(p, after) /\ p.area # "group"
  BY AreaTypes DEF Fresh, Under, Rules
<1>8. Goal(p, after, run)
  <2>1. CASE p.type = "apps.assign"
    <3>1. AddedBy(p, seen) = {<<"assigned", p.of, p.as>>}
      BY <2>1, AddedIs
    <3>2. About(after, "assigned", p.of) = {f \in Written(p, seen) : f[2] = p.of}
      BY <1>3 DEF About
    <3>3. About(after, "assigned", p.of) = {<<"assigned", p.of, p.as>>}
      BY <3>1, <3>2 DEF Written, Merge
    <3> QED BY <2>1, <3>3 DEF Goal
  <2>2. CASE p.type = "apps.unassign"
    <3>1. AddedBy(p, seen) = {} /\ RemovedBy(p) = {<<"assigned", p.of, p.as>>}
      BY <2>2, AddedIs, RemovedIs
    <3>2. <<"assigned", p.of, p.as>> \notin Named(after, "assigned")
      BY <1>3, <3>1 DEF Written, Merge
    <3> QED BY <2>2, <3>2 DEF Goal, Named
  <2> QED BY <2>1, <2>2, AppPlaces
<1>9. AppWay(p, at, sent \cup {at}, seen, after)
  BY <1>1, <1>3 DEF AppWay, AsRead, Deploys
<1>10. AppWay(p, at, sent, seen, facts) /\ Whole(seen) => SamePreview(Foretold(p, facts), Foretold(p, after))
  <2>1. AppWay(p, at, sent, seen, facts) /\ Whole(seen) => Merged(p, seen, facts) = Merged(p, seen, after)
    BY <1>1, <1>3 DEF AppWay, AsRead, Deploys
  <2> QED BY <1>6, <2>1 DEF SamePreview
<1> QED BY <1>1, <1>3, <1>4, <1>6, <1>7, <1>8, <1>9, <1>10 DEF SentWell

\* The groups a deployment has or would make
GroupsShown(facts) == UNION {IF Named(facts, w) = {} THEN {<<w, 1>>} ELSE Named(facts, w) : w \in Words}

\* A deployment's preview is what its groups are, one for each intent that has none, and the assignments
LEMMA DeploymentShown ==
  ASSUME NEW p, IsPlan(p), p.area = "apps", Deploys(p), NEW facts
  PROVE  /\ Foretold(p, facts).scope = Words \cup IF p.as = "assign" THEN {"assigned"} ELSE {}
         /\ ~Foretold(p, facts).refused
         /\ Foretold(p, facts).after =
               GroupsShown(facts) \cup IF p.as = "assign" THEN Merge(Named(facts, "assigned"), GroupTargets, {}) ELSE {}
<1> DEFINE groups == GroupsShown(facts)
<1>1. {Intents[i] : i \in 1..3} = Words
  BY IntentsAre DEF Words
<1>2. \A w \in Words : Named(groups, w) # {}
  <2> SUFFICES ASSUME NEW w \in Words PROVE Named(groups, w) # {}
    OBVIOUS
  <2>1. CASE Named(facts, w) = {}
    <3>1. <<w, 1>> \in groups
      BY <2>1 DEF GroupsShown
    <3> QED BY <3>1 DEF Named
  <2>2. CASE Named(facts, w) # {}
    <3>1. Named(facts, w) \subseteq groups
      BY <2>2 DEF GroupsShown
    <3> QED BY <2>2, <3>1 DEF Named
  <2> QED BY <2>1, <2>2
<1>3. Foretold(p, facts) = DeploymentPreview(p, facts)
  BY AreaPreview DEF Deploys
<1>4. DeploymentPreview(p, facts) =
        [scope |-> Words \cup IF p.as = "assign" THEN {"assigned"} ELSE {},
         after |-> groups \cup IF p.as = "assign" THEN Merge(Named(facts, "assigned"), AddedBy(p, groups), {}) ELSE {},
         refused |-> FALSE]
  BY <1>1 DEF DeploymentPreview, GroupsShown
<1> HIDE DEF groups
<1>5. AddedBy(p, groups) = GroupTargets
  BY <1>2, AddedIs
<1> QED BY <1>3, <1>4, <1>5 DEF groups

LEMMA DeploySame ==
  ASSUME NEW p, IsPlan(p), p.area = "apps", Deploys(p), NEW facts, NEW after,
         \A w \in Words : (IF Named(after, w) = {} THEN {<<w, 1>>} ELSE Named(after, w))
                          = (IF Named(facts, w) = {} THEN {<<w, 1>>} ELSE Named(facts, w)),
         p.as = "assign" => Merge(Named(after, "assigned"), GroupTargets, {}) = Merge(Named(facts, "assigned"), GroupTargets, {})
  PROVE  SamePreview(Foretold(p, facts), Foretold(p, after))
<1>1. GroupsShown(facts) = GroupsShown(after)
  BY DEF GroupsShown
<1> DEFINE merged(fs) == IF p.as = "assign" THEN Merge(Named(fs, "assigned"), GroupTargets, {}) ELSE {}
<1>2. merged(facts) = merged(after)
  OBVIOUS
<1>3. \A fs : /\ Foretold(p, fs).after = GroupsShown(fs) \cup merged(fs)
              /\ Foretold(p, fs).scope = Words \cup IF p.as = "assign" THEN {"assigned"} ELSE {}
  BY DeploymentShown
<1> HIDE DEF merged
<1> QED BY <1>1, <1>2, <1>3 DEF SamePreview

LEMMA CreateSends ==
  ASSUME NEW p, IsPlan(p), p.area = "apps", Deploys(p), NEW i \in 1..3, NEW at \in Places(p), at = 2 * i,
         NEW sent, NEW seen, NEW op, NEW run,
         NEW facts, Possible(facts), NEW after, after = Changed(p, at, facts, seen, run)
  PROVE  Possible(after) /\ (Way(p, at, sent, seen, op, run, facts) => SentWell(p, at, sent, seen, op, run, facts, after))
<1> DEFINE w == Intents[i]
           new == <<w, NewId(facts, w)>>
<1>1. /\ Program(p)[at] \in {"createRequired", "createAvailable", "createUninstall"}
      /\ IntentOf(Program(p)[at]) = w /\ w \in Words
  BY DeployPlaces, IntentsAre DEF IntentOf, Words
<1>2. after = Apply(facts, Change({}, {new}))
  <2>1. Effect(p, Program(p)[at], facts, seen, run) = AppEffect(p, Program(p)[at], facts, seen)
    BY AreaEffect
  <2>2. Program(p)[at] # "replaceAssignments"
    BY <1>1
  <2>3. AppEffect(p, Program(p)[at], facts, seen) = Change({}, {new})
    BY <1>1, <2>2 DEF AppEffect
  <2> QED BY <2>1, <2>3 DEF Changed
<1>3. w # "rule" /\ w # "assigned" /\ w \notin Flags /\ new[1] = w /\ new # <<"schedule">>
  BY <1>1 DEF Words, Flags
<1>4. Possible(after)
  BY <1>2, <1>3, OneAdded DEF WellFormed
<1>5. after = facts \cup {new}
  BY <1>2 DEF Apply, Change
<1>6. /\ Named(after, w) = Named(facts, w) \cup {new}
      /\ \A v : v # w => Named(after, v) = Named(facts, v)
  BY <1>3, <1>5 DEF Named
<1>7. \A n, s, fs : Way(p, n, s, seen, op, run, fs) <=> AppWay(p, n, s, seen, fs)
  BY DEF Way
<1>8. ~Fresh(p) /\ p.type # "mailbox.set-rule" /\ Under(p, after)
  BY DEF Fresh, Under, Rules, Deploys
<1>9. at # 8 /\ at < 7 /\ at \in 1..8
  BY DeployPlaces
<1> SUFFICES ASSUME AppWay(p, at, sent, seen, facts)
             PROVE  /\ AppWay(p, at, sent \cup {at}, seen, after)
                    /\ at = Len(Program(p)) => Goal(p, after, run)
                    /\ at < Len(Program(p)) => AppWay(p, at + 1, sent \cup {at}, seen, after)
                    /\ at \notin sent => SamePreview(Foretold(p, facts), Foretold(p, after))
  BY <1>1, <1>4, <1>7, <1>8, DeploymentShown DEF SentWell, Makes
<1> HIDE DEF new
<1>10. \A k \in 1..3 : (at > 2 * k \/ k = i) => Named(after, Intents[k]) # {}
  <2>1. \A k \in 1..3 : at > 2 * k => Named(facts, Intents[k]) # {}
    BY DEF AppWay, Deploys
  <2> QED BY <1>6, <2>1
<1>11. AppWay(p, at, sent \cup {at}, seen, after)
  BY <1>9, <1>10 DEF AppWay, Deploys
<1>12. ASSUME at = Len(Program(p)) PROVE Goal(p, after, run)
  <2>1. p.as # "assign" /\ at = 6
    BY <1>9, <1>12, DeployPlaces
  <2>2. \A k \in 1..3 : Named(after, Intents[k]) # {}
    BY <1>10, <2>1
  <2> QED BY <2>1, <2>2 DEF Goal, Deploys
<1>13. AppWay(p, at + 1, sent \cup {at}, seen, after)
  <2>1. \A k \in 1..3 : at + 1 # 2 * k
    OBVIOUS
  <2>2. \A k \in 1..3 : at + 1 > 2 * k => at > 2 * k \/ k = i
    OBVIOUS
  <2> QED BY <1>9, <1>10, <2>1, <2>2 DEF AppWay, Deploys
<1>14. ASSUME at \notin sent PROVE SamePreview(Foretold(p, facts), Foretold(p, after))
  <2>1. Named(facts, w) = {}
    BY <1>14 DEF AppWay, Deploys
  <2>2. new = <<w, 1>>
    BY <2>1, FirstId DEF new
  <2> HIDE DEF w
  <2>3. \A v \in Words : (IF Named(after, v) = {} THEN {<<v, 1>>} ELSE Named(after, v))
                          = (IF Named(facts, v) = {} THEN {<<v, 1>>} ELSE Named(facts, v))
    BY <1>6, <2>1, <2>2
  <2>4. Named(after, "assigned") = Named(facts, "assigned")
    BY <1>3, <1>6
  <2> QED BY <2>3, <2>4, DeploySame
<1> QED BY <1>11, <1>12, <1>13, <1>14

LEMMA DeployAssigns ==
  ASSUME NEW p, IsPlan(p), p.area = "apps", Deploys(p), NEW at \in Places(p), at = 8,
         NEW sent, NEW seen, IsFiniteSet(seen), NEW op, NEW run,
         NEW facts, Possible(facts), NEW after, after = Changed(p, at, facts, seen, run)
  PROVE  Possible(after) /\ (Way(p, at, sent, seen, op, run, facts) => SentWell(p, at, sent, seen, op, run, facts, after))
<1>1. Program(p)[at] = "replaceAssignments" /\ Len(Program(p)) = 8
  BY DeployPlaces
<1>2. after = Apply(facts, AppEffect(p, "replaceAssignments", facts, seen))
  BY <1>1, AreaEffect DEF Changed
<1>3. /\ Possible(after) /\ Named(after, "assigned") = Written(p, seen)
      /\ \A w : w \notin {"assigned", "settings"} => Named(after, w) = Named(facts, w)
      /\ Whole(seen) => Merged(p, seen, after) = Merged(p, seen, seen)
  BY <1>2, Replaced
<1>4. \A n, s, fs : Way(p, n, s, seen, op, run, fs) <=> AppWay(p, n, s, seen, fs)
  BY DEF Way
<1>5. ~Fresh(p) /\ p.type # "mailbox.set-rule" /\ Under(p, after)
  BY DEF Fresh, Under, Rules, Deploys
<1>6. \A w \in Words : w \notin {"assigned", "settings"} /\ Named(after, w) = Named(facts, w)
  BY <1>3 DEF Words
<1> SUFFICES ASSUME AppWay(p, at, sent, seen, facts)
             PROVE  /\ AppWay(p, at, sent \cup {at}, seen, after)
                    /\ Goal(p, after, run)
                    /\ Whole(seen) => SamePreview(Foretold(p, facts), Foretold(p, after))
  BY <1>1, <1>3, <1>4, <1>5, DeploymentShown DEF SentWell
<1>7. /\ \A k \in 1..3 : Named(facts, Intents[k]) # {}
      /\ (Whole(seen) => Merged(p, seen, seen) = Merged(p, seen, facts)) /\ \A w \in Words : Named(seen, w) # {}
  BY DEF AppWay, AsRead, Deploys
<1>8. \A k \in 1..3 : Named(after, Intents[k]) # {}
  BY <1>6, <1>7, IntentsAre DEF Words
<1>9. AppWay(p, at, sent \cup {at}, seen, after)
  BY <1>3, <1>7, <1>8 DEF AppWay, AsRead, Deploys
<1>10. AddedBy(p, seen) = GroupTargets /\ RemovedBy(p) = {}
  BY <1>7, AddedIs, RemovedIs DEF Deploys
<1>11. \A k \in 1..3 : About(after, "assigned", <<Intents[k], 1>>) = {GroupTarget(k)}
  <2> SUFFICES ASSUME NEW k \in 1..3 PROVE About(after, "assigned", <<Intents[k], 1>>) = {GroupTarget(k)}
    OBVIOUS
  <2>1. About(after, "assigned", <<Intents[k], 1>>) = {f \in Merge(FirstPage(seen), GroupTargets, {}) : f[2] = <<Intents[k], 1>>}
    BY <1>3, <1>10 DEF About, Written
  <2>2. GroupTarget(k) \in GroupTargets /\ GroupTarget(k)[2] = <<Intents[k], 1>>
    BY DEF GroupTargets, GroupTarget
  <2>3. \A t \in GroupTargets : t[2] = <<Intents[k], 1>> => t = GroupTarget(k)
    <3>1. Intents[1] # Intents[2] /\ Intents[2] # Intents[3] /\ Intents[1] # Intents[3]
      BY IntentsAre
    <3> QED BY <3>1 DEF GroupTargets, GroupTarget
  <2> QED BY <2>1, <2>2, <2>3 DEF Merge
<1>12. Goal(p, after, run)
  BY <1>8, <1>11 DEF Goal, Deploys, GroupTarget
<1>13. Whole(seen) => Merge(Named(after, "assigned"), GroupTargets, {}) = Merge(Named(facts, "assigned"), GroupTargets, {})
  BY <1>3, <1>7, <1>10 DEF Merged
<1>14. Whole(seen) => SamePreview(Foretold(p, facts), Foretold(p, after))
  BY <1>6, <1>13, DeploySame
<1> QED BY <1>9, <1>12, <1>14

LEMMA AppSends ==
  ASSUME NEW p, IsPlan(p), p.area = "apps", NEW at \in Places(p), IsRequest(Program(p)[at]),
         NEW sent, NEW seen, IsFiniteSet(seen), NEW op, NEW run,
         NEW facts, Possible(facts), NEW after, after = Changed(p, at, facts, seen, run)
  PROVE  Possible(after) /\ (Way(p, at, sent, seen, op, run, facts) => SentWell(p, at, sent, seen, op, run, facts, after))
<1>1. CASE ~Deploys(p)
  BY <1>1, AssignSends
<1>2. CASE Deploys(p)
  <2>1. at \in {2, 4, 6, 8}
    BY <1>2, DeployPlaces DEF IsRequest, Reads
  <2>2. CASE at = 8
    BY <1>2, <2>2, DeployAssigns
  <2>3. CASE at # 8
    <3>1. PICK i \in 1..3 : at = 2 * i
      <4>1. at = 2 * 1 \/ at = 2 * 2 \/ at = 2 * 3
        BY <2>1, <2>3
      <4> QED BY <4>1
    <3> QED BY <1>2, <3>1, CreateSends
  <2> QED BY <2>2, <2>3
<1> QED BY <1>1, <1>2

LEMMA MailboxPlaces ==
  ASSUME NEW p, IsPlan(p), p.area = "mailbox"
  PROVE  /\ p.type \in {"mailbox.set-auto-reply", "mailbox.create-forward-rule", "mailbox.set-rule", "mailbox.delete-rule"}
         /\ p.type = "mailbox.set-auto-reply" => Program(p) = <<"resolveUserId", "setAutoReply">>
         /\ p.type = "mailbox.create-forward-rule" => Program(p) = <<"resolveUserId", "createForwardRule">>
         /\ p.type = "mailbox.set-rule" => Program(p) = <<"resolveUserId", "getRule", "setRuleEnabled">>
         /\ p.type = "mailbox.delete-rule" => Program(p) = <<"resolveUserId", "getRule", "deleteRule">>
<1>1. Program(p) = MailboxProgram(p)
  BY AreaProgram
<1>2. p.type \in {"mailbox.set-auto-reply", "mailbox.create-forward-rule", "mailbox.set-rule", "mailbox.delete-rule"}
  BY AreaTypes
<1> QED BY <1>1, <1>2 DEF MailboxProgram

\* A rule takes the place of the rules with its number
LEMMA RuleWritten ==
  ASSUME NEW facts, Possible(facts), NEW n, NEW state, NEW drop, <<"script">> \notin drop,
         \A f \in Named(facts, "rule") : f[2] = n => f \in drop
  PROVE  Possible(Apply(facts, Change(drop, {<<"rule", n, state>>})))
<1> DEFINE rule == <<"rule", n, state>>
           after == (facts \ drop) \cup {rule}
<1>1. rule[1] = "rule" /\ rule[2] = n /\ WellFormed(rule) /\ rule # <<"schedule">>
  BY DEF WellFormed, Flags
<1> HIDE DEF rule
<1>2. IsFiniteSet(after)
  BY FS_Subset, FS_AddElement DEF Possible
<1>3. \A f \in after : WellFormed(f)
  BY <1>1 DEF Possible
<1>4. \A e, f \in Named(after, "rule") : e[2] = f[2] => e = f
  BY <1>1 DEF Possible, Named
<1>5. <<"schedule">> \in after => <<"script">> \in after
  BY <1>1 DEF Possible
<1> QED BY <1>2, <1>3, <1>4, <1>5 DEF Possible, Apply, Change, rule

LEMMA MailboxSends ==
  ASSUME NEW p, IsPlan(p), p.area = "mailbox", NEW at \in Places(p), IsRequest(Program(p)[at]),
         NEW sent, NEW seen, NEW op, NEW run,
         NEW facts, Possible(facts), NEW after, after = Changed(p, at, facts, seen, run)
  PROVE  Possible(after) /\ (Way(p, at, sent, seen, op, run, facts) => SentWell(p, at, sent, seen, op, run, facts, after))
<1>1. Effect(p, Program(p)[at], facts, seen, run) = MailboxEffect(p, Program(p)[at], facts)
  BY AreaEffect
<1>2. \A fs : Foretold(p, fs) = MailboxPreview(p, fs)
  BY AreaPreview
<1>3. \A n, s, fs : Way(p, n, s, seen, op, run, fs) <=> MailboxWay(p, n, fs)
  BY DEF Way
<1> SUFFICES /\ Possible(after)
             /\ MailboxWay(p, at, facts) =>
                  /\ at = Len(Program(p)) /\ Goal(p, after, run)
                  /\ MailboxWay(p, at, after) /\ Under(p, after)
                  /\ p.type \notin Warned => ~MailboxPreview(p, facts).refused
                  /\ Fresh(p) => Scope(after, MailboxPreview(p, facts).scope) = MailboxPreview(p, facts).after
                  /\ ~Fresh(p) => SamePreview(MailboxPreview(p, facts), MailboxPreview(p, after))
                  /\ p.type = "mailbox.set-rule" => About(after, "rule", p.of) # {}
  BY <1>2, <1>3 DEF SentWell
<1>4. CASE p.type = "mailbox.set-auto-reply"
  <2>1. Program(p)[at] = "setAutoReply" /\ at = Len(Program(p))
    <3>1. Program(p) = <<"resolveUserId", "setAutoReply">>
      BY <1>4, MailboxPlaces
    <3> QED BY <3>1 DEF Places, IsRequest, Reads
  <2>2. after = Apply(facts, Change(Named(facts, "reply"), {<<"reply", p.as>>}))
    BY <1>1, <2>1 DEF Changed, MailboxEffect
  <2>3. Possible(after)
    BY <2>2, OneAdded DEF WellFormed, Flags, Named
  <2>4. Named(after, "reply") = {<<"reply", p.as>>}
    BY <2>2 DEF Named, Apply, Change
  <2>5. Goal(p, after, run)
    BY <1>4, <2>4 DEF Goal
  <2>6. ~Fresh(p) /\ MailboxWay(p, at, after) /\ Under(p, after)
    BY <1>4 DEF Fresh, MailboxWay, Under, Rules
  <2>7. p.type \in Warned /\ SamePreview(MailboxPreview(p, facts), MailboxPreview(p, after))
    BY <1>4 DEF MailboxPreview, SamePreview, Warned
  <2> QED BY <1>4, <2>1, <2>3, <2>5, <2>6, <2>7
<1>5. CASE p.type = "mailbox.create-forward-rule"
  <2> DEFINE n == NewId(facts, "rule")
             rule == <<"rule", n, "on">>
  <2>1. Program(p)[at] = "createForwardRule" /\ at = Len(Program(p))
    <3>1. Program(p) = <<"resolveUserId", "createForwardRule">>
      BY <1>5, MailboxPlaces
    <3> QED BY <3>1 DEF Places, IsRequest, Reads
  <2>2. after = Apply(facts, Change({}, {rule}))
    BY <1>1, <2>1 DEF Changed, MailboxEffect
  <2>3. Possible(after)
    <3>1. About(facts, "rule", n) = {}
      BY NewIdIsNew DEF Possible
    <3> HIDE DEF n
    <3> QED BY <2>2, <3>1, RuleWritten DEF About
  <2> HIDE DEF n
  <2>4. Named(after, "rule") = Named(facts, "rule") \cup {rule}
    BY <2>2 DEF Named, Apply, Change
  <2>5. Goal(p, after, run)
    <3>1. rule \in Named(after, "rule") /\ rule = <<"rule", rule[2], "on">>
      BY <2>4
    <3> QED BY <1>5, <3>1 DEF Goal
  <2>6. MailboxPreview(p, facts) = [scope |-> {"rule"}, after |-> Named(facts, "rule") \cup {rule}, refused |-> FALSE]
    BY <1>5 DEF MailboxPreview, n
  <2>7. Scope(after, {"rule"}) = Named(after, "rule")
    BY DEF Scope, Named
  <2> QED BY <1>5, <2>1, <2>3, <2>4, <2>5, <2>6, <2>7 DEF MailboxWay, Under, Rules, Fresh
<1>6. CASE p.type \in Rules
  <2> DEFINE old == About(facts, "rule", p.of)
             rule == <<"rule", p.of, p.as>>
             new == IF p.type = "mailbox.set-rule" THEN {rule} ELSE {}
  <2>1. at = 3 /\ Len(Program(p)) = 3 /\ Program(p)[at] = IF p.type = "mailbox.set-rule" THEN "setRuleEnabled" ELSE "deleteRule"
    <3>1. CASE p.type = "mailbox.set-rule"
      <4>1. Program(p) = <<"resolveUserId", "getRule", "setRuleEnabled">>
        BY <3>1, MailboxPlaces
      <4> QED BY <3>1, <4>1 DEF Places, IsRequest, Reads
    <3>2. CASE p.type = "mailbox.delete-rule"
      <4>1. Program(p) = <<"resolveUserId", "getRule", "deleteRule">>
        BY <3>2, MailboxPlaces
      <4> QED BY <3>2, <4>1 DEF Places, IsRequest, Reads
    <3> QED BY <1>6, <3>1, <3>2 DEF Rules
  <2>2. after = Apply(facts, Change(old, new))
    BY <1>1, <1>6, <2>1 DEF Changed, MailboxEffect, Rules
  <2>3. Possible(after)
    <3>1. <<"script">> \notin old
      BY DEF About, Named
    <3>2. \A f \in Named(facts, "rule") : f[2] = p.of => f \in old
      BY DEF About
    <3>3. CASE p.type = "mailbox.set-rule"
      BY <2>2, <3>1, <3>2, <3>3, RuleWritten
    <3>4. CASE p.type # "mailbox.set-rule"
      BY <2>2, <3>1, <3>4, SomeDropped
    <3> QED BY <3>3, <3>4
  <2>4. rule[1] = "rule" /\ rule[2] = p.of /\ <<"readonly", p.of>> # rule
    OBVIOUS
  <2> HIDE DEF rule
  <2>5. after = (facts \ old) \cup new
    BY <2>2 DEF Apply, Change
  <2>6. Named(after, "rule") = (Named(facts, "rule") \ old) \cup new
    BY <2>4, <2>5 DEF Named
  <2>7. About(after, "rule", p.of) = new
    BY <2>4, <2>6 DEF About
  <2>8. Goal(p, after, run)
    BY <1>6, <2>7 DEF Goal, Rules, rule
  <2>9. \A fs : MailboxPreview(p, fs) = [scope |-> {"rule"}, after |-> (Named(fs, "rule") \ About(fs, "rule", p.of)) \cup new,
                                        refused |-> <<"readonly", p.of>> \in fs]
    BY <1>6 DEF MailboxPreview, Rules, rule
  <2>10. SamePreview(MailboxPreview(p, facts), MailboxPreview(p, after)) /\ MailboxPreview(p, facts).refused = (<<"readonly", p.of>> \in facts)
    <3>1. \A fs : /\ MailboxPreview(p, fs).scope = {"rule"} /\ MailboxPreview(p, fs).refused = (<<"readonly", p.of>> \in fs)
                  /\ MailboxPreview(p, fs).after = (Named(fs, "rule") \ About(fs, "rule", p.of)) \cup new
      BY <2>9
    <3> HIDE DEF new
    <3>2. (Named(after, "rule") \ About(after, "rule", p.of)) \cup new = (Named(facts, "rule") \ About(facts, "rule", p.of)) \cup new
      BY <2>6, <2>7
    <3> QED BY <3>1, <3>2 DEF SamePreview
  <2>11. <<"readonly", p.of>> \in after => <<"readonly", p.of>> \in facts
    BY <2>4, <2>5
  <2>12. ~Fresh(p) /\ p.area # "group" /\ (p.type = "mailbox.set-rule" => new # {})
    BY <1>6 DEF Fresh, Rules
  <2> HIDE DEF new
  <2>13. MailboxWay(p, at, facts) => <<"readonly", p.of>> \notin facts
    BY <1>6, <2>1 DEF MailboxWay
  <2>14. MailboxWay(p, at, facts) => MailboxWay(p, at, after) /\ Under(p, after)
    BY <2>11, <2>12, <2>13 DEF MailboxWay, Under
  <2> QED BY <2>1, <2>3, <2>7, <2>8, <2>10, <2>12, <2>13, <2>14
<1> QED BY <1>4, <1>5, <1>6, MailboxPlaces DEF Rules

LEMMA VmPlaces ==
  ASSUME NEW p, IsPlan(p), p.area = "vm"
  PROVE  /\ p.type \in PowerTypes => Program(p) = <<"power", "wait", "getVm">>
         /\ p.type = "vm.resize" => Program(p) = <<"resizeVm", "wait", "getVm">>
         /\ p.type = "vm.deploy" => Program(p) = <<"ensureResourceGroup", "deploy", "wait", "seal">>
         /\ p.type \in PowerTypes \cup {"vm.resize", "vm.deploy"}
<1>1. Program(p) = VmProgram(p)
  BY AreaProgram
<1>2. p.type \in {"vm.start", "vm.stop", "vm.restart", "vm.resize", "vm.deploy"}
  BY AreaTypes
<1> QED BY <1>1, <1>2 DEF VmProgram, PowerTypes

\* No request changes what the preview of a machine shows
LEMMA MachinePreview ==
  ASSUME NEW p, IsPlan(p), p.area \in {"vm", "avd"}, NEW facts, NEW after
  PROVE  /\ ~Fresh(p) /\ p.type # "mailbox.set-rule" /\ Under(p, after)
         /\ SamePreview(Foretold(p, facts), Foretold(p, after)) /\ (p.type \notin Warned => ~Foretold(p, facts).refused)
<1>1. ~Fresh(p) /\ p.type # "mailbox.set-rule" /\ Under(p, after)
  BY AreaTypes DEF Fresh, Under, Rules, Unprepared
<1>2. CASE p.area = "vm"
  <2>1. Foretold(p, facts) = VmPreview(p, facts, TRUE) /\ Foretold(p, after) = VmPreview(p, after, TRUE)
    BY <1>2, AreaPreview
  <2>2. /\ VmPreview(p, facts, TRUE).scope = VmPreview(p, after, TRUE).scope
        /\ VmPreview(p, facts, TRUE).after = VmPreview(p, after, TRUE).after
        /\ p.type \notin Warned => ~VmPreview(p, facts, TRUE).refused
    BY <1>2, AreaTypes DEF VmPreview, Warned
  <2> QED BY <1>1, <2>1, <2>2 DEF SamePreview
<1>3. CASE p.area = "avd"
  <2>1. Foretold(p, facts) = HostPreview(p) /\ Foretold(p, after) = HostPreview(p)
    BY <1>3, AreaPreview
  <2>2. ~HostPreview(p).refused
    BY DEF HostPreview
  <2> QED BY <1>1, <2>1, <2>2 DEF SamePreview
<1> QED BY <1>2, <1>3

LEMMA MachineRefused ==
  ASSUME NEW p, IsPlan(p), p.area \in {"vm", "avd"}, NEW facts
  PROVE  Foretold(p, facts).refused \in BOOLEAN
<1>1. Foretold(p, facts) = VmPreview(p, facts, TRUE) \/ Foretold(p, facts) = HostPreview(p)
  BY AreaPreview
<1>2. p.area = "vm" => VmPreview(p, facts, TRUE).refused \in BOOLEAN
  BY AreaTypes DEF VmPreview
<1>3. HostPreview(p).refused \in BOOLEAN
  BY DEF HostPreview
<1> QED BY <1>1, <1>2, <1>3, AreaPreview

LEMMA VmSends ==
  ASSUME NEW p, IsPlan(p), p.area = "vm", NEW at \in Places(p), IsRequest(Program(p)[at]), NEW sent, NEW seen, NEW op, NEW run,
         NEW facts, Possible(facts), NEW after, after = Changed(p, at, facts, seen, run)
  PROVE  Possible(after) /\ (Way(p, at, sent, seen, op, run, facts) => SentWell(p, at, sent, seen, op, run, facts, after))
<1>1. p.type = "vm.deploy" /\ at = 1 /\ Len(Program(p)) = 4
  <2>1. CASE p.type \in PowerTypes
    <3>1. Program(p) = <<"power", "wait", "getVm">>
      BY <2>1, VmPlaces
    <3> QED BY <3>1 DEF Places, IsRequest, Reads, Operations
  <2>2. CASE p.type = "vm.resize"
    <3>1. Program(p) = <<"resizeVm", "wait", "getVm">>
      BY <2>2, VmPlaces
    <3> QED BY <3>1 DEF Places, IsRequest, Reads, Operations
  <2>3. CASE p.type = "vm.deploy"
    <3>1. Program(p) = <<"ensureResourceGroup", "deploy", "wait", "seal">>
      BY <2>3, VmPlaces
    <3> QED BY <2>3, <3>1 DEF Places, IsRequest, Reads, Operations
  <2> QED BY <2>1, <2>2, <2>3, VmPlaces
<1>2. after = Apply(facts, Change({}, {<<"resourceGroup">>}))
  BY AreaEffect DEF Changed, ResourceGroupEffect
<1>3. Possible(after)
  BY <1>2, OneAdded DEF WellFormed, Flags
<1>4. <<"resourceGroup">> \in after
  BY <1>2 DEF Apply, Change
<1>5. \A n, s, fs : Way(p, n, s, seen, op, run, fs) <=> MachineWay(p, n, op, run, fs)
  BY DEF Way
<1>6. MachineWay(p, 1, op, run, after) /\ MachineWay(p, 2, op, run, after)
  BY <1>1, <1>4 DEF MachineWay, PowerTypes
<1> QED BY <1>1, <1>3, <1>5, <1>6, MachinePreview DEF SentWell

LEMMA SessionPlaces ==
  ASSUME NEW p, IsPlan(p), p.area = "avd"
  PROVE  /\ p.type = "avd.set-drain-mode" => Program(p) = <<"setDrainMode">>
         /\ p.type = "avd.disconnect-session" => Program(p) = <<"disconnectSession">>
         /\ p.type = "avd.logoff-session" => Program(p) = <<"logoffSession">>
         /\ p.type = "avd.send-message" => Program(p) = <<"sendMessage">>
         /\ p.type \notin Unprepared => p.type \in PowerTypes /\ Program(p) = <<"power", "wait">>
<1>1. CASE p.type \in Unprepared
  <2>1. Program(p) = SessionProgram(p)
    BY <1>1, AreaProgram
  <2> QED BY <1>1, <2>1 DEF SessionProgram, Unprepared
<1>2. CASE p.type \notin Unprepared
  <2>1. Program(p) = HostProgram(p)
    BY <1>2, AreaProgram
  <2> QED BY <1>2, <2>1, AreaTypes DEF HostProgram, Unprepared, PowerTypes
<1> QED BY <1>1, <1>2

LEMMA SessionSends ==
  ASSUME NEW p, IsPlan(p), p.area = "avd", NEW at \in Places(p), IsRequest(Program(p)[at]), NEW sent, NEW seen, NEW op, NEW run,
         NEW facts, Possible(facts), NEW after, after = Changed(p, at, facts, seen, run)
  PROVE  Possible(after) /\ (Way(p, at, sent, seen, op, run, facts) => SentWell(p, at, sent, seen, op, run, facts, after))
<1>1. p.type \in Unprepared /\ at = 1 /\ Len(Program(p)) = 1
  <2>1. CASE p.type \in Unprepared
    BY <2>1, SessionPlaces DEF Places, Unprepared
  <2>2. CASE p.type \notin Unprepared
    <3>1. Program(p) = <<"power", "wait">>
      BY <2>2, SessionPlaces
    <3> QED BY <3>1 DEF Places, IsRequest, Operations
  <2> QED BY <2>1, <2>2
<1>2. Effect(p, Program(p)[at], facts, seen, run) = SessionEffect(p, Program(p)[1], facts)
  BY <1>1, AreaEffect
<1>3. MachineWay(p, 1, op, run, after)
  BY <1>1 DEF MachineWay, PowerTypes, Unprepared
<1>4. Way(p, at, sent \cup {at}, seen, op, run, after)
  BY <1>1, <1>3 DEF Way
<1>5. Possible(after) /\ Goal(p, after, run)
  <2>1. CASE p.type = "avd.set-drain-mode"
    <3>1. after = Apply(facts, IF p.as = "drain" THEN Change({}, {<<"drain">>}) ELSE Change({<<"drain">>}, {}))
      BY <1>2, <2>1, SessionPlaces DEF Changed, SessionEffect
    <3>2. Possible(after)
      BY <3>1, OneAdded, SomeDropped DEF WellFormed, Flags
    <3>3. (<<"drain">> \in after) = (p.as = "drain")
      BY <3>1 DEF Apply, Change
    <3> QED BY <2>1, <3>2, <3>3 DEF Goal
  <2>2. CASE p.type = "avd.disconnect-session"
    <3>1. after = Apply(facts, Change({<<"desktop", "on">>}, {<<"desktop", "left">>}))
      BY <1>2, <2>2, SessionPlaces DEF Changed, SessionEffect
    <3>2. Possible(after)
      BY <3>1, OneAdded DEF WellFormed, Flags
    <3>3. <<"desktop", "on">> \notin after
      BY <3>1 DEF Apply, Change
    <3> QED BY <2>2, <3>2, <3>3 DEF Goal
  <2>3. CASE p.type = "avd.logoff-session"
    <3>1. after = Apply(facts, Change(Named(facts, "desktop"), {}))
      BY <1>2, <2>3, SessionPlaces DEF Changed, SessionEffect
    <3>2. Possible(after)
      BY <3>1, SomeDropped DEF Named
    <3>3. Named(after, "desktop") = {}
      BY <3>1 DEF Apply, Change, Named
    <3> QED BY <2>3, <3>2, <3>3 DEF Goal
  <2>4. CASE p.type = "avd.send-message"
    <3>1. after = Apply(facts, Change({}, {<<"message", NewId(facts, "message")>>}))
      BY <1>2, <2>4, SessionPlaces DEF Changed, SessionEffect
    <3>2. Possible(after)
      BY <3>1, OneAdded DEF WellFormed, Flags
    <3>3. <<"message", NewId(facts, "message")>> \in Named(after, "message")
      BY <3>1 DEF Apply, Change, Named
    <3> QED BY <2>4, <3>2, <3>3 DEF Goal
  <2> QED BY <1>1, <2>1, <2>2, <2>3, <2>4 DEF Unprepared
<1> QED BY <1>1, <1>4, <1>5, MachinePreview DEF SentWell

LEMMA DeviceSends ==
  ASSUME NEW p, IsPlan(p), p.area = "device", NEW at \in Places(p), NEW sent, NEW seen, NEW op, NEW run,
         NEW facts, Possible(facts), NEW after, after = Changed(p, at, facts, seen, run)
  PROVE  Possible(after) /\ (Way(p, at, sent, seen, op, run, facts) => SentWell(p, at, sent, seen, op, run, facts, after))
<1> DEFINE request == <<"asked", NewId(facts, "asked")>>
<1>1. Program(p) = <<"deviceAction">>
  BY AreaProgram DEF DeviceProgram
<1>2. at = 1 /\ Len(Program(p)) = 1
  BY <1>1 DEF Places
<1>3. after = Apply(facts, Change({}, {request}))
  <2>1. Effect(p, Program(p)[at], facts, seen, run) = DeviceEffect(p, facts)
    BY AreaEffect
  <2> QED BY <2>1 DEF Changed, DeviceEffect
<1>4. Possible(after)
  BY <1>3, OneAdded DEF WellFormed, Flags
<1>5. Named(after, "asked") = Named(facts, "asked") \cup {request}
  BY <1>3 DEF Apply, Change, Named
<1>6. Goal(p, after, run)
  <2>1. Named(after, "asked") # {}
    BY <1>5
  <2>2. p.type \in {"device.sync", "device.restart", "device.defender-scan"}
    BY AreaTypes
  <2> QED BY <2>1, <2>2 DEF Goal
<1>7. Fresh(p) /\ p.type # "mailbox.set-rule" /\ Under(p, after) /\ Way(p, at, sent \cup {at}, seen, op, run, after)
  BY AreaTypes DEF Fresh, Under, Rules, Way
<1>8. Foretold(p, facts) = [scope |-> {"asked"}, after |-> Named(facts, "asked") \cup {request}, refused |-> FALSE]
  BY AreaPreview DEF DevicePreview
<1>9. Scope(after, {"asked"}) = Named(after, "asked")
  BY DEF Scope, Named
<1> HIDE DEF request
<1> QED BY <1>2, <1>4, <1>5, <1>6, <1>7, <1>8, <1>9 DEF SentWell

LEMMA MonitorSends ==
  ASSUME NEW p, IsPlan(p), p.area = "monitor", NEW at \in Places(p), IsRequest(Program(p)[at]), NEW sent, NEW seen, NEW op, NEW run,
         NEW facts, Possible(facts), ~Gone(p, Program(p)[at], facts), NEW after, after = Changed(p, at, facts, seen, run)
  PROVE  Possible(after) /\ (Way(p, at, sent, seen, op, run, facts) => SentWell(p, at, sent, seen, op, run, facts, after))
<1>1. Program(p) = IF p.type = "tenant.monitor-enable" THEN <<"ensureScript", "setHourlySchedule">>
                   ELSE <<"findTenantScriptId", "setHourlySchedule">>
  BY AreaProgram DEF MonitorProgram
<1>2. p.type \in {"tenant.monitor-enable", "tenant.monitor-disable"}
  BY AreaTypes
<1>3. at \in 1..2 /\ Len(Program(p)) = 2
  BY <1>1 DEF Places
<1>4. Effect(p, Program(p)[at], facts, seen, run) = MonitorEffect(p, Program(p)[at])
  BY AreaEffect
<1>5. \A n, s, fs : Way(p, n, s, seen, op, run, fs) <=> MonitorWay(p, n, fs)
  BY DEF Way
<1>6. ~Fresh(p) /\ p.type # "mailbox.set-rule" /\ Under(p, after)
  BY <1>2 DEF Fresh, Under, Rules
<1>7. \A fs : Foretold(p, fs) = MonitorPreview(p)
  BY AreaPreview
<1>8. ~MonitorPreview(p).refused
  BY DEF MonitorPreview
<1> SUFFICES /\ Possible(after)
             /\ MonitorWay(p, at, facts) =>
                  /\ MonitorWay(p, at, after)
                  /\ at = 2 => Goal(p, after, run)
                  /\ at = 1 => MonitorWay(p, 2, after)
  BY <1>3, <1>5, <1>6, <1>7, <1>8 DEF SentWell, SamePreview
<1>9. CASE at = 1
  <2>1. Program(p)[at] = "ensureScript"
    BY <1>1, <1>9 DEF IsRequest, Reads
  <2>2. after = facts \cup {<<"script">>} /\ after = Apply(facts, Change({}, {<<"script">>}))
    BY <1>4, <2>1 DEF Changed, MonitorEffect, Apply, Change
  <2>3. Possible(after)
    BY <2>2, OneAdded DEF WellFormed, Flags
  <2> QED BY <1>9, <2>2, <2>3 DEF MonitorWay
<1>10. CASE at = 2
  <2>1. Program(p)[at] = "setHourlySchedule" /\ <<"script">> \in facts
    BY <1>1, <1>10 DEF Gone
  <2>2. CASE p.type = "tenant.monitor-enable"
    <3>1. after = facts \cup {<<"schedule">>}
      BY <1>4, <2>1, <2>2 DEF Changed, MonitorEffect, Apply, Change
    <3>2. Possible(after)
      <4>1. IsFiniteSet(after)
        BY <3>1, FS_AddElement DEF Possible
      <4>2. \A f \in after : WellFormed(f)
        BY <3>1 DEF Possible, WellFormed, Flags
      <4>3. Named(after, "rule") = Named(facts, "rule")
        BY <3>1 DEF Named
      <4> QED BY <2>1, <3>1, <4>1, <4>2, <4>3 DEF Possible
    <3>3. Goal(p, after, run)
      BY <2>1, <2>2, <3>1 DEF Goal
    <3> QED BY <1>10, <2>1, <3>1, <3>2, <3>3 DEF MonitorWay
  <2>3. CASE p.type = "tenant.monitor-disable"
    <3>1. after = Apply(facts, Change({<<"schedule">>}, {}))
      BY <1>4, <2>1, <2>3 DEF Changed, MonitorEffect
    <3>2. Possible(after)
      BY <3>1, SomeDropped
    <3>3. <<"schedule">> \notin after
      BY <3>1 DEF Apply, Change
    <3> QED BY <1>10, <2>3, <3>2, <3>3 DEF MonitorWay, Goal
  <2> QED BY <1>2, <2>2, <2>3
<1> QED BY <1>3, <1>9, <1>10

LEMMA Sends ==
  ASSUME NEW p, IsPlan(p), NEW at \in Places(p), IsRequest(Program(p)[at]),
         NEW sent, NEW seen, IsFiniteSet(seen), NEW op, NEW run,
         NEW facts, Possible(facts), ~Gone(p, Program(p)[at], facts), NEW after, after = Changed(p, at, facts, seen, run)
  PROVE  Possible(after) /\ (Way(p, at, sent, seen, op, run, facts) => SentWell(p, at, sent, seen, op, run, facts, after))
<1>1. CASE p.area = "identity"
  BY <1>1, LicenceSends, AccountSends
<1>2. CASE p.area = "group"
  BY <1>2, GroupSends
<1>3. CASE p.area = "apps"
  BY <1>3, AppSends
<1>4. CASE p.area = "mailbox"
  BY <1>4, MailboxSends
<1>5. CASE p.area = "vm"
  BY <1>5, VmSends
<1>6. CASE p.area = "avd"
  BY <1>6, SessionSends
<1>7. CASE p.area = "device"
  BY <1>7, DeviceSends
<1>8. CASE p.area = "monitor"
  BY <1>8, MonitorSends
<1> QED BY <1>1, <1>2, <1>3, <1>4, <1>5, <1>6, <1>7, <1>8, AreaTypes

-----------------------------------------------------------------------------
(* An operation of Azure *)

LEMMA OperationDone ==
  ASSUME NEW p, IsPlan(p), p.area \in {"vm", "avd"}, p.type \notin Unprepared, NEW facts, Possible(facts), NEW run,
         OperationFits(p, facts), NEW after, after = Apply(facts, OperationEffect(p, facts, run))
  PROVE  /\ Possible(after)
         /\ <<"resourceGroup">> \in facts => <<"resourceGroup">> \in after
         /\ p.type # "vm.deploy" => Goal(p, after, run)
         /\ p.type = "vm.deploy" => (<<"resourceGroup">> \in facts => Goal(p, after, run)) /\ \A r : ~Goal(p, facts, r)
<1>1. p.type \in PowerTypes \cup {"vm.resize", "vm.deploy"}
  BY AreaTypes DEF Unprepared, PowerTypes
<1>2. CASE p.type \in PowerTypes
  <2>1. OperationEffect(p, facts, run) = PowerEffect(p, facts)
    BY <1>2 DEF OperationEffect, PowerTypes
  <2>2. CASE p.type \in {"vm.stop", "avd.stop-session-host"}
    <3>1. after = Apply(facts, Change({<<"running">>} \cup Named(facts, "desktop"), {}))
      BY <2>1, <2>2 DEF PowerEffect
    <3>2. Possible(after)
      BY <3>1, SomeDropped DEF Named
    <3>3. <<"running">> \notin after /\ Named(after, "desktop") = {}
      BY <3>1 DEF Apply, Change, Named
    <3>4. <<"resourceGroup">> \in facts => <<"resourceGroup">> \in after
      BY <3>1 DEF Apply, Change, Named
    <3> QED BY <2>2, <3>2, <3>3, <3>4 DEF Goal
  <2>3. CASE p.type \notin {"vm.stop", "avd.stop-session-host"}
    <3>1. after = Apply(facts, Change({}, {<<"running">>}))
      BY <2>1, <2>3 DEF PowerEffect
    <3>2. Possible(after)
      BY <3>1, OneAdded DEF WellFormed, Flags
    <3>3. <<"running">> \in after
      BY <3>1 DEF Apply, Change
    <3>4. <<"resourceGroup">> \in facts => <<"resourceGroup">> \in after
      BY <3>1 DEF Apply, Change
    <3> QED BY <1>2, <2>3, <3>2, <3>3, <3>4 DEF Goal, PowerTypes
  <2> QED BY <2>2, <2>3
<1>3. CASE p.type = "vm.resize"
  <2>1. after = Apply(facts, Change(Named(facts, "size"), {<<"size", p.as>>}))
    BY <1>3 DEF OperationEffect, ResizeEffect, PowerTypes
  <2>2. Possible(after)
    BY <2>1, OneAdded DEF WellFormed, Flags, Named
  <2>3. Named(after, "size") = {<<"size", p.as>>}
    BY <2>1 DEF Apply, Change, Named
  <2>4. <<"resourceGroup">> \in facts => <<"resourceGroup">> \in after
    BY <2>1 DEF Apply, Change, Named
  <2> QED BY <1>3, <2>2, <2>3, <2>4 DEF Goal
<1>4. CASE p.type = "vm.deploy"
  <2>1. after = Apply(facts, Change({}, {<<"vm", run>>}))
    BY <1>4 DEF OperationEffect, DeployEffect, PowerTypes
  <2>2. Possible(after)
    BY <2>1, OneAdded DEF WellFormed, Flags
  <2>3. Named(facts, "vm") = {}
    BY <1>4 DEF OperationFits
  <2>4. Named(after, "vm") = {<<"vm", run>>}
    BY <2>1, <2>3 DEF Apply, Change, Named
  <2>5. <<"resourceGroup">> \in facts => <<"resourceGroup">> \in after
    BY <2>1 DEF Apply, Change
  <2>6. <<"resourceGroup">> \in facts => Goal(p, after, run)
    BY <1>4, <2>4, <2>5 DEF Goal
  <2>7. \A r : ~Goal(p, facts, r)
    BY <1>4, <2>3 DEF Goal
  <2> QED BY <1>4, <2>2, <2>5, <2>6, <2>7
<1> QED BY <1>1, <1>2, <1>3, <1>4

-----------------------------------------------------------------------------
(* A job that has done what it was asked for has done what its preview shows *)

LEMMA OnlyWord ==
  ASSUME NEW facts, Possible(facts), NEW word \in Flags
  PROVE  Named(facts, word) = IF <<word>> \in facts THEN {<<word>>} ELSE {}
<1>1. \A f \in Named(facts, word) : f = <<word>>
  BY DEF Possible, WellFormed, Named
<1> QED BY <1>1 DEF Named

LEMMA DoneIsShown ==
  ASSUME NEW p, IsPlan(p), p.type \notin Unprepared, ~Fresh(p), NEW facts, Possible(facts), NEW run, Goal(p, facts, run),
         p.type = "mailbox.set-rule" => About(facts, "rule", p.of) # {}
  PROVE  Scope(facts, Foretold(p, facts).scope) = Foretold(p, facts).after
<1>0. p.area # "device"
  BY DEF Fresh
<1>1. \A w : Scope(facts, {w}) = Named(facts, w)
  BY DEF Scope, Named
<1>2. \A w, v : Scope(facts, {w, v}) = Named(facts, w) \cup Named(facts, v)
  BY DEF Scope, Named
<1>3. Scope(facts, {}) = {}
  BY DEF Scope
<1>4. CASE p.type \in Licences
  <2>1. Foretold(p, facts) = LicencePreview(p, facts)
    BY <1>4, AreaPreview
  <2>2. CASE p.type = "identity.assign-license"
    <3>1. <<"licence", p.of>> \in Named(facts, "licence")
      BY <1>0, <2>2 DEF Goal, Named
    <3> QED BY <1>1, <2>1, <2>2, <3>1 DEF LicencePreview
  <2>3. CASE p.type = "identity.remove-license"
    BY <1>3, <2>1, <2>3 DEF LicencePreview
  <2> QED BY <1>4, <2>2, <2>3 DEF Licences
<1>5. CASE p.area = "identity" /\ p.type \notin Licences
  <2>1. Foretold(p, facts) = AccountPreview(p, facts)
    BY <1>5, AreaPreview
  <2>2. /\ Named(facts, "enabled") = IF <<"enabled">> \in facts THEN {<<"enabled">>} ELSE {}
        /\ Named(facts, "session") = IF <<"session">> \in facts THEN {<<"session">>} ELSE {}
    BY OnlyWord DEF Flags
  <2>3. CASE p.type = "identity.disable-user"
    <3>1. AccountPreview(p, facts) = [scope |-> {"enabled"} \cup IF p.as = "revoke" THEN {"session"} ELSE {}, after |-> {}, refused |-> FALSE]
      BY <2>3 DEF AccountPreview
    <3>2. <<"enabled">> \notin facts /\ (p.as = "revoke" => <<"session">> \notin facts)
      BY <1>0, <2>3 DEF Goal
    <3> QED BY <2>1, <2>2, <3>1, <3>2 DEF Scope, Named
  <2>4. CASE p.type = "identity.enable-user"
    <3>1. AccountPreview(p, facts) = [scope |-> {"enabled"}, after |-> {<<"enabled">>}, refused |-> FALSE]
      BY <2>4 DEF AccountPreview
    <3>2. <<"enabled">> \in facts
      BY <1>0, <2>4 DEF Goal
    <3> QED BY <1>1, <2>1, <2>2, <3>1, <3>2
  <2>5. CASE p.type = "identity.revoke-sessions"
    <3>1. AccountPreview(p, facts) = [scope |-> {"session"}, after |-> {}, refused |-> FALSE]
      BY <2>5 DEF AccountPreview
    <3>2. <<"session">> \notin facts
      BY <1>0, <2>5 DEF Goal
    <3> QED BY <1>1, <2>1, <2>2, <3>1, <3>2
  <2>6. CASE p.type = "identity.reset-password"
    <3>1. AccountPreview(p, facts) = [scope |-> {}, after |-> {}, refused |-> FALSE]
      BY <2>6 DEF AccountPreview
    <3> QED BY <1>3, <2>1, <3>1
  <2> QED BY <1>5, <2>3, <2>4, <2>5, <2>6, AreaTypes
<1>6. CASE p.area = "group"
  <2>1. Foretold(p, facts) = GroupPreview(p, facts)
    BY <1>6, AreaPreview
  <2>2. p.type \in {"group.add", "group.remove"}
    BY <1>6, AreaTypes
  <2>3. IF p.type = "group.add" THEN <<p.as, p.of>> \in facts ELSE <<p.as, p.of>> \notin facts
    BY <1>0, <2>2 DEF Goal
  <2>4. GroupPreview(p, facts).scope = {p.as} /\ GroupPreview(p, facts).after = Named(facts, p.as)
    BY <2>3 DEF GroupPreview, Named
  <2> QED BY <1>1, <2>1, <2>4
<1>7. CASE p.area = "apps" /\ ~Deploys(p)
  <2>1. Foretold(p, facts) = [scope |-> {"assigned"}, after |-> Merged(p, facts, facts), refused |-> FALSE]
    BY <1>7, AreaPreview, AppPlaces
  <2>2. Merged(p, facts, facts) = Named(facts, "assigned")
    <3>1. CASE p.type = "apps.assign"
      <4>1. AddedBy(p, facts) = {<<"assigned", p.of, p.as>>} /\ RemovedBy(p) = {}
        BY <1>7, <3>1, AddedIs, RemovedIs
      <4>2. {f \in Named(facts, "assigned") : f[2] = p.of} = {<<"assigned", p.of, p.as>>}
        BY <1>0, <3>1 DEF Goal, About
      <4> QED BY <4>1, <4>2 DEF Merged, Merge
    <3>2. CASE p.type = "apps.unassign"
      <4>1. AddedBy(p, facts) = {} /\ RemovedBy(p) = {<<"assigned", p.of, p.as>>}
        BY <1>7, <3>2, AddedIs, RemovedIs
      <4>2. <<"assigned", p.of, p.as>> \notin facts
        BY <1>0, <3>2 DEF Goal
      <4> QED BY <4>1, <4>2 DEF Merged, Merge, Named
    <3> QED BY <1>7, <3>1, <3>2, AppPlaces
  <2> QED BY <1>1, <2>1, <2>2
<1>8. CASE p.area = "apps" /\ Deploys(p)
  <2>1. /\ \A k \in 1..3 : Named(facts, Intents[k]) # {}
        /\ p.as = "assign" => \A k \in 1..3 : About(facts, "assigned", <<Intents[k], 1>>) = {GroupTarget(k)}
    BY <1>0, <1>8 DEF Goal, Deploys, GroupTarget
  <2>2. \A w \in Words : Named(facts, w) # {}
    BY <2>1, IntentsAre DEF Words
  <2>3. GroupsShown(facts) = {f \in facts : f[1] \in Words}
    <3>1. GroupsShown(facts) = UNION {Named(facts, w) : w \in Words}
      BY <2>2 DEF GroupsShown
    <3> QED BY <3>1 DEF Named
  <2>4. CASE p.as = "assign"
    <3>1. Merge(Named(facts, "assigned"), GroupTargets, {}) = Named(facts, "assigned")
      <4>1. GroupTargets \subseteq Named(facts, "assigned")
        BY <2>1, <2>4 DEF GroupTargets, About
      <4>2. \A e \in Named(facts, "assigned"), t \in GroupTargets : e[2] = t[2] => e = t
        <5>1. GroupTarget(1)[2] = <<Intents[1], 1>> /\ GroupTarget(2)[2] = <<Intents[2], 1>> /\ GroupTarget(3)[2] = <<Intents[3], 1>>
          BY DEF GroupTarget
        <5>2. \A k \in 1..3, e \in Named(facts, "assigned") : e[2] = <<Intents[k], 1>> => e = GroupTarget(k)
          BY <2>1, <2>4 DEF About
        <5> QED BY <5>1, <5>2 DEF GroupTargets
      <4> QED BY <4>1, <4>2 DEF Merge
    <3>2. Foretold(p, facts).scope = Words \cup {"assigned"} /\ Foretold(p, facts).after = GroupsShown(facts) \cup Named(facts, "assigned")
      BY <1>8, <2>4, <3>1, DeploymentShown
    <3> QED BY <2>3, <3>2 DEF Scope, Named
  <2>5. CASE p.as # "assign"
    <3>1. Foretold(p, facts).scope = Words \cup {} /\ Foretold(p, facts).after = GroupsShown(facts) \cup {}
      BY <1>8, <2>5, DeploymentShown
    <3> QED BY <2>3, <3>1 DEF Scope
  <2> QED BY <2>4, <2>5
<1>9. CASE p.area = "mailbox"
  <2>1. Foretold(p, facts) = MailboxPreview(p, facts)
    BY <1>9, AreaPreview
  <2>2. CASE p.type = "mailbox.set-auto-reply"
    <3>1. MailboxPreview(p, facts).scope = {"reply"} /\ MailboxPreview(p, facts).after = {<<"reply", p.as>>}
      BY <2>2 DEF MailboxPreview
    <3>2. Named(facts, "reply") = {<<"reply", p.as>>}
      BY <1>0, <2>2 DEF Goal
    <3> QED BY <1>1, <2>1, <3>1, <3>2
  <2>3. CASE p.type = "mailbox.set-rule"
    <3>1. MailboxPreview(p, facts).scope = {"rule"} /\ MailboxPreview(p, facts).after = (Named(facts, "rule") \ About(facts, "rule", p.of)) \cup {<<"rule", p.of, p.as>>}
      BY <2>3 DEF MailboxPreview
    <3>2. About(facts, "rule", p.of) = {<<"rule", p.of, p.as>>}
      BY <1>0, <2>3 DEF Goal
    <3>3. About(facts, "rule", p.of) \subseteq Named(facts, "rule")
      BY DEF About
    <3>4. MailboxPreview(p, facts).after = Named(facts, "rule")
      BY <3>1, <3>2, <3>3
    <3> QED BY <1>1, <2>1, <3>1, <3>4
  <2>4. CASE p.type = "mailbox.delete-rule"
    <3>1. MailboxPreview(p, facts).scope = {"rule"} /\ MailboxPreview(p, facts).after = (Named(facts, "rule") \ About(facts, "rule", p.of)) \cup {}
      BY <2>4 DEF MailboxPreview
    <3>2. About(facts, "rule", p.of) = {}
      BY <1>0, <2>4 DEF Goal
    <3> QED BY <1>1, <2>1, <3>1, <3>2
  <2> QED BY <1>9, <2>2, <2>3, <2>4, MailboxPlaces DEF Fresh
<1>10. CASE p.area \in {"vm", "avd"}
  <2>1. /\ Named(facts, "running") = IF <<"running">> \in facts THEN {<<"running">>} ELSE {}
    BY OnlyWord DEF Flags
  <2>2. CASE p.type \in {"vm.start", "vm.restart", "avd.start-session-host"}
    <3>1. Foretold(p, facts) = [scope |-> {"running"}, after |-> {<<"running">>}, refused |-> FALSE]
      BY <1>10, <2>2, AreaPreview, AreaTypes DEF VmPreview, HostPreview
    <3>2. <<"running">> \in facts
      BY <1>0, <2>2 DEF Goal
    <3> QED BY <1>1, <2>1, <3>1, <3>2
  <2>3. CASE p.type = "vm.stop"
    <3>1. Foretold(p, facts) = [scope |-> {"running"}, after |-> {}, refused |-> FALSE]
      BY <1>10, <2>3, AreaPreview, AreaTypes DEF VmPreview, Unprepared
    <3>2. <<"running">> \notin facts
      BY <1>0, <2>3 DEF Goal
    <3> QED BY <1>1, <2>1, <3>1, <3>2
  <2>4. CASE p.type = "avd.stop-session-host"
    <3>1. Foretold(p, facts) = [scope |-> {"running", "desktop"}, after |-> {}, refused |-> FALSE]
      BY <1>10, <2>4, AreaPreview, AreaTypes DEF HostPreview
    <3>2. <<"running">> \notin facts /\ Named(facts, "desktop") = {}
      BY <1>0, <2>4 DEF Goal
    <3> QED BY <1>2, <2>1, <3>1, <3>2
  <2>5. CASE p.type = "vm.resize"
    <3>1. Foretold(p, facts) = [scope |-> {"size"}, after |-> {<<"size", p.as>>}, refused |-> FALSE]
      BY <1>10, <2>5, AreaPreview, AreaTypes DEF VmPreview, Unprepared
    <3>2. Named(facts, "size") = {<<"size", p.as>>}
      BY <1>0, <2>5 DEF Goal
    <3> QED BY <1>1, <3>1, <3>2
  <2>6. CASE p.type = "vm.deploy"
    <3>1. Foretold(p, facts).scope = {} /\ Foretold(p, facts).after = {}
      BY <1>10, <2>6, AreaPreview, AreaTypes DEF VmPreview, Unprepared
    <3> QED BY <1>3, <3>1
  <2> QED BY <1>10, <2>2, <2>3, <2>4, <2>5, <2>6, AreaTypes DEF Unprepared
<1>11. CASE p.area = "monitor"
  <2>1. Foretold(p, facts) = MonitorPreview(p)
    BY <1>11, AreaPreview
  <2>2. /\ Named(facts, "script") = IF <<"script">> \in facts THEN {<<"script">>} ELSE {}
        /\ Named(facts, "schedule") = IF <<"schedule">> \in facts THEN {<<"schedule">>} ELSE {}
    BY OnlyWord DEF Flags
  <2>3. CASE p.type = "tenant.monitor-enable"
    <3>1. MonitorPreview(p) = [scope |-> {"script", "schedule"}, after |-> {<<"script">>, <<"schedule">>}, refused |-> FALSE]
      BY <2>3 DEF MonitorPreview
    <3>2. <<"script">> \in facts /\ <<"schedule">> \in facts
      BY <1>0, <2>3, <1>11 DEF Goal
    <3> QED BY <1>2, <2>1, <2>2, <3>1, <3>2
  <2>4. CASE p.type = "tenant.monitor-disable"
    <3>1. MonitorPreview(p) = [scope |-> {"schedule"}, after |-> {}, refused |-> FALSE]
      BY <2>4 DEF MonitorPreview
    <3>2. <<"schedule">> \notin facts
      BY <1>0, <2>4, <1>11 DEF Goal
    <3> QED BY <1>1, <2>1, <2>2, <3>1, <3>2
  <2> QED BY <1>11, <2>3, <2>4, AreaTypes
<1> QED BY <1>4, <1>5, <1>6, <1>7, <1>8, <1>9, <1>10, <1>11, AreaTypes DEF Fresh

-----------------------------------------------------------------------------
(* What a read makes of the run *)

AskedWell(p, at, sent, op, run, facts, readable, verdict) ==
    /\ verdict \in {"go", "skip"} =>
          LET next == at + IF verdict = "skip" THEN 2 ELSE 1
          IN  IF next > Len(Program(p)) THEN ~Fresh(p) /\ Goal(p, facts, run) ELSE Way(p, next, sent, facts, op, run, facts)
    /\ verdict = "unchanged" => ~Fresh(p) /\ (readable => Goal(p, facts, run))
    /\ verdict = "refused" => Nowhere(p) \/ (Foretold(p, facts).refused /\ ~Under(p, facts) /\ p.type \notin Warned)

Verdicts == {"go", "skip", "unchanged", "refused", "missing"}

\* The owners have been counted before the step that removes one
CountedBy(p, at, facts, unified, verdict) ==
    /\ p.type = "group.remove" /\ p.as = "owner" /\ at + (IF verdict = "skip" THEN 2 ELSE 1) = 4 /\ verdict \in {"go", "skip"}
    => ~(unified /\ Cardinality(Named(facts, "owner")) <= 1)

AsksWell(p, at, sent, seen, op, run, facts, unified, readable, verdict) ==
    /\ verdict \in Verdicts /\ CountedBy(p, at, facts, unified, verdict)
    /\ Way(p, at, sent, seen, op, run, facts) /\ Kind(p, at, unified, facts) =>
          AskedWell(p, at, sent, op, run, facts, readable, verdict)

LEMMA GroupAsks ==
  ASSUME NEW p, IsPlan(p), p.area = "group", NEW at \in Places(p), Program(p)[at] \in Reads, NEW sent, NEW seen, NEW op, NEW run,
         NEW facts, NEW unified \in BOOLEAN, NEW readable, NEW verdict, verdict = Verdict(p, Program(p)[at], facts, unified, readable)
  PROVE  AsksWell(p, at, sent, seen, op, run, facts, unified, readable, verdict)
<1> DEFINE relation == <<p.as, p.of>>
<1>1. verdict = GroupVerdict(p, Program(p)[at], facts, unified)
  BY AreaVerdict
<1>2. Foretold(p, facts) = GroupPreview(p, facts)
  BY AreaPreview
<1>3. \A n, sn, fs : Way(p, n, sent, sn, op, run, fs) <=> GroupWay(p, n, sent, fs)
  BY DEF Way
<1>4. ~Fresh(p) /\ p.type \notin Rules /\ (p.type = "group.add" \/ p.type = "group.remove") /\ (p.as = "member" \/ p.as = "owner")
  BY AreaTypes DEF Fresh, Rules
<1>5. /\ p.type = "group.add" => (Goal(p, facts, run) <=> relation \in facts)
      /\ p.type = "group.remove" => (Goal(p, facts, run) <=> relation \notin facts)
  BY DEF Goal
<1>6. Under(p, facts) <=> ~Dynamic(p, facts) /\ (p.type = "group.remove" => relation \notin facts)
  BY <1>4 DEF Under
<1>7. GroupPreview(p, facts).refused <=> Dynamic(p, facts) \/ (p.type = "group.remove" /\ p.as = "owner" /\ LastOwner(facts))
  BY DEF GroupPreview, Dynamic, LastOwner
<1>12. p.type \notin Warned
  BY <1>4 DEF Warned
<1>8. Len(Program(p)) = IF p.type = "group.remove" /\ p.as = "owner" THEN 4 ELSE 3
  BY <1>4, GroupPlaces
<1>9. CASE at = 1
  <2>1. Program(p)[at] = "loadGroup"
    BY <1>4, <1>9, GroupPlaces
  <2>2. verdict = IF Dynamic(p, facts) THEN "refused" ELSE "go"
    BY <1>1, <2>1 DEF GroupVerdict, Dynamic
  <2> QED BY <1>2, <1>3, <1>6, <1>7, <1>8, <1>9, <1>12, <2>2 DEF AsksWell, AskedWell, CountedBy, Verdicts, GroupWay
<1>10. CASE at = 2
  <2>1. Program(p)[at] = "hasRelation"
    BY <1>4, <1>10, GroupPlaces
  <2>2. /\ verdict \in {"unchanged", "skip", "go"}
        /\ verdict = "unchanged" <=> ((relation \in facts) = (p.type = "group.add"))
        /\ verdict = "skip" => p.type = "group.remove" /\ p.as = "owner" /\ ~unified
        /\ verdict = "go" => ~(p.type = "group.remove" /\ p.as = "owner" /\ ~unified)
    BY <1>1, <2>1 DEF GroupVerdict
  <2>5. Kind(p, 2, unified, facts) => unified = (<<"m365">> \in facts)
    BY DEF Kind
  <2>3. GroupWay(p, 2, sent, facts) /\ Kind(p, 2, unified, facts) =>
           /\ verdict = "go" => GroupWay(p, 3, sent, facts)
           /\ verdict = "skip" => GroupWay(p, 4, sent, facts)
    <3> SUFFICES ASSUME GroupWay(p, 2, sent, facts), unified = (<<"m365">> \in facts)
                 PROVE  /\ verdict = "go" => GroupWay(p, 3, sent, facts)
                        /\ verdict = "skip" => GroupWay(p, 4, sent, facts)
      BY <2>5
    <3>1. ~Dynamic(p, facts)
      BY DEF GroupWay
    <3>2. ASSUME verdict = "go", p.type = "group.remove", p.as = "owner" PROVE relation \in facts /\ <<"m365">> \in facts
      <4>1. relation \in facts /\ unified
        BY <2>2, <3>2
      <4> QED BY <4>1
    <3>3. verdict = "skip" => <<"m365">> \notin facts
      <4>1. verdict = "skip" => ~unified
        BY <2>2
      <4> QED BY <4>1
    <3>4. p.as = "owner" => relation = <<"owner", p.of>>
      OBVIOUS
    <3> HIDE DEF relation
    <3>5. verdict = "go" => GroupWay(p, 3, sent, facts)
      BY <3>1, <3>2, <3>4 DEF GroupWay
    <3>6. verdict = "skip" => GroupWay(p, 4, sent, facts)
      BY <3>1, <3>3 DEF GroupWay, LastOwner
    <3> QED BY <3>5, <3>6
  <2>4. verdict = "unchanged" => Goal(p, facts, run)
    BY <1>4, <1>5, <2>2
  <2> QED BY <1>3, <1>4, <1>8, <1>10, <2>2, <2>3, <2>4 DEF AsksWell, AskedWell, CountedBy, Verdicts
<1>11. CASE at \notin {1, 2}
  <2>1. p.type = "group.remove" /\ p.as = "owner" /\ at = 3 /\ Program(p)[at] = "countOwners"
    <3>1. CASE p.type = "group.add"
      <4>1. Program(p) = <<"loadGroup", "hasRelation", "addRelation">>
        BY <3>1, GroupPlaces
      <4> QED BY <1>11, <4>1 DEF Places, Reads
    <3>2. CASE p.type = "group.remove" /\ p.as = "member"
      <4>1. Program(p) = <<"loadGroup", "hasRelation", "removeRelation">>
        BY <3>2, GroupPlaces
      <4> QED BY <1>11, <4>1 DEF Places, Reads
    <3>3. CASE p.type = "group.remove" /\ p.as = "owner"
      <4>1. Program(p) = <<"loadGroup", "hasRelation", "countOwners", "removeRelation">>
        BY <3>3, GroupPlaces
      <4>2. at \in 1..4
        BY <4>1 DEF Places
      <4> QED BY <1>11, <3>3, <4>1, <4>2 DEF Reads
    <3> QED BY <1>4, <3>1, <3>2, <3>3
  <2>2. verdict = IF Cardinality(Named(facts, "owner")) <= 1 THEN "refused" ELSE "go"
    BY <1>1, <2>1 DEF GroupVerdict
  <2>3. GroupWay(p, 3, sent, facts) =>
           /\ relation \in facts /\ (verdict = "go" => GroupWay(p, 4, sent, facts))
           /\ verdict = "refused" => LastOwner(facts)
    BY <2>1, <2>2 DEF GroupWay, LastOwner
  <2> QED BY <1>2, <1>3, <1>6, <1>7, <1>8, <1>12, <2>1, <2>2, <2>3 DEF AsksWell, AskedWell, CountedBy, Verdicts
<1> QED BY <1>9, <1>10, <1>11

\* The places where a deployment looks for its groups
LEMMA NextGroup ==
  ASSUME NEW at, at = 1 \/ at = 3 \/ at = 5, NEW length, length = 6 \/ length = 8
  PROVE  (at + 2 > length => at = 5 /\ length = 6) /\ at + 1 <= length /\ at + 2 <= 7
<1>1. CASE at = 1
  BY <1>1
<1>2. CASE at = 3
  BY <1>2
<1>3. CASE at = 5
  BY <1>3
<1> QED BY <1>1, <1>2, <1>3

LEMMA AppAsks ==
  ASSUME NEW p, IsPlan(p), p.area = "apps", NEW at \in Places(p), Program(p)[at] \in Reads, NEW sent, NEW seen, NEW op, NEW run,
         NEW facts, NEW unified \in BOOLEAN, NEW readable, NEW verdict, verdict = Verdict(p, Program(p)[at], facts, unified, readable)
  PROVE  AsksWell(p, at, sent, seen, op, run, facts, unified, readable, verdict)
<1>1. verdict = AppVerdict(p, Program(p)[at], facts)
  BY AreaVerdict
<1>2. \A n, sn, fs : Way(p, n, sent, sn, op, run, fs) <=> AppWay(p, n, sent, sn, fs)
  BY DEF Way
<1>3. ~Fresh(p) /\ p.type # "group.remove"
  BY AreaTypes DEF Fresh
<1>4. CASE ~Deploys(p)
  <2>1. at = 1 /\ Program(p)[at] = "getAssignments" /\ Len(Program(p)) = 2
    <3>1. Program(p) = <<"getAssignments", "replaceAssignments">>
      BY <1>4, AppPlaces
    <3> QED BY <3>1 DEF Places, Reads
  <2>2. verdict \in {"go", "missing"}
    BY <1>1, <2>1 DEF AppVerdict
  <2>3. AppWay(p, 2, sent, facts, facts)
    BY <1>4 DEF AppWay, AsRead, Deploys
  <2> QED BY <1>2, <1>3, <2>1, <2>2, <2>3 DEF AsksWell, AskedWell, CountedBy, Verdicts
<1>5. CASE Deploys(p)
  <2>1. at \in {1, 3, 5, 7} /\ (at = 7 => Len(Program(p)) = 8) /\ Len(Program(p)) \in {6, 8}
    BY <1>5, DeployPlaces DEF Reads
  <2>2. CASE at = 7
    <3>1. verdict = "go"
      BY <1>1, <1>5, <2>2, DeployPlaces DEF AppVerdict, Deploys
    <3>2. AppWay(p, 7, sent, seen, facts) => AppWay(p, 8, sent, facts, facts)
      <4>1. AppWay(p, 7, sent, seen, facts) => \A k \in 1..3 : Named(facts, Intents[k]) # {}
        BY <1>5 DEF AppWay, Deploys
      <4>2. (\A k \in 1..3 : Named(facts, Intents[k]) # {}) => \A w \in Words : Named(facts, w) # {}
        BY IntentsAre DEF Words
      <4> QED BY <1>5, <4>1, <4>2 DEF AppWay, AsRead, Deploys
    <3>3. Len(Program(p)) = 8 /\ at + 1 = 8
      BY <2>1, <2>2
    <3>4. Way(p, at, sent, seen, op, run, facts) => Way(p, at + 1, sent, facts, op, run, facts)
      BY <1>2, <2>2, <3>2, <3>3
    <3> QED BY <1>3, <3>1, <3>3, <3>4 DEF AsksWell, AskedWell, CountedBy, Verdicts
  <2>3. CASE at # 7
    <3>0. (at = 1 \/ at = 3 \/ at = 5) /\ (Len(Program(p)) = 6 \/ Len(Program(p)) = 8)
      BY <2>1, <2>3
    <3>1. PICK i \in 1..3 : at = 2 * i - 1
      <4>1. at = 2 * 1 - 1 \/ at = 2 * 2 - 1 \/ at = 2 * 3 - 1
        BY <2>1, <2>3
      <4> QED BY <4>1
    <3>2. IntentOf(Program(p)[at]) = Intents[i] /\ Program(p)[at] # "getAssignments"
      BY <1>5, <3>1, DeployPlaces, IntentsAre DEF IntentOf
    <3>3. verdict = IF Named(facts, Intents[i]) # {} THEN "skip" ELSE "go"
      BY <1>1, <3>2 DEF AppVerdict
    <3>4. ASSUME AppWay(p, at, sent, seen, facts)
          PROVE  /\ verdict = "go" => AppWay(p, at + 1, sent, facts, facts)
                 /\ verdict = "skip" => \A k \in 1..3 : at + 2 > 2 * k => Named(facts, Intents[k]) # {}
      <4>1. \A k \in 1..3 : at > 2 * k => Named(facts, Intents[k]) # {}
        BY <1>5, <3>4 DEF AppWay, Deploys
      <4>2. \A k \in 1..3 : /\ at + 1 = 2 * k => k = i
                            /\ at + 1 > 2 * k => at > 2 * k
                            /\ at + 2 > 2 * k => at > 2 * k \/ k = i
        BY <3>1
      <4>3. at + 1 # 8
        BY <3>1
      <4> QED BY <1>5, <3>1, <3>3, <4>1, <4>2, <4>3 DEF AppWay, Deploys
    <3>5. (\A k \in 1..3 : at + 2 > 2 * k => Named(facts, Intents[k]) # {}) =>
             /\ at + 2 <= 7 /\ at + 2 <= Len(Program(p)) => AppWay(p, at + 2, sent, facts, facts)
             /\ at + 2 > Len(Program(p)) => Goal(p, facts, run)
      <4>1. \A k \in 1..3 : at + 2 # 2 * k
        BY <3>1
      <4>2. at + 2 # 8
        BY <3>1
      <4>3. at + 2 > Len(Program(p)) => p.as # "assign" /\ at = 5
        <5>1. p.as = "assign" => Len(Program(p)) = 8
          BY <1>5, DeployPlaces
        <5>2. at + 2 > Len(Program(p)) => at = 5 /\ Len(Program(p)) = 6
          BY <3>0, NextGroup
        <5> QED BY <5>1, <5>2
      <4> QED BY <1>5, <4>1, <4>2, <4>3 DEF AppWay, Deploys, Goal
    <3>6. at + 1 <= Len(Program(p)) /\ at + 2 <= 7
      BY <3>0, NextGroup
    <3> QED BY <1>2, <1>3, <2>1, <3>3, <3>4, <3>5, <3>6 DEF AsksWell, AskedWell, CountedBy, Verdicts
  <2> QED BY <2>2, <2>3
<1> QED BY <1>4, <1>5

LEMMA MailboxAsks ==
  ASSUME NEW p, IsPlan(p), p.area = "mailbox", NEW at \in Places(p), Program(p)[at] \in Reads, NEW sent, NEW seen, NEW op, NEW run,
         NEW facts, NEW unified \in BOOLEAN, NEW readable, NEW verdict, verdict = Verdict(p, Program(p)[at], facts, unified, readable), Possible(facts)
  PROVE  AsksWell(p, at, sent, seen, op, run, facts, unified, readable, verdict)
<1>1. verdict = MailboxVerdict(p, Program(p)[at], facts)
  BY AreaVerdict
<1>2. \A n, sn, fs : Way(p, n, sent, sn, op, run, fs) <=> MailboxWay(p, n, fs)
  BY DEF Way
<1>3. Program(p)[1] = "resolveUserId" /\ Len(Program(p)) = IF p.type \in Rules THEN 3 ELSE 2
  BY MailboxPlaces DEF Rules
<1>4. p.type # "group.remove"
  BY AreaTypes
<1>5. CASE at = 1
  <2>1. verdict = IF Nowhere(p) THEN "refused" ELSE "go"
    BY <1>1, <1>3, <1>5 DEF MailboxVerdict
  <2>2. MailboxWay(p, 2, facts)
    BY DEF MailboxWay
  <2> QED BY <1>2, <1>3, <1>4, <1>5, <2>1, <2>2 DEF AsksWell, AskedWell, CountedBy, Verdicts
<1>6. CASE at # 1
  <2>1. p.type \in Rules /\ at = 2 /\ Program(p)[at] = "getRule"
    <3>1. CASE p.type = "mailbox.set-auto-reply"
      <4>1. Program(p) = <<"resolveUserId", "setAutoReply">>
        BY <3>1, MailboxPlaces
      <4> QED BY <1>6, <4>1 DEF Places, Reads
    <3>2. CASE p.type = "mailbox.create-forward-rule"
      <4>1. Program(p) = <<"resolveUserId", "createForwardRule">>
        BY <3>2, MailboxPlaces
      <4> QED BY <1>6, <4>1 DEF Places, Reads
    <3>3. CASE p.type = "mailbox.set-rule"
      <4>1. Program(p) = <<"resolveUserId", "getRule", "setRuleEnabled">>
        BY <3>3, MailboxPlaces
      <4> QED BY <1>6, <3>3, <4>1 DEF Places, Reads, Rules
    <3>4. CASE p.type = "mailbox.delete-rule"
      <4>1. Program(p) = <<"resolveUserId", "getRule", "deleteRule">>
        BY <3>4, MailboxPlaces
      <4> QED BY <1>6, <3>4, <4>1 DEF Places, Reads, Rules
    <3> QED BY <3>1, <3>2, <3>3, <3>4, MailboxPlaces
  <2>2. ~Fresh(p) /\ p.area # "group" /\ p.type \notin Warned
    BY <2>1 DEF Fresh, Rules, Warned
  <2>3. Foretold(p, facts).refused = (<<"readonly", p.of>> \in facts)
    <3>1. p.type # "mailbox.set-auto-reply" /\ p.type # "mailbox.create-forward-rule"
      BY <2>1 DEF Rules
    <3>2. MailboxPreview(p, facts).refused = (<<"readonly", p.of>> \in facts)
      BY <3>1 DEF MailboxPreview
    <3> QED BY <3>2, AreaPreview
  <2>4. Under(p, facts) <=> <<"readonly", p.of>> \notin facts
    BY <2>1, <2>2 DEF Under
  <2>5. CASE About(facts, "rule", p.of) = {}
    <3>1. verdict = "unchanged"
      BY <1>1, <2>1, <2>5 DEF MailboxVerdict
    <3>2. Goal(p, facts, run)
      BY <2>1, <2>5 DEF Goal, Rules
    <3> QED BY <1>4, <2>2, <3>1, <3>2 DEF AsksWell, AskedWell, CountedBy, Verdicts
  <2>6. CASE About(facts, "rule", p.of) # {} /\ <<"readonly", p.of>> \in facts
    <3>1. verdict = "refused"
      BY <1>1, <2>1, <2>6 DEF MailboxVerdict
    <3> QED BY <1>4, <2>2, <2>3, <2>4, <2>6, <3>1 DEF AsksWell, AskedWell, CountedBy, Verdicts
  <2>7. CASE About(facts, "rule", p.of) # {} /\ <<"readonly", p.of>> \notin facts
    <3>1. verdict = IF p.type = "mailbox.set-rule" /\ <<"rule", p.of, p.as>> \in facts THEN "unchanged" ELSE "go"
      BY <1>1, <2>1, <2>7 DEF MailboxVerdict
    <3>2. ASSUME verdict = "unchanged" PROVE Goal(p, facts, run)
      <4>1. p.type = "mailbox.set-rule" /\ <<"rule", p.of, p.as>> \in Named(facts, "rule")
        BY <3>1, <3>2 DEF Named
      <4>2. About(facts, "rule", p.of) \subseteq {<<"rule", p.of, p.as>>}
        BY <4>1 DEF Possible, About
      <4> QED BY <4>1, <4>2 DEF Goal
    <3>3. MailboxWay(p, 3, facts)
      BY <2>7 DEF MailboxWay
    <3> QED BY <1>2, <1>3, <1>4, <2>1, <2>2, <3>1, <3>2, <3>3 DEF AsksWell, AskedWell, CountedBy, Verdicts
  <2> QED BY <2>5, <2>6, <2>7
<1> QED BY <1>5, <1>6

LEMMA VmAsks ==
  ASSUME NEW p, IsPlan(p), p.area = "vm", NEW at \in Places(p), Program(p)[at] \in Reads, NEW sent, NEW seen, NEW op, NEW run,
         NEW facts, NEW unified \in BOOLEAN, NEW readable, NEW verdict, verdict = Verdict(p, Program(p)[at], facts, unified, readable)
  PROVE  AsksWell(p, at, sent, seen, op, run, facts, unified, readable, verdict)
<1>1. verdict = "go" /\ p.type # "group.remove"
  BY AreaVerdict, AreaTypes
<1>2. ~Fresh(p)
  BY AreaTypes DEF Fresh
<1>3. at = Len(Program(p)) /\ at = IF p.type = "vm.deploy" THEN 4 ELSE 3
  <2>1. CASE p.type \in PowerTypes
    <3>1. Program(p) = <<"power", "wait", "getVm">>
      BY <2>1, VmPlaces
    <3> QED BY <2>1, <3>1 DEF Places, Reads, PowerTypes
  <2>2. CASE p.type = "vm.resize"
    <3>1. Program(p) = <<"resizeVm", "wait", "getVm">>
      BY <2>2, VmPlaces
    <3> QED BY <2>2, <3>1 DEF Places, Reads
  <2>3. CASE p.type = "vm.deploy"
    <3>1. Program(p) = <<"ensureResourceGroup", "deploy", "wait", "seal">>
      BY <2>3, VmPlaces
    <3>2. at \in 1..4 /\ Len(Program(p)) = 4
      BY <3>1 DEF Places
    <3> QED BY <2>3, <3>1, <3>2 DEF Reads
  <2> QED BY <2>1, <2>2, <2>3, VmPlaces
<1>4. Way(p, at, sent, seen, op, run, facts) => Goal(p, facts, run)
  BY <1>3, VmPlaces DEF Way, MachineWay
<1> QED BY <1>1, <1>2, <1>3, <1>4 DEF AsksWell, AskedWell, CountedBy, Verdicts

LEMMA MonitorAsks ==
  ASSUME NEW p, IsPlan(p), p.area = "monitor", NEW at \in Places(p), Program(p)[at] \in Reads, NEW sent, NEW seen, NEW op, NEW run,
         NEW facts, NEW unified \in BOOLEAN, NEW readable, NEW verdict, verdict = Verdict(p, Program(p)[at], facts, unified, readable), Possible(facts)
  PROVE  AsksWell(p, at, sent, seen, op, run, facts, unified, readable, verdict)
<1>1. verdict = IF readable /\ <<"script">> \in facts THEN "go" ELSE "unchanged"
  BY AreaVerdict DEF MonitorVerdict
<1>2. Program(p) = IF p.type = "tenant.monitor-enable" THEN <<"ensureScript", "setHourlySchedule">>
                   ELSE <<"findTenantScriptId", "setHourlySchedule">>
  BY AreaProgram DEF MonitorProgram
<1>3. p.type = "tenant.monitor-disable" /\ at = 1 /\ Len(Program(p)) = 2
  BY <1>2, AreaTypes DEF Places, Reads
<1>4. ~Fresh(p)
  BY <1>3 DEF Fresh
<1>5. <<"script">> \notin facts => Goal(p, facts, run)
  BY <1>3 DEF Goal, Possible
<1>6. Way(p, 2, sent, facts, op, run, facts)
  BY <1>3 DEF Way, MonitorWay
<1> QED BY <1>1, <1>3, <1>4, <1>5, <1>6 DEF AsksWell, AskedWell, CountedBy, Verdicts

LEMMA Asks ==
  ASSUME NEW p, IsPlan(p), NEW at \in Places(p), Program(p)[at] \in Reads, NEW sent, NEW seen, NEW op, NEW run,
         NEW facts, Possible(facts), NEW unified \in BOOLEAN, NEW readable, NEW verdict,
         verdict = Verdict(p, Program(p)[at], facts, unified, readable)
  PROVE  AsksWell(p, at, sent, seen, op, run, facts, unified, readable, verdict)
<1>1. CASE p.area = "identity"
  <2>1. CASE p.type \in Licences
    <3>1. Program(p) = <<"assignLicense">> \/ Program(p) = <<"removeLicense">>
      BY <2>1, LicencePlan DEF LicenceProgram
    <3> QED BY <3>1 DEF Places, Reads
  <2>2. CASE p.type \notin Licences
    <3>1. Program(p) = AccountProgram(p)
      BY <1>1, <2>2, AreaProgram
    <3>2. Program(p) \in {<<"disableUser">>, <<"enableUser">>, <<"revokeSignInSessions">>, <<"resetPassword">>}
          \/ Program(p) = <<"disableUser", "revokeSignInSessions">>
      BY <1>1, <2>2, <3>1, AreaTypes DEF AccountProgram
    <3> QED BY <3>2 DEF Places, Reads
  <2> QED BY <2>1, <2>2
<1>2. CASE p.area = "group"
  BY <1>2, GroupAsks
<1>3. CASE p.area = "apps"
  BY <1>3, AppAsks
<1>4. CASE p.area = "mailbox"
  BY <1>4, MailboxAsks
<1>5. CASE p.area = "vm"
  BY <1>5, VmAsks
<1>6. CASE p.area = "avd"
  <2>1. Program(p) \in {<<"setDrainMode">>, <<"disconnectSession">>, <<"logoffSession">>, <<"sendMessage">>}
        \/ Program(p) = <<"power", "wait">>
    BY <1>6, SessionPlaces DEF Unprepared
  <2> QED BY <2>1 DEF Places, Reads
<1>7. CASE p.area = "device"
  <2>1. Program(p) = <<"deviceAction">>
    BY <1>7, AreaProgram DEF DeviceProgram
  <2> QED BY <2>1 DEF Places, Reads
<1>8. CASE p.area = "monitor"
  BY <1>8, MonitorAsks
<1> QED BY <1>1, <1>2, <1>3, <1>4, <1>5, <1>6, <1>7, <1>8, AreaTypes

\* A job that would not have waited for its operation reads, if at all, only to show the machine
LEMMA WaitsAsk ==
  ASSUME NEW p, IsPlan(p), p.type \in Waits, NEW at \in Places(p), Program(p)[at] \in Reads, NEW facts, NEW unified, NEW readable
  PROVE  Verdict(p, Program(p)[at], facts, unified, readable) = "go" /\ ~Fresh(p)
<1>1. p.area \in {"vm", "avd"} /\ p.type \notin Unprepared /\ ~Fresh(p)
  BY AreaTypes DEF Waits, PowerTypes, Licences, Unprepared, Fresh
<1>2. CASE p.area = "vm"
  BY <1>1, <1>2, AreaVerdict
<1>3. CASE p.area = "avd"
  <2>1. Program(p) = <<"power", "wait">>
    BY <1>1, <1>3, SessionPlaces
  <2> QED BY <2>1 DEF Places, Reads
<1> QED BY <1>1, <1>2, <1>3

-----------------------------------------------------------------------------
(* What a step makes of the jobs *)

LEMMA LengthIs == ASSUME NEW p, IsPlan(p) PROVE Len(Program(p)) \in Nat /\ Len(Program(p)) >= 1
<1>1. \E n \in 1..8 : Len(Program(p)) = n
  <2>1. CASE p.area = "identity"
    <3>1. CASE p.type \in Licences
      BY <3>1, LicencePlan DEF LicenceProgram
    <3>2. CASE p.type \notin Licences
      BY <2>1, <3>2, AreaProgram, AreaTypes DEF AccountProgram
    <3> QED BY <3>1, <3>2
  <2>2. CASE p.area = "group"
    BY <2>2, GroupPlaces
  <2>3. CASE p.area = "apps"
    BY <2>3, AppPlaces
  <2>4. CASE p.area = "mailbox"
    BY <2>4, MailboxPlaces
  <2>5. CASE p.area = "vm"
    BY <2>5, VmPlaces
  <2>6. CASE p.area = "avd"
    BY <2>6, SessionPlaces DEF Unprepared
  <2>7. CASE p.area = "device"
    BY <2>7, AreaProgram DEF DeviceProgram
  <2>8. CASE p.area = "monitor"
    BY <2>8, AreaProgram DEF MonitorProgram
  <2> QED BY <2>1, <2>2, <2>3, <2>4, <2>5, <2>6, <2>7, <2>8, AreaTypes
<1> QED BY <1>1

LEMMA PlacesAre ==
  ASSUME NEW p, IsPlan(p), NEW at \in Places(p)
  PROVE  at \in Nat /\ at >= 1 /\ Len(Program(p)) \in Nat /\ at <= Len(Program(p))
BY LengthIs DEF Places

LEMMA Disturbed ==
  ASSUME NEW job, NEW facts, Good(job, facts), NEW others
  PROVE  Good([job EXCEPT !.quiet = FALSE, !.quietRun = FALSE], others)
<1> DEFINE x == [job EXCEPT !.quiet = FALSE, !.quietRun = FALSE]
<1>1. job = [k \in JobFields |-> job[k]]
  BY DEF Good, Shaped
<1>2. /\ x = [k \in JobFields |-> x[k]] /\ x.quiet = FALSE /\ x.quietRun = FALSE
      /\ x.p = job.p /\ x.pc = job.pc /\ x.at = job.at /\ x.run = job.run /\ x.seen = job.seen /\ x.promise = job.promise
      /\ x.previewed = job.previewed /\ x.sent = job.sent /\ x.twice = job.twice /\ x.blind = job.blind
      /\ x.paged = job.paged /\ x.unified = job.unified /\ x.op = job.op
  BY <1>1 DEF JobFields
<1> HIDE DEF x
<1>3. Shaped(x)
  BY <1>2 DEF Good, Shaped
<1>4. Counted(x)
  BY <1>2 DEF Good, Counted, LastSeen
<1>5. OnItsWay(x, others) /\ Promised(x, others)
  BY <1>2 DEF OnItsWay, Promised
<1> QED BY <1>3, <1>4, <1>5 DEF Good, x

LEMMA BecomesKeeps ==
  ASSUME JobsInv, NEW j \in Handlers, NEW x, NEW facts, Good(x, facts), Possible(facts), Becomes(j, x, facts), UNCHANGED portal
  PROVE  JobsInv'
<1>1. tenant' = facts
  BY DEF Becomes
<1>2. /\ DOMAIN jobs' = Handlers /\ jobs' = [k \in Handlers |-> jobs'[k]]
      /\ \A k \in Handlers : jobs'[k] = CASE k = j -> x
                                          [] k # j /\ facts = tenant -> jobs[k]
                                          [] OTHER -> [jobs[k] EXCEPT !.quiet = FALSE, !.quietRun = FALSE]
  BY DEF Becomes
<1>3. ASSUME NEW k \in Handlers PROVE Good(jobs'[k], facts)
  <2>1. Good(jobs[k], tenant)
    BY DEF JobsInv
  <2>2. CASE k = j
    BY <1>2, <2>2
  <2>3. CASE k # j /\ facts = tenant
    BY <1>2, <2>1, <2>3
  <2>4. CASE k # j /\ facts # tenant
    <3>1. jobs'[k] = [jobs[k] EXCEPT !.quiet = FALSE, !.quietRun = FALSE]
      BY <1>2, <2>4
    <3>2. Good([jobs[k] EXCEPT !.quiet = FALSE, !.quietRun = FALSE], facts)
      BY <2>1, Disturbed
    <3> QED BY <3>1, <3>2
  <2> QED BY <2>2, <2>3, <2>4
<1> QED BY <1>1, <1>2, <1>3 DEF JobsInv

LEMMA TurnsKeeps ==
  ASSUME JobsInv, NEW j \in Handlers, NEW x, Good(x, tenant), Turns(j, x), UNCHANGED <<tenant, portal>>
  PROVE  JobsInv'
<1>1. jobs' = [jobs EXCEPT ![j] = x] /\ jobs = [k \in Handlers |-> jobs[k]]
  BY DEF Turns, JobsInv
<1>2. jobs' = [k \in Handlers |-> jobs'[k]] /\ \A k \in Handlers : jobs'[k] = IF k = j THEN x ELSE jobs[k]
  BY <1>1
<1>3. \A k \in Handlers : Good(jobs'[k], tenant)
  BY <1>2 DEF JobsInv
<1> QED BY <1>2, <1>3 DEF JobsInv

-----------------------------------------------------------------------------
(* A job that goes on to its next place, or has got to its end *)

LEMMA GoesAhead ==
  ASSUME NEW job, Shaped(job), Counted(job), job.pc = "running", NEW n \in {1, 2}, NEW facts,
         job.at + n <= Len(Program(job.p)) =>
             /\ job.p.type = "group.remove" /\ job.p.as = "owner" /\ job.at + n = 4 => ~LastSeen(job)
             /\ Program(job.p)[job.at + n] = "replaceAssignments" /\ ~job.paged => Whole(job.seen)
             /\ job.quietRun => Kind(job.p, job.at + n, job.unified, facts)
             /\ job.quietRun /\ ~Unwaited(job) => Way(job.p, job.at + n, job.sent, job.seen, job.op, job.run, facts),
         job.quietRun /\ job.at + n > Len(Program(job.p)) /\ ~job.blind => Goal(job.p, facts, job.run),
         Promised(job, facts), job.previewed /\ job.quiet /\ job.at + n > Len(Program(job.p)) /\ Fresh(job.p) => job.sent # {}
  PROVE  Good(Advanced(job, n), facts)
<1> DEFINE x == Advanced(job, n)
<1>1. job = [k \in JobFields |-> job[k]] /\ job.at \in Places(job.p)
  BY DEF Shaped
<1>2. CASE job.at + n > Len(Program(job.p))
  <2>1. x = [job EXCEPT !.pc = "succeeded"]
    BY <1>2 DEF Advanced
  <2>2. /\ x = [k \in JobFields |-> x[k]] /\ x.pc = "succeeded" /\ x.quiet = job.quiet /\ x.quietRun = job.quietRun
        /\ x.p = job.p /\ x.at = job.at /\ x.run = job.run /\ x.seen = job.seen /\ x.promise = job.promise
        /\ x.previewed = job.previewed /\ x.sent = job.sent /\ x.twice = job.twice /\ x.blind = job.blind
        /\ x.paged = job.paged /\ x.unified = job.unified /\ x.op = job.op
    BY <1>1, <2>1 DEF JobFields
  <2> HIDE DEF x
  <2>3. Shaped(x) /\ Counted(x)
    BY <2>2 DEF Shaped, Waiting, Counted, LastSeen
  <2>4. OnItsWay(x, facts)
    BY <1>2, <2>2 DEF OnItsWay
  <2>5. Promised(x, facts)
    BY <1>2, <2>2 DEF Promised, Comes
  <2> QED BY <2>3, <2>4, <2>5 DEF Good, x
<1>3. CASE job.at + n <= Len(Program(job.p))
  <2>1. x = [job EXCEPT !.at = job.at + n] /\ job.at + n \in Places(job.p)
    BY <1>1, <1>3 DEF Advanced, Places
  <2>2. /\ x = [k \in JobFields |-> x[k]] /\ x.pc = "running" /\ x.quiet = job.quiet /\ x.quietRun = job.quietRun
        /\ x.p = job.p /\ x.at = job.at + n /\ x.run = job.run /\ x.seen = job.seen /\ x.promise = job.promise
        /\ x.previewed = job.previewed /\ x.sent = job.sent /\ x.twice = job.twice /\ x.blind = job.blind
        /\ x.paged = job.paged /\ x.unified = job.unified /\ x.op = job.op
    BY <1>1, <2>1 DEF JobFields
  <2> HIDE DEF x
  <2>3. Shaped(x)
    BY <2>1, <2>2 DEF Shaped, Waiting
  <2>4. Counted(x)
    BY <1>3, <2>2 DEF Counted, LastSeen
  <2>5. OnItsWay(x, facts)
    BY <1>3, <2>2 DEF OnItsWay, Unwaited
  <2>6. Promised(x, facts)
    BY <2>2 DEF Promised, Comes
  <2> QED BY <2>3, <2>4, <2>5, <2>6 DEF Good, x
<1> QED BY <1>1, <1>2, <1>3 DEF Places

\* A job that fails
LEMMA FailsGood ==
  ASSUME NEW job, Shaped(job), Counted(job), job.pc = "running", NEW facts, Promised(job, facts)
  PROVE  Good([job EXCEPT !.pc = "failed"], facts)
<1> DEFINE x == [job EXCEPT !.pc = "failed"]
<1>1. job = [k \in JobFields |-> job[k]]
  BY DEF Shaped
<1>2. /\ x = [k \in JobFields |-> x[k]] /\ x.pc = "failed" /\ x.quiet = job.quiet /\ x.quietRun = job.quietRun
      /\ x.p = job.p /\ x.at = job.at /\ x.run = job.run /\ x.seen = job.seen /\ x.promise = job.promise
      /\ x.previewed = job.previewed /\ x.sent = job.sent /\ x.twice = job.twice /\ x.blind = job.blind
      /\ x.paged = job.paged /\ x.unified = job.unified /\ x.op = job.op
  BY <1>1 DEF JobFields
<1> HIDE DEF x
<1>3. Shaped(x) /\ Counted(x)
  BY <1>2 DEF Shaped, Waiting, Counted, LastSeen
<1>4. OnItsWay(x, facts)
  BY <1>2 DEF OnItsWay
<1>5. Promised(x, facts)
  BY <1>2 DEF Promised, Comes
<1> QED BY <1>3, <1>4, <1>5 DEF Good, x

\* Where an operation is begun, where it is waited for, and who reads lists and groups
LEMMA StepAreas ==
  ASSUME NEW p, IsPlan(p), NEW at \in Places(p)
  PROVE  /\ Program(p)[at] \in Operations =>
               /\ p.area \in {"vm", "avd"} /\ p.type \notin Unprepared /\ at + 1 <= Len(Program(p))
               /\ at = IF p.type = "vm.deploy" THEN 2 ELSE 1
         /\ Program(p)[at] = "wait" =>
               /\ p.area \in {"vm", "avd"} /\ p.type \in PowerTypes \cup {"vm.resize", "vm.deploy"}
               /\ at = IF p.type = "vm.deploy" THEN 3 ELSE 2
         /\ Program(p)[at] \in {"getAssignments", "replaceAssignments"} => p.area = "apps"
         /\ Program(p)[at] = "loadGroup" => p.area = "group" /\ at = 1
<1> USE DEF Operations, Places
<1>1. CASE p.area = "identity"
  <2>1. CASE p.type \in Licences
    BY <2>1, LicencePlan DEF LicenceProgram
  <2>2. CASE p.type \notin Licences
    <3>1. Program(p) = AccountProgram(p)
      BY <1>1, <2>2, AreaProgram
    <3>2. Program(p) \in {<<"disableUser">>, <<"enableUser">>, <<"revokeSignInSessions">>, <<"resetPassword">>}
          \/ Program(p) = <<"disableUser", "revokeSignInSessions">>
      BY <1>1, <2>2, <3>1, AreaTypes DEF AccountProgram
    <3> QED BY <3>2
  <2> QED BY <2>1, <2>2
<1>2. CASE p.area = "group"
  <2>1. \/ Program(p) = <<"loadGroup", "hasRelation", "addRelation">>
        \/ Program(p) = <<"loadGroup", "hasRelation", "countOwners", "removeRelation">>
        \/ Program(p) = <<"loadGroup", "hasRelation", "removeRelation">>
    BY <1>2, GroupPlaces
  <2> DEFINE Fits == /\ Program(p)[at] \in {"loadGroup", "hasRelation", "countOwners", "addRelation", "removeRelation"}
                     /\ Program(p)[at] = "loadGroup" => at = 1
  <2>2. CASE Program(p) = <<"loadGroup", "hasRelation", "addRelation">>
    <3>1. at \in 1..3
      BY <2>2
    <3>2. Fits
      BY <2>2, <3>1
    <3> QED BY <1>2, <3>2
  <2>3. CASE Program(p) = <<"loadGroup", "hasRelation", "countOwners", "removeRelation">>
    <3>1. at \in 1..4
      BY <2>3
    <3>2. Fits
      BY <2>3, <3>1
    <3> QED BY <1>2, <3>2
  <2>4. CASE Program(p) = <<"loadGroup", "hasRelation", "removeRelation">>
    <3>1. at \in 1..3
      BY <2>4
    <3>2. Fits
      BY <2>4, <3>1
    <3> QED BY <1>2, <3>2
  <2> QED BY <2>1, <2>2, <2>3, <2>4
<1>3. CASE p.area = "apps"
  <2> DEFINE Fits == Program(p)[at] \in {"getAssignments", "replaceAssignments", "findRequired", "createRequired", "findAvailable",
                                         "createAvailable", "findUninstall", "createUninstall"}
  <2>2. CASE ~Deploys(p)
    <3>1. Program(p) = <<"getAssignments", "replaceAssignments">>
      BY <1>3, <2>2, AppPlaces
    <3>2. at \in 1..2
      BY <3>1
    <3>3. Fits
      BY <3>1, <3>2
    <3> QED BY <1>3, <3>3
  <2>3. CASE Deploys(p)
    <3>1. Fits
      BY <1>3, <2>3, DeployPlaces
    <3> QED BY <1>3, <3>1
  <2> QED BY <2>2, <2>3
<1>4. CASE p.area = "mailbox"
  <2>1. \/ Program(p) = <<"resolveUserId", "setAutoReply">> \/ Program(p) = <<"resolveUserId", "createForwardRule">>
        \/ Program(p) = <<"resolveUserId", "getRule", "setRuleEnabled">>
        \/ Program(p) = <<"resolveUserId", "getRule", "deleteRule">>
    BY <1>4, MailboxPlaces
  <2> QED BY <2>1
<1>5. CASE p.area = "vm"
  <2>1. CASE p.type \in PowerTypes
    <3>1. Program(p) = <<"power", "wait", "getVm">> /\ p.type # "vm.deploy" /\ p.type \notin Unprepared
      BY <1>5, <2>1, VmPlaces DEF PowerTypes, Unprepared
    <3> QED BY <1>5, <2>1, <3>1
  <2>2. CASE p.type = "vm.resize"
    <3>1. Program(p) = <<"resizeVm", "wait", "getVm">> /\ p.type \notin Unprepared
      BY <1>5, <2>2, VmPlaces DEF Unprepared
    <3> QED BY <1>5, <2>2, <3>1
  <2>3. CASE p.type = "vm.deploy"
    <3>1. Program(p) = <<"ensureResourceGroup", "deploy", "wait", "seal">> /\ p.type \notin Unprepared
      BY <1>5, <2>3, VmPlaces DEF Unprepared
    <3>2. at \in 1..4 /\ Len(Program(p)) = 4
      BY <3>1
    <3> QED BY <1>5, <2>3, <3>1, <3>2
  <2> QED BY <1>5, <2>1, <2>2, <2>3, VmPlaces
<1>6. CASE p.area = "avd"
  <2>1. CASE p.type \in Unprepared
    <3>1. Program(p) \in {<<"setDrainMode">>, <<"disconnectSession">>, <<"logoffSession">>, <<"sendMessage">>}
      BY <1>6, <2>1, SessionPlaces DEF Unprepared
    <3> QED BY <3>1
  <2>2. CASE p.type \notin Unprepared
    <3>1. Program(p) = <<"power", "wait">> /\ p.type \in PowerTypes /\ p.type # "vm.deploy"
      BY <1>6, <2>2, SessionPlaces DEF PowerTypes
    <3> QED BY <1>6, <2>2, <3>1
  <2> QED BY <2>1, <2>2
<1>7. CASE p.area = "device"
  <2>1. Program(p) = <<"deviceAction">>
    BY <1>7, AreaProgram DEF DeviceProgram
  <2> QED BY <2>1
<1>8. CASE p.area = "monitor"
  <2>1. Program(p) = <<"ensureScript", "setHourlySchedule">> \/ Program(p) = <<"findTenantScriptId", "setHourlySchedule">>
    BY <1>8, AreaProgram DEF MonitorProgram
  <2> QED BY <2>1
<1> QED BY <1>1, <1>2, <1>3, <1>4, <1>5, <1>6, <1>7, <1>8, AreaTypes

\* A job that waits for an operation sends no other request
LEMMA WaitsSend ==
  ASSUME NEW p, IsPlan(p), NEW at \in Places(p), IsRequest(Program(p)[at])
  PROVE  p.type \notin Waits
<1> SUFFICES ASSUME p.type \in Waits PROVE FALSE
  OBVIOUS
<1>1. p.area \in {"vm", "avd"} /\ p.type \notin Unprepared
  BY AreaTypes DEF Waits, PowerTypes, Licences, Unprepared
<1>2. CASE p.area = "vm"
  <2>1. Program(p) = <<"power", "wait", "getVm">> \/ Program(p) = <<"resizeVm", "wait", "getVm">>
    BY <1>2, VmPlaces DEF Waits
  <2> QED BY <2>1 DEF Places, IsRequest, Reads, Operations
<1>3. CASE p.area = "avd"
  <2>1. Program(p) = <<"power", "wait">>
    BY <1>1, <1>3, SessionPlaces
  <2> QED BY <2>1 DEF Places, IsRequest, Operations
<1> QED BY <1>1, <1>2, <1>3

LEMMA GroupReadsFirst ==
  ASSUME NEW p, IsPlan(p), p.area = "group", NEW at \in Places(p), at + 1 <= Len(Program(p))
  PROVE  Program(p)[at] \in Reads
<1>1. CASE Program(p) = <<"loadGroup", "hasRelation", "addRelation">>
  <2>1. at \in 1..2
    BY <1>1 DEF Places
  <2> QED BY <1>1, <2>1 DEF Reads
<1>2. CASE Program(p) = <<"loadGroup", "hasRelation", "countOwners", "removeRelation">>
  <2>1. at \in 1..3
    BY <1>2 DEF Places
  <2> QED BY <1>2, <2>1 DEF Reads
<1>3. CASE Program(p) = <<"loadGroup", "hasRelation", "removeRelation">>
  <2>1. at \in 1..2
    BY <1>3 DEF Places
  <2> QED BY <1>3, <2>1 DEF Reads
<1> QED BY <1>1, <1>2, <1>3, GroupPlaces

\* A list is read in the step before it is written
LEMMA ListsReadFirst ==
  ASSUME NEW p, IsPlan(p), NEW at \in Places(p), Program(p)[at] = "replaceAssignments"
  PROVE  /\ at # 1 /\ Program(p)[at - 1] = "getAssignments"
         /\ at # 2 => Program(p)[at - 2] = "createUninstall"
<1>1. p.area = "apps"
  BY StepAreas
<1>2. CASE ~Deploys(p)
  <2>1. Program(p) = <<"getAssignments", "replaceAssignments">>
    BY <1>1, <1>2, AppPlaces
  <2>2. at \in 1..2
    BY <2>1 DEF Places
  <2> QED BY <2>1, <2>2
<1>3. CASE Deploys(p)
  <2>1. at = 8 /\ p.as = "assign"
    BY <1>1, <1>3, DeployPlaces
  <2>2. Program(p) = <<"findRequired", "createRequired", "findAvailable", "createAvailable",
                       "findUninstall", "createUninstall", "getAssignments", "replaceAssignments">>
    BY <1>1, <1>3, <2>1, AppPlaces
  <2> QED BY <2>1, <2>2
<1> QED BY <1>2, <1>3

\* A job one of whose requests has been carried out
LEMMA SentGood ==
  ASSUME NEW job, NEW facts, Good(job, facts), Possible(facts), job.pc = "running", IsRequest(Program(job.p)[job.at]),
         ~Gone(job.p, Program(job.p)[job.at], facts), NEW after, after = Changed(job.p, job.at, facts, job.seen, job.run),
         NEW x, x = TookEffect(job, Program(job.p)[job.at])
  PROVE  /\ Possible(after) /\ Good(x, after) /\ x.pc = "running" /\ x.at = job.at /\ x.p = job.p
         /\ Good(Advanced(x, 1), after)
<1> DEFINE p == job.p
           at == job.at
           sent == job.sent \cup {at}
<1>1. /\ job = [k \in JobFields |-> job[k]] /\ IsPlan(p) /\ at \in Places(p) /\ IsFiniteSet(job.seen)
      /\ IsRequest(Program(p)[at])
      /\ job.previewed => p.type \notin Unprepared
      /\ job.quiet => job.quietRun
      /\ job.twice \in BOOLEAN /\ job.sent \subseteq {n \in Places(p) : IsRequest(Program(p)[n])}
  BY DEF Good, Shaped, Waiting
<1>2. /\ x = [k \in JobFields |-> x[k]] /\ x.pc = job.pc /\ x.quiet = job.quiet /\ x.quietRun = job.quietRun
      /\ x.p = p /\ x.at = at /\ x.run = job.run /\ x.seen = job.seen /\ x.promise = job.promise
      /\ x.previewed = job.previewed /\ x.blind = job.blind
      /\ x.paged = job.paged /\ x.unified = job.unified /\ x.op = job.op
      /\ x.sent = sent /\ x.twice = (job.twice \/ (Program(p)[at] \in Makes /\ at \in job.sent))
  BY <1>1 DEF JobFields, TookEffect
<1>3. Possible(after) /\ (Way(p, at, job.sent, job.seen, job.op, job.run, facts) =>
                            SentWell(p, at, job.sent, job.seen, job.op, job.run, facts, after))
  BY <1>1, Sends
<1>0. p.type \notin Waits
  BY <1>1, WaitsSend
<1>4. job.quietRun => SentWell(p, at, job.sent, job.seen, job.op, job.run, facts, after) /\ Kind(p, at, job.unified, facts)
  BY <1>0, <1>3 DEF Good, OnItsWay, Unwaited
<1> HIDE DEF p, at
<1>5. Shaped(x) /\ Counted(x)
  <2>1. Shaped(x)
    BY <1>1, <1>2 DEF Good, Shaped, Waiting, p, at
  <2>2. Counted(x)
    BY <1>2 DEF Good, Counted, LastSeen, p, at
  <2> QED BY <2>1, <2>2
<1>10. job.quietRun => Kind(p, at, job.unified, after)
  BY <1>4 DEF SentWell, Kind
<1>6. OnItsWay(x, after)
  BY <1>2, <1>4, <1>10 DEF OnItsWay, SentWell
<1>7. Promised(x, after)
  <2> SUFFICES ASSUME job.previewed, job.quiet PROVE Comes(x, after)
    BY <1>2 DEF Promised
  <2>1. Comes(job, facts) /\ SentWell(p, at, job.sent, job.seen, job.op, job.run, facts, after) /\ p.type \notin Unprepared
    BY <1>1, <1>4 DEF Good, Promised
  <2>2. x.sent # {} /\ x.pc # "succeeded" /\ x.pc # "refused"
    BY <1>2
  <2>3. p.type \notin Warned => ~job.promise.refused
    <3>1. CASE job.sent = {}
      BY <2>1, <3>1 DEF Comes, SentWell, p
    <3>2. CASE job.sent # {}
      BY <2>1, <3>2 DEF Comes, p
    <3> QED BY <3>1, <3>2
  <2>4. Under(p, after) /\ (p.type = "mailbox.set-rule" => About(after, "rule", p.of) # {})
    BY <2>1 DEF SentWell
  <2>5. ASSUME ~x.twice, Fresh(p) PROVE Scope(after, x.promise.scope) = x.promise.after
    <3>1. Program(p)[at] \in Makes /\ \A n \in job.sent : n = at
      <4>1. CASE p.type = "mailbox.create-forward-rule"
        <5>1. p.area = "mailbox"
          BY <1>1, <4>1 DEF IsPlan
        <5>2. Program(p) = <<"resolveUserId", "createForwardRule">>
          BY <1>1, <4>1, <5>1, MailboxPlaces
        <5>3. \A n \in Places(p) : IsRequest(Program(p)[n]) => n = 2
          BY <5>2 DEF Places, IsRequest, Reads
        <5>4. at = 2 /\ \A n \in job.sent : n = 2
          BY <1>1, <5>3
        <5> QED BY <5>2, <5>4 DEF Makes
      <4>2. CASE p.area = "device"
        <5>1. Program(p) = <<"deviceAction">>
          BY <1>1, <4>2, AreaProgram DEF DeviceProgram
        <5>2. at = 1 /\ \A n \in job.sent : n = 1
          BY <1>1, <5>1 DEF Places
        <5> QED BY <5>1, <5>2 DEF Makes
      <4> QED BY <2>5, <4>1, <4>2 DEF Fresh
    <3>2. job.sent = {}
      BY <1>2, <2>5, <3>1
    <3>3. SamePreview(job.promise, Foretold(p, facts))
      <4>1. ~job.paged
        BY <1>1, <2>5, AreaTypes DEF Good, Shaped, Fresh, p
      <4> QED BY <2>1, <3>2, <4>1 DEF Comes, p
    <3>4. Scope(after, Foretold(p, facts).scope) = Foretold(p, facts).after
      BY <2>1, <2>5 DEF SentWell
    <3>5. x.promise = job.promise
      BY <1>2
    <3> QED BY <3>3, <3>4, <3>5 DEF SamePreview
  <2>6. ASSUME ~x.twice, ~x.paged, ~Fresh(p) PROVE SamePreview(x.promise, Foretold(p, after))
    <3>1. ~job.twice /\ ~job.paged /\ ~(Program(p)[at] \in Makes /\ at \in job.sent)
      BY <1>2, <2>6
    <3>4. Program(p)[at] = "replaceAssignments" => Whole(job.seen)
      BY <3>1 DEF Good, Counted, p, at
    <3>2. SamePreview(job.promise, Foretold(p, facts))
      BY <2>1, <2>6, <3>1 DEF Comes, p
    <3>3. SamePreview(Foretold(p, facts), Foretold(p, after))
      BY <2>1, <2>6, <3>1, <3>4 DEF SentWell
    <3> QED BY <1>2, <3>2, <3>3 DEF SamePreview
  <2> QED BY <1>2, <2>2, <2>3, <2>4, <2>5, <2>6 DEF Comes
<1>8. Good(x, after)
  BY <1>5, <1>6, <1>7 DEF Good
<1>9. Good(Advanced(x, 1), after)
  <2>0. /\ x.p = p /\ x.at = at /\ x.quietRun = job.quietRun /\ x.sent = sent
        /\ x.seen = job.seen /\ x.op = job.op /\ x.run = job.run
    BY <1>2
  <2>1. at \in Nat /\ Len(Program(p)) \in Nat /\ at <= Len(Program(p))
    BY <1>1, PlacesAre
  <2>2. at + 1 <= Len(Program(p)) => p.area # "group" /\ Program(p)[at + 1] # "replaceAssignments"
    <3> SUFFICES ASSUME at + 1 <= Len(Program(p)) PROVE p.area # "group" /\ Program(p)[at + 1] # "replaceAssignments"
      OBVIOUS
    <3>1. ASSUME p.area = "group" PROVE FALSE
      <4>1. Program(p)[at] \in Reads
        BY <1>1, <3>1, GroupReadsFirst
      <4> QED BY <1>1, <4>1 DEF IsRequest
    <3>2. ASSUME Program(p)[at + 1] = "replaceAssignments" PROVE FALSE
      <4>1. at + 1 \in Places(p)
        BY <2>1 DEF Places
      <4>2. Program(p)[at] = "getAssignments"
        BY <1>1, <2>1, <3>2, <4>1, ListsReadFirst
      <4> QED BY <1>1, <4>2 DEF IsRequest, Reads
    <3> QED BY <3>1, <3>2
  <2>3. /\ job.quietRun /\ at < Len(Program(p)) => Way(p, at + 1, sent, job.seen, job.op, job.run, after)
        /\ job.quietRun /\ at = Len(Program(p)) => Goal(p, after, job.run)
    BY <1>4 DEF SentWell
  <2>4. /\ x.quietRun /\ x.at + 1 <= Len(Program(x.p)) => Way(x.p, x.at + 1, x.sent, x.seen, x.op, x.run, after)
        /\ x.quietRun /\ x.at + 1 > Len(Program(x.p)) => Goal(x.p, after, x.run)
    BY <2>0, <2>1, <2>3
  <2>6. x.at + 1 <= Len(Program(x.p)) =>
          /\ x.p.type = "group.remove" => FALSE
          /\ Program(x.p)[x.at + 1] = "replaceAssignments" => FALSE
          /\ x.quietRun => Kind(x.p, x.at + 1, x.unified, after)
    <3>1. p.type = "group.remove" => p.area = "group"
      BY <1>1 DEF IsPlan
    <3> QED BY <2>0, <2>2, <3>1 DEF Kind
  <2>5. x.sent # {} /\ x.pc = "running"
    BY <1>2
  <2> QED BY <1>5, <1>7, <2>4, <2>5, <2>6, GoesAhead
<1> QED BY <1>2, <1>3, <1>8, <1>9 DEF p, at

-----------------------------------------------------------------------------
(* Every step keeps the jobs good *)

LEMMA JobIs ==
  ASSUME JobsInv, NEW j \in Handlers
  PROVE  /\ Good(jobs[j], tenant) /\ Shaped(jobs[j]) /\ Counted(jobs[j]) /\ Promised(jobs[j], tenant) /\ Possible(tenant)
         /\ IsPlan(jobs[j].p) /\ jobs[j].at \in Places(jobs[j].p)
         /\ jobs[j] = [k \in JobFields |-> jobs[j][k]]
BY DEF JobsInv, Good, Shaped

LEMMA WayStarts ==
  ASSUME NEW p, NEW sent, NEW seen, NEW op, NEW run, NEW facts
  PROVE  Way(p, 1, sent, seen, op, run, facts)
<1>1. \A i \in 1..3 : 1 # 2 * i /\ ~(1 > 2 * i)
  OBVIOUS
<1>2. AppWay(p, 1, sent, seen, facts)
  BY <1>1 DEF AppWay
<1> QED BY <1>2 DEF Way, AccountWay, GroupWay, MailboxWay, MachineWay, MonitorWay

LEMMA FirstPlace == ASSUME NEW p, IsPlan(p), NEW at \in Places(p) PROVE 1 \in Places(p)
BY PlacesAre DEF Places

\* Nothing is to be counted or read before the first step
LEMMA FirstCounted == ASSUME NEW job, IsPlan(job.p), 1 \in Places(job.p), job.at = 1 PROVE Counted(job)
<1>1. Program(job.p)[1] # "replaceAssignments"
  BY ListsReadFirst
<1> QED BY <1>1 DEF Counted

\* A preview that has read the list of assignments whole says what Foretold says; only of Warned
\* jobs it may say anything about a refusal
LEMMA Foresees ==
  ASSUME NEW p, IsPlan(p), p.type \notin Unprepared, NEW facts, IsFiniteSet(facts), NEW valid \in BOOLEAN
  PROVE  /\ p.type \notin Warned => PreviewOf(p, facts, valid).refused = Foretold(p, facts).refused
         /\ p.type \notin {"apps.assign", "apps.unassign"} \/ Whole(facts) => SamePreview(PreviewOf(p, facts, valid), Foretold(p, facts))
<1>1. CASE p.type \in {"apps.assign", "apps.unassign"}
  <2>1. p.area = "apps" /\ p.type \notin Licences
    BY <1>1 DEF IsPlan, Licences
  <2>2. PreviewOf(p, facts, valid) = AppPreview(p, facts)
    BY <1>1, <2>1 DEF PreviewOf
  <2>3. Whole(facts) => FirstPage(facts) = Named(facts, "assigned")
    BY DEF FirstPage
  <2> QED BY <1>1, <2>2, <2>3 DEF Foretold, AppPreview, SamePreview, Merged
<1>2. CASE p.type = "vm.deploy"
  <2>1. p.area = "vm" /\ p.type \notin Licences
    BY <1>2 DEF IsPlan, Licences
  <2>2. \A v : PreviewOf(p, facts, v) = VmPreview(p, facts, v)
    BY <1>2, <2>1 DEF PreviewOf
  <2>3. \A v : VmPreview(p, facts, v) = [scope |-> {}, after |-> {}, refused |-> ~v \/ <<"resourceGroup">> \notin facts]
    BY <1>2 DEF VmPreview
  <2>4. Foretold(p, facts) = PreviewOf(p, facts, TRUE)
    BY <1>2 DEF Foretold
  <2>5. \A v : PreviewOf(p, facts, v).scope = {} /\ PreviewOf(p, facts, v).after = {}
    BY <2>2, <2>3
  <2>6. SamePreview(PreviewOf(p, facts, valid), Foretold(p, facts))
    BY <2>4, <2>5 DEF SamePreview
  <2> QED BY <1>2, <2>6 DEF Warned
<1>3. CASE p.type \notin {"apps.assign", "apps.unassign", "vm.deploy"}
  <2>1. VmPreview(p, facts, valid) = VmPreview(p, facts, TRUE)
    BY <1>3 DEF VmPreview
  <2>2. PreviewOf(p, facts, valid) = PreviewOf(p, facts, TRUE)
    BY <2>1 DEF PreviewOf
  <2>3. Foretold(p, facts) = PreviewOf(p, facts, TRUE)
    BY <1>3 DEF Foretold
  <2> QED BY <2>2, <2>3 DEF SamePreview
<1> QED BY <1>1, <1>2, <1>3

LEMMA PreviewKeeps == ASSUME JobsInv, NEW j \in Handlers, Preview(j) PROVE JobsInv'
<1> DEFINE job == jobs[j]
           paged == job.p.type \in {"apps.assign", "apps.unassign"} /\ ~Whole(tenant)
<1>1. PICK valid \in BOOLEAN : Turns(j, [job EXCEPT !.pc = "previewed", !.promise = PreviewOf(job.p, tenant, valid),
                                                   !.previewed = TRUE, !.quiet = TRUE, !.paged = paged])
  BY DEF Preview
<1> DEFINE promise == PreviewOf(job.p, tenant, valid)
           x == [job EXCEPT !.pc = "previewed", !.promise = promise, !.previewed = TRUE, !.quiet = TRUE, !.paged = paged]
<1>2. /\ Good(job, tenant) /\ job = [k \in JobFields |-> job[k]] /\ job.pc = "new" /\ job.p.type \notin Unprepared
      /\ (job.p.type = "mailbox.set-rule" => About(tenant, "rule", job.p.of) # {})
      /\ IsPlan(job.p) /\ IsFiniteSet(tenant)
  BY JobIs DEF Preview, Possible
<1>3. Turns(j, x) /\ UNCHANGED <<tenant, portal>>
  BY <1>1 DEF Preview
<1>4. /\ job.p.type \notin Warned => promise.refused = Foretold(job.p, tenant).refused
      /\ ~paged => SamePreview(promise, Foretold(job.p, tenant))
  BY <1>2, Foresees
<1>5. paged \in BOOLEAN /\ (paged => job.p.area = "apps")
  BY <1>2 DEF IsPlan
<1> HIDE DEF promise, paged
<1>6. /\ x = [k \in JobFields |-> x[k]] /\ x.pc = "previewed" /\ x.quiet = TRUE /\ x.quietRun = job.quietRun
      /\ x.p = job.p /\ x.at = job.at /\ x.run = job.run /\ x.seen = job.seen /\ x.promise = promise
      /\ x.previewed = TRUE /\ x.sent = job.sent /\ x.twice = job.twice /\ x.blind = job.blind
      /\ x.paged = paged /\ x.unified = job.unified /\ x.op = job.op
  BY <1>2 DEF JobFields
<1> HIDE DEF x, job
<1>7. Shaped(x) /\ x.sent = {}
  BY <1>2, <1>5, <1>6 DEF Good, Shaped, Waiting
<1>8. Counted(x)
  <2>1. job.at = 1
    BY <1>2 DEF Good, Shaped, Waiting
  <2> QED BY <1>2, <1>6, <2>1, FirstCounted DEF Good, Shaped
<1>9. OnItsWay(x, tenant)
  BY <1>6 DEF OnItsWay
<1>10. Promised(x, tenant)
  BY <1>2, <1>4, <1>6, <1>7 DEF Promised, Comes
<1> QED BY <1>3, <1>7, <1>8, <1>9, <1>10, TurnsKeeps DEF Good

\* A job that begins, or begins again
LEMMA RunBegins ==
  ASSUME NEW job, NEW facts, Good(job, facts), NEW n \in 1..2, NEW blind \in BOOLEAN, NEW x,
         x = [job EXCEPT !.pc = "running", !.at = 1, !.run = n, !.quietRun = TRUE, !.blind = blind]
  PROVE  Good(x, facts)
<1>1. job = [k \in JobFields |-> job[k]] /\ 1 \in Places(job.p) /\ IsPlan(job.p)
  BY FirstPlace DEF Good, Shaped
<1>2. /\ x = [k \in JobFields |-> x[k]] /\ x.pc = "running" /\ x.quiet = job.quiet /\ x.quietRun = TRUE
      /\ x.p = job.p /\ x.at = 1 /\ x.run = n /\ x.seen = job.seen /\ x.promise = job.promise
      /\ x.previewed = job.previewed /\ x.sent = job.sent /\ x.twice = job.twice /\ x.blind = blind
      /\ x.paged = job.paged /\ x.unified = job.unified /\ x.op = job.op
  BY <1>1 DEF JobFields
<1>3. Shaped(x)
  <2>1. Shaped(job) /\ n \in 0..2
    BY DEF Good
  <2> QED BY <1>1, <1>2, <2>1 DEF Shaped, Waiting
<1>4. Counted(x)
  BY <1>1, <1>2, FirstCounted
<1>5. OnItsWay(x, facts)
  BY <1>2, WayStarts DEF OnItsWay, Kind
<1>6. Promised(x, facts)
  BY <1>2 DEF Good, Promised, Comes
<1> QED BY <1>3, <1>4, <1>5, <1>6 DEF Good

LEMMA StartKeeps == ASSUME JobsInv, NEW j \in Handlers, Start(j) PROVE JobsInv'
<1> DEFINE x == [jobs[j] EXCEPT !.pc = "running", !.at = 1, !.run = 1, !.quietRun = TRUE, !.blind = jobs[j].blind]
<1>1. jobs[j].at = 1 /\ jobs[j] = [k \in JobFields |-> jobs[j][k]]
  BY JobIs DEF Start, Shaped, Waiting
<1>2. [jobs[j] EXCEPT !.pc = "running", !.run = 1, !.quietRun = TRUE] = x
  BY <1>1 DEF JobFields
<1>3. Good(x, tenant)
  <2>1. Good(jobs[j], tenant) /\ jobs[j].blind \in BOOLEAN
    BY JobIs DEF Shaped
  <2>2. 1 \in 1..2
    OBVIOUS
  <2> QED BY <2>1, <2>2, RunBegins
<1> HIDE DEF x
<1>4. Turns(j, x) /\ UNCHANGED <<tenant, portal>>
  BY <1>2 DEF Start
<1> QED BY <1>3, <1>4, TurnsKeeps

LEMMA RepeatKeeps == ASSUME JobsInv, NEW j \in Handlers, Repeat(j) PROVE JobsInv'
<1> DEFINE x == [jobs[j] EXCEPT !.pc = "running", !.at = 1, !.run = 2, !.quietRun = TRUE, !.blind = FALSE]
<1>1. Good(x, tenant)
  <2>1. Good(jobs[j], tenant)
    BY JobIs
  <2>2. 2 \in 1..2 /\ FALSE \in BOOLEAN
    OBVIOUS
  <2> QED BY <2>1, <2>2, RunBegins
<1>2. Turns(j, x) /\ UNCHANGED <<tenant, portal>>
  BY DEF Repeat
<1> QED BY <1>1, <1>2, TurnsKeeps

LEMMA SendKeeps == ASSUME JobsInv, NEW j \in Handlers, Send(j) \/ AnswerLost(j) PROVE JobsInv'
<1> DEFINE job == jobs[j]
           x == TookEffect(job, Step(j))
           after == Apply(tenant, Outcome(j))
<1>1. Good(job, tenant) /\ Possible(tenant)
  BY JobIs
<1>2. job.pc = "running" /\ IsRequest(Program(job.p)[job.at]) /\ ~Gone(job.p, Program(job.p)[job.at], tenant)
  BY DEF Send, AnswerLost, Requests, IsRequest, Step
<1>3. after = Changed(job.p, job.at, tenant, job.seen, job.run) /\ x = TookEffect(job, Program(job.p)[job.at])
  BY DEF Changed, Outcome, Step
<1> HIDE DEF x, after
<1>4. Possible(after) /\ Good(x, after) /\ Good(Advanced(x, 1), after)
  BY <1>1, <1>2, <1>3, SentGood
<1>5. (Becomes(j, x, after) \/ Becomes(j, Advanced(x, 1), after)) /\ UNCHANGED portal
  BY DEF Send, AnswerLost, x, after
<1> QED BY <1>4, <1>5, BecomesKeeps

LEMMA FailureKeeps ==
  ASSUME JobsInv, NEW j \in Handlers, jobs[j].pc = "running", Turns(j, [jobs[j] EXCEPT !.pc = "failed"]), UNCHANGED <<tenant, portal>>
  PROVE  JobsInv'
BY JobIs, FailsGood, TurnsKeeps

\* An operation changes its state
LEMMA OperationIs ==
  ASSUME NEW job, Shaped(job), Counted(job), job.pc \notin Waiting, NEW op \in {"going", "done", "failed"},
         job.p.area \in {"vm", "avd"} /\ job.p.type \notin Unprepared,
         NEW x, x = [job EXCEPT !.op = op]
  PROVE  /\ Shaped(x) /\ Counted(x)
         /\ x = [k \in JobFields |-> x[k]] /\ x.pc = job.pc /\ x.quiet = job.quiet /\ x.quietRun = job.quietRun
         /\ x.p = job.p /\ x.at = job.at /\ x.run = job.run /\ x.seen = job.seen /\ x.promise = job.promise
         /\ x.previewed = job.previewed /\ x.sent = job.sent /\ x.twice = job.twice /\ x.blind = job.blind
         /\ x.paged = job.paged /\ x.unified = job.unified /\ x.op = op
<1>1. job = [k \in JobFields |-> job[k]]
  BY DEF Shaped
<1>2. /\ x = [k \in JobFields |-> x[k]] /\ x.pc = job.pc /\ x.quiet = job.quiet /\ x.quietRun = job.quietRun
      /\ x.p = job.p /\ x.at = job.at /\ x.run = job.run /\ x.seen = job.seen /\ x.promise = job.promise
      /\ x.previewed = job.previewed /\ x.sent = job.sent /\ x.twice = job.twice /\ x.blind = job.blind
      /\ x.paged = job.paged /\ x.unified = job.unified /\ x.op = op
  BY <1>1 DEF JobFields
<1>3. Shaped(x) /\ Counted(x)
  BY <1>2 DEF Shaped, Counted, LastSeen
<1> QED BY <1>2, <1>3

LEMMA AskKeeps == ASSUME JobsInv, NEW j \in Handlers, Ask(j) PROVE JobsInv'
<1> DEFINE old == jobs[j]
           p == old.p
           at == old.at
           step == Program(p)[at]
<1>1. PICK readable \in BOOLEAN :
        LET verdict == Verdict(p, step, tenant, old.unified, readable)
            job == [old EXCEPT !.seen = tenant, !.blind = @ \/ ~readable,
                               !.paged = @ \/ (step = "getAssignments" /\ ~Whole(tenant)),
                               !.unified = IF step = "loadGroup" THEN <<"m365">> \in tenant ELSE @]
        IN  Turns(j, CASE verdict = "go" -> Advanced(job, 1)
                       [] verdict = "skip" -> Advanced(job, 2)
                       [] verdict = "unchanged" -> [job EXCEPT !.pc = "succeeded"]
                       [] OTHER -> [job EXCEPT !.pc = verdict])
  BY DEF Ask, Step
<1> DEFINE isBlind == old.blind \/ ~readable
           isPaged == old.paged \/ (step = "getAssignments" /\ ~Whole(tenant))
           isUnified == IF step = "loadGroup" THEN <<"m365">> \in tenant ELSE old.unified
           verdict == Verdict(p, step, tenant, old.unified, readable)
           Read(b, m, u) == [old EXCEPT !.seen = tenant, !.blind = b, !.paged = m, !.unified = u]
           Becoming(x) == CASE verdict = "go" -> Advanced(x, 1)
                            [] verdict = "skip" -> Advanced(x, 2)
                            [] verdict = "unchanged" -> [x EXCEPT !.pc = "succeeded"]
                            [] OTHER -> [x EXCEPT !.pc = verdict]
<1>2. /\ Good(old, tenant) /\ Shaped(old) /\ Promised(old, tenant) /\ Possible(tenant) /\ IsPlan(p) /\ at \in Places(p)
      /\ old = [k \in JobFields |-> old[k]]
  BY JobIs
<1>3. old.pc = "running" /\ step \in Reads /\ UNCHANGED <<tenant, portal>>
  BY DEF Ask, At, Step
<1>18. old.unified \in BOOLEAN /\ old.blind \in BOOLEAN /\ old.paged \in BOOLEAN /\ (old.paged => p.area = "apps")
  BY <1>2 DEF Shaped
<1>19. /\ step \in {"getAssignments", "replaceAssignments"} => p.area = "apps"
       /\ step = "loadGroup" => p.area = "group" /\ at = 1
  BY <1>2, StepAreas
<1>4. AsksWell(p, at, old.sent, old.seen, old.op, old.run, tenant, old.unified, readable, verdict)
  BY <1>2, <1>3, <1>18, Asks
<1>22. old.p = p /\ old.at = at
  OBVIOUS
<1>26. Turns(j, Becoming(Read(isBlind, isPaged, isUnified)))
  <2>1. Read(isBlind, isPaged, isUnified) =
          [old EXCEPT !.seen = tenant, !.blind = @ \/ ~readable,
                      !.paged = @ \/ (step = "getAssignments" /\ ~Whole(tenant)),
                      !.unified = IF step = "loadGroup" THEN <<"m365">> \in tenant ELSE @]
    OBVIOUS
  <2> QED BY <1>1, <2>1
<1>20. isBlind \in BOOLEAN /\ isPaged \in BOOLEAN /\ isUnified \in BOOLEAN /\ (isPaged => p.area = "apps")
  <2>1. (isPaged => p.area = "apps") /\ isPaged \in BOOLEAN /\ isBlind \in BOOLEAN
    BY <1>18, <1>19
  <2> DEFINE found == <<"m365">> \in tenant
  <2>2. found \in BOOLEAN
    OBVIOUS
  <2>3. isUnified = IF step = "loadGroup" THEN found ELSE old.unified
    OBVIOUS
  <2> HIDE DEF isUnified, found, old, step
  <2>4. isUnified \in BOOLEAN
    BY <1>18, <2>2, <2>3
  <2> QED BY <2>1, <2>4
<1>27. /\ isBlind = FALSE => old.blind = FALSE /\ readable
       /\ isPaged = FALSE => old.paged = FALSE /\ (step = "getAssignments" => Whole(tenant))
       /\ at >= 2 => isUnified = old.unified
       /\ step = "loadGroup" => isUnified = (<<"m365">> \in tenant)
       /\ old.blind => isBlind
  BY <1>18, <1>19
<1> HIDE DEF isBlind, isPaged, isUnified, Read, Becoming, old, p, at, step, verdict
<1>21. PICK blind \in BOOLEAN, paged \in BOOLEAN, unified \in BOOLEAN :
         /\ Turns(j, Becoming(Read(blind, paged, unified)))
         /\ blind = FALSE => old.blind = FALSE /\ readable
         /\ paged = FALSE => old.paged = FALSE /\ (step = "getAssignments" => Whole(tenant))
         /\ at >= 2 => unified = old.unified
         /\ step = "loadGroup" => unified = (<<"m365">> \in tenant)
         /\ old.blind => blind
         /\ paged => p.area = "apps"
  BY <1>20, <1>26, <1>27
<1> DEFINE job == Read(blind, paged, unified)
<1>5. Turns(j, CASE verdict = "go" -> Advanced(job, 1)
                 [] verdict = "skip" -> Advanced(job, 2)
                 [] verdict = "unchanged" -> [job EXCEPT !.pc = "succeeded"]
                 [] OTHER -> [job EXCEPT !.pc = verdict])
  BY <1>21 DEF Becoming
<1>6. /\ Shaped(job)
      /\ job = [k \in JobFields |-> job[k]] /\ job.pc = "running" /\ job.quiet = old.quiet /\ job.quietRun = old.quietRun
      /\ job.p = p /\ job.at = at /\ job.run = old.run /\ job.seen = tenant /\ job.promise = old.promise
      /\ job.previewed = old.previewed /\ job.sent = old.sent /\ job.twice = old.twice /\ job.blind = blind
      /\ job.paged = paged /\ job.unified = unified /\ job.op = old.op
  <2>1. job = [old EXCEPT !.seen = tenant, !.blind = blind, !.paged = paged, !.unified = unified]
    BY DEF Read
  <2>2. Shaped(old) /\ old.pc = "running" /\ Possible(tenant) /\ (paged => old.p.area = "apps")
    BY <1>2, <1>3, <1>21, <1>22
  <2>4. blind \in BOOLEAN /\ paged \in BOOLEAN /\ unified \in BOOLEAN
    BY <1>21
  <2> HIDE DEF job
  <2>3. /\ job = [k \in JobFields |-> job[k]] /\ job.pc = "running" /\ job.quiet = old.quiet /\ job.quietRun = old.quietRun
        /\ job.p = old.p /\ job.at = old.at /\ job.run = old.run /\ job.seen = tenant /\ job.promise = old.promise
        /\ job.previewed = old.previewed /\ job.sent = old.sent /\ job.twice = old.twice /\ job.blind = blind
        /\ job.paged = paged /\ job.unified = unified /\ job.op = old.op
    BY <1>2, <2>1, <2>2 DEF JobFields
  <2>5. IsFiniteSet(tenant) /\ \A f \in tenant : WellFormed(f)
    BY <2>2 DEF Possible
  <2>6. Shaped(job)
    BY <2>2, <2>3, <2>4, <2>5 DEF Shaped, Waiting
  <2> QED BY <1>22, <2>3, <2>6
<1> HIDE DEF job
<1>9. at \in Nat /\ at >= 1 /\ Len(Program(p)) \in Nat
  BY <1>2, PlacesAre
<1>7. old.quietRun =>
        /\ Kind(p, at, old.unified, tenant)
        /\ (p.type \in Waits /\ old.blind) \/ AskedWell(p, at, old.sent, old.op, old.run, tenant, readable, verdict)
  BY <1>2, <1>3, <1>4, <1>22 DEF Good, OnItsWay, Unwaited, AsksWell
<1>8. old.quiet => old.quietRun
  BY <1>2, <1>3 DEF Shaped, Waiting
<1>23. p.type \in Waits => verdict = "go" /\ ~Fresh(p)
  BY <1>2, <1>3, WaitsAsk DEF step, verdict
<1>24. verdict \in Verdicts /\ CountedBy(p, at, tenant, old.unified, verdict)
  BY <1>4 DEF AsksWell
<1>25. step \notin {"removeRelation", "replaceAssignments", "createUninstall"}
  BY <1>3 DEF Reads
<1>10. Counted(job)
  <2>1. ASSUME p.type = "group.remove", p.as = "owner", at = 4 PROVE FALSE
    <3>1. p.area = "group"
      BY <1>2, <2>1 DEF IsPlan
    <3>2. step = "removeRelation"
      BY <1>2, <2>1, <3>1, GroupPlaces DEF step
    <3> QED BY <1>25, <3>2
  <2>2. Program(job.p)[job.at] # "replaceAssignments"
    BY <1>6, <1>25 DEF step
  <2> QED BY <1>6, <2>1, <2>2 DEF Counted
<1>11. Promised(job, tenant)
  <2> SUFFICES ASSUME job.previewed, job.quiet PROVE Comes(job, tenant)
    BY DEF Promised
  <2>1. Comes(old, tenant)
    BY <1>2, <1>6 DEF Promised
  <2>2. job.p = old.p /\ (~job.paged => ~old.paged)
    BY <1>6, <1>21, <1>22
  <2> QED BY <1>6, <2>1, <2>2 DEF Comes
<1>12. ASSUME verdict \in {"go", "skip"}, NEW n \in {1, 2}, n = IF verdict = "skip" THEN 2 ELSE 1
       PROVE  Good(Advanced(job, n), tenant)
  <2>1. job.p.type = "group.remove" /\ job.p.as = "owner" /\ job.at + n = 4 => ~LastSeen(job)
    <3> SUFFICES ASSUME p.type = "group.remove", p.as = "owner", at + n = 4 PROVE ~LastSeen(job)
      BY <1>6
    <3>1. at >= 2
      BY <1>9, <1>12
    <3>2. ~(old.unified /\ Cardinality(Named(tenant, "owner")) <= 1)
      BY <1>12, <1>24 DEF CountedBy
    <3> QED BY <1>6, <1>21, <3>1, <3>2 DEF LastSeen
  <2>2. old.quietRun =>
          \/ p.type \in Waits /\ old.blind
          \/ IF at + n > Len(Program(p)) THEN ~Fresh(p) /\ Goal(p, tenant, old.run)
             ELSE Way(p, at + n, old.sent, tenant, old.op, old.run, tenant)
    BY <1>7, <1>12 DEF AskedWell
  <2>3. job.quietRun /\ job.at + n <= Len(Program(job.p)) /\ ~Unwaited(job) =>
          Way(job.p, job.at + n, job.sent, job.seen, job.op, job.run, tenant)
    BY <1>6, <1>9, <1>21, <2>2 DEF Unwaited
  <2>4. job.quietRun /\ job.at + n > Len(Program(job.p)) => (~job.blind => Goal(job.p, tenant, job.run)) /\ ~Fresh(job.p)
    BY <1>6, <1>9, <1>21, <1>23, <2>2
  <2>5. job.quiet => job.quietRun
    BY <1>6, <1>8
  <2>6. job.at + n <= Len(Program(job.p)) /\ Program(job.p)[job.at + n] = "replaceAssignments" /\ ~job.paged => Whole(job.seen)
    <3> SUFFICES ASSUME at + n <= Len(Program(p)), Program(p)[at + n] = "replaceAssignments", ~paged PROVE Whole(tenant)
      BY <1>6
    <3>1. at + n \in Places(p)
      BY <1>9, <1>12 DEF Places
    <3>2. Program(p)[(at + n) - 1] = "getAssignments" /\ (at + n # 2 => Program(p)[(at + n) - 2] = "createUninstall")
      BY <1>2, <3>1, ListsReadFirst
    <3>3. CASE n = 1
      <4>1. (at + n) - 1 = at
        BY <1>9, <3>3
      <4> QED BY <1>20, <1>21, <3>2, <4>1 DEF step
    <3>4. CASE n = 2
      <4>1. (at + n) - 2 = at /\ at + n # 2
        BY <1>9, <3>4
      <4> QED BY <1>25, <3>2, <4>1 DEF step
    <3> QED BY <1>12, <3>3, <3>4
  <2>7. job.quietRun => Kind(job.p, job.at + n, job.unified, tenant)
    <3> SUFFICES ASSUME old.quietRun, p.area = "group" PROVE unified = (<<"m365">> \in tenant)
      BY <1>6 DEF Kind
    <3>1. CASE at = 1
      <4>1. step = "loadGroup"
        BY <1>2, <3>1, GroupPlaces, AreaTypes DEF step
      <4> QED BY <1>21, <4>1
    <3>2. CASE at >= 2
      BY <1>7, <1>21, <3>2 DEF Kind
    <3> QED BY <1>9, <3>1, <3>2
  <2> QED BY <1>6, <1>10, <1>11, <2>1, <2>3, <2>4, <2>5, <2>6, <2>7, GoesAhead
<1>13. ASSUME NEW pc \in {"succeeded", "refused", "missing"},
              pc = "succeeded" /\ old.quietRun => ~Fresh(p) /\ (readable => Goal(p, tenant, old.run)),
              pc = "refused" /\ old.quietRun => Nowhere(p) \/ (Foretold(p, tenant).refused /\ ~Under(p, tenant) /\ p.type \notin Warned)
       PROVE  Good([job EXCEPT !.pc = pc], tenant)
  <2> DEFINE x == [job EXCEPT !.pc = pc]
  <2>1. /\ x = [k \in JobFields |-> x[k]] /\ x.pc = pc /\ x.quiet = job.quiet /\ x.quietRun = job.quietRun
        /\ x.p = job.p /\ x.at = job.at /\ x.run = job.run /\ x.seen = job.seen /\ x.promise = job.promise
        /\ x.previewed = job.previewed /\ x.sent = job.sent /\ x.twice = job.twice /\ x.blind = job.blind
        /\ x.paged = job.paged /\ x.unified = job.unified /\ x.op = job.op
    BY <1>6 DEF JobFields
  <2> HIDE DEF x
  <2>2. Shaped(x)
    BY <1>6, <1>8, <2>1 DEF Shaped, Waiting
  <2>3. Counted(x)
    BY <1>10, <2>1 DEF Counted, LastSeen
  <2>4. OnItsWay(x, tenant)
    BY <1>6, <1>13, <1>21, <2>1 DEF OnItsWay
  <2>5. Promised(x, tenant)
    <3> SUFFICES ASSUME job.previewed, job.quiet PROVE Comes(x, tenant)
      BY <2>1 DEF Promised
    <3>1. Comes(job, tenant) /\ old.quietRun
      BY <1>6, <1>8, <1>11 DEF Promised
    <3>2. x.pc = "succeeded" => ~Fresh(x.p)
      BY <1>6, <1>13, <2>1, <3>1
    <3>3. x.pc = "refused" => x.promise.refused \/ Nowhere(x.p)
      <4> SUFFICES ASSUME pc = "refused", ~Nowhere(p) PROVE job.promise.refused
        BY <1>6, <2>1
      <4>1. Foretold(p, tenant).refused /\ ~Under(p, tenant) /\ p.type \notin Warned
        BY <1>13, <3>1
      <4>2. job.sent = {}
        BY <1>6, <3>1, <4>1 DEF Comes
      <4> QED BY <1>6, <3>1, <4>1, <4>2 DEF Comes
    <3> QED BY <2>1, <3>1, <3>2, <3>3 DEF Comes
  <2> QED BY <2>2, <2>3, <2>4, <2>5 DEF Good, x
<1>14. CASE verdict = "go"
  <2>1. Turns(j, Advanced(job, 1))
    BY <1>5, <1>14
  <2> QED BY <1>3, <1>12, <1>14, <2>1, TurnsKeeps
<1>15. CASE verdict = "skip"
  <2>1. Turns(j, Advanced(job, 2))
    BY <1>5, <1>15
  <2> QED BY <1>3, <1>12, <1>15, <2>1, TurnsKeeps
<1>16. CASE verdict = "unchanged"
  <2>1. Turns(j, [job EXCEPT !.pc = "succeeded"])
    BY <1>5, <1>16
  <2>2. old.quietRun => ~Fresh(p) /\ (readable => Goal(p, tenant, old.run))
    BY <1>7, <1>16, <1>23 DEF AskedWell
  <2>3. Good([job EXCEPT !.pc = "succeeded"], tenant)
    BY <1>13, <2>2
  <2> QED BY <1>3, <2>1, <2>3, TurnsKeeps
<1>17. CASE verdict \in {"refused", "missing"}
  <2>1. Turns(j, [job EXCEPT !.pc = verdict])
    BY <1>5, <1>17
  <2>2. verdict = "refused" /\ old.quietRun => Nowhere(p) \/ (Foretold(p, tenant).refused /\ ~Under(p, tenant) /\ p.type \notin Warned)
    BY <1>7, <1>23 DEF AskedWell
  <2>3. Good([job EXCEPT !.pc = verdict], tenant)
    BY <1>13, <1>17, <2>2
  <2> QED BY <1>3, <2>1, <2>3, TurnsKeeps
<1> QED BY <1>14, <1>15, <1>16, <1>17, <1>24 DEF Verdicts

\* Which operations an answer may fail to name
LEMMA OperationTypes ==
  ASSUME NEW p, IsPlan(p), p.area \in {"vm", "avd"}, p.type \notin Unprepared
  PROVE  p.type \in Waits \cup {"vm.deploy"} /\ p.type # "group.remove" /\ p.area # "group" /\ p.area # "apps"
BY AreaTypes DEF Waits, PowerTypes, Unprepared

\* A job that will not wait
LEMMA BlindIs ==
  ASSUME NEW job, Shaped(job), Counted(job), NEW x, x = [job EXCEPT !.blind = TRUE]
  PROVE  /\ Shaped(x) /\ Counted(x)
         /\ x = [k \in JobFields |-> x[k]] /\ x.pc = job.pc /\ x.quiet = job.quiet /\ x.quietRun = job.quietRun
         /\ x.p = job.p /\ x.at = job.at /\ x.run = job.run /\ x.seen = job.seen /\ x.promise = job.promise
         /\ x.previewed = job.previewed /\ x.sent = job.sent /\ x.twice = job.twice /\ x.blind = TRUE
         /\ x.paged = job.paged /\ x.unified = job.unified /\ x.op = job.op
<1>1. job = [k \in JobFields |-> job[k]]
  BY DEF Shaped
<1>2. /\ x = [k \in JobFields |-> x[k]] /\ x.pc = job.pc /\ x.quiet = job.quiet /\ x.quietRun = job.quietRun
      /\ x.p = job.p /\ x.at = job.at /\ x.run = job.run /\ x.seen = job.seen /\ x.promise = job.promise
      /\ x.previewed = job.previewed /\ x.sent = job.sent /\ x.twice = job.twice /\ x.blind = TRUE
      /\ x.paged = job.paged /\ x.unified = job.unified /\ x.op = job.op
  BY <1>1 DEF JobFields
<1>3. Shaped(x) /\ Counted(x)
  BY <1>2 DEF Shaped, Counted, LastSeen
<1> QED BY <1>2, <1>3

LEMMA AcceptedKeeps == ASSUME JobsInv, NEW j \in Handlers, Accepted(j) PROVE JobsInv'
<1> DEFINE job == jobs[j]
           p == job.p
           at == job.at
           x == [job EXCEPT !.op = "going"]
           y == [x EXCEPT !.blind = TRUE]
<1>1. /\ Good(job, tenant) /\ Shaped(job) /\ Counted(job) /\ Promised(job, tenant) /\ IsPlan(p) /\ at \in Places(p)
  BY JobIs
<1>2. job.pc = "running" /\ Program(p)[at] \in Operations /\ UNCHANGED <<tenant, portal>>
  BY DEF Accepted, At, Step
<1>14. PICK named \in IF Program(p)[at] = "deploy" THEN {TRUE} ELSE BOOLEAN :
          Turns(j, IF named THEN Advanced(x, 1) ELSE Advanced([job EXCEPT !.op = "going", !.blind = TRUE], 2))
  BY DEF Accepted, Step
<1>15. [job EXCEPT !.op = "going", !.blind = TRUE] = y
  OBVIOUS
<1>16. named \in BOOLEAN /\ (Program(p)[at] = "deploy" => named)
  BY <1>14
<1>3. /\ p.area \in {"vm", "avd"} /\ p.type \notin Unprepared /\ at + 1 <= Len(Program(p))
      /\ at = IF p.type = "vm.deploy" THEN 2 ELSE 1
  BY <1>1, <1>2, StepAreas
<1>4. at \in Nat /\ Len(Program(p)) \in Nat
  BY <1>1, PlacesAre
<1>5. job.pc \notin Waiting
  BY <1>2 DEF Waiting
<1>6. /\ Shaped(x) /\ Counted(x)
      /\ x = [k \in JobFields |-> x[k]] /\ x.pc = job.pc /\ x.quiet = job.quiet /\ x.quietRun = job.quietRun
      /\ x.p = p /\ x.at = at /\ x.run = job.run /\ x.seen = job.seen /\ x.promise = job.promise
      /\ x.previewed = job.previewed /\ x.sent = job.sent /\ x.twice = job.twice /\ x.blind = job.blind
      /\ x.paged = job.paged /\ x.unified = job.unified /\ x.op = "going"
  BY <1>1, <1>3, <1>5, OperationIs
<1>7. job.quietRun /\ ~Unwaited(job) => Way(p, at, job.sent, job.seen, job.op, job.run, tenant)
  BY <1>1, <1>2 DEF Good, OnItsWay
<1>10. p.type \in Waits \cup {"vm.deploy"} /\ p.type # "group.remove" /\ p.area # "group" /\ p.area # "apps"
  BY <1>1, <1>3, OperationTypes
<1>17. \A n \in 1..2 : at + n <= Len(Program(p)) => Program(p)[at + n] # "replaceAssignments"
  <2> SUFFICES ASSUME NEW n \in 1..2, at + n <= Len(Program(p)) PROVE Program(p)[at + n] # "replaceAssignments"
    OBVIOUS
  <2>1. at + n \in Places(p) /\ IsPlan(p)
    BY <1>1, <1>4 DEF Places
  <2> HIDE DEF p, at
  <2>2. Program(p)[at + n] \in {"getAssignments", "replaceAssignments"} => p.area = "apps"
    BY <2>1, StepAreas
  <2> QED BY <1>10, <2>2
<1>18. ~named => p.type \in Waits
  <2> SUFFICES ASSUME p.type = "vm.deploy" PROVE Program(p)[at] = "deploy"
    BY <1>10, <1>16
  <2>1. Program(p) = <<"ensureResourceGroup", "deploy", "wait", "seal">>
    BY <1>1, <1>3, VmPlaces, AreaTypes
  <2> QED BY <1>3, <2>1
<1> HIDE DEF x, job, p, at
<1>8. ASSUME job.quietRun, ~Unwaited(job) PROVE Way(p, at + 1, job.sent, job.seen, "going", job.run, tenant)
  <2>1. MachineWay(p, at, job.op, job.run, tenant)
    BY <1>3, <1>7, <1>8 DEF Way
  <2>2. MachineWay(p, at + 1, "going", job.run, tenant)
    BY <1>3, <2>1 DEF MachineWay, PowerTypes
  <2> QED BY <1>3, <2>2 DEF Way
<1>9. Comes(job, tenant) => Comes(x, tenant)
  BY <1>6 DEF Comes, p
<1>19. Promised(x, tenant)
  BY <1>1, <1>6, <1>9 DEF Promised
<1>20. CASE named
  <2>1. ~(x.at + 1 > Len(Program(x.p))) /\ x.pc = "running" /\ x.p.type # "group.remove"
    BY <1>2, <1>3, <1>4, <1>6, <1>10
  <2>2. Unwaited(x) <=> Unwaited(job)
    BY <1>6 DEF Unwaited, p
  <2>3. x.quietRun /\ ~Unwaited(x) => Way(x.p, x.at + 1, x.sent, x.seen, x.op, x.run, tenant)
    BY <1>6, <1>8, <2>2
  <2>4. Program(x.p)[x.at + 1] # "replaceAssignments" /\ Kind(x.p, x.at + 1, x.unified, tenant)
    BY <1>3, <1>6, <1>10, <1>17 DEF Kind
  <2>5. Good(Advanced(x, 1), tenant)
    BY <1>6, <1>19, <2>1, <2>3, <2>4, GoesAhead
  <2>6. Turns(j, Advanced(x, 1))
    BY <1>14, <1>20
  <2> QED BY <1>2, <2>5, <2>6, TurnsKeeps
<1>21. CASE ~named
  <2>1. /\ Shaped(y) /\ Counted(y)
        /\ y = [k \in JobFields |-> y[k]] /\ y.pc = x.pc /\ y.quiet = x.quiet /\ y.quietRun = x.quietRun
        /\ y.p = x.p /\ y.at = x.at /\ y.run = x.run /\ y.seen = x.seen /\ y.promise = x.promise
        /\ y.previewed = x.previewed /\ y.sent = x.sent /\ y.twice = x.twice /\ y.blind = TRUE
        /\ y.paged = x.paged /\ y.unified = x.unified /\ y.op = x.op
    BY <1>6, BlindIs
  <2>6. Turns(j, Advanced(y, 2))
    BY <1>14, <1>15, <1>21
  <2> HIDE DEF y
  <2>2. Unwaited(y) /\ ~Fresh(y.p) /\ y.p.type # "group.remove" /\ y.pc = "running"
    <3>1. y.p = p /\ p.type \in Waits /\ y.blind = TRUE /\ y.pc = "running" /\ p.type # "group.remove"
      BY <1>2, <1>6, <1>10, <1>18, <1>21, <2>1
    <3>2. p.area # "device" /\ p.type # "mailbox.create-forward-rule"
      BY <1>3, <3>1 DEF Waits, PowerTypes
    <3> QED BY <3>1, <3>2 DEF Unwaited, Fresh
  <2>3. y.at + 2 <= Len(Program(y.p)) => Program(y.p)[y.at + 2] # "replaceAssignments"
    BY <1>6, <1>17, <2>1
  <2>4. Kind(y.p, y.at + 2, y.unified, tenant)
    BY <1>6, <1>10, <2>1 DEF Kind
  <2>5. Promised(y, tenant)
    <3> SUFFICES ASSUME y.previewed, y.quiet PROVE Comes(y, tenant)
      BY DEF Promised
    <3>1. Comes(x, tenant)
      BY <1>19, <2>1 DEF Promised
    <3> QED BY <2>1, <3>1 DEF Comes
  <2>7. 2 \in {1, 2}
    OBVIOUS
  <2>8. Good(Advanced(y, 2), tenant)
    BY <2>1, <2>2, <2>3, <2>4, <2>5, <2>7, GoesAhead
  <2> QED BY <1>2, <2>6, <2>8, TurnsKeeps
<1> QED BY <1>20, <1>21

LEMMA WaitEndsKeeps == ASSUME JobsInv, NEW j \in Handlers, WaitEnds(j) PROVE JobsInv'
<1> DEFINE job == jobs[j]
           p == job.p
           at == job.at
<1>1. /\ Good(job, tenant) /\ Shaped(job) /\ Counted(job) /\ Promised(job, tenant) /\ IsPlan(p) /\ at \in Places(p)
  BY JobIs
<1>2. job.pc = "running" /\ Program(p)[at] = "wait" /\ UNCHANGED <<tenant, portal>>
      /\ Turns(j, IF job.op = "done" THEN Advanced(job, 1) ELSE [job EXCEPT !.pc = "failed"])
  BY DEF WaitEnds, At, Step
<1>3. CASE job.op # "done"
  BY <1>2, <1>3, FailureKeeps
<1>4. CASE job.op = "done"
  <2>1. /\ p.area \in {"vm", "avd"} /\ p.type \in PowerTypes \cup {"vm.resize", "vm.deploy"}
        /\ at = IF p.type = "vm.deploy" THEN 3 ELSE 2
    BY <1>1, <1>2, StepAreas
  <2>2. at \in Nat /\ Len(Program(p)) \in Nat
    BY <1>1, PlacesAre
  <2>3. job.quietRun /\ ~Unwaited(job) => Way(p, at, job.sent, job.seen, "done", job.run, tenant)
    BY <1>1, <1>2, <1>4 DEF Good, OnItsWay
  <2>4. ~Fresh(p) /\ p.type # "group.remove" /\ p.area # "group" /\ p.area # "apps"
    BY <2>1 DEF Fresh, PowerTypes
  <2>8. at + 1 <= Len(Program(p)) => Program(p)[at + 1] # "replaceAssignments"
    <3> SUFFICES ASSUME at + 1 <= Len(Program(p)) PROVE Program(p)[at + 1] # "replaceAssignments"
      OBVIOUS
    <3>1. at + 1 \in Places(p) /\ IsPlan(p)
      BY <1>1, <2>2 DEF Places
    <3> HIDE DEF p, at
    <3>2. Program(p)[at + 1] \in {"getAssignments", "replaceAssignments"} => p.area = "apps"
      BY <3>1, StepAreas
    <3> QED BY <2>4, <3>2
  <2> HIDE DEF job, p, at
  <2>9. Kind(p, at + 1, job.unified, tenant)
    BY <2>4 DEF Kind
  <2>5. ASSUME job.quietRun, ~Unwaited(job) PROVE Goal(p, tenant, job.run) /\ Way(p, at + 1, job.sent, job.seen, job.op, job.run, tenant)
    <3>1. MachineWay(p, at, "done", job.run, tenant)
      BY <2>1, <2>3, <2>5 DEF Way
    <3>2. Goal(p, tenant, job.run)
      BY <2>1, <3>1 DEF MachineWay
    <3>3. MachineWay(p, at + 1, job.op, job.run, tenant)
      BY <2>1, <3>1, <3>2 DEF MachineWay
    <3> QED BY <2>1, <3>2, <3>3 DEF Way
  <2>10. job.quietRun /\ ~job.blind => Goal(p, tenant, job.run)
    BY <2>5 DEF Unwaited
  <2>11. job.p = p /\ job.at = at
    BY DEF p, at
  <2>6. Good(Advanced(job, 1), tenant)
    BY <1>1, <1>2, <2>4, <2>5, <2>8, <2>9, <2>10, <2>11, GoesAhead
  <2>7. Turns(j, Advanced(job, 1))
    BY <1>2, <1>4
  <2> QED BY <1>2, <2>6, <2>7, TurnsKeeps
<1> QED BY <1>3, <1>4

LEMMA AzureEndsKeeps == ASSUME JobsInv, NEW j \in Handlers, AzureEnds(j) PROVE JobsInv'
<1> DEFINE job == jobs[j]
           p == job.p
           at == job.at
<1>1. /\ Good(job, tenant) /\ Shaped(job) /\ Counted(job) /\ Promised(job, tenant) /\ IsPlan(p) /\ Possible(tenant)
  BY JobIs
<1>2. job.op = "going" /\ UNCHANGED portal
  BY DEF AzureEnds
<1>3. p.area \in {"vm", "avd"} /\ p.type \notin Unprepared /\ job.pc \notin Waiting
  BY <1>1, <1>2 DEF Shaped
<1>4. CASE OperationFits(p, tenant) /\ Becomes(j, [job EXCEPT !.op = "done"], Apply(tenant, OperationEffect(p, tenant, job.run)))
  <2> DEFINE after == Apply(tenant, OperationEffect(p, tenant, job.run))
             x == [job EXCEPT !.op = "done"]
  <2>1. /\ Possible(after)
        /\ <<"resourceGroup">> \in tenant => <<"resourceGroup">> \in after
        /\ p.type # "vm.deploy" => Goal(p, after, job.run)
        /\ p.type = "vm.deploy" => (<<"resourceGroup">> \in tenant => Goal(p, after, job.run)) /\ \A r : ~Goal(p, tenant, r)
    BY <1>1, <1>3, <1>4, OperationDone
  <2>2. /\ Shaped(x) /\ Counted(x)
        /\ x = [k \in JobFields |-> x[k]] /\ x.pc = job.pc /\ x.quiet = job.quiet /\ x.quietRun = job.quietRun
        /\ x.p = p /\ x.at = at /\ x.run = job.run /\ x.seen = job.seen /\ x.promise = job.promise
        /\ x.previewed = job.previewed /\ x.sent = job.sent /\ x.twice = job.twice /\ x.blind = job.blind
        /\ x.paged = job.paged /\ x.unified = job.unified /\ x.op = "done"
    BY <1>1, <1>3, OperationIs
  <2>3. Becomes(j, x, after)
    BY <1>4
  <2> HIDE DEF x, after, p, at, job
  <2>4. ASSUME job.quietRun, job.pc = "running", ~Unwaited(job) PROVE Way(p, at, job.sent, job.seen, "done", job.run, after)
    <3>1. MachineWay(p, at, job.op, job.run, tenant)
      BY <1>1, <1>3, <2>4 DEF Good, OnItsWay, Way, p, at
    <3>2. MachineWay(p, at, "done", job.run, after)
      BY <2>1, <3>1 DEF MachineWay, PowerTypes
    <3> QED BY <1>3, <3>2 DEF Way
  <2>5. ASSUME job.quietRun, job.pc = "succeeded", ~job.blind PROVE Goal(p, after, job.run)
    <3>1. Goal(p, tenant, job.run)
      BY <1>1, <2>5 DEF Good, OnItsWay, p
    <3> QED BY <2>1, <3>1
  <2>8. Unwaited(x) <=> Unwaited(job)
    BY <2>2 DEF Unwaited, p
  <2>9. Kind(p, at, x.unified, after)
    BY <1>3 DEF Kind
  <2>6. OnItsWay(x, after)
    BY <2>2, <2>4, <2>5, <2>8, <2>9 DEF OnItsWay
  <2>7. Promised(x, after)
    <3>1. /\ ~Fresh(p) /\ p.type # "mailbox.set-rule" /\ Under(p, after) /\ SamePreview(Foretold(p, tenant), Foretold(p, after))
          /\ p.type \notin Warned => Foretold(p, tenant).refused = Foretold(p, after).refused
      <4>1. p.type \notin Warned => ~Foretold(p, after).refused
        BY <1>1, <1>3, MachinePreview
      <4>2. /\ ~Fresh(p) /\ p.type # "mailbox.set-rule" /\ Under(p, after) /\ SamePreview(Foretold(p, tenant), Foretold(p, after))
            /\ p.type \notin Warned => ~Foretold(p, tenant).refused
        BY <1>1, <1>3, MachinePreview
      <4>3. Foretold(p, tenant).refused \in BOOLEAN /\ Foretold(p, after).refused \in BOOLEAN
        BY <1>1, <1>3, MachineRefused
      <4> QED BY <4>1, <4>2, <4>3
    <3>2. job.previewed /\ job.quiet => Comes(job, tenant)
      BY <1>1 DEF Promised
    <3>3. \A v : SamePreview(v, Foretold(p, tenant)) => SamePreview(v, Foretold(p, after))
      BY <3>1 DEF SamePreview
    <3> QED BY <2>2, <3>1, <3>2, <3>3 DEF Promised, Comes, p
  <2> QED BY <1>2, <2>1, <2>2, <2>3, <2>6, <2>7, BecomesKeeps DEF Good
<1>5. CASE Becomes(j, [job EXCEPT !.op = "failed"], tenant)
  <2> DEFINE x == [job EXCEPT !.op = "failed"]
  <2>1. /\ Shaped(x) /\ Counted(x)
        /\ x = [k \in JobFields |-> x[k]] /\ x.pc = job.pc /\ x.quiet = job.quiet /\ x.quietRun = job.quietRun
        /\ x.p = p /\ x.at = at /\ x.run = job.run /\ x.seen = job.seen /\ x.promise = job.promise
        /\ x.previewed = job.previewed /\ x.sent = job.sent /\ x.twice = job.twice /\ x.blind = job.blind
        /\ x.paged = job.paged /\ x.unified = job.unified /\ x.op = "failed"
    BY <1>1, <1>3, OperationIs
  <2>2. Becomes(j, x, tenant)
    BY <1>5
  <2> HIDE DEF x, p, at, job
  <2>3. ASSUME job.quietRun, job.pc = "running", ~Unwaited(job) PROVE Way(p, at, job.sent, job.seen, "failed", job.run, tenant)
    <3>1. MachineWay(p, at, job.op, job.run, tenant)
      BY <1>1, <1>3, <2>3 DEF Good, OnItsWay, Way, p, at
    <3>2. MachineWay(p, at, "failed", job.run, tenant)
      BY <3>1 DEF MachineWay
    <3> QED BY <1>3, <3>2 DEF Way
  <2>6. Unwaited(x) <=> Unwaited(job)
    BY <2>1 DEF Unwaited, p
  <2>7. Kind(p, at, x.unified, tenant)
    BY <1>3 DEF Kind
  <2>4. OnItsWay(x, tenant)
    BY <1>1, <2>1, <2>3, <2>6, <2>7 DEF Good, OnItsWay, p
  <2>5. Promised(x, tenant)
    BY <1>1, <2>1 DEF Promised, Comes, p
  <2> QED BY <1>1, <1>2, <2>1, <2>2, <2>4, <2>5, BecomesKeeps DEF Good
<1> QED BY <1>4, <1>5 DEF AzureEnds

LEMMA FailsKeeps == ASSUME JobsInv, NEW j \in Handlers, Fails(j) PROVE JobsInv'
<1> DEFINE job == jobs[j]
<1>1. /\ Good(job, tenant) /\ Shaped(job) /\ Counted(job) /\ Promised(job, tenant) /\ IsPlan(job.p) /\ Possible(tenant)
      /\ job.at \in Places(job.p)
  BY JobIs
<1>2. job.pc = "running" /\ UNCHANGED portal
  BY DEF Fails
<1>3. CASE Becomes(j, [job EXCEPT !.pc = "failed"], tenant)
  <2>1. Good([job EXCEPT !.pc = "failed"], tenant)
    BY <1>1, <1>2, FailsGood
  <2> QED BY <1>1, <1>2, <1>3, <2>1, BecomesKeeps
<1>4. CASE /\ Requests(j) /\ ~Gone(job.p, Step(j), tenant)
           /\ Becomes(j, [TookEffect(job, Step(j)) EXCEPT !.pc = "failed"], Apply(tenant, Outcome(j)))
  <2> DEFINE x == TookEffect(job, Step(j))
             after == Apply(tenant, Outcome(j))
  <2>1. IsRequest(Program(job.p)[job.at]) /\ ~Gone(job.p, Program(job.p)[job.at], tenant)
    BY <1>4 DEF Requests, IsRequest, Step
  <2>2. after = Changed(job.p, job.at, tenant, job.seen, job.run) /\ x = TookEffect(job, Program(job.p)[job.at])
    BY DEF Changed, Outcome, Step
  <2>3. Becomes(j, [x EXCEPT !.pc = "failed"], after)
    BY <1>4
  <2> HIDE DEF x, after
  <2>4. Possible(after) /\ Good(x, after) /\ x.pc = "running"
    BY <1>1, <1>2, <2>1, <2>2, SentGood
  <2>5. Good([x EXCEPT !.pc = "failed"], after)
    BY <2>4, FailsGood DEF Good
  <2> QED BY <1>2, <2>3, <2>4, <2>5, BecomesKeeps
<1>5. CASE At(j, Operations) /\ Becomes(j, [job EXCEPT !.pc = "failed", !.op = "going"], tenant)
  <2> DEFINE x == [job EXCEPT !.op = "going"]
  <2>1. job.p.area \in {"vm", "avd"} /\ job.p.type \notin Unprepared /\ job.pc \notin Waiting
    BY <1>1, <1>2, <1>5, StepAreas DEF At, Step, Waiting
  <2>2. /\ Shaped(x) /\ Counted(x)
        /\ x = [k \in JobFields |-> x[k]] /\ x.pc = job.pc /\ x.quiet = job.quiet /\ x.quietRun = job.quietRun
        /\ x.p = job.p /\ x.at = job.at /\ x.run = job.run /\ x.seen = job.seen /\ x.promise = job.promise
        /\ x.previewed = job.previewed /\ x.sent = job.sent /\ x.twice = job.twice /\ x.blind = job.blind
        /\ x.paged = job.paged /\ x.unified = job.unified /\ x.op = "going"
    BY <1>1, <2>1, OperationIs
  <2>3. [job EXCEPT !.pc = "failed", !.op = "going"] = [x EXCEPT !.pc = "failed"]
    OBVIOUS
  <2>4. Becomes(j, [x EXCEPT !.pc = "failed"], tenant)
    BY <1>5, <2>3
  <2> HIDE DEF x, job
  <2>5. Promised(x, tenant)
    BY <1>1, <2>2 DEF Promised, Comes
  <2>6. Good([x EXCEPT !.pc = "failed"], tenant)
    BY <1>2, <2>2, <2>5, FailsGood
  <2> QED BY <1>1, <1>2, <2>4, <2>6, BecomesKeeps
<1> QED BY <1>3, <1>4, <1>5 DEF Fails

LEMMA StopKeepsJobs ==
  ASSUME JobsInv, NEW j \in Handlers, Rejected(j) \/ Conflict(j) \/ WaitTimesOut(j)
  PROVE  JobsInv'
<1>1. jobs[j].pc = "running" /\ Turns(j, [jobs[j] EXCEPT !.pc = "failed"]) /\ UNCHANGED <<tenant, portal>>
  BY DEF Rejected, Conflict, WaitTimesOut, Requests, At
<1> QED BY <1>1, FailureKeeps

LEMMA ToggledIs == ASSUME NEW facts, Possible(facts), NEW f, WellFormed(f), f = <<"schedule">> => <<"script">> \in facts
                   PROVE  Possible(Toggled(facts, f))
<1>1. CASE f \in facts
  <2> DEFINE settings == IF f[1] = "assigned" THEN About(facts, "settings", f[2]) ELSE {}
             after == facts \ ({f} \cup (IF f = <<"script">> THEN {<<"schedule">>} ELSE {}) \cup settings)
  <2>1. Toggled(facts, f) = after
    BY <1>1 DEF Toggled
  <2>2. after \subseteq facts /\ IsFiniteSet(after)
    BY FS_Subset DEF Possible
  <2>4. <<"script">> \notin settings
    BY DEF About, Named
  <2> HIDE DEF settings
  <2>3. <<"schedule">> \in after => <<"script">> \in after
    BY <2>4 DEF Possible
  <2> QED BY <2>1, <2>2, <2>3 DEF Possible, Named
<1>2. CASE f \notin facts
  <2> DEFINE rest == {e \in facts : ~(/\ f[1] \in {"assigned", "rule"} /\ (e[1] = f[1] \/ (f[1] = "assigned" /\ e[1] = "settings"))
                                      /\ e[2] = f[2])}
             after == rest \cup {f}
  <2>1. Toggled(facts, f) = after
    BY <1>2 DEF Toggled
  <2>2. rest \subseteq facts /\ IsFiniteSet(rest)
    BY FS_Subset DEF Possible
  <2>3. IsFiniteSet(after)
    BY <2>2, FS_AddElement
  <2>4. <<"script">> \in facts => <<"script">> \in after
    <3>1. <<"script">>[1] = "script"
      OBVIOUS
    <3> QED BY <3>1
  <2>5. \A e \in rest : e[1] = "rule" /\ f[1] = "rule" => e[2] # f[2]
    OBVIOUS
  <2> HIDE DEF rest
  <2>6. \A e \in after : WellFormed(e)
    BY <2>2 DEF Possible
  <2>7. \A e, g \in Named(after, "rule") : e[2] = g[2] => e = g
    BY <2>2, <2>5 DEF Possible, Named
  <2>8. <<"schedule">> \in after => <<"script">> \in after
    BY <2>2, <2>4 DEF Possible
  <2> QED BY <2>1, <2>3, <2>6, <2>7, <2>8 DEF Possible
<1> QED BY <1>1, <1>2

LEMMA PortalKeeps == ASSUME JobsInv, Portal PROVE JobsInv'
<1>1. PICK f \in portal : /\ f = <<"schedule">> => <<"script">> \in tenant
                          /\ tenant' = Toggled(tenant, f)
                          /\ jobs' = [j \in Handlers |-> [jobs[j] EXCEPT !.quiet = FALSE, !.quietRun = FALSE]]
  BY DEF Portal
<1>2. Possible(tenant')
  BY <1>1, ToggledIs DEF JobsInv
<1>3. \A j \in Handlers : Good([jobs[j] EXCEPT !.quiet = FALSE, !.quietRun = FALSE], tenant')
  BY Disturbed DEF JobsInv
<1>4. \A j \in Handlers : Good(jobs'[j], tenant')
  BY <1>1, <1>3
<1> QED BY <1>1, <1>2, <1>4 DEF JobsInv, Portal

LEMMA NewGood == ASSUME NEW p, IsPlan(p), NEW facts PROVE Good(NewJob(p), facts)
<1> DEFINE x == NewJob(p)
<1>1. /\ x = [k \in JobFields |-> x[k]] /\ x.pc = "new" /\ x.quiet = FALSE /\ x.quietRun = FALSE
      /\ x.p = p /\ x.at = 1 /\ x.run = 0 /\ x.seen = {} /\ x.previewed = FALSE /\ x.sent = {}
      /\ x.twice = FALSE /\ x.blind = FALSE /\ x.paged = FALSE /\ x.unified = FALSE /\ x.op = "none"
  BY DEF NewJob, JobFields
<1> HIDE DEF x
<1>2. 1 \in Places(p)
  <2>1. Len(Program(p)) \in Nat /\ Len(Program(p)) >= 1
    BY LengthIs
  <2> QED BY <2>1 DEF Places
<1>3. Shaped(x)
  <2>1. IsFiniteSet({}) /\ 0 \in 0..2
    BY FS_EmptySet
  <2>2. x.sent \subseteq {n \in Places(x.p) : IsRequest(Program(x.p)[n])}
    BY <1>1
  <2>3. IsFiniteSet(x.seen) /\ (\A f \in x.seen : WellFormed(f)) /\ x.run \in 0..2 /\ x.at \in Places(x.p)
    BY <1>1, <1>2, <2>1
  <2> QED BY <1>1, <2>2, <2>3 DEF Shaped, Waiting
<1>4. Counted(x)
  BY <1>1, <1>2, FirstCounted
<1>5. OnItsWay(x, facts) /\ Promised(x, facts)
  BY <1>1 DEF OnItsWay, Promised
<1> QED BY <1>3, <1>4, <1>5 DEF Good, x

LEMMA JobsInvInit == ASSUME TenantInit PROVE JobsInv
<1>1. PICK c \in Cases : tenant = c.facts /\ portal = c.portal /\ jobs = [j \in Handlers |-> NewJob(c.jobs[j])]
  BY DEF TenantInit
<1>2. Possible(c.facts) /\ (\A f \in c.portal : WellFormed(f)) /\ \A j \in Handlers : IsPlan(c.jobs[j])
  BY TenantAssumption
<1>3. \A j \in Handlers : Good(jobs[j], tenant)
  BY <1>1, <1>2, NewGood
<1> QED BY <1>1, <1>2, <1>3 DEF JobsInv

LEMMA JobsInvNext == ASSUME JobsInv, [TenantNext]_tenantVars PROVE JobsInv'
<1>1. CASE UNCHANGED tenantVars
  BY <1>1 DEF tenantVars, JobsInv
<1>2. CASE Portal
  BY <1>2, PortalKeeps
<1>3. ASSUME NEW j \in Handlers,
             \/ Preview(j) \/ Start(j) \/ Ask(j) \/ Send(j) \/ Rejected(j) \/ AnswerLost(j) \/ Fails(j)
             \/ Accepted(j) \/ Conflict(j) \/ AzureEnds(j) \/ WaitEnds(j) \/ WaitTimesOut(j) \/ Repeat(j)
      PROVE  JobsInv'
  BY <1>3, PreviewKeeps, StartKeeps, AskKeeps, SendKeeps, StopKeepsJobs, FailsKeeps, AcceptedKeeps, AzureEndsKeeps,
     WaitEndsKeeps, RepeatKeeps
<1> QED BY <1>1, <1>2, <1>3 DEF TenantNext

LEMMA JobsInvAlways == TenantSpec => []JobsInv
<1>1. TenantInit => JobsInv
  BY JobsInvInit
<1>2. JobsInv /\ [TenantNext]_tenantVars => JobsInv'
  BY JobsInvNext
<1> QED BY <1>1, <1>2, PTL DEF TenantSpec

-----------------------------------------------------------------------------
(* What a request leaves alone *)

Untouched(facts, after) ==
    Named(after, "assigned") = Named(facts, "assigned") /\ Named(after, "owner") = Named(facts, "owner")

LEMMA OtherWords ==
  ASSUME NEW facts, NEW drop, NEW add, \A f \in drop \cup add : f[1] # "assigned" /\ f[1] # "owner",
         NEW after, after = Apply(facts, Change(drop, add))
  PROVE  Untouched(facts, after)
BY DEF Apply, Change, Untouched, Named

LEMMA RequestSteps ==
  ASSUME NEW p, IsPlan(p), NEW at \in Places(p), IsRequest(Program(p)[at])
  PROVE  /\ p.area = "identity" => Program(p)[at] \in {"assignLicense", "removeLicense", "disableUser", "enableUser",
                                                       "revokeSignInSessions", "resetPassword"}
         /\ p.area = "mailbox" => Program(p)[at] \in {"setAutoReply", "createForwardRule", "setRuleEnabled", "deleteRule"}
         /\ p.area = "avd" => Program(p)[at] \in {"setDrainMode", "disconnectSession", "logoffSession", "sendMessage"}
         /\ p.area = "monitor" => Program(p)[at] \in {"ensureScript", "setHourlySchedule"}
<1>1. CASE p.area = "identity"
  <2>1. CASE p.type \in Licences
    <3>1. Program(p) = <<"assignLicense">> \/ Program(p) = <<"removeLicense">>
      BY <2>1, LicencePlan DEF LicenceProgram
    <3> QED BY <1>1, <3>1 DEF Places
  <2>2. CASE p.type \notin Licences
    <3>1. \/ Program(p) = <<"disableUser", "revokeSignInSessions">> \/ Program(p) = <<"disableUser">>
          \/ Program(p) = <<"enableUser">> \/ Program(p) = <<"revokeSignInSessions">> \/ Program(p) = <<"resetPassword">>
      BY <1>1, <2>2, AreaProgram, AreaTypes DEF AccountProgram
    <3> QED BY <1>1, <3>1 DEF Places
  <2> QED BY <2>1, <2>2
<1>2. CASE p.area = "mailbox"
  <2>1. \/ Program(p) = <<"resolveUserId", "setAutoReply">> \/ Program(p) = <<"resolveUserId", "createForwardRule">>
        \/ Program(p) = <<"resolveUserId", "getRule", "setRuleEnabled">>
        \/ Program(p) = <<"resolveUserId", "getRule", "deleteRule">>
    BY <1>2, AreaProgram, AreaTypes DEF MailboxProgram
  <2> QED BY <1>2, <2>1 DEF Places, IsRequest, Reads
<1>3. CASE p.area = "avd"
  <2>1. CASE p.type \in Unprepared
    <3>1. \/ Program(p) = <<"setDrainMode">> \/ Program(p) = <<"disconnectSession">>
          \/ Program(p) = <<"logoffSession">> \/ Program(p) = <<"sendMessage">>
      BY <1>3, <2>1, AreaProgram DEF SessionProgram, Unprepared
    <3> QED BY <1>3, <3>1 DEF Places
  <2>2. CASE p.type \notin Unprepared
    <3>1. Program(p) = <<"power", "wait">>
      BY <1>3, <2>2, AreaProgram DEF HostProgram
    <3> QED BY <3>1 DEF Places, IsRequest, Operations
  <2> QED BY <2>1, <2>2
<1>4. CASE p.area = "monitor"
  <2>1. Program(p) = <<"ensureScript", "setHourlySchedule">> \/ Program(p) = <<"findTenantScriptId", "setHourlySchedule">>
    BY <1>4, AreaProgram DEF MonitorProgram
  <2> QED BY <1>4, <2>1 DEF Places, IsRequest, Reads
<1> QED BY <1>1, <1>2, <1>3, <1>4

\* Only the jobs of groups and apps touch owners and assignments
LEMMA Apart ==
  ASSUME NEW p, IsPlan(p), p.area \notin {"group", "apps"}, NEW at \in Places(p), IsRequest(Program(p)[at]),
         NEW facts, NEW seen, NEW run, NEW after, after = Changed(p, at, facts, seen, run)
  PROVE  Untouched(facts, after)
<1> DEFINE step == Program(p)[at]
<1>1. after = Apply(facts, Effect(p, step, facts, seen, run))
  BY DEF Changed
<1>2. \A w, x : \A f \in Named(facts, w) \cup About(facts, w, x) : f[1] = w
  BY DEF Named, About
<1>3. \E drop, add : /\ Effect(p, step, facts, seen, run) = Change(drop, add)
                     /\ \A f \in drop \cup add : f[1] # "assigned" /\ f[1] # "owner"
  <2>1. CASE p.area = "identity"
    <3>1. step \in {"assignLicense", "removeLicense", "disableUser", "enableUser", "revokeSignInSessions", "resetPassword"}
      BY <2>1, RequestSteps
    <3>2. Effect(p, step, facts, seen, run) = IdentityEffect(p, step, facts, run)
      BY <2>1, AreaEffect
    <3> HIDE DEF step
    <3> QED BY <1>2, <3>1, <3>2 DEF IdentityEffect
  <2>2. CASE p.area = "mailbox"
    <3>1. step \in {"setAutoReply", "createForwardRule", "setRuleEnabled", "deleteRule"}
      BY <2>2, RequestSteps
    <3>2. Effect(p, step, facts, seen, run) = MailboxEffect(p, step, facts)
      BY <2>2, AreaEffect
    <3> HIDE DEF step
    <3> QED BY <1>2, <3>1, <3>2 DEF MailboxEffect
  <2>3. CASE p.area = "vm"
    BY <2>3, AreaEffect DEF ResourceGroupEffect
  <2>4. CASE p.area = "avd"
    <3>1. step \in {"setDrainMode", "disconnectSession", "logoffSession", "sendMessage"}
      BY <2>4, RequestSteps
    <3>2. Effect(p, step, facts, seen, run) = SessionEffect(p, step, facts)
      BY <2>4, AreaEffect
    <3> HIDE DEF step
    <3> QED BY <1>2, <3>1, <3>2 DEF SessionEffect
  <2>5. CASE p.area = "device"
    <3> DEFINE f == <<"asked", NewId(facts, "asked")>>
    <3>1. Effect(p, step, facts, seen, run) = DeviceEffect(p, facts)
      BY <2>5, AreaEffect
    <3>2. DeviceEffect(p, facts) = Change({}, {f})
      BY DEF DeviceEffect
    <3>3. f[1] = "asked"
      OBVIOUS
    <3> HIDE DEF f
    <3> QED BY <3>1, <3>2, <3>3
  <2>6. CASE p.area = "monitor"
    <3>1. step \in {"ensureScript", "setHourlySchedule"}
      BY <2>6, RequestSteps
    <3>2. Effect(p, step, facts, seen, run) = MonitorEffect(p, step)
      BY <2>6, AreaEffect
    <3> HIDE DEF step
    <3> QED BY <3>1, <3>2 DEF MonitorEffect
  <2> QED BY <2>1, <2>2, <2>3, <2>4, <2>5, <2>6, AreaTypes
<1> QED BY <1>1, <1>3, OtherWords

\* What a request does to assignments and owners: only what the job is about, or what it has not
\* seen on a page that held them all, goes; only what the job is about, or what it has seen, comes;
\* the owner that goes is the job's
Spares(p, at, facts, seen, after) ==
    /\ \A f \in Named(facts, "assigned") \ after : IsOwn(p, f) \/ f \notin seen \/ ~Whole(seen)
    /\ \A f \in Named(after, "assigned") \ facts : IsOwn(p, f) \/ f \in seen
    /\ Named(facts, "owner") # {} /\ Named(after, "owner") = {} =>
          p.type = "group.remove" /\ p.as = "owner" /\ at = 4 /\ Named(facts, "owner") = {<<"owner", p.of>>}

LEMMA GroupSpares ==
  ASSUME NEW p, IsPlan(p), p.area = "group", NEW at \in Places(p), IsRequest(Program(p)[at]),
         NEW facts, NEW seen, NEW run, NEW after, after = Changed(p, at, facts, seen, run)
  PROVE  Spares(p, at, facts, seen, after)
<1> DEFINE relation == <<p.as, p.of>>
<1>1. Effect(p, Program(p)[at], facts, seen, run) = GroupEffect(p, Program(p)[at])
  BY AreaEffect
<1>2. relation[1] \in {"member", "owner"} /\ relation[1] = p.as /\ (p.as = "owner" => relation = <<"owner", p.of>>)
  BY GroupPlaces
<1>3. CASE p.type = "group.add"
  <2>1. Program(p)[at] = "addRelation"
    BY <1>3, GroupPlaces DEF Places, IsRequest, Reads
  <2>2. after = facts \cup {relation}
    BY <1>1, <2>1 DEF Changed, GroupEffect, Apply, Change
  <2> HIDE DEF relation
  <2> QED BY <1>2, <2>2 DEF Spares, Named
<1>4. CASE p.type = "group.remove"
  <2>1. Program(p)[at] = "removeRelation" /\ (p.as = "owner" => at = 4)
    <3>1. CASE p.as = "owner"
      <4>1. Program(p) = <<"loadGroup", "hasRelation", "countOwners", "removeRelation">>
        BY <1>4, <3>1, GroupPlaces
      <4>2. at \in 1..4
        BY <4>1 DEF Places
      <4> QED BY <3>1, <4>1, <4>2 DEF IsRequest, Reads
    <3>2. CASE p.as = "member"
      <4>1. Program(p) = <<"loadGroup", "hasRelation", "removeRelation">>
        BY <1>4, <3>2, GroupPlaces
      <4>2. at \in 1..3
        BY <4>1 DEF Places
      <4> QED BY <3>2, <4>1, <4>2 DEF IsRequest, Reads
    <3> QED BY <3>1, <3>2, GroupPlaces
  <2>2. after = facts \ {relation}
    BY <1>1, <2>1 DEF Changed, GroupEffect, Apply, Change
  <2> HIDE DEF relation
  <2>3. /\ Named(after, "assigned") = Named(facts, "assigned")
        /\ p.as # "owner" => Named(after, "owner") = Named(facts, "owner")
        /\ Named(after, "owner") = Named(facts, "owner") \ {relation}
    BY <1>2, <2>2 DEF Named
  <2>4. \A f \in Named(facts, "assigned") \ after : FALSE
    BY <2>3 DEF Named
  <2>5. \A f \in Named(after, "assigned") \ facts : FALSE
    BY <2>3 DEF Named
  <2>6. Named(facts, "owner") # {} /\ Named(after, "owner") = {} => p.as = "owner" /\ Named(facts, "owner") = {<<"owner", p.of>>}
    BY <1>2, <2>3
  <2> QED BY <1>4, <2>1, <2>4, <2>5, <2>6 DEF Spares
<1> QED BY <1>3, <1>4, GroupPlaces

LEMMA AppSpares ==
  ASSUME NEW p, IsPlan(p), p.area = "apps", NEW at \in Places(p), IsRequest(Program(p)[at]),
         NEW facts, Possible(facts), NEW seen, IsFiniteSet(seen), NEW run, NEW after, after = Changed(p, at, facts, seen, run)
  PROVE  Spares(p, at, facts, seen, after)
<1>1. after = Apply(facts, AppEffect(p, Program(p)[at], facts, seen))
  BY AreaEffect DEF Changed
<1>2. CASE Program(p)[at] = "replaceAssignments"
  <2>1. /\ Named(after, "assigned") = Written(p, seen)
        /\ Named(after, "owner") = Named(facts, "owner")
    BY <1>1, <1>2, Replaced
  <2>5. FirstPage(seen) \subseteq Named(seen, "assigned") /\ (Whole(seen) => FirstPage(seen) = Named(seen, "assigned"))
    BY PageIs
  <2>2. ASSUME ~Deploys(p) PROVE \A f \in AddedBy(p, seen) \cup RemovedBy(p) : f[2] = p.of
    BY <2>2, AddedIs, RemovedIs, AppPlaces
  <2>3. ASSUME NEW f \in Named(facts, "assigned"), f \notin after, f \in seen, Whole(seen), ~Deploys(p) PROVE f[2] = p.of
    <3>1. f \notin Written(p, seen) /\ f \in FirstPage(seen)
      BY <2>1, <2>3, <2>5 DEF Named
    <3>2. f \in RemovedBy(p) \/ \E a \in AddedBy(p, seen) : a[2] = f[2]
      BY <3>1 DEF Written, Merge
    <3> QED BY <2>2, <2>3, <3>2
  <2>4. ASSUME NEW f \in Named(after, "assigned"), f \notin facts, f \notin seen, ~Deploys(p) PROVE f[2] = p.of
    <3>1. f \in Written(p, seen) /\ f \notin FirstPage(seen)
      BY <2>1, <2>4, <2>5 DEF Named
    <3>2. f \in AddedBy(p, seen)
      BY <3>1 DEF Written, Merge
    <3> QED BY <2>2, <2>4, <3>2
  <2> QED BY <2>1, <2>3, <2>4 DEF Spares, IsOwn, Deploys
<1>3. CASE Program(p)[at] # "replaceAssignments"
  <2> DEFINE w == IntentOf(Program(p)[at])
             f == <<w, NewId(facts, w)>>
  <2>1. Deploys(p)
    <3> SUFFICES ASSUME ~Deploys(p) PROVE FALSE
      OBVIOUS
    <3>1. Program(p) = <<"getAssignments", "replaceAssignments">>
      BY AppPlaces
    <3> QED BY <1>3, <3>1 DEF Places, IsRequest, Reads
  <2>2. w \in Words
    <3>1. Program(p)[at] \in {"createRequired", "createAvailable", "createUninstall"}
      BY <1>3, <2>1, DeployPlaces DEF IsRequest, Reads
    <3> QED BY <3>1 DEF IntentOf, Words
  <2>3. after = facts \cup {f} /\ f[1] = w
    BY <1>1, <1>3 DEF AppEffect, Apply, Change
  <2> HIDE DEF f, w
  <2>4. Named(after, "owner") = Named(facts, "owner")
    BY <2>2, <2>3 DEF Named, Words
  <2> QED BY <2>1, <2>4 DEF Spares, IsOwn, Deploys
<1> QED BY <1>2, <1>3

LEMMA RequestSpares ==
  ASSUME NEW p, IsPlan(p), NEW at \in Places(p), IsRequest(Program(p)[at]),
         NEW facts, Possible(facts), NEW seen, IsFiniteSet(seen), NEW run, NEW after, after = Changed(p, at, facts, seen, run)
  PROVE  Spares(p, at, facts, seen, after)
<1>1. CASE p.area = "group"
  BY <1>1, GroupSpares
<1>2. CASE p.area = "apps"
  BY <1>2, AppSpares
<1>3. CASE p.area \notin {"group", "apps"}
  <2>1. Untouched(facts, after)
    BY <1>3, Apart
  <2> QED BY <2>1 DEF Untouched, Spares, Named
<1> QED BY <1>1, <1>2, <1>3

-----------------------------------------------------------------------------
(* The properties *)

LEMMA KeepsItsPromise == ASSUME JobsInv, NEW j \in Handlers, jobs[j].previewed, jobs[j].quiet
  PROVE  /\ jobs[j].pc = "succeeded" /\ ~jobs[j].twice /\ ~jobs[j].blind /\ ~jobs[j].paged =>
               Scope(tenant, jobs[j].promise.scope) = jobs[j].promise.after
         /\ jobs[j].pc = "refused" => jobs[j].promise.refused \/ Nowhere(jobs[j].p)
         /\ jobs[j].promise.refused /\ jobs[j].p.type \notin Warned => jobs[j].sent = {}
<1> DEFINE job == jobs[j]
           p == job.p
<1>1. Good(job, tenant) /\ Shaped(job) /\ Promised(job, tenant) /\ Possible(tenant) /\ IsPlan(p)
  BY JobIs
<1>2. Comes(job, tenant)
  BY <1>1 DEF Promised
<1>3. ASSUME job.pc = "succeeded", ~job.twice, ~job.blind, ~job.paged PROVE Scope(tenant, job.promise.scope) = job.promise.after
  <2>1. CASE Fresh(p)
    BY <1>2, <1>3, <2>1 DEF Comes
  <2>2. CASE ~Fresh(p)
    <3>1. job.quietRun /\ p.type \notin Unprepared
      BY <1>1, <1>3 DEF Shaped, Waiting
    <3>2. Goal(p, tenant, job.run)
      BY <1>1, <1>3, <3>1 DEF Good, OnItsWay
    <3>3. SamePreview(job.promise, Foretold(p, tenant)) /\ (p.type = "mailbox.set-rule" => About(tenant, "rule", p.of) # {})
      BY <1>2, <1>3, <2>2 DEF Comes
    <3>4. Scope(tenant, Foretold(p, tenant).scope) = Foretold(p, tenant).after
      BY <1>1, <2>2, <3>1, <3>2, <3>3, DoneIsShown
    <3> QED BY <3>3, <3>4 DEF SamePreview
  <2> QED BY <2>1, <2>2
<1> QED BY <1>2, <1>3 DEF Comes

\* job-handlers.ts:195, vm-job-handlers.ts:192: a handler that reports success has brought about what
\* was asked for, however often it was repeated, unless somebody else changed the tenant in its run or
\* it succeeded blindly: with an unreadable list, or with an operation that no answer named.
THEOREM DoneWhenReported == TenantSpec => []SuccessIsDone
<1>1. JobsInv => SuccessIsDone
  BY DEF JobsInv, Good, OnItsWay, SuccessIsDone
<1> QED BY <1>1, JobsInvAlways, PTL

\* mailbox-job-handlers.ts:199 and the other previews, code apart from the handlers': what was shown
\* comes about, and a job is refused, having changed nothing, only when its preview has said so; where
\* preview and handler disagree on a refusal, Warned and Nowhere name the jobs, and a list of which only
\* a page was read (paged) or a blind success promise nothing.
THEOREM ComesAsShown == TenantSpec => []PreviewKept
<1>1. JobsInv => PreviewKept
  BY KeepsItsPromise DEF PreviewKept
<1> QED BY <1>1, JobsInvAlways, PTL

LEMMA CountedOwners ==
  ASSUME NEW facts, NEW job, NEW owner, Named(facts, "owner") = {owner}, job.unified, ~LastSeen(job)
  PROVE  Named(job.seen, "owner") # Named(facts, "owner")
<1>1. Cardinality({owner}) = 1
  BY FS_Singleton
<1>2. Cardinality({owner}) <= 1
  BY <1>1
<1> QED BY <1>2 DEF LastSeen

Harmless(j) ==
    /\ \A f \in Named(tenant, "assigned") \ tenant' : IsOwn(jobs[j].p, f) \/ f \notin jobs[j].seen \/ ~Whole(jobs[j].seen)
    /\ \A f \in Named(tenant', "assigned") \ tenant : IsOwn(jobs[j].p, f) \/ f \in jobs[j].seen
    /\ <<"m365">> \in tenant /\ Named(tenant, "owner") # {} /\ Named(tenant', "owner") = {} =>
          ~jobs[j].unified \/ Named(jobs[j].seen, "owner") # Named(tenant, "owner")

LEMMA NothingHarmless == ASSUME UNCHANGED tenant, NEW j PROVE Harmless(j)
BY DEF Harmless, Named

\* Only the job whose step it is moves
LEMMA OthersStay ==
  ASSUME JobsInv, NEW j \in Handlers, NEW k \in Handlers, k # j, NEW x, NEW facts, Turns(j, x) \/ Becomes(j, x, facts)
  PROVE  ~Moved(k)
<1>1. jobs = [i \in Handlers |-> jobs[i]] /\ jobs[k] = [n \in JobFields |-> jobs[k][n]]
  BY JobIs DEF JobsInv
<1>2. CASE Turns(j, x)
  <2>1. jobs'[k] = jobs[k]
    BY <1>1, <1>2 DEF Turns
  <2> QED BY <2>1 DEF Moved
<1>3. CASE Becomes(j, x, facts)
  <2>1. jobs'[k] = jobs[k] \/ jobs'[k] = [jobs[k] EXCEPT !.quiet = FALSE, !.quietRun = FALSE]
    BY <1>3 DEF Becomes
  <2> DEFINE y == [jobs[k] EXCEPT !.quiet = FALSE, !.quietRun = FALSE]
  <2>2. y.pc = jobs[k].pc /\ y.at = jobs[k].at /\ y.sent = jobs[k].sent
    BY <1>1 DEF JobFields
  <2> HIDE DEF y
  <2> QED BY <2>1, <2>2 DEF Moved, y
<1> QED BY <1>2, <1>3

LEMMA RequestHarmless ==
  ASSUME JobsInv, NEW j \in Handlers, Requests(j), tenant' = Apply(tenant, Outcome(j))
  PROVE  Harmless(j)
<1> DEFINE job == jobs[j]
           p == job.p
<1>1. Possible(tenant) /\ Shaped(job) /\ Counted(job) /\ IsPlan(p) /\ job.at \in Places(p)
  BY JobIs
<1>2. IsRequest(Program(p)[job.at]) /\ IsFiniteSet(job.seen)
  BY <1>1 DEF Requests, IsRequest, Step, Shaped
<1>3. tenant' = Changed(p, job.at, tenant, job.seen, job.run)
  BY DEF Changed, Outcome, Step
<1>4. Spares(p, job.at, tenant, job.seen, tenant')
  BY <1>1, <1>2, <1>3, RequestSpares
<1>5. ASSUME Named(tenant, "owner") # {}, Named(tenant', "owner") = {}, job.unified
      PROVE  Named(job.seen, "owner") # Named(tenant, "owner")
  <2>1. p.type = "group.remove" /\ p.as = "owner" /\ job.at = 4 /\ Named(tenant, "owner") = {<<"owner", p.of>>}
    BY <1>4, <1>5 DEF Spares
  <2>2. ~LastSeen(job)
    BY <1>1, <2>1 DEF Counted
  <2> QED BY <1>5, <2>1, <2>2, CountedOwners
<1> QED BY <1>4, <1>5 DEF Harmless, Spares

LEMMA StepHarmless == ASSUME JobsInv, [TenantNext]_tenantVars, NEW k \in Handlers, Moved(k) PROVE Harmless(k)
<1>1. jobs = [i \in Handlers |-> jobs[i]]
  BY DEF JobsInv
<1>2. CASE UNCHANGED tenantVars
  BY <1>2 DEF tenantVars, Moved
<1>3. CASE Portal
  <2>1. jobs'[k] = [jobs[k] EXCEPT !.quiet = FALSE, !.quietRun = FALSE]
    BY <1>3 DEF Portal
  <2> DEFINE y == [jobs[k] EXCEPT !.quiet = FALSE, !.quietRun = FALSE]
  <2>2. y.pc = jobs[k].pc /\ y.at = jobs[k].at /\ y.sent = jobs[k].sent
    BY JobIs DEF JobFields
  <2> HIDE DEF y
  <2> QED BY <2>1, <2>2 DEF Moved, y
<1>4. ASSUME NEW j \in Handlers, Preview(j) \/ Start(j) \/ Ask(j) \/ Rejected(j) \/ Accepted(j) \/ Conflict(j)
                                 \/ WaitEnds(j) \/ WaitTimesOut(j) \/ Repeat(j)
      PROVE  Harmless(k)
  BY <1>4, NothingHarmless DEF Preview, Start, Ask, Rejected, Accepted, Conflict, WaitEnds, WaitTimesOut, Repeat
<1>5. ASSUME NEW j \in Handlers, Requests(j), NEW x, Becomes(j, x, Apply(tenant, Outcome(j))) PROVE Harmless(k)
  <2>1. k = j
    BY <1>5, OthersStay
  <2>2. tenant' = Apply(tenant, Outcome(j))
    BY <1>5 DEF Becomes
  <2> QED BY <1>5, <2>1, <2>2, RequestHarmless
<1>6. ASSUME NEW j \in Handlers, NEW x, Becomes(j, x, tenant) PROVE Harmless(k)
  BY <1>6, NothingHarmless DEF Becomes
<1>7. ASSUME NEW j \in Handlers, Send(j) \/ AnswerLost(j) \/ Fails(j) PROVE Harmless(k)
  BY <1>5, <1>6, <1>7 DEF Send, AnswerLost, Fails
<1>8. ASSUME NEW j \in Handlers, AzureEnds(j) PROVE Harmless(k)
  <2>1. CASE Becomes(j, [jobs[j] EXCEPT !.op = "failed"], tenant)
    BY <1>6, <2>1
  <2>2. ASSUME NEW facts, Becomes(j, [jobs[j] EXCEPT !.op = "done"], facts) PROVE FALSE
    <3>1. k = j
      BY <2>2, OthersStay
    <3> DEFINE y == [jobs[j] EXCEPT !.op = "done"]
    <3>2. y.pc = jobs[j].pc /\ y.at = jobs[j].at /\ y.sent = jobs[j].sent
      BY JobIs DEF JobFields
    <3>3. jobs'[j] = y
      BY <2>2 DEF Becomes
    <3> HIDE DEF y
    <3> QED BY <3>1, <3>2, <3>3 DEF Moved
  <2> QED BY <1>8, <2>1, <2>2 DEF AzureEnds
<1>9. CASE TenantNext
  BY <1>3, <1>4, <1>7, <1>8, <1>9 DEF TenantNext
<1> QED BY <1>2, <1>9

\* app-job-handlers.ts:76, group-job-handlers.ts:66: an assignment the job was not asked for is lost or
\* comes back, and the last owner goes, only when that has changed since the job looked, the list had
\* more than the one page the job has read, or the group was of another kind when it was loaded.
THEOREM HarmsOnlyWhenStale == TenantSpec => OnlyStaleHurts
<1>1. JobsInv /\ [TenantNext]_tenantVars => \A j \in Handlers : Moved(j) => Harmless(j)
  BY StepHarmless
<1> QED BY <1>1, JobsInvAlways, PTL DEF TenantSpec, OnlyStaleHurts, Harmless
=============================================================================
