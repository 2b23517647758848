-------------------------- MODULE BuildQueueProofs --------------------------
(***************************************************************************)
(* Proofs about the build queue.  "Types" is the shape of the state,       *)
(* "Own" ties each worker to the build it was handed, "Done" each success  *)
(* to an upload, "Ready" what was read of the package to its artifact and  *)
(* "Fresh" a claim to a build that cannot expire before its plan is made.  *)
(***************************************************************************)
EXTENDS BuildQueueProps, FiniteSetTheorems, TLAPS

LiveStatuses == {"draft", "installer-uploaded", "queued", "building", "ready", "failed"}
PackageType == [status : LiveStatuses \cup {"deleted"}, type : InstallerTypes, version : Versions,
                installer : BOOLEAN,
                artifact : Versions \cup {None}]
BuildType == [status : Open \cup Closed \cup {"absent"}, worker : Workers \cup {None},
              silent : 0..(StaleAfter + 1)]
CallType == [pc : {"idle", "check", "insert", "mark", "edit", "installer", "artifact", "done"},
             seen : {p \in PackageType : p.status # "deleted"}]

\* A worker has a build while it holds one, a plan while it builds, and
\* something to be proud of only when it reports.
Planned == {"mark_build", "mark_package", "work", "log", "stream"}
Reporting == {"report", "finish", "finish_package"}
WorkerShape == [pc : Holding \cup {"idle", "expire", "take"}, build : Builds \cup {None},
                version : Versions \cup {None}, ok : BOOLEAN, lines : 0..MaxLines, due : Int,
                row : Open \cup Closed \cup {"absent"}]
WorkerType ==
    {r \in WorkerShape : /\ r.pc \in Holding => r.build \in Builds
                         /\ r.pc \in Planned => r.version \in Versions
                         /\ r.ok => r.pc \in Reporting}

PackageOK == pkg \in PackageType
BuildsOK == builds \in [Builds -> BuildType]
CallsOK == calls \in [Calls -> CallType]
WorkersOK == workers \in [Workers -> WorkerType]
HistoryOK == uploaded \subseteq Builds /\ listed \in BOOLEAN /\ faults \in 0..MaxFaults

Types == PackageOK /\ BuildsOK /\ CallsOK /\ WorkersOK /\ HistoryOK

LEMMA BuildIds == Builds \subseteq Nat /\ IsFiniteSet(Builds) /\ None \notin Builds
<1>1. Cardinality(Calls) \in Nat
  BY BuildAssumption, FS_CardinalityType
<1>2. IsFiniteSet(Builds)
  BY <1>1, FS_Interval DEF Builds
<1>3. Builds \subseteq Nat
  BY <1>1 DEF Builds
<1> QED BY <1>2, <1>3, BuildAssumption

LEMMA IdleTypes ==
    /\ NoBuild \in BuildType /\ Queued \in BuildType
    /\ \A type \in InstallerTypes : NewPackage(type) \in PackageType
    /\ Unread \in PackageType /\ Unread.status = "draft"
    /\ IdleCall("idle") \in CallType /\ IdleCall("done") \in CallType
    /\ IdleWorker \in WorkerType
<1>1. NoBuild \in BuildType /\ Queued \in BuildType
  BY BuildAssumption DEF NoBuild, Queued, BuildType, Open
<1>2. /\ \A type \in InstallerTypes : NewPackage(type) \in PackageType
      /\ Unread \in PackageType /\ Unread.status = "draft"
  BY BuildAssumption DEF Unread, NewPackage, InitialStatus, InstallerTypes, PackageType, LiveStatuses
<1>3. IdleCall("idle") \in CallType /\ IdleCall("done") \in CallType
  BY <1>2 DEF IdleCall, CallType
<1>4. IdleWorker \in WorkerType
  BY BuildAssumption DEF IdleWorker, WorkerType, WorkerShape, Holding, Planned, Open
<1> QED BY <1>1, <1>2, <1>3, <1>4

\* What is read of the package is a package, also with a manifest that is edited
LEMMA ViewOK ==
  ASSUME PackageOK
  PROVE  /\ View \in PackageType /\ View.artifact = pkg.artifact
         /\ View.status = "deleted" <=> ~Exists
         /\ View.status = "ready" => pkg.status = "ready"
<1>1. pkg \in PackageType
  BY DEF PackageOK
<1>2. Shown(pkg) \in LiveStatuses \cup {"deleted"}
  BY <1>1 DEF Shown, LiveStatuses, PackageType
<1>3. View \in PackageType /\ View.artifact = pkg.artifact /\ View.status = Shown(pkg)
  BY <1>1, <1>2 DEF View, PackageType
<1> QED BY <1>3 DEF Shown, Exists

LEMMA EditedOK ==
  ASSUME PackageOK, Exists, NEW v \in Versions, NEW type \in Offered
  PROVE  /\ Edited(v, type) \in PackageType /\ Edited(v, type).status # "deleted"
         /\ Edited(v, type).status = "ready" => pkg.status = "ready" \/ Edited(v, type).type = "store"
<1> DEFINE status == IF View.status = "draft" THEN InitialStatus(type) ELSE View.status
           edited == [View EXCEPT !.version = v, !.type = type, !.status = status]
<1>1. View \in PackageType /\ View.status # "deleted" /\ (View.status = "ready" => pkg.status = "ready")
  BY ViewOK
<1>2. type \in InstallerTypes
  BY BuildAssumption
<1>3. InitialStatus(type) \in LiveStatuses /\ (InitialStatus(type) = "ready" => type = "store")
  BY DEF InitialStatus, LiveStatuses
<1>4. status \in LiveStatuses /\ (status = "ready" => pkg.status = "ready" \/ type = "store")
  BY <1>1, <1>3 DEF PackageType
<1>5. Edited(v, type) = edited
  BY <1>1 DEF Edited, PackageType
<1> HIDE DEF status
<1>6. /\ edited \in PackageType /\ edited.status = status /\ edited.type = type
  BY <1>1, <1>2, <1>4 DEF PackageType
<1>7. status # "deleted"
  BY <1>4 DEF LiveStatuses
<1> HIDE DEF edited
<1> QED BY <1>4, <1>5, <1>6, <1>7

LEMMA TypesInit == Init => Types
  BY IdleTypes, BuildAssumption
  DEF Init, Types, PackageOK, BuildsOK, CallsOK, WorkersOK, HistoryOK

-----------------------------------------------------------------------------
(* Each way to change one row keeps the types *)

LEMMA SetPackageOK == ASSUME PackageOK, NEW row \in PackageType, SetPackage(row) PROVE PackageOK'
  BY DEF PackageOK, SetPackage

LEMMA SetBuildOK ==
  ASSUME BuildsOK, NEW b \in Builds, NEW row \in BuildType, SetBuild(b, row) PROVE BuildsOK'
  BY DEF BuildsOK, SetBuild

LEMMA SetBuildEffect ==
  ASSUME BuildsOK, NEW b \in Builds, NEW row, SetBuild(b, row)
  PROVE  /\ \A x \in Builds : x # b => builds'[x] = builds[x]
         /\ builds'[b] \in {builds[b], row}
  BY DEF BuildsOK, SetBuild

LEMMA ReadOK ==
  ASSUME Types, NEW c \in Calls, NEW pc \in {"check", "edit", "installer", "artifact"},
         NEW row \in PackageType, row.status # "deleted", Read(c, pc, row)
  PROVE  Types'
<1>1. [pc |-> pc, seen |-> row] \in CallType
  BY DEF CallType
<1> QED BY <1>1 DEF Types, PackageOK, BuildsOK, CallsOK, WorkersOK, HistoryOK, Read

LEMMA GoOK ==
  ASSUME CallsOK, NEW c \in Calls, NEW pc \in {"insert", "mark"}, Go(c, pc) PROVE CallsOK'
<1>1. [calls[c] EXCEPT !.pc = pc] \in CallType
  BY DEF CallsOK, CallType
<1> QED BY <1>1 DEF CallsOK, Go

LEMMA EndOK == ASSUME CallsOK, NEW c \in Calls, End(c) PROVE CallsOK'
  BY IdleTypes DEF CallsOK, End

LEMMA RestOK == ASSUME WorkersOK, NEW w \in Workers, Rest(w) PROVE WorkersOK'
  BY IdleTypes DEF WorkersOK, Rest

LEMMA WorkerSet ==
  ASSUME WorkersOK, NEW w \in Workers, NEW r \in WorkerType, workers' = [workers EXCEPT ![w] = r]
  PROVE  WorkersOK'
  BY DEF WorkersOK

\* Within a build a worker only moves on
LEMMA WorkerGoOK ==
  ASSUME WorkersOK, NEW w \in Workers, NEW pc,
         \/ workers[w].pc \in Planned /\ pc \in Planned
         \/ workers[w].pc \in Reporting /\ pc \in Reporting,
         WorkerGo(w, pc)
  PROVE  WorkersOK'
<1>1. workers[w] \in WorkerType
  BY DEF WorkersOK
<1>2. [workers[w] EXCEPT !.pc = pc] \in WorkerType
  BY <1>1 DEF WorkerType, WorkerShape, Holding, Planned, Reporting
<1> QED BY <1>2, WorkerSet DEF WorkerGo

LEMMA ReportOK ==
  ASSUME WorkersOK, NEW w \in Workers, NEW ok \in BOOLEAN, workers[w].pc \in Holding, Report(w, ok)
  PROVE  WorkersOK'
<1>1. workers[w] \in WorkerType
  BY DEF WorkersOK
<1>2. [workers[w] EXCEPT !.pc = "report", !.ok = ok] \in WorkerType
  BY <1>1 DEF WorkerType, WorkerShape, Holding, Planned, Reporting
<1>3. workers' = [workers EXCEPT ![w] = [workers[w] EXCEPT !.pc = "report", !.ok = ok]]
  BY <1>1 DEF Report, WorkersOK
<1> QED BY <1>2, <1>3, WorkerSet

\* What a worker holds is a build
LEMMA MineOK ==
  ASSUME Types, NEW w \in Workers, workers[w].pc \in Holding
  PROVE  Mine(w) \in Builds /\ builds[Mine(w)] \in BuildType
  BY DEF Types, WorkersOK, WorkerType, BuildsOK, Mine

-----------------------------------------------------------------------------
(* Every action keeps the types *)

LEMMA RequestTypes == ASSUME Types, NEW c \in Calls, Request(c) PROVE Types'
<1>1. CASE EnqueueRead(c)
  BY <1>1, IdleTypes, ReadOK DEF EnqueueRead
<1>2. pkg \in PackageType /\ (Exists => pkg.status # "deleted")
  BY DEF Types, PackageOK, Exists
<1>3. CASE EditRead(c)
  <2>1. PICK v \in Versions, type \in Offered : Read(c, "edit", Edited(v, type))
    BY <1>3 DEF EditRead
  <2>2. Exists
    BY <2>1 DEF Read
  <2> QED BY <2>1, <2>2, EditedOK, ReadOK DEF Types
<1>4. CASE InstallerRead(c) \/ ArtifactRead(c)
  <2>1. Exists /\ (Read(c, "installer", View) \/ Read(c, "artifact", View))
    BY <1>4 DEF InstallerRead, ArtifactRead, Read
  <2> QED BY <2>1, ViewOK, ReadOK DEF Types
<1>5. CASE Delete(c)
  <2>1. PackageOK'
    <3>1. [Unread EXCEPT !.status = "deleted"] \in PackageType
      BY IdleTypes DEF PackageType
    <3> QED BY <3>1, <1>5 DEF Delete, PackageOK
  <2>2. BuildsOK' /\ CallsOK'
    BY <1>5, IdleTypes, EndOK DEF Delete, Types, BuildsOK
  <2> QED BY <1>5, <2>1, <2>2 DEF Delete, Types, WorkersOK, HistoryOK
<1> QED BY <1>1, <1>3, <1>4, <1>5 DEF Request

LEMMA CallStepTypes == ASSUME Types, NEW c \in Calls, CallStep(c) \/ CallFails(c) PROVE Types'
<1> USE DEF Types
<1>0. pkg \in PackageType /\ calls[c].seen \in PackageType /\ calls[c].seen.status # "deleted"
  BY DEF PackageOK, CallsOK, CallType
<1>1. CASE EnqueueCheck(c)
  BY <1>1, GoOK, EndOK DEF EnqueueCheck, PackageOK, BuildsOK, WorkersOK, HistoryOK
<1>2. CASE EnqueueInsert(c)
  <2>1. BuildsOK'
    BY <1>2, IdleTypes DEF EnqueueInsert, BuildsOK
  <2>2. CallsOK'
    BY <1>2, GoOK, EndOK DEF EnqueueInsert
  <2> QED BY <1>2, <2>1, <2>2 DEF EnqueueInsert, PackageOK, WorkersOK, HistoryOK
<1>3. CASE EnqueueMark(c)
  <2>1. [pkg EXCEPT !.status = "queued"] \in PackageType
    BY <1>0 DEF PackageType, LiveStatuses
  <2> QED BY <2>1, <1>3, SetPackageOK, EndOK DEF EnqueueMark, BuildsOK, WorkersOK, HistoryOK
<1>4. CASE EditWrite(c)
  <2>1. [pkg EXCEPT !.version = calls[c].seen.version, !.type = calls[c].seen.type,
                    !.status = calls[c].seen.status] \in PackageType
    BY <1>0 DEF PackageType
  <2>2. HistoryOK'
    BY <1>4 DEF EditWrite, HistoryOK
  <2> QED BY <2>1, <2>2, <1>4, SetPackageOK, EndOK DEF EditWrite, BuildsOK, WorkersOK
<1>5. CASE InstallerPatch(c)
  <2>1. PICK manifest \in {pkg, calls[c].seen} :
          SetPackage([pkg EXCEPT !.installer = TRUE,
                                 !.version = manifest.version, !.type = manifest.type,
                                 !.status = IF calls[c].seen.status \in {"draft", "failed"}
                                            THEN "installer-uploaded" ELSE @])
    BY <1>5 DEF InstallerPatch
  <2>2. [pkg EXCEPT !.installer = TRUE,
                    !.version = manifest.version, !.type = manifest.type,
                    !.status = IF calls[c].seen.status \in {"draft", "failed"}
                               THEN "installer-uploaded" ELSE @] \in PackageType
    BY <1>0 DEF PackageType, LiveStatuses
  <2> QED BY <2>1, <2>2, <1>5, SetPackageOK, EndOK DEF InstallerPatch, BuildsOK, WorkersOK, HistoryOK
<1>6. CASE ArtifactPatch(c)
  <2>1. [pkg EXCEPT !.artifact = calls[c].seen.version, !.status = "ready"] \in PackageType
    BY <1>0 DEF PackageType, LiveStatuses
  <2> QED BY <2>1, <1>6, SetPackageOK, EndOK DEF ArtifactPatch, BuildsOK, WorkersOK, HistoryOK
<1>7. CASE CallFails(c)
  <2>1. HistoryOK'
    BY <1>7, BuildAssumption DEF CallFails, HistoryOK
  <2> QED BY <2>1, <1>7, EndOK DEF CallFails, PackageOK, BuildsOK, WorkersOK
<1> QED BY <1>1, <1>2, <1>3, <1>4, <1>5, <1>6, <1>7 DEF CallStep

\* The steps of a worker that leave everything but its own record alone
LEMMA OnlyWorkers ==
  ASSUME Types, UNCHANGED <<pkg, builds, calls, uploaded, listed, faults>>, WorkersOK' PROVE Types'
  BY DEF Types, PackageOK, BuildsOK, CallsOK, HistoryOK

LEMMA WaitingType ==
  ASSUME NEW old \in WorkerType, old.pc \in {"idle", "expire"},
         NEW pc \in {"expire", "take"}, NEW due \in Int
  PROVE  [old EXCEPT !.pc = pc, !.due = due] \in WorkerType
  BY DEF WorkerType, WorkerShape, Holding, Planned, Reporting

LEMMA ClaimTypes ==
  ASSUME Types, NEW w \in Workers, Poll(w) \/ ExpirePackage(w) \/ Take(w) \/ Plan(w) PROVE Types'
<1> USE DEF Types
<1>0. workers[w] \in WorkerType /\ workers[w] \in WorkerShape /\ pkg \in PackageType
  BY DEF WorkersOK, WorkerType, PackageOK
<1>1. CASE Poll(w)
  <2> DEFINE lost == {b \in Builds : Stale(b)}
             next == IF lost = {} THEN "take" ELSE "expire"
             due == Cardinality(lost)
             r == [workers[w] EXCEPT !.pc = next, !.due = due]
  <2>1. due \in Int
    BY BuildIds, FS_Subset, FS_CardinalityType
  <2>2. r \in WorkerType
    <3> workers[w].pc = "idle" /\ next \in {"expire", "take"}
      BY <1>1 DEF Poll, WorkerAt
    <3> HIDE DEF next, lost, due
    <3> QED BY <2>1, <1>0, WaitingType
  <2>3. workers' = [workers EXCEPT ![w] = r]
    BY <1>1 DEF Poll, WorkersOK
  <2>4. WorkersOK'
    BY <2>2, <2>3, WorkerSet
  <2>5. BuildsOK'
    <3>1. \A b \in Builds : [builds[b] EXCEPT !.status = "failed"] \in BuildType
      BY DEF BuildsOK, BuildType, Closed
    <3> QED BY <3>1, <1>1 DEF Poll, BuildsOK
  <2>6. UNCHANGED <<pkg, calls, uploaded, listed, faults>>
    BY <1>1 DEF Poll
  <2> QED BY <2>4, <2>5, <2>6 DEF PackageOK, CallsOK, HistoryOK
<1>2. CASE ExpirePackage(w)
  <2> DEFINE next == IF workers[w].due > 1 THEN "expire" ELSE "take"
             r == [workers[w] EXCEPT !.pc = next, !.due = workers[w].due - 1]
  <2>1. r \in WorkerType
    <3> workers[w].pc = "expire" /\ next \in {"expire", "take"}
      BY <1>2 DEF ExpirePackage, WorkerAt
    <3> workers[w].due - 1 \in Int
      BY <1>0 DEF WorkerShape
    <3> HIDE DEF next
    <3> QED BY <1>0, WaitingType
  <2>2. workers' = [workers EXCEPT ![w] = r]
    BY <1>2 DEF ExpirePackage, WorkersOK
  <2>3. [pkg EXCEPT !.status = "failed"] \in PackageType
    BY <1>0 DEF PackageType, LiveStatuses
  <2>4. WorkersOK'
    BY <2>1, <2>2, WorkerSet
  <2>5. PackageOK' /\ UNCHANGED <<builds, calls, uploaded, listed, faults>>
    BY <1>2, <2>3, SetPackageOK DEF ExpirePackage
  <2> QED BY <2>4, <2>5 DEF BuildsOK, CallsOK, HistoryOK
<1>3. CASE Take(w)
  <2>1. CASE Rest(w) /\ UNCHANGED builds
    BY <1>3, <2>1, RestOK, OnlyWorkers DEF Take
  <2>2. ASSUME NEW b \in Builds,
               builds' = [builds EXCEPT ![b] = [status |-> "claimed", worker |-> w, silent |-> 0]],
               workers' = [workers EXCEPT ![w].pc = "plan", ![w].build = b, ![w].lines = MaxLines]
        PROVE  BuildsOK' /\ WorkersOK'
    <3>1. [status |-> "claimed", worker |-> w, silent |-> 0] \in BuildType
      BY BuildAssumption DEF BuildType, Open
    <3>2. [workers[w] EXCEPT !.pc = "plan", !.build = b, !.lines = MaxLines] \in WorkerType
      <4>1. MaxLines \in 0..MaxLines
        BY BuildAssumption
      <4>2. workers[w].pc = "take" /\ ~workers[w].ok
        BY <1>0, <1>3 DEF Take, WorkerAt, WorkerType, Reporting
      <4> QED BY <1>0, <4>1, <4>2 DEF WorkerType, WorkerShape, Holding, Planned, Reporting
    <3>3. workers' = [workers EXCEPT ![w] = [workers[w] EXCEPT !.pc = "plan", !.build = b, !.lines = MaxLines]]
      BY <2>2 DEF WorkersOK
    <3> QED BY <3>1, <3>2, <3>3, <2>2, WorkerSet DEF BuildsOK
  <2>3. CASE BuildsOK' /\ WorkersOK'
    BY <1>3, <2>3 DEF Take, PackageOK, CallsOK, HistoryOK
  <2> QED BY <1>3, <2>1, <2>2, <2>3 DEF Take
<1>4. CASE Plan(w)
  <2>1. workers[w].pc = "plan"
    BY <1>4 DEF Plan, WorkerAt
  <2>2. CASE Report(w, FALSE)
    BY <1>4, <2>1, <2>2, ReportOK, OnlyWorkers DEF Plan, Holding
  <2>3. CASE workers' = [workers EXCEPT ![w].pc = "mark_build", ![w].version = pkg.version]
    <3>1. [workers[w] EXCEPT !.pc = "mark_build", !.version = pkg.version] \in WorkerType
      BY <1>0, <2>1 DEF WorkerType, WorkerShape, Holding, Planned, Reporting, PackageType
    <3>2. workers' = [workers EXCEPT ![w] = [workers[w] EXCEPT !.pc = "mark_build", !.version = pkg.version]]
      BY <2>3 DEF WorkersOK
    <3> QED BY <1>4, <3>1, <3>2, WorkerSet, OnlyWorkers DEF Plan
  <2> QED BY <1>4, <2>2, <2>3 DEF Plan
<1> QED BY <1>1, <1>2, <1>3, <1>4

LEMMA WorkTypes ==
  ASSUME Types, NEW w \in Workers,
         \/ MarkBuild(w) \/ MarkPackage(w) \/ LogRead(w) \/ LogWrite(w)
         \/ BuildFails(w) \/ UploadBegin(w) \/ UploadPatch(w)
  PROVE  Types'
<1> USE DEF Types
<1>0. workers[w] \in WorkerType /\ pkg \in PackageType
  BY DEF WorkersOK, PackageOK
<1>1. CASE MarkBuild(w)
  <2>1. workers[w].pc = "mark_build"
    BY <1>1 DEF MarkBuild, WorkerAt
  <2>2. [builds[Mine(w)] EXCEPT !.status = "building"] \in BuildType
    BY <2>1, MineOK DEF BuildType, Open, Holding
  <2>3. BuildsOK'
    BY <1>1, <2>1, <2>2, MineOK, SetBuildOK DEF MarkBuild, Holding
  <2>4. WorkersOK'
    BY <1>1, <2>1, WorkerGoOK DEF MarkBuild, Planned
  <2> QED BY <1>1, <2>3, <2>4 DEF MarkBuild, PackageOK, CallsOK, HistoryOK
<1>2. CASE MarkPackage(w)
  <2>1. [pkg EXCEPT !.status = "building"] \in PackageType
    BY <1>0 DEF PackageType, LiveStatuses
  <2>2. WorkersOK'
    BY <1>2, WorkerGoOK DEF MarkPackage, WorkerAt, Planned
  <2> QED BY <1>2, <2>1, <2>2, SetPackageOK DEF MarkPackage, BuildsOK, CallsOK, HistoryOK
<1>3. CASE LogRead(w)
  <2>1. PICK pc \in {"log", "work"} :
          workers' = [workers EXCEPT ![w] = [workers[w] EXCEPT !.lines = @ - 1, !.pc = pc]]
    BY <1>3 DEF LogRead, WorkersOK
  <2>2. workers[w].pc = "work" /\ workers[w].lines > 0
    BY <1>3 DEF LogRead, WorkerAt
  <2>3. [workers[w] EXCEPT !.lines = @ - 1, !.pc = pc] \in WorkerType
    <3>1. workers[w].lines - 1 \in 0..MaxLines
      BY <1>0, <2>2, BuildAssumption DEF WorkerType, WorkerShape
    <3> QED BY <1>0, <2>2, <3>1 DEF WorkerType, WorkerShape, Holding, Planned, Reporting
  <2>4. UNCHANGED <<pkg, builds, calls, uploaded, listed, faults>>
    BY <1>3 DEF LogRead
  <2>5. WorkersOK'
    BY <2>1, <2>3, WorkerSet
  <2> QED BY <2>4, <2>5, OnlyWorkers
<1>4. CASE LogWrite(w)
  <2>1. workers[w].pc = "log"
    BY <1>4 DEF LogWrite, WorkerAt
  <2>2. [builds[Mine(w)] EXCEPT !.silent = 0] \in BuildType
    BY <2>1, MineOK, BuildAssumption DEF BuildType, Holding
  <2>3. BuildsOK'
    BY <1>4, <2>1, <2>2, MineOK, SetBuildOK DEF LogWrite, Holding
  <2>4. WorkersOK'
    BY <1>4, <2>1, WorkerGoOK DEF LogWrite, Planned
  <2> QED BY <1>4, <2>3, <2>4 DEF LogWrite, PackageOK, CallsOK, HistoryOK
<1>5. CASE BuildFails(w)
  BY <1>5, ReportOK, OnlyWorkers DEF BuildFails, WorkerAt, Holding
<1>6. CASE UploadBegin(w)
  <2>1. workers[w].pc = "work"
    BY <1>6 DEF UploadBegin, WorkerAt
  <2>2. WorkersOK'
    BY <1>6, <2>1, ReportOK, WorkerGoOK DEF UploadBegin, Holding, Planned
  <2> QED BY <1>6, <2>2, OnlyWorkers DEF UploadBegin
<1>7. CASE UploadPatch(w)
  <2>1. workers[w].pc = "stream"
    BY <1>7 DEF UploadPatch, WorkerAt
  <2>2. [pkg EXCEPT !.artifact = workers[w].version, !.status = "ready"] \in PackageType
    BY <1>0, <2>1 DEF PackageType, LiveStatuses, WorkerType, Planned
  <2>3. PackageOK'
    BY <1>7, <2>2, SetPackageOK DEF UploadPatch
  <2>4. WorkersOK'
    BY <1>7, <2>1, ReportOK DEF UploadPatch, Holding, Exists
  <2>5. uploaded' \subseteq Builds
    BY <1>7, <2>1, MineOK DEF UploadPatch, Holding, HistoryOK
  <2> QED BY <1>7, <2>3, <2>4, <2>5 DEF UploadPatch, BuildsOK, CallsOK, HistoryOK
<1> QED BY <1>1, <1>2, <1>3, <1>4, <1>5, <1>6, <1>7

LEMMA ReportTypes ==
  ASSUME Types, NEW w \in Workers,
         FinishRead(w) \/ FinishBuild(w) \/ FinishPackage(w) \/ WorkerFails(w)
  PROVE  Types'
<1> USE DEF Types
<1>0. workers[w] \in WorkerType /\ pkg \in PackageType
  BY DEF WorkersOK, PackageOK
<1>1. CASE FinishRead(w)
  <2>1. workers[w].pc = "report"
    BY <1>1 DEF FinishRead, WorkerAt
  <2>2. CASE Reportable(w)
    <3> DEFINE ok == Succeeds(workers[w].ok)
               row == builds[Mine(w)].status
               r == [workers[w] EXCEPT !.pc = "finish", !.ok = ok, !.row = row]
    <3>1. ok \in BOOLEAN /\ row \in Open \cup Closed \cup {"absent"}
      BY <2>1, MineOK DEF Holding, BuildType, Succeeds
    <3>2. workers' = [workers EXCEPT ![w] = r]
      BY <1>1, <2>2 DEF FinishRead, WorkersOK
    <3>3. r \in WorkerType
      <4> HIDE DEF ok, row
      <4> QED BY <1>0, <2>1, <3>1 DEF WorkerType, WorkerShape, Holding, Planned, Reporting
    <3>4. UNCHANGED <<pkg, builds, calls, uploaded, listed, faults>>
      BY <1>1 DEF FinishRead
    <3>5. WorkersOK'
      BY <3>2, <3>3, WorkerSet
    <3> QED BY <3>4, <3>5, OnlyWorkers
  <2>3. CASE ~Reportable(w)
    BY <1>1, <2>3, RestOK, OnlyWorkers DEF FinishRead
  <2> QED BY <2>2, <2>3
<1>2. CASE FinishBuild(w)
  <2>1. workers[w].pc = "finish"
    BY <1>2 DEF FinishBuild, WorkerAt
  <2>2. [builds[Mine(w)] EXCEPT !.status = IF workers[w].ok THEN "succeeded" ELSE "failed"] \in BuildType
    BY <2>1, MineOK DEF BuildType, Closed, Holding
  <2>3. BuildsOK'
    BY <1>2, <2>1, <2>2, MineOK, SetBuildOK DEF FinishBuild, Holding
  <2>4. WorkersOK'
    BY <1>2, <2>1, WorkerGoOK DEF FinishBuild, Reporting
  <2> QED BY <1>2, <2>3, <2>4 DEF FinishBuild, PackageOK, CallsOK, HistoryOK
<1>3. CASE FinishPackage(w)
  <2>1. [pkg EXCEPT !.status = IF workers[w].ok THEN "ready" ELSE "failed"] \in PackageType
    BY <1>0 DEF PackageType, LiveStatuses
  <2> QED BY <2>1, <1>3, SetPackageOK, RestOK DEF FinishPackage, BuildsOK, CallsOK, HistoryOK
<1>4. CASE WorkerFails(w)
  <2>1. HistoryOK'
    BY <1>4, BuildAssumption DEF WorkerFails, HistoryOK
  <2>2. WorkersOK'
    BY <1>4, RestOK, ReportOK, WorkerGoOK DEF WorkerFails, WorkerAt, Holding, Planned
  <2> QED BY <1>4, <2>1, <2>2 DEF WorkerFails, PackageOK, BuildsOK, CallsOK
<1> QED BY <1>1, <1>2, <1>3, <1>4

LEMMA TickTypes == ASSUME Types, Tick PROVE Types'
<1>1. \A b \in Builds : builds[b].silent <= StaleAfter => [builds[b] EXCEPT !.silent = @ + 1] \in BuildType
  BY BuildAssumption DEF Types, BuildsOK, BuildType
<1>2. BuildsOK'
  BY <1>1 DEF Tick, Types, BuildsOK
<1> QED BY <1>2 DEF Tick, Types, PackageOK, CallsOK, WorkersOK, HistoryOK

\* A step of a worker or of the handler that serves it, split as the lemmas are
LEMMA WorkerSteps ==
  ASSUME NEW w \in Workers, WorkerStep(w) \/ ServeStep(w) \/ WorkerFails(w)
  PROVE  \/ Poll(w) \/ ExpirePackage(w) \/ Take(w) \/ Plan(w)
         \/ MarkBuild(w) \/ MarkPackage(w) \/ LogRead(w) \/ LogWrite(w)
         \/ BuildFails(w) \/ UploadBegin(w) \/ UploadPatch(w)
         \/ FinishRead(w) \/ FinishBuild(w) \/ FinishPackage(w) \/ WorkerFails(w)
  BY DEF WorkerStep, ServeStep

LEMMA TypesStep == Types /\ [Next]_vars => Types'
<1> SUFFICES ASSUME Types, [Next]_vars PROVE Types'
  OBVIOUS
<1>1. CASE Next
  BY <1>1, RequestTypes, CallStepTypes, WorkerSteps, ClaimTypes, WorkTypes, ReportTypes, TickTypes DEF Next
<1>2. CASE UNCHANGED vars
  BY <1>2 DEF vars, Types, PackageOK, BuildsOK, CallsOK, WorkersOK, HistoryOK
<1> QED BY <1>1, <1>2

LEMMA TypesAlways == Spec => []Types
  BY TypesInit, TypesStep, PTL DEF Spec

-----------------------------------------------------------------------------
(* What the steps that write several fields of a worker do to it *)

LEMMA TakeEffect ==
  ASSUME Types, NEW w \in Workers, Take(w)
  PROVE  \/ Rest(w) /\ UNCHANGED builds
         \/ \E b \in Builds :
               /\ builds[b].status = "queued"
               /\ builds' = [builds EXCEPT ![b] = [status |-> "claimed", worker |-> w, silent |-> 0]]
               /\ workers'[w].pc = "plan" /\ workers'[w].build = b /\ workers'[w].ok = workers[w].ok
<1>1. workers \in [Workers -> WorkerShape]
  BY DEF Types, WorkersOK, WorkerType
<1>2. ASSUME NEW b \in Builds,
             workers' = [workers EXCEPT ![w].pc = "plan", ![w].build = b, ![w].lines = MaxLines]
      PROVE  workers'[w].pc = "plan" /\ workers'[w].build = b /\ workers'[w].ok = workers[w].ok
  <2> DEFINE r == [workers[w] EXCEPT !.pc = "plan", !.build = b, !.lines = MaxLines]
  <2>1. r.pc = "plan" /\ r.build = b /\ r.ok = workers[w].ok
    BY <1>1 DEF WorkerShape
  <2>2. workers'[w] = r
    BY <1>1, <1>2
  <2> QED BY <2>1, <2>2
<1> QED BY <1>2 DEF Take, First, Claimable

LEMMA PlanEffect ==
  ASSUME Types, NEW w \in Workers, Plan(w)
  PROVE  \/ Report(w, FALSE)
         \/ workers'[w].pc = "mark_build" /\ workers'[w].build = workers[w].build /\ workers'[w].ok = workers[w].ok
<1> DEFINE r == [workers[w] EXCEPT !.pc = "mark_build", !.version = pkg.version]
<1>1. workers \in [Workers -> WorkerShape]
  BY DEF Types, WorkersOK, WorkerType
<1>2. r.pc = "mark_build" /\ r.build = workers[w].build /\ r.ok = workers[w].ok
  BY <1>1 DEF WorkerShape
<1>3. Report(w, FALSE) \/ workers'[w] = r
  BY <1>1 DEF Plan
<1> QED BY <1>2, <1>3

LEMMA LogReadEffect ==
  ASSUME Types, NEW w \in Workers, LogRead(w)
  PROVE  workers'[w].pc \in {"log", "work"} /\ workers'[w].build = workers[w].build /\ workers'[w].ok = workers[w].ok
<1>1. workers \in [Workers -> WorkerShape]
  BY DEF Types, WorkersOK, WorkerType
<1>2. PICK pc \in {"log", "work"} : workers'[w] = [workers[w] EXCEPT !.lines = @ - 1, !.pc = pc]
  BY <1>1 DEF LogRead
<1> DEFINE r == [workers[w] EXCEPT !.lines = @ - 1, !.pc = pc]
<1>3. r.pc = pc /\ r.build = workers[w].build /\ r.ok = workers[w].ok
  BY <1>1 DEF WorkerShape
<1> QED BY <1>2, <1>3

LEMMA FinishReadEffect ==
  ASSUME Types, NEW w \in Workers, FinishRead(w)
  PROVE  \/ Rest(w)
         \/ /\ Reportable(w)
            /\ workers'[w].pc = "finish" /\ workers'[w].build = workers[w].build
            /\ workers'[w].row = builds[Mine(w)].status
            /\ workers'[w].ok => workers[w].ok /\ pkg.artifact # None
<1> DEFINE ok == Succeeds(workers[w].ok)
           row == builds[Mine(w)].status
           r == [workers[w] EXCEPT !.pc = "finish", !.ok = ok, !.row = row]
<1>1. workers \in [Workers -> WorkerShape]
  BY DEF Types, WorkersOK, WorkerType
<1>2. r.pc = "finish" /\ r.build = workers[w].build /\ r.ok = ok /\ r.row = row
  <2> HIDE DEF ok, row
  <2> QED BY <1>1 DEF WorkerShape
<1>3. Rest(w) \/ (Reportable(w) /\ workers'[w] = r)
  BY <1>1 DEF FinishRead
<1> QED BY <1>2, <1>3 DEF Succeeds

LEMMA OthersStay ==
  ASSUME Types, NEW w \in Workers, WorkerStep(w) \/ ServeStep(w) \/ WorkerFails(w)
  PROVE  /\ \A v \in Workers : v # w => workers'[v] = workers[v]
         /\ UNCHANGED calls
<1>1. workers \in [Workers -> WorkerType]
  BY DEF Types, WorkersOK
<1>2. \A v \in Workers : v # w => workers'[v] = workers[v]
  BY <1>1 DEF WorkerStep, ServeStep, WorkerFails, Poll, ExpirePackage, Take, Plan, MarkBuild, MarkPackage,
       LogRead, LogWrite, BuildFails, UploadBegin, UploadPatch, FinishRead, FinishBuild, FinishPackage,
       Rest, Report, WorkerGo
<1>3. UNCHANGED calls
  BY DEF WorkerStep, ServeStep, WorkerFails, Poll, ExpirePackage, Take, Plan, MarkBuild, MarkPackage,
       LogRead, LogWrite, BuildFails, UploadBegin, UploadPatch, FinishRead, FinishBuild, FinishPackage
<1> QED BY <1>2, <1>3

-----------------------------------------------------------------------------
(* A package exists until it is deleted *)

LEMMA SetKeepsExists ==
  ASSUME NEW row, row.status # "deleted" \/ row = pkg, SetPackage(row) PROVE Exists' = Exists
  BY DEF SetPackage, Exists

LEMMA CallsKeepExists ==
  ASSUME Types, NEW c \in Calls, Request(c) \/ CallStep(c) \/ CallFails(c), ~Delete(c)
  PROVE  Exists' = Exists
<1>0. pkg \in PackageType /\ calls[c].seen.status # "deleted"
  BY DEF Types, PackageOK, CallsOK, CallType
<1>1. CASE EnqueueMark(c)
  BY <1>0, <1>1, SetKeepsExists DEF EnqueueMark, PackageType
<1>2. CASE EditWrite(c)
  BY <1>0, <1>2, SetKeepsExists DEF EditWrite, PackageType
<1>3. CASE InstallerPatch(c)
  BY <1>0, <1>3 DEF InstallerPatch, SetPackage, PackageType, Exists
<1>4. CASE ArtifactPatch(c)
  BY <1>0, <1>4, SetKeepsExists DEF ArtifactPatch, PackageType
<1>5. CASE UNCHANGED pkg
  BY <1>5 DEF Exists
<1> QED BY <1>1, <1>2, <1>3, <1>4, <1>5
        DEF Request, CallStep, EnqueueRead, EditRead, InstallerRead, ArtifactRead, Read,
            EnqueueCheck, EnqueueInsert, CallFails

LEMMA WorkersKeepExists ==
  ASSUME Types, NEW w \in Workers, WorkerStep(w) \/ ServeStep(w) \/ WorkerFails(w)
  PROVE  Exists' = Exists
<1>0. pkg \in PackageType
  BY DEF Types, PackageOK
<1>1. CASE ExpirePackage(w)
  BY <1>0, <1>1, SetKeepsExists DEF ExpirePackage, PackageType
<1>2. CASE MarkPackage(w)
  BY <1>0, <1>2, SetKeepsExists DEF MarkPackage, PackageType
<1>3. CASE UploadPatch(w)
  BY <1>0, <1>3, SetKeepsExists DEF UploadPatch, PackageType
<1>4. CASE FinishPackage(w)
  BY <1>0, <1>4, SetKeepsExists DEF FinishPackage, PackageType
<1>5. CASE UNCHANGED pkg
  BY <1>5 DEF Exists
<1> QED BY <1>1, <1>2, <1>3, <1>4, <1>5
        DEF WorkerStep, ServeStep, Poll, Take, Plan, MarkBuild, LogRead, LogWrite, BuildFails,
            UploadBegin, FinishRead, FinishBuild, WorkerFails

\* Requests leave the workers alone, and the builds but for two of their steps
LEMMA CallsLeaveWorkers ==
  ASSUME NEW c \in Calls, Request(c) \/ CallStep(c) \/ CallFails(c)
  PROVE  /\ UNCHANGED <<workers, uploaded>>
         /\ EnqueueInsert(c) \/ Delete(c) \/ UNCHANGED builds
  BY DEF Request, CallStep, EnqueueRead, EditRead, InstallerRead, ArtifactRead, Read, Delete,
         EnqueueCheck, EnqueueInsert, EnqueueMark, EditWrite, InstallerPatch, ArtifactPatch, CallFails

-----------------------------------------------------------------------------
(* Builds belong to their workers *)

\* A build that is not waiting names its worker, nothing is left of the builds
\* of a deleted package, and what a worker holds is its own and its alone.
Own ==
    /\ \A b \in Builds : builds[b].status \in Held \cup Closed <=> builds[b].worker # None
    /\ ~Exists => \A b \in Builds : builds[b].status = "absent"
    /\ Exists => \A w \in Workers : workers[w].pc \in Holding => builds[Mine(w)].worker = w
    /\ ExclusiveClaim

LEMMA OwnInit == Init => Own
  BY BuildAssumption DEF Init, Own, ExclusiveClaim, NoBuild, IdleWorker, NewPackage, InitialStatus, Exists, Held, Closed, Holding

\* Builds keep their worker and are not reborn ...
BuildsKept ==
    \A b \in Builds : /\ builds'[b].worker = builds[b].worker
                      /\ builds'[b].status \in Held \cup Closed <=> builds[b].status \in Held \cup Closed
                      /\ builds[b].status = "absent" => builds'[b].status = "absent"
\* ... and a worker keeps the build it holds, or lets it go.
ClaimsKept ==
    \A w \in Workers : workers'[w].pc \in Holding =>
        workers[w].pc \in Holding /\ workers'[w].build = workers[w].build

LEMMA OwnKept ==
  ASSUME Types, Own, BuildsKept, ClaimsKept, Exists' = Exists PROVE Own'
<1>1. \A b \in Builds : builds'[b].status \in Held \cup Closed <=> builds'[b].worker # None
  BY DEF Own, BuildsKept
<1>2. ~Exists' => \A b \in Builds : builds'[b].status = "absent"
  BY DEF Own, BuildsKept
<1>3. ASSUME Exists', NEW w \in Workers, workers'[w].pc \in Holding PROVE builds'[workers'[w].build].worker = w
  <2>1. workers[w].pc \in Holding /\ workers'[w].build = workers[w].build
    BY <1>3 DEF ClaimsKept
  <2> QED BY <1>3, <2>1, MineOK DEF Own, Mine, BuildsKept
<1>4. ExclusiveClaim'
  BY DEF Own, ExclusiveClaim, ClaimsKept
<1> QED BY <1>1, <1>2, <1>3, <1>4 DEF Own, Mine

LEMMA WorkerKeepsBuilds ==
  ASSUME Types, Own, NEW w \in Workers,
         WorkerStep(w) \/ ServeStep(w) \/ WorkerFails(w), ~Take(w)
  PROVE  BuildsKept
<1>0. builds \in [Builds -> BuildType]
  BY DEF Types, BuildsOK
<1>1. CASE Poll(w)
  BY <1>0, <1>1 DEF Poll, Stale, BuildsKept, BuildType, Held, Closed
<1>2. ASSUME workers[w].pc \in Holding, NEW status \in Held \cup Closed,
             SetBuild(Mine(w), [builds[Mine(w)] EXCEPT !.status = status])
      PROVE  BuildsKept
  <2>1. Mine(w) \in Builds /\ builds[Mine(w)] \in BuildType
    BY <1>2, MineOK
  <2>2. CASE builds[Mine(w)].status = "absent"
    BY <1>0, <1>2, <2>1, <2>2 DEF SetBuild, BuildsKept
  <2>3. CASE builds[Mine(w)].status # "absent"
    <3>1. Exists /\ builds[Mine(w)].worker = w
      BY <1>2, <2>1, <2>3 DEF Own
    <3>2. builds[Mine(w)].status \in Held \cup Closed
      BY <2>1, <3>1, BuildAssumption DEF Own
    <3> QED BY <1>0, <1>2, <2>1, <2>3, <3>2 DEF SetBuild, BuildsKept, BuildType
  <2> QED BY <2>2, <2>3
<1>3. CASE MarkBuild(w)
  BY <1>2, <1>3 DEF MarkBuild, WorkerAt, Holding, Held
<1>4. CASE FinishBuild(w)
  <2>1. (IF workers[w].ok THEN "succeeded" ELSE "failed") \in Held \cup Closed
    BY DEF Closed
  <2> QED BY <1>2, <1>4, <2>1 DEF FinishBuild, WorkerAt, Holding
<1>5. CASE LogWrite(w)
  BY <1>0, <1>5, MineOK DEF LogWrite, WorkerAt, Holding, SetBuild, BuildsKept, BuildType
<1>6. CASE UNCHANGED builds
  BY <1>6 DEF BuildsKept
<1> QED BY <1>1, <1>3, <1>4, <1>5, <1>6
        DEF WorkerStep, ServeStep, ExpirePackage, Plan, MarkPackage, LogRead, BuildFails,
            UploadBegin, UploadPatch, FinishRead, FinishPackage, WorkerFails

LEMMA WorkerKeepsClaims ==
  ASSUME Types, NEW w \in Workers, WorkerStep(w) \/ ServeStep(w) \/ WorkerFails(w), ~Take(w)
  PROVE  ClaimsKept
<1>0. workers \in [Workers -> WorkerShape]
  BY DEF Types, WorkersOK, WorkerType
<1>1. CASE Rest(w)
  BY <1>0, <1>1, OthersStay DEF Rest, ClaimsKept, IdleWorker, Holding
<1>2. ASSUME workers[w].pc \in Holding, workers'[w].build = workers[w].build PROVE ClaimsKept
  BY <1>2, OthersStay DEF ClaimsKept
<1>3. ASSUME workers[w].pc \in Holding, NEW ok, Report(w, ok) PROVE ClaimsKept
  BY <1>0, <1>2, <1>3 DEF Report, WorkerShape
<1>4. ASSUME workers[w].pc \in Holding, NEW pc, WorkerGo(w, pc) PROVE ClaimsKept
  BY <1>0, <1>2, <1>4 DEF WorkerGo, WorkerShape
<1>5. CASE Poll(w) \/ ExpirePackage(w)
  BY <1>0, <1>5 DEF Poll, ExpirePackage, ClaimsKept, WorkerShape, Holding
<1>6. CASE Plan(w)
  BY <1>2, <1>3, <1>6, PlanEffect DEF Plan, WorkerAt, Holding
<1>7. CASE LogRead(w)
  BY <1>2, <1>7, LogReadEffect DEF LogRead, WorkerAt, Holding
<1>8. CASE FinishRead(w)
  BY <1>1, <1>2, <1>8, FinishReadEffect DEF FinishRead, WorkerAt, Holding
<1>9. CASE MarkBuild(w) \/ MarkPackage(w) \/ LogWrite(w) \/ FinishBuild(w) \/ FinishPackage(w)
  BY <1>1, <1>4, <1>9 DEF MarkBuild, MarkPackage, LogWrite, FinishBuild, FinishPackage, WorkerAt, Holding
<1>10. CASE BuildFails(w) \/ UploadBegin(w) \/ UploadPatch(w)
  BY <1>3, <1>4, <1>10 DEF BuildFails, UploadBegin, UploadPatch, WorkerAt, Holding
<1>11. CASE WorkerFails(w)
  BY <1>1, <1>3, <1>4, <1>11 DEF WorkerFails, WorkerAt, Holding
<1> QED BY <1>5, <1>6, <1>7, <1>8, <1>9, <1>10, <1>11 DEF WorkerStep, ServeStep

LEMMA TakeOwn == ASSUME Types, Own, NEW w \in Workers, Take(w) PROVE Own'
<1>0. /\ builds \in [Builds -> BuildType] /\ workers \in [Workers -> WorkerShape]
      /\ workers[w].pc = "take" /\ UNCHANGED pkg /\ Exists' = Exists
  BY DEF Types, BuildsOK, WorkersOK, WorkerType, Take, WorkerAt, Exists
<1>1. CASE Rest(w) /\ UNCHANGED builds
  <2>1. BuildsKept
    BY <1>1 DEF BuildsKept
  <2>2. ClaimsKept
    BY <1>0, <1>1 DEF Rest, ClaimsKept, IdleWorker, Holding
  <2> QED BY <1>0, <2>1, <2>2, OwnKept
<1>2. ASSUME NEW b \in Builds, builds[b].status = "queued",
             builds' = [builds EXCEPT ![b] = [status |-> "claimed", worker |-> w, silent |-> 0]],
             workers'[w].build = b
      PROVE  Own'
  <2>1. builds[b].worker = None /\ Exists
    BY <1>2 DEF Own, Held, Closed
  <2>2. \A v \in Workers : v # w => workers'[v] = workers[v]
    BY OthersStay DEF ServeStep
  <2>3. workers'[w].build = b
    BY <1>2
  <2>4. \A v \in Workers : v # w /\ workers[v].pc \in Holding =>
            workers[v].build \in Builds /\ builds[workers[v].build].worker = v /\ workers[v].build # b
    BY <2>1, BuildAssumption, MineOK DEF Own, Mine
  <2>5. \A x \in Builds : builds'[x].status \in Held \cup Closed <=> builds'[x].worker # None
    BY <1>0, <1>2, BuildAssumption DEF Own, Held
  <2>6. \A v \in Workers : workers'[v].pc \in Holding => builds'[workers'[v].build].worker = v
    <3>1. builds'[workers'[w].build].worker = w
      BY <1>0, <1>2, <2>3
    <3>2. ASSUME NEW v \in Workers, v # w, workers'[v].pc \in Holding
          PROVE  builds'[workers'[v].build].worker = v
      <4>1. workers[v].pc \in Holding /\ workers'[v].build = workers[v].build
        BY <2>2, <3>2
      <4>2. builds'[workers[v].build] = builds[workers[v].build]
        BY <1>0, <1>2, <2>4, <3>2, <4>1
      <4> QED BY <2>4, <3>2, <4>1, <4>2
    <3> QED BY <3>1, <3>2
  <2>7. ExclusiveClaim'
    BY <2>2, <2>3, <2>4 DEF Own, ExclusiveClaim
  <2> QED BY <1>0, <2>1, <2>5, <2>6, <2>7 DEF Own, Mine
<1> QED BY <1>1, <1>2, TakeEffect

LEMMA InsertOwn == ASSUME Types, Own, NEW c \in Calls, EnqueueInsert(c) PROVE Own'
<1>0. /\ builds \in [Builds -> BuildType]
      /\ UNCHANGED <<pkg, workers>> /\ Exists' = Exists
  BY DEF Types, BuildsOK, EnqueueInsert, Exists
<1>1. CASE UNCHANGED builds
  BY <1>0, <1>1 DEF Own, Mine, ExclusiveClaim
<1>2. ASSUME Exists, NEW b \in Builds, builds[b].status = "absent", builds' = [builds EXCEPT ![b] = Queued]
      PROVE  Own'
  <2>1. builds[b].worker = None
    BY <1>0, <1>2 DEF Own, Held, Closed
  <2>2. \A x \in Builds : builds'[x].status \in Held \cup Closed <=> builds'[x].worker # None
    BY <1>0, <1>2 DEF Own, Queued, NoBuild, Held, Closed
  <2>3. ASSUME NEW w \in Workers, workers[w].pc \in Holding PROVE builds'[Mine(w)].worker = w
    <3>1. Mine(w) \in Builds /\ builds[Mine(w)].worker = w /\ Mine(w) # b
      BY <1>2, <2>1, <2>3, MineOK, BuildAssumption DEF Own
    <3> QED BY <1>0, <1>2, <3>1
  <2> QED BY <1>0, <1>2, <2>2, <2>3 DEF Own, Mine, ExclusiveClaim
<1> QED BY <1>1, <1>2 DEF EnqueueInsert, First

LEMMA OwnStep == Types /\ Own /\ [Next]_vars => Own'
<1> SUFFICES ASSUME Types, Own, [Next]_vars PROVE Own'
  OBVIOUS
<1>1. CASE UNCHANGED vars
  BY <1>1 DEF vars, Own, ExclusiveClaim, Exists, Mine
<1>2. ASSUME NEW c \in Calls, Request(c) \/ CallStep(c) \/ CallFails(c) PROVE Own'
  <2>1. CASE Delete(c)
    <3>1. ~Exists' /\ UNCHANGED workers /\ \A b \in Builds : builds'[b] = NoBuild
      BY <2>1 DEF Delete, Exists, Unread, NewPackage
    <3> QED BY <3>1 DEF Own, NoBuild, Held, Closed, ExclusiveClaim
  <2>2. CASE EnqueueInsert(c)
    BY <2>2, InsertOwn
  <2>3. CASE ~Delete(c) /\ UNCHANGED builds
    BY <1>2, <2>3, CallsKeepExists, CallsLeaveWorkers DEF Own, Mine, ExclusiveClaim
  <2> QED BY <1>2, <2>1, <2>2, <2>3, CallsLeaveWorkers
<1>3. ASSUME NEW w \in Workers, WorkerStep(w) \/ ServeStep(w) \/ WorkerFails(w) PROVE Own'
  BY <1>3, TakeOwn, WorkerKeepsBuilds, WorkerKeepsClaims, WorkersKeepExists, OwnKept
<1>4. CASE Tick
  <2>1. BuildsKept
    BY <1>4 DEF Tick, Types, BuildsOK, BuildType, BuildsKept
  <2>2. ClaimsKept /\ Exists' = Exists
    BY <1>4 DEF Tick, ClaimsKept, Exists
  <2> QED BY <2>1, <2>2, OwnKept
<1> QED BY <1>1, <1>2, <1>3, <1>4 DEF Next

LEMMA OwnAlways == Spec => []Own
  BY OwnInit, OwnStep, TypesAlways, PTL DEF Spec

\* TypeOK: the shapes of the tables, and a worker in exactly the rows of
\* build_jobs that have been claimed, for any number of requests and workers.
THEOREM TypeCorrect == Spec => []TypeOK
<1>1. Types /\ Own => TypeOK
  BY DEF Types, Own, PackageOK, BuildsOK, WorkersOK, HistoryOK, PackageType, LiveStatuses, BuildType,
         WorkerType, WorkerShape, TypeOK, Known
<1> QED BY <1>1, TypesAlways, OwnAlways, PTL

\* claimBuild: no build is ever in the hands of two workers, however many poll,
\* are killed, come back or answer late.
THEOREM ClaimsExclusive == Spec => []ExclusiveClaim
<1>1. Own => ExclusiveClaim
  BY DEF Own
<1> QED BY <1>1, OwnAlways, PTL

-----------------------------------------------------------------------------
(* A success has an upload *)

Done ==
    /\ SuccessIsOwnUpload
    /\ \A w \in Workers : workers[w].ok => Mine(w) \in uploaded

LEMMA DoneInit == Init => Done
  BY DEF Init, Done, SuccessIsOwnUpload, NoBuild, IdleWorker

\* Nothing succeeds but what is uploaded, and nobody claims otherwise
LEMMA DoneKept ==
  ASSUME Types, Done, uploaded \subseteq uploaded',
         \A b \in Builds : builds'[b].status = "succeeded" => builds[b].status = "succeeded" \/ b \in uploaded',
         \A w \in Workers : workers'[w].ok =>
            workers'[w].build \in uploaded' \/ (workers[w].ok /\ workers'[w].build = workers[w].build)
  PROVE  Done'
  BY DEF Done, SuccessIsOwnUpload, Mine

LEMMA WorkerDone ==
  ASSUME Types, Done, NEW w \in Workers, WorkerStep(w) \/ ServeStep(w) \/ WorkerFails(w)
  PROVE  Done'
<1>0. builds \in [Builds -> BuildType] /\ workers \in [Workers -> WorkerShape] /\ workers[w] \in WorkerType
  BY DEF Types, BuildsOK, WorkersOK, WorkerType
<1>1. \A v \in Workers : v # w => workers'[v] = workers[v]
  BY OthersStay
<1>2. uploaded \subseteq uploaded'
  BY DEF WorkerStep, ServeStep, WorkerFails, Poll, ExpirePackage, Take, Plan, MarkBuild, MarkPackage,
       LogRead, LogWrite, BuildFails, UploadBegin, UploadPatch, FinishRead, FinishBuild, FinishPackage
<1>3. ASSUME NEW b \in Builds, builds'[b].status = "succeeded", builds[b].status # "succeeded"
      PROVE  b \in uploaded'
  <2>1. CASE FinishBuild(w)
    <3>1. Mine(w) \in Builds /\ builds[Mine(w)] \in BuildType
      BY <2>1, MineOK DEF FinishBuild, WorkerAt, Holding
    <3> DEFINE row == [builds[Mine(w)] EXCEPT !.status = IF workers[w].ok THEN "succeeded" ELSE "failed"]
    <3>2. row.status = "succeeded" => workers[w].ok
      BY <3>1 DEF BuildType
    <3>3. b = Mine(w) /\ workers[w].ok
      <4>1. SetBuild(Mine(w), row)
        BY <2>1 DEF FinishBuild
      <4> HIDE DEF row
      <4> QED BY <1>3, <3>1, <3>2, <4>1, SetBuildEffect DEF Types
    <3> QED BY <2>1, <3>3 DEF FinishBuild, Done
  <2>2. CASE Poll(w) \/ Take(w)
    <3>1. \A x \in Builds : [builds[x] EXCEPT !.status = "failed"].status = "failed"
      BY <1>0 DEF BuildType
    <3>2. CASE Poll(w)
      BY <1>3, <3>1, <3>2 DEF Poll
    <3>3. CASE Take(w)
      <4>1. PICK x \in Builds : builds' = [builds EXCEPT ![x] = [status |-> "claimed", worker |-> w, silent |-> 0]]
        BY <1>3, <3>3, TakeEffect
      <4> QED BY <1>0, <1>3, <4>1
    <3> QED BY <2>2, <3>2, <3>3
  <2>3. CASE MarkBuild(w) \/ LogWrite(w)
    BY <1>0, <1>3, <2>3, MineOK DEF MarkBuild, LogWrite, SetBuild, WorkerAt, Holding, BuildType
  <2>4. CASE UNCHANGED builds
    BY <1>3, <2>4
  <2> QED BY <2>1, <2>2, <2>3, <2>4
          DEF WorkerStep, ServeStep, WorkerFails, ExpirePackage, Plan, MarkPackage, LogRead, BuildFails,
              UploadBegin, UploadPatch, FinishRead, FinishPackage
<1>4. ASSUME workers'[w].ok
      PROVE  workers'[w].build \in uploaded' \/ (workers[w].ok /\ workers'[w].build = workers[w].build)
  <2>1. CASE UploadPatch(w)
    BY <1>0, <2>1 DEF UploadPatch, Report, Mine, WorkerShape
  <2>2. ~Rest(w)
    BY <1>0, <1>4 DEF Rest, IdleWorker
  <2>3. CASE FinishRead(w)
    BY <1>4, <2>3, <2>2, FinishReadEffect
  <2>4. ~Report(w, FALSE)
    BY <1>0, <1>4 DEF Report, WorkerShape
  <2>5. ASSUME NEW pc, WorkerGo(w, pc)
        PROVE  workers[w].ok /\ workers'[w].build = workers[w].build
    BY <1>0, <1>4, <2>5 DEF WorkerGo, WorkerShape
  <2>6. ASSUME workers[w].pc \notin Reporting PROVE ~workers[w].ok
    BY <1>0, <2>6 DEF WorkerType
  <2>7. CASE Poll(w) \/ ExpirePackage(w)
    BY <1>0, <1>4, <2>6, <2>7 DEF Poll, ExpirePackage, WorkerAt, Reporting, WorkerShape
  <2>8. CASE Take(w) \/ Plan(w) \/ LogRead(w)
    BY <1>4, <2>2, <2>4, <2>6, <2>8, TakeEffect, PlanEffect, LogReadEffect
       DEF Take, Plan, LogRead, WorkerAt, Reporting
  <2> QED BY <2>1, <2>2, <2>3, <2>4, <2>5, <2>7, <2>8
          DEF WorkerStep, ServeStep, WorkerFails, MarkBuild, MarkPackage, LogWrite, BuildFails, UploadBegin,
              FinishBuild, FinishPackage
<1> QED BY <1>1, <1>2, <1>3, <1>4, DoneKept

LEMMA DoneStep == Types /\ Done /\ [Next]_vars => Done'
<1> SUFFICES ASSUME Types, Done, [Next]_vars PROVE Done'
  OBVIOUS
<1>1. CASE UNCHANGED vars
  BY <1>1 DEF vars, Done, SuccessIsOwnUpload, Mine
<1>2. ASSUME NEW c \in Calls, Request(c) \/ CallStep(c) \/ CallFails(c) PROVE Done'
  <2>1. UNCHANGED <<workers, uploaded>> /\ (EnqueueInsert(c) \/ Delete(c) \/ UNCHANGED builds)
    BY <1>2, CallsLeaveWorkers
  <2>2. \A b \in Builds : builds'[b].status = "succeeded" => builds[b].status = "succeeded"
    <3>1. Queued.status = "queued" /\ NoBuild.status = "absent"
      BY DEF Queued, NoBuild
    <3>2. CASE EnqueueInsert(c)
      BY <3>1, <3>2 DEF EnqueueInsert, Types, BuildsOK
    <3>3. CASE Delete(c)
      BY <3>1, <3>3 DEF Delete
    <3> QED BY <2>1, <3>2, <3>3
  <2> QED BY <2>1, <2>2, DoneKept
<1>3. CASE Tick
  <2>1. \A b \in Builds : builds'[b].status = builds[b].status
    BY <1>3 DEF Tick, Types, BuildsOK, BuildType
  <2> QED BY <1>3, <2>1, DoneKept DEF Tick
<1> QED BY <1>1, <1>2, <1>3, WorkerDone DEF Next

LEMMA DoneAlways == Spec => []Done
  BY DoneInit, DoneStep, TypesAlways, PTL DEF Spec

\* finishBuild: a build counts as succeeded only if its own worker's upload for
\* it reached the package, whatever other builds, uploads by hand and repeated
\* or late reports there are.
THEOREM SuccessesUploaded == Spec => []SuccessIsOwnUpload
<1>1. Done => SuccessIsOwnUpload
  BY DEF Done
<1> QED BY <1>1, DoneAlways, PTL

-----------------------------------------------------------------------------
(* A package that is ready has an artifact, or was one of the store *)

\* Whoever is about to write "ready" has seen an artifact, and it is still there, or
\* it saw a package of the store or is about to make it one
Ready ==
    /\ ReadyHasArtifact
    /\ \A c \in Calls : calls[c].seen.status = "ready" /\ Exists
                       => pkg.artifact # None \/ listed \/ calls[c].seen.type = "store"
    /\ \A w \in Workers : workers[w].pc \in {"finish", "finish_package"} /\ workers[w].ok /\ Exists
                          => pkg.artifact # None

LEMMA ReadyInit == Init => Ready
<1> SUFFICES ASSUME Init PROVE Ready
  OBVIOUS
<1>1. PICK type \in Offered : pkg = NewPackage(type) /\ listed = (type = "store")
  BY DEF Init
<1>2. pkg.status = "ready" => listed
  BY <1>1 DEF NewPackage, InitialStatus
<1>3. \A c \in Calls : calls[c].seen.status = "draft"
  BY IdleTypes DEF Init, IdleCall
<1> QED BY <1>2, <1>3 DEF Init, Ready, ReadyHasArtifact, IdleWorker

\* As long as the package exists an artifact is only ever replaced
ArtifactKept == /\ Exists' => Exists /\ (pkg.artifact # None => pkg'.artifact # None)
                /\ listed => listed'

LEMMA ReadyKept ==
  ASSUME Types, Ready, ArtifactKept,
         pkg'.status = "ready" => pkg'.artifact # None \/ listed',
         \A c \in Calls : \/ calls'[c].seen = calls[c].seen
                          \/ calls'[c].seen.status = "ready"
                             => pkg.status = "ready" \/ calls'[c].seen.type = "store",
         \A w \in Workers : workers'[w].pc \in {"finish", "finish_package"} /\ workers'[w].ok =>
            \/ workers[w].pc \in {"finish", "finish_package"} /\ workers[w].ok
            \/ pkg.artifact # None
  PROVE  Ready'
  BY DEF Ready, ReadyHasArtifact, ArtifactKept

LEMMA CallReady ==
  ASSUME Types, Ready, NEW c \in Calls, Request(c) \/ CallStep(c) \/ CallFails(c)
  PROVE  Ready'
<1>0. /\ pkg \in PackageType /\ calls \in [Calls -> CallType]
      /\ calls[c].seen \in PackageType /\ calls[c].seen.status # "deleted"
  BY DEF Types, PackageOK, CallsOK, CallType
<1>1. UNCHANGED workers
  BY CallsLeaveWorkers
<1> DEFINE FromPackage(row) == row.status = "ready" => pkg.status = "ready" \/ row.type = "store"
<1>2. \A d \in Calls : calls'[d].seen = calls[d].seen \/ FromPackage(calls'[d].seen)
  <2>1. CASE End(c)
    BY <1>0, <2>1, IdleTypes DEF End, IdleCall
  <2>2. ASSUME NEW pc, Go(c, pc) PROVE \A d \in Calls : calls'[d].seen = calls[d].seen
    BY <1>0, <2>2 DEF Go, CallType
  <2>3. ASSUME NEW pc, NEW row, Read(c, pc, row), FromPackage(row)
        PROVE  \A d \in Calls : calls'[d].seen = calls[d].seen \/ FromPackage(calls'[d].seen)
    <3> HIDE DEF FromPackage
    <3> QED BY <1>0, <2>3 DEF Read, CallType
  <2>4. CASE EnqueueRead(c)
    BY <2>3, <2>4, IdleTypes DEF EnqueueRead
  <2>5. CASE EditRead(c)
    <3>1. PICK v \in Versions, type \in Offered : Read(c, "edit", Edited(v, type))
      BY <2>5 DEF EditRead
    <3>2. FromPackage(Edited(v, type))
      BY <3>1, EditedOK DEF Types, Read
    <3> QED BY <2>3, <3>1, <3>2
  <2>6. CASE InstallerRead(c) \/ ArtifactRead(c)
    <3>1. FromPackage(View)
      BY ViewOK DEF Types
    <3> QED BY <2>3, <2>6, <3>1 DEF InstallerRead, ArtifactRead
  <2> QED BY <2>1, <2>2, <2>4, <2>5, <2>6
          DEF Request, CallStep, Delete, EnqueueCheck, EnqueueInsert, EnqueueMark, EditWrite, InstallerPatch,
              ArtifactPatch, CallFails
<1>3. ArtifactKept /\ (pkg'.status = "ready" => pkg'.artifact # None \/ listed')
  <2>1. CASE UNCHANGED <<pkg, listed>>
    BY <2>1 DEF ArtifactKept, Exists, Ready, ReadyHasArtifact
  <2>2. CASE Delete(c)
    BY <2>2, IdleTypes DEF Delete, ArtifactKept, Exists, PackageType
  <2>3. CASE EnqueueMark(c)
    BY <1>0, <2>3 DEF EnqueueMark, SetPackage, ArtifactKept, Exists, PackageType, Ready, ReadyHasArtifact
  <2>4. CASE EditWrite(c)
    <3>1. /\ listed' = (listed \/ calls[c].seen.type = "store")
          /\ pkg'.status \in {pkg.status, calls[c].seen.status} /\ pkg'.artifact = pkg.artifact
          /\ pkg'.status = "deleted" <=> pkg.status = "deleted"
      BY <1>0, <2>4 DEF EditWrite, SetPackage, Exists, PackageType
    <3> QED BY <3>1 DEF ArtifactKept, Exists, Ready, ReadyHasArtifact
  <2>5. CASE InstallerPatch(c)
    BY <1>0, <2>5 DEF InstallerPatch, SetPackage, ArtifactKept, Exists, PackageType, Ready, ReadyHasArtifact
  <2>6. CASE ArtifactPatch(c)
    BY <1>0, <2>6, BuildAssumption
       DEF ArtifactPatch, SetPackage, ArtifactKept, Exists, PackageType, Ready, ReadyHasArtifact
  <2> QED BY <2>1, <2>2, <2>3, <2>4, <2>5, <2>6
          DEF Request, CallStep, EnqueueRead, EditRead, InstallerRead, ArtifactRead, Read,
              EnqueueCheck, EnqueueInsert, CallFails
<1>4. \A d \in Calls : \/ calls'[d].seen = calls[d].seen
                       \/ calls'[d].seen.status = "ready"
                          => pkg.status = "ready" \/ calls'[d].seen.type = "store"
  BY <1>2
<1>5. \A w \in Workers : workers'[w] = workers[w]
  BY <1>1
<1> HIDE DEF FromPackage
<1> QED BY <1>3, <1>4, <1>5, ReadyKept

LEMMA WorkerReady ==
  ASSUME Types, Ready, NEW w \in Workers, WorkerStep(w) \/ ServeStep(w) \/ WorkerFails(w)
  PROVE  Ready'
<1>0. /\ pkg \in PackageType /\ workers \in [Workers -> WorkerShape] /\ workers[w] \in WorkerType
  BY DEF Types, PackageOK, WorkersOK, WorkerType
<1>1. UNCHANGED calls
  BY OthersStay
<1>2. \A v \in Workers : v # w => workers'[v] = workers[v]
  BY OthersStay
<1>3. ASSUME workers'[w].pc \in {"finish", "finish_package"}, workers'[w].ok
      PROVE  \/ workers[w].pc \in {"finish", "finish_package"} /\ workers[w].ok
             \/ pkg.artifact # None
  <2>1. CASE FinishRead(w)
    BY <1>0, <1>3, <2>1, FinishReadEffect DEF Rest, IdleWorker
  <2>2. CASE FinishBuild(w)
    BY <1>0, <1>3, <2>2 DEF FinishBuild, WorkerAt, WorkerGo, WorkerShape
  <2>3. ASSUME ~FinishRead(w), ~FinishBuild(w) PROVE workers'[w].pc \notin {"finish", "finish_package"}
    <3>1. CASE Poll(w) \/ ExpirePackage(w)
      BY <1>0, <3>1 DEF Poll, ExpirePackage, WorkerShape
    <3>2. CASE Rest(w)
      BY <1>0, <3>2 DEF Rest, IdleWorker
    <3>3. CASE Take(w)
      BY <3>2, <3>3, TakeEffect
    <3>4. CASE Report(w, FALSE) \/ Report(w, Exists)
      BY <1>0, <3>4 DEF Report, WorkerShape
    <3>5. CASE Plan(w)
      BY <3>4, <3>5, PlanEffect
    <3>6. CASE LogRead(w)
      BY <3>6, LogReadEffect
    <3>7. ASSUME NEW pc \in Planned, WorkerGo(w, pc) PROVE workers'[w].pc = pc
      BY <1>0, <3>7 DEF WorkerGo, WorkerShape
    <3> QED BY <2>3, <3>1, <3>2, <3>3, <3>4, <3>5, <3>6, <3>7
            DEF WorkerStep, ServeStep, WorkerFails, MarkBuild, MarkPackage, LogWrite, BuildFails,
                UploadBegin, UploadPatch, FinishPackage, Planned
  <2> QED BY <1>3, <2>1, <2>2, <2>3
<1>4. ArtifactKept /\ (pkg'.status = "ready" => pkg'.artifact # None \/ listed')
  <2>1. CASE UNCHANGED <<pkg, listed>>
    BY <2>1 DEF ArtifactKept, Exists, Ready, ReadyHasArtifact
  <2>2. CASE ExpirePackage(w) \/ MarkPackage(w)
    BY <1>0, <2>2 DEF ExpirePackage, MarkPackage, SetPackage, ArtifactKept, Exists, PackageType,
                      Ready, ReadyHasArtifact
  <2>3. CASE UploadPatch(w)
    <3>1. workers[w].version # None
      BY <1>0, <2>3, BuildAssumption DEF UploadPatch, WorkerAt, WorkerType, Planned
    <3> QED BY <1>0, <2>3, <3>1
            DEF UploadPatch, SetPackage, ArtifactKept, Exists, PackageType, Ready, ReadyHasArtifact
  <2>4. CASE FinishPackage(w)
    BY <1>0, <2>4 DEF FinishPackage, WorkerAt, SetPackage, ArtifactKept, Exists, PackageType,
                      Ready, ReadyHasArtifact
  <2> QED BY <2>1, <2>2, <2>3, <2>4
          DEF WorkerStep, ServeStep, WorkerFails, Poll, Take, Plan, MarkBuild, LogRead, LogWrite, BuildFails,
              UploadBegin, FinishRead, FinishBuild
<1>5. \A c \in Calls : calls'[c].seen = calls[c].seen
  BY <1>1
<1>6. \A v \in Workers : workers'[v].pc \in {"finish", "finish_package"} /\ workers'[v].ok =>
            \/ workers[v].pc \in {"finish", "finish_package"} /\ workers[v].ok
            \/ pkg.artifact # None
  BY <1>2, <1>3
<1> QED BY <1>4, <1>5, <1>6, ReadyKept

LEMMA ReadyStep == Types /\ Ready /\ [Next]_vars => Ready'
<1> SUFFICES ASSUME Types, Ready, [Next]_vars PROVE Ready'
  OBVIOUS
<1>1. CASE UNCHANGED <<pkg, calls, workers, listed>>
  BY <1>1 DEF Ready, ReadyHasArtifact, Exists
<1> QED BY <1>1, CallReady, WorkerReady DEF Next, Tick, vars

LEMMA ReadyAlways == Spec => []Ready
  BY ReadyInit, ReadyStep, TypesAlways, PTL DEF Spec

\* storeFile, finishBuild, updateManifest: a package that stands as ready has an
\* artifact, although edits and reports write back a status they read earlier, unless
\* it was at some time saved as a package of the store.
THEOREM ReadyPackages == Spec => []ReadyHasArtifact
<1>1. Ready => ReadyHasArtifact
  BY DEF Ready
<1> QED BY <1>1, ReadyAlways, PTL

-----------------------------------------------------------------------------
(* Results are final *)

\* No time passes between a claim and its plan, and who is about to write a
\* result has seen the build open.
Fresh ==
    /\ \A w \in Workers : workers[w].pc \in {"plan", "mark_build"} /\ Exists =>
          builds[Mine(w)].status = "claimed" /\ builds[Mine(w)].silent = 0
    /\ \A w \in Workers : workers[w].pc = "finish" => workers[w].row \in Open

LEMMA FreshInit == Init => Fresh
  BY DEF Init, Fresh, IdleWorker

LEMMA PcAfter ==
  ASSUME Types, NEW w \in Workers, WorkerStep(w) \/ ServeStep(w) \/ WorkerFails(w)
  PROVE  /\ workers'[w].pc = "plan" => Take(w)
         /\ workers'[w].pc = "mark_build" => Plan(w)
         /\ workers'[w].pc = "finish" => FinishRead(w)
<1> DEFINE Elsewhere == workers'[w].pc \notin {"plan", "mark_build", "finish"}
<1>0. workers \in [Workers -> WorkerShape]
  BY DEF Types, WorkersOK, WorkerType
<1>1. CASE Poll(w) \/ ExpirePackage(w)
  BY <1>0, <1>1 DEF Poll, ExpirePackage, WorkerShape
<1>2. Rest(w) => Elsewhere
  BY <1>0 DEF Rest, IdleWorker
<1>3. CASE Take(w)
  BY <1>2, <1>3, TakeEffect
<1>4. ASSUME NEW ok, Report(w, ok) PROVE Elsewhere
  BY <1>0, <1>4 DEF Report, WorkerShape
<1>5. CASE Plan(w)
  BY <1>4, <1>5, PlanEffect
<1>6. CASE LogRead(w)
  BY <1>6, LogReadEffect
<1>7. CASE FinishRead(w)
  BY <1>2, <1>7, FinishReadEffect
<1>8. ASSUME NEW pc \in {"mark_package", "work", "stream", "finish_package"}, WorkerGo(w, pc) PROVE Elsewhere
  BY <1>0, <1>8 DEF WorkerGo, WorkerShape
<1> HIDE DEF Elsewhere
<1>9. ASSUME Elsewhere PROVE workers'[w].pc \notin {"plan", "mark_build", "finish"}
  BY <1>9 DEF Elsewhere
<1> QED BY <1>1, <1>2, <1>3, <1>4, <1>5, <1>6, <1>7, <1>8, <1>9
        DEF WorkerStep, ServeStep, WorkerFails, MarkBuild, MarkPackage, LogWrite, BuildFails, UploadBegin,
            UploadPatch, FinishBuild, FinishPackage

\* A worker's step on a build of its own leaves every other build alone
LEMMA OtherBuilds ==
  ASSUME Types, NEW w \in Workers, WorkerStep(w) \/ ServeStep(w) \/ WorkerFails(w),
         NEW b \in Builds, ~Stale(b), builds[b].status # "queued",
         builds'[b] # builds[b]
  PROVE  b = Mine(w) /\ (MarkBuild(w) \/ LogWrite(w) \/ FinishBuild(w))
<1>0. builds \in [Builds -> BuildType]
  BY DEF Types, BuildsOK
<1>1. CASE Poll(w)
  BY <1>1 DEF Poll
<1>2. CASE Take(w)
  BY <1>0, <1>2, TakeEffect
<1>3. CASE MarkBuild(w) \/ LogWrite(w) \/ FinishBuild(w)
  BY <1>3, MineOK, SetBuildEffect DEF MarkBuild, LogWrite, FinishBuild, WorkerAt, Holding, Types
<1>4. CASE UNCHANGED builds
  BY <1>4
<1> QED BY <1>1, <1>2, <1>3, <1>4
        DEF WorkerStep, ServeStep, WorkerFails, ExpirePackage, Plan, MarkPackage, LogRead, BuildFails,
            UploadBegin, UploadPatch, FinishRead, FinishPackage

LEMMA WorkerFresh ==
  ASSUME Types, Own, Fresh, NEW w \in Workers, WorkerStep(w) \/ ServeStep(w) \/ WorkerFails(w)
  PROVE  Fresh'
<1>0. builds \in [Builds -> BuildType] /\ Exists' = Exists
  BY WorkersKeepExists DEF Types, BuildsOK
<1>1. ASSUME NEW v \in Workers, v # w, workers'[v].pc \in {"plan", "mark_build"}, Exists'
      PROVE  builds'[Mine(v)'].status = "claimed" /\ builds'[Mine(v)'].silent = 0
  <2>1. workers'[v] = workers[v] /\ Mine(v)' = Mine(v) /\ Exists
    BY <1>0, <1>1, OthersStay DEF Mine
  <2>2. Mine(v) \in Builds /\ builds[Mine(v)].status = "claimed" /\ builds[Mine(v)].silent = 0
    BY <1>1, <2>1, MineOK DEF Fresh, Holding
  <2>3. ~Stale(Mine(v))
    BY <2>2, BuildAssumption DEF Stale
  <2>4. ~(Mine(v) = Mine(w) /\ (MarkBuild(w) \/ LogWrite(w) \/ FinishBuild(w)))
    BY <1>1, <2>1 DEF Own, ExclusiveClaim, Mine, MarkBuild, LogWrite, FinishBuild, WorkerAt, Holding
  <2> QED BY <2>1, <2>2, <2>3, <2>4, OtherBuilds
<1>2. ASSUME workers'[w].pc \in {"plan", "mark_build"}, Exists'
      PROVE  builds'[Mine(w)'].status = "claimed" /\ builds'[Mine(w)'].silent = 0
  <2>1. CASE Take(w)
    <3>1. ~Rest(w)
      BY <1>2 DEF Rest, IdleWorker, Types, WorkersOK
    <3>2. PICK b \in Builds :
             /\ builds' = [builds EXCEPT ![b] = [status |-> "claimed", worker |-> w, silent |-> 0]]
             /\ workers'[w].build = b
      BY <2>1, <3>1, TakeEffect
    <3> QED BY <1>0, <3>2 DEF Mine
  <2>2. CASE Plan(w)
    <3>1. ~Report(w, FALSE)
      BY <1>2 DEF Report, Types, WorkersOK, WorkerType, WorkerShape
    <3>2. workers'[w].build = workers[w].build
      BY <2>2, <3>1, PlanEffect
    <3> QED BY <1>0, <1>2, <2>2, <3>2 DEF Plan, WorkerAt, Fresh, Mine
  <2> QED BY <1>2, <2>1, <2>2, PcAfter
<1>3. ASSUME NEW v \in Workers, workers'[v].pc = "finish" PROVE workers'[v].row \in Open
  <2>1. CASE v # w
    BY <1>3, <2>1, OthersStay DEF Fresh
  <2>2. CASE v = w
    <3>1. FinishRead(w) /\ ~Rest(w)
      BY <1>3, <2>2, PcAfter DEF Rest, IdleWorker, Types, WorkersOK
    <3>2. Reportable(w) /\ workers'[w].row = builds[Mine(w)].status
      BY <3>1, FinishReadEffect
    <3>3. Mine(w) \in Builds
      BY <3>1, MineOK DEF FinishRead, WorkerAt, Holding
    <3> QED BY <2>2, <3>2, <3>3, BuildAssumption DEF Reportable, Own, Held, Open
  <2> QED BY <2>1, <2>2
<1> QED BY <1>1, <1>2, <1>3 DEF Fresh

LEMMA FreshStep == Types /\ Own /\ Fresh /\ [Next]_vars => Fresh'
<1> SUFFICES ASSUME Types, Own, Fresh, [Next]_vars PROVE Fresh'
  OBVIOUS
<1>1. CASE UNCHANGED vars
  BY <1>1 DEF vars, Fresh, Exists, Mine
<1>2. ASSUME NEW c \in Calls, Request(c) \/ CallStep(c) \/ CallFails(c) PROVE Fresh'
  <2>1. UNCHANGED workers /\ (EnqueueInsert(c) \/ Delete(c) \/ UNCHANGED builds)
    BY <1>2, CallsLeaveWorkers
  <2>2. CASE Delete(c)
    BY <2>1, <2>2 DEF Delete, Exists, Unread, NewPackage, Fresh
  <2>3. CASE EnqueueInsert(c)
    <3>1. ASSUME NEW b \in Builds, builds[b].status = "claimed" PROVE builds'[b] = builds[b]
      BY <2>3, <3>1 DEF EnqueueInsert, First, Types, BuildsOK
    <3>2. \A w \in Workers : workers[w].pc \in {"plan", "mark_build"} => Mine(w) \in Builds
      BY MineOK DEF Holding
    <3> QED BY <2>1, <2>3, <3>1, <3>2 DEF EnqueueInsert, Exists, Fresh, Mine
  <2>4. CASE ~Delete(c) /\ UNCHANGED builds
    BY <1>2, <2>1, <2>4, CallsKeepExists DEF Fresh, Mine
  <2> QED BY <2>1, <2>2, <2>3, <2>4
<1>3. CASE Tick
  BY <1>3 DEF Tick, Fresh
<1> QED BY <1>1, <1>2, <1>3, WorkerFresh DEF Next

LEMMA FreshAlways == Spec => []Fresh
  BY FreshInit, FreshStep, TypesAlways, OwnAlways, PTL DEF Spec

\* finishBuild, expireStaleBuilds: the result of a build is final, except for a
\* report that had found the build open; that its plan can still reopen it is
\* ruled out because a plan follows the claim at once.
THEOREM ResultsFinal == Spec => ResultStays
<1>1. Types /\ Own /\ Fresh /\ [Next]_vars =>
        [\A b \in Builds : builds[b].status \in Closed /\ ~Answering(b)
                           => builds'[b].status \in {builds[b].status, "absent"}]_vars
  <2> SUFFICES ASSUME Types, Own, Fresh, Next, NEW b \in Builds, builds[b].status \in Closed, ~Answering(b)
               PROVE  builds'[b].status \in {builds[b].status, "absent"}
    OBVIOUS
  <2>0. builds \in [Builds -> BuildType] /\ ~Stale(b) /\ builds[b].status \notin {"queued", "claimed", "absent"}
    BY DEF Types, BuildsOK, Stale, Held, Closed
  <2>1. ASSUME NEW c \in Calls, Request(c) \/ CallStep(c) \/ CallFails(c) PROVE builds'[b].status \in {builds[b].status, "absent"}
    <3>1. CASE EnqueueInsert(c)
      BY <2>0, <3>1 DEF EnqueueInsert, First
    <3>2. CASE Delete(c)
      BY <3>2 DEF Delete, NoBuild
    <3> QED BY <2>1, <3>1, <3>2, CallsLeaveWorkers
  <2>2. ASSUME NEW w \in Workers, WorkerStep(w) \/ ServeStep(w) \/ WorkerFails(w), builds'[b] # builds[b]
        PROVE  builds'[b].status = builds[b].status
    <3>1. b = Mine(w) /\ (MarkBuild(w) \/ LogWrite(w) \/ FinishBuild(w))
      BY <2>0, <2>2, OtherBuilds
    <3>2. ~MarkBuild(w)
      BY <2>0, <3>1 DEF MarkBuild, WorkerAt, Own, Fresh
    <3>3. ~FinishBuild(w)
      BY <3>1 DEF FinishBuild, WorkerAt, Fresh, Answering, Mine
    <3>4. [builds[b] EXCEPT !.silent = 0].status = builds[b].status
      BY <2>0 DEF BuildType
    <3> QED BY <3>1, <3>2, <3>3, <3>4, SetBuildEffect DEF LogWrite, Types
  <2>3. CASE Tick
    BY <2>0, <2>3 DEF Tick, BuildType
  <2> QED BY <2>1, <2>2, <2>3 DEF Next
<1> QED BY <1>1, TypesAlways, OwnAlways, FreshAlways, PTL DEF Spec, ResultStays
=============================================================================
