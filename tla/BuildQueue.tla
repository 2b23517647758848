----------------------------- MODULE BuildQueue -----------------------------
(***************************************************************************)
(* The build queue of one package of the app catalog.  Engineers edit the  *)
(* package, upload files to it and ask for builds; the Windows workers     *)
(* poll for a build, turn installer and manifest into an artifact, upload  *)
(* it and report the result.  The API is the only one to write the tables: *)
(* every handler is a sequence of single statements without a transaction, *)
(* and a step of this module is one of them.                               *)
(*                                                                         *)
(* A worker is a sequential program that waits for each of its requests,   *)
(* so the handler that serves it is a stretch of the worker's own "pc".    *)
(***************************************************************************)
EXTENDS Integers, FiniteSets

CONSTANTS
    Calls,          \* requests of engineers, each made at most once
    Workers,        \* worker ids
    Reliable,       \* the workers that keep polling and finish what they began
    Versions,       \* what packageIdentifier tells apart: vendor, name, version, ...
    FirstVersion,   \* the version the package is created with
    Offered,        \* the installer types engineers choose from
    StaleAfter,     \* STALE_BUILD_MS
    MaxLines,       \* bound: progress lines a worker reports per build
    MaxFaults,      \* bound: workers killed and requests that end with an error
    None            \* no version, no worker, no build

\* "msi" stands for msi, exe and psadt, which are built from an uploaded file
InstallerTypes == {"msi", "winget", "intunewin", "store"}

ASSUME BuildAssumption ==
    /\ IsFiniteSet(Calls)
    /\ Offered \subseteq InstallerTypes
    /\ Reliable \subseteq Workers
    /\ FirstVersion \in Versions
    /\ {StaleAfter, MaxLines, MaxFaults} \subseteq Nat
    /\ None \notin Versions \cup Workers \cup Nat

VARIABLES
    pkg,        \* the row of app_packages
    builds,     \* the rows of build_jobs, in order of created_at
    calls,      \* the engineers' requests and what they have read
    workers,    \* the workers and the handlers that serve them
    uploaded,   \* history: the builds whose artifact reached the package
    listed,     \* history: the package was saved as one of the store
    faults

vars == <<pkg, builds, calls, workers, uploaded, listed, faults>>

\* A request creates at most one build
Builds == 1..Cardinality(Calls)
First(b, set) == b \in set /\ \A x \in set : b <= x

\* "silent": time since claimed_at, which every progress line renews; what lies
\* beyond StaleAfter is not told apart
NoBuild == [status |-> "absent", worker |-> None, silent |-> 0]
Queued == [NoBuild EXCEPT !.status = "queued"]
Closed == {"succeeded", "failed"}
Open == {"queued", "claimed", "building"}
Held == {"claimed", "building"}

\* A package of the store needs no artifact; the installer of winget is in the catalog
InitialStatus(type) == IF type = "store" THEN "ready"
                       ELSE IF type = "winget" THEN "installer-uploaded" ELSE "draft"

NewPackage(type) == [status |-> InitialStatus(type), type |-> type, version |-> FirstVersion,
                     installer |-> FALSE, artifact |-> None]
Unread == NewPackage("msi")
IdleCall(pc) == [pc |-> pc, seen |-> Unread]
IdleWorker == [pc |-> "idle", build |-> None, version |-> None, ok |-> FALSE, lines |-> 0, due |-> 0,
               row |-> "absent"]

\* createPackage
Init ==
    /\ \E type \in Offered : pkg = NewPackage(type) /\ listed = (type = "store")
    /\ builds = [b \in Builds |-> NoBuild]
    /\ calls = [c \in Calls |-> IdleCall("idle")]
    /\ workers = [w \in Workers |-> IdleWorker]
    /\ uploaded = {}
    /\ faults = 0

\* An UPDATE finds no row once the package is deleted, and its builds with it
Exists == pkg.status # "deleted"
SetPackage(row) == pkg' = IF Exists THEN row ELSE pkg
SetBuild(b, row) ==
    builds' = [builds EXCEPT ![b] = IF @.status = "absent" THEN @ ELSE row]

\* effectiveStatus: the status every reader of the package is shown
Shown(row) == IF row.type = "winget" /\ row.artifact = None /\ row.status = "ready"
              THEN "installer-uploaded" ELSE row.status
View == [pkg EXCEPT !.status = Shown(pkg)]

\* enqueueBuild and buildPlanFor: a manifest of winget has the installer of the catalog
Buildable(row) == row.type = "winget" \/ (row.type = "msi" /\ row.installer)

-----------------------------------------------------------------------------
(* Engineers *)

At(c, pc) == calls[c].pc = pc
Go(c, pc) == calls' = [calls EXCEPT ![c].pc = pc]
End(c) == calls' = [calls EXCEPT ![c] = IdleCall("done")]
Read(c, pc, row) ==
    /\ At(c, "idle")
    /\ Exists
    /\ calls' = [calls EXCEPT ![c] = [pc |-> pc, seen |-> row]]
    /\ UNCHANGED <<pkg, builds, workers, uploaded, listed, faults>>

\* enqueueBuild: the package, the open builds, the insert and the package's
\* status are four statements
EnqueueRead(c) == Buildable(pkg) /\ Read(c, "check", Unread)

EnqueueCheck(c) ==
    /\ At(c, "check")
    /\ IF \E b \in Builds : builds[b].status \in Open THEN End(c) ELSE Go(c, "insert")
    /\ UNCHANGED <<pkg, builds, workers, uploaded, listed, faults>>

\* Without its package the insert violates the foreign key and throws
EnqueueInsert(c) ==
    /\ At(c, "insert")
    /\ \/ /\ Exists
          /\ \E b \in Builds : /\ First(b, {x \in Builds : builds[x].status = "absent"})
                               /\ builds' = [builds EXCEPT ![b] = Queued]
          /\ Go(c, "mark")
       \/ ~Exists /\ End(c) /\ UNCHANGED builds
    /\ UNCHANGED <<pkg, workers, uploaded, listed, faults>>

EnqueueMark(c) ==
    /\ At(c, "mark")
    /\ SetPackage([pkg EXCEPT !.status = "queued"])
    /\ End(c)
    /\ UNCHANGED <<builds, workers, uploaded, listed, faults>>

\* updateManifest: once there is an artifact the version is fixed, the type never.
\* The status of a draft follows the new type, any other is kept as it is shown.
Edited(v, type) ==
    [View EXCEPT !.version = v, !.type = type,
                 !.status = IF @ = "draft" THEN InitialStatus(type) ELSE @]

EditRead(c) ==
    \E v \in Versions, type \in Offered :
       /\ pkg.artifact = None \/ v = pkg.version
       /\ Read(c, "edit", Edited(v, type))

\* The status goes back as it was read
EditWrite(c) ==
    LET seen == calls[c].seen
    IN  /\ At(c, "edit")
        /\ SetPackage([pkg EXCEPT !.version = seen.version, !.type = seen.type, !.status = seen.status])
        /\ listed' = (listed \/ seen.type = "store")
        /\ End(c)
        /\ UNCHANGED <<builds, workers, uploaded, faults>>

\* storeFile reads the package, receives the file and then patches the row
InstallerRead(c) == Read(c, "installer", View)
ArtifactRead(c) == Read(c, "artifact", View)

\* A file of another name goes into the manifest, which is written back whole
InstallerPatch(c) ==
    /\ At(c, "installer")
    /\ \E manifest \in {pkg, calls[c].seen} :
          SetPackage([pkg EXCEPT !.installer = TRUE,
                                 !.version = manifest.version, !.type = manifest.type,
                                 !.status = IF calls[c].seen.status \in {"draft", "failed"}
                                            THEN "installer-uploaded" ELSE @])
    /\ End(c)
    /\ UNCHANGED <<builds, workers, uploaded, listed, faults>>

\* An engineer uploads what was built elsewhere for the version on the screen
ArtifactPatch(c) ==
    /\ At(c, "artifact")
    /\ SetPackage([pkg EXCEPT !.artifact = calls[c].seen.version, !.status = "ready"])
    /\ End(c)
    /\ UNCHANGED <<builds, workers, uploaded, listed, faults>>

\* deletePackage: the builds go with the row (ON DELETE CASCADE)
Delete(c) ==
    /\ At(c, "idle")
    /\ Exists
    /\ pkg' = [Unread EXCEPT !.status = "deleted"]
    /\ builds' = [b \in Builds |-> NoBuild]
    /\ End(c)
    /\ UNCHANGED <<workers, uploaded, listed, faults>>

CallFails(c) ==
    /\ faults < MaxFaults
    /\ faults' = faults + 1
    /\ calls[c].pc \notin {"idle", "done"}
    /\ End(c)
    /\ UNCHANGED <<pkg, builds, workers, uploaded, listed>>

Request(c) == EnqueueRead(c) \/ EditRead(c) \/ InstallerRead(c) \/ ArtifactRead(c) \/ Delete(c)
CallStep(c) ==
    \/ EnqueueCheck(c) \/ EnqueueInsert(c) \/ EnqueueMark(c)
    \/ EditWrite(c) \/ InstallerPatch(c) \/ ArtifactPatch(c)

-----------------------------------------------------------------------------
(* Workers: claimBuild *)

WorkerAt(w, pc) == workers[w].pc = pc
WorkerGo(w, pc) == workers' = [workers EXCEPT ![w].pc = pc]
Rest(w) == workers' = [workers EXCEPT ![w] = IdleWorker]
Report(w, ok) == workers' = [workers EXCEPT ![w].pc = "report", ![w].ok = ok]
Mine(w) == workers[w].build

\* Mutant: a claim without a plan is never taken for lost
StaleBuilding(b) == builds[b].status = "building" /\ builds[b].silent > StaleAfter

Stale(b) == builds[b].status \in Held /\ builds[b].silent > StaleAfter

\* expireStaleBuilds: one UPDATE of the builds, then one per lost build of its package
Poll(w) ==
    LET lost == {b \in Builds : Stale(b)}
    IN  /\ WorkerAt(w, "idle")
        /\ builds' = [b \in Builds |-> IF b \in lost THEN [builds[b] EXCEPT !.status = "failed"]
                                                     ELSE builds[b]]
        /\ workers' = [workers EXCEPT ![w].pc = IF lost = {} THEN "take" ELSE "expire",
                                      ![w].due = Cardinality(lost)]
        /\ UNCHANGED <<pkg, calls, uploaded, listed, faults>>

ExpirePackage(w) ==
    /\ WorkerAt(w, "expire")
    /\ SetPackage([pkg EXCEPT !.status = "failed"])
    /\ workers' = [workers EXCEPT ![w].due = @ - 1,
                                  ![w].pc = IF workers[w].due > 1 THEN "expire" ELSE "take"]
    /\ UNCHANGED <<builds, calls, uploaded, listed, faults>>

\* Mutant: a build another worker has just claimed can be claimed again
ClaimableHeld(b) == builds[b].status \in {"queued", "claimed"}

Claimable(b) == builds[b].status = "queued"

\* Mutant: the claim does not note the worker
TakeUnsigned(w) ==
    LET waiting == {b \in Builds : Claimable(b)}
    IN  /\ WorkerAt(w, "take")
        /\ \/ waiting = {} /\ Rest(w) /\ UNCHANGED builds
           \/ \E b \in Builds :
                 /\ First(b, waiting)
                 /\ builds' = [builds EXCEPT ![b] = [NoBuild EXCEPT !.status = "claimed"]]
                 /\ workers' = [workers EXCEPT ![w].pc = "plan", ![w].build = b, ![w].lines = MaxLines]
        /\ UNCHANGED <<pkg, calls, uploaded, listed, faults>>

\* The oldest waiting build, FOR UPDATE SKIP LOCKED, in one statement
Take(w) ==
    LET waiting == {b \in Builds : Claimable(b)}
    IN  /\ WorkerAt(w, "take")
        /\ \/ waiting = {} /\ Rest(w) /\ UNCHANGED builds
           \/ \E b \in Builds :
                 /\ First(b, waiting)
                 /\ builds' = [builds EXCEPT ![b] = [status |-> "claimed", worker |-> w, silent |-> 0]]
                 /\ workers' = [workers EXCEPT ![w].pc = "plan", ![w].build = b, ![w].lines = MaxLines]
        /\ UNCHANGED <<pkg, calls, uploaded, listed, faults>>

\* The plan is made from the manifest as it is now, whose type may no longer be built
Plan(w) ==
    /\ WorkerAt(w, "plan")
    /\ IF Exists /\ Buildable(pkg)
       THEN workers' = [workers EXCEPT ![w].pc = "mark_build", ![w].version = pkg.version]
       ELSE Report(w, FALSE)
    /\ UNCHANGED <<pkg, builds, calls, uploaded, listed, faults>>

\* Whatever the build's status is by now
MarkBuild(w) ==
    /\ WorkerAt(w, "mark_build")
    /\ SetBuild(Mine(w), [builds[Mine(w)] EXCEPT !.status = "building"])
    /\ WorkerGo(w, "mark_package")
    /\ UNCHANGED <<pkg, calls, uploaded, listed, faults>>

MarkPackage(w) ==
    /\ WorkerAt(w, "mark_package")
    /\ SetPackage([pkg EXCEPT !.status = "building"])
    /\ WorkerGo(w, "work")
    /\ UNCHANGED <<builds, calls, uploaded, listed, faults>>

-----------------------------------------------------------------------------
(* Workers: progress, upload and result *)

\* getOwnedBuild
Owned(w) == builds[Mine(w)].worker = w /\ builds[Mine(w)].status \in Held

LogRead(w) ==
    /\ WorkerAt(w, "work")
    /\ workers[w].lines > 0
    /\ workers' = [workers EXCEPT ![w].lines = @ - 1, ![w].pc = IF Owned(w) THEN "log" ELSE "work"]
    /\ UNCHANGED <<pkg, builds, calls, uploaded, listed, faults>>

LogWrite(w) ==
    /\ WorkerAt(w, "log")
    /\ SetBuild(Mine(w), [builds[Mine(w)] EXCEPT !.silent = 0])
    /\ WorkerGo(w, "work")
    /\ UNCHANGED <<pkg, calls, uploaded, listed, faults>>

\* Invoke-Build: whatever throws before the upload ends in a failure report
BuildFails(w) == WorkerAt(w, "work") /\ Report(w, FALSE) /\ UNCHANGED <<pkg, builds, calls, uploaded, listed, faults>>

\* Mutant: the package is ready as soon as the upload has begun
UploadBeginReady(w) ==
    /\ WorkerAt(w, "work")
    /\ IF Owned(w)
       THEN WorkerGo(w, "stream") /\ SetPackage([pkg EXCEPT !.status = "ready"])
       ELSE Report(w, FALSE) /\ UNCHANGED pkg
    /\ UNCHANGED <<builds, calls, uploaded, listed, faults>>

UploadBegin(w) ==
    /\ WorkerAt(w, "work")
    /\ IF Owned(w) THEN WorkerGo(w, "stream") ELSE Report(w, FALSE)
    /\ UNCHANGED <<pkg, builds, calls, uploaded, listed, faults>>

UploadPatch(w) ==
    /\ WorkerAt(w, "stream")
    /\ SetPackage([pkg EXCEPT !.artifact = workers[w].version, !.status = "ready"])
    /\ uploaded' = uploaded \cup {Mine(w)}
    /\ Report(w, Exists)
    /\ UNCHANGED <<builds, calls, listed, faults>>

\* Mutant: a worker may report a build that is closed
ReportableAlways(w) == builds[Mine(w)].worker = w

Reportable(w) == builds[Mine(w)].worker = w /\ builds[Mine(w)].status \notin Closed

\* Mutant: an artifact from earlier is enough for a success
SucceedsByArtifact(ok) == pkg.artifact # None

Succeeds(ok) == ok /\ pkg.artifact # None

\* finishBuild reads build and package before it writes either.  The artifact
\* only ever appears, so the two reads may be one.
FinishRead(w) ==
    /\ WorkerAt(w, "report")
    /\ IF Reportable(w)
       THEN workers' = [workers EXCEPT ![w].pc = "finish", ![w].ok = Succeeds(@),
                                          ![w].row = builds[Mine(w)].status]
       ELSE Rest(w)
    /\ UNCHANGED <<pkg, builds, calls, uploaded, listed, faults>>

FinishBuild(w) ==
    /\ WorkerAt(w, "finish")
    /\ SetBuild(Mine(w), [builds[Mine(w)] EXCEPT
                             !.status = IF workers[w].ok THEN "succeeded" ELSE "failed"])
    /\ WorkerGo(w, "finish_package")
    /\ UNCHANGED <<pkg, calls, uploaded, listed, faults>>

FinishPackage(w) ==
    /\ WorkerAt(w, "finish_package")
    /\ SetPackage([pkg EXCEPT !.status = IF workers[w].ok THEN "ready" ELSE "failed"])
    /\ Rest(w)
    /\ UNCHANGED <<builds, calls, uploaded, listed, faults>>

\* The worker is killed and started again, or a request of it fails: a claim is
\* given up, the try block around the plan turns the error into a failed build,
\* a lost progress line is ignored, a failed upload is reported, a failed
\* report is only logged.
WorkerFails(w) ==
    /\ faults < MaxFaults
    /\ faults' = faults + 1
    /\ \/ ~WorkerAt(w, "idle") /\ Rest(w)
       \/ workers[w].pc \in {"mark_build", "mark_package", "stream"} /\ Report(w, FALSE)
       \/ WorkerAt(w, "log") /\ WorkerGo(w, "work")
    /\ UNCHANGED <<pkg, builds, calls, uploaded, listed>>

\* The worker program: it polls, reports progress, builds, uploads
WorkerStep(w) == Poll(w) \/ LogRead(w) \/ BuildFails(w) \/ UploadBegin(w) \/ UploadPatch(w)

\* The API while it serves a worker
ServeStep(w) ==
    \/ ExpirePackage(w) \/ Take(w) \/ Plan(w) \/ MarkBuild(w) \/ MarkPackage(w)
    \/ LogWrite(w) \/ FinishRead(w) \/ FinishBuild(w) \/ FinishPackage(w)

-----------------------------------------------------------------------------

\* The handlers that stand between reading and writing a row are short compared
\* with StaleAfter; file transfers and builds are not
Tick ==
    /\ \A c \in Calls : calls[c].pc \in {"idle", "done", "installer", "artifact"}
    /\ \A w \in Workers : workers[w].pc \in {"idle", "expire", "take", "work", "stream"}
    /\ \E b \in Builds : builds[b].status \in Held /\ builds[b].silent <= StaleAfter
    /\ builds' = [b \in Builds |->
                    IF builds[b].status \in Held /\ builds[b].silent <= StaleAfter
                    THEN [builds[b] EXCEPT !.silent = @ + 1] ELSE builds[b]]
    /\ UNCHANGED <<pkg, calls, workers, uploaded, listed, faults>>

Next ==
    \/ \E c \in Calls : Request(c) \/ CallStep(c) \/ CallFails(c)
    \/ \E w \in Workers : WorkerStep(w) \/ ServeStep(w) \/ WorkerFails(w)
    \/ Tick

Spec == Init /\ [][Next]_vars

\* The API runs its handlers to their end and time passes.  Of the workers only
\* the reliable ones owe anything: a loop that polls and a build that ends.
Fairness ==
    /\ \A c \in Calls : WF_vars(CallStep(c))
    /\ \A w \in Workers : WF_vars(ServeStep(w))
    /\ \A w \in Reliable : WF_vars(WorkerStep(w))
    /\ WF_vars(Tick)

FairSpec == Spec /\ Fairness
=============================================================================
