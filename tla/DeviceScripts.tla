--------------------------- MODULE DeviceScripts ---------------------------
(***************************************************************************)
(* Jobs that run a script on one Intune device.  Intune knows script       *)
(* objects of the tenant, requests to run one of them on the device, and   *)
(* the last report of the device for each object.  Most jobs create an     *)
(* object of their own, wait for its report and delete it; the jobs of the *)
(* script library share one object.                                        *)
(*                                                                         *)
(* The device fetches a script it is asked for when it is online and runs  *)
(* one at a time.  A grant of administrator rights also leaves a scheduled *)
(* task on it that takes the rights away again.                            *)
(***************************************************************************)
EXTENDS Integers, FiniteSets

CONSTANTS
    Jobs,
    KindChoices,  \* which kinds of job come together: a set of functions on Jobs
    MaxFaults,    \* bound: crashes, failed requests, script errors, power cuts
    MaxTime,      \* bound: the device synchronizes without a report up to this time only
    None

Transient == {"grant", "revoke", "restart", "install", "uninstall"}
Kinds == Transient \cup {"library"}

\* The object a run creates; a crash makes a second run of the same job
Ids == Jobs \X {1, 2}

\* How a job ends
Results == {"succeeded", "failed", "invalid", "publish_failed", "start_failed", "timeout", "thrown", "stalled"}

ASSUME ScriptAssumption ==
    /\ KindChoices \subseteq [Jobs -> Kinds]
    /\ MaxFaults \in Nat /\ MaxTime \in Nat /\ None \notin Jobs \cup Ids \cup Results

VARIABLES
    jobs,      \* the handler runs
    scripts,   \* objects that exist in the tenant
    asked,     \* requests Intune holds for the device: object and job
    reports,   \* last report of the device for each object
    time,      \* the number of reports and synchronizations so far, which orders them and the starts
    device,    \* the script it runs, the rights and the task it has, and whether a revoke missed the member
    done,      \* history: transient scripts the device carried out to the end
    faults

vars == <<jobs, scripts, asked, reports, time, device, done, faults>>

Owner(i) == i[1]
IsLibrary(i) == jobs[Owner(i)].kind = "library"

\* "silent": it succeeded, but its output cannot be read (told apart for packages only)
Outputs == {"ok", "silent", "error", "broken"}
\* When the script was last reported, and when the device last synchronized with Intune
NoReport == [n |-> 0, sync |-> 0, output |-> "none"]
NewJob(k) == [kind |-> k, pc |-> "waiting", runs |-> 0, script |-> None, base |-> NoReport,
              since |-> 0, known |-> FALSE, tolerated |-> FALSE, taken |-> NoReport, stale |-> FALSE, result |-> None]
Resting == [script |-> None, job |-> None, step |-> 0, admin |-> FALSE, task |-> FALSE, missed |-> FALSE]

Init ==
    /\ \E kind \in KindChoices : jobs = [j \in Jobs |-> NewJob(kind[j])]
    /\ scripts = {} /\ asked = {} /\ done = {}
    /\ reports = [i \in Ids |-> NoReport] /\ time = 0
    /\ device = Resting
    /\ faults = 0

Fault == faults < MaxFaults /\ faults' = faults + 1
Going(j, pc) == jobs' = [jobs EXCEPT ![j].pc = pc]
Ending(j, result) == jobs' = [jobs EXCEPT ![j].pc = "ended", ![j].result = result]

\* finally: the object is deleted, whatever came of the run
Leaving(j, result) == jobs' = [jobs EXCEPT ![j].pc = "delete", ![j].result = result]

-----------------------------------------------------------------------------
(* What the handlers make of a report *)

GrantVerdict(output) == IF output \in {"ok", "silent"} THEN "succeeded" ELSE "failed"

RevokeVerdict(output) == IF output \in {"ok", "silent"} THEN "succeeded" ELSE "failed"

RestartVerdict(output) == IF output \in {"ok", "silent"} THEN "succeeded" ELSE "failed"

InstallVerdict(output) == IF output = "ok" THEN "succeeded" ELSE "failed"

UninstallVerdict(output) == IF output = "ok" THEN "succeeded" ELSE "failed"

\* An exit code 1 is a finding of the script, not its failure
LibraryVerdict(output) == IF output = "broken" THEN "failed" ELSE "succeeded"

Verdict(kind, output) ==
    CASE kind = "grant" -> GrantVerdict(output)
      [] kind = "revoke" -> RevokeVerdict(output)
      [] kind = "restart" -> RestartVerdict(output)
      [] kind = "install" -> InstallVerdict(output)
      [] kind = "uninstall" -> UninstallVerdict(output)
      [] kind = "library" -> LibraryVerdict(output)

-----------------------------------------------------------------------------
(* Transient scripts *)

FirstStep(kind) == IF kind = "library" THEN "ensure" ELSE "create"

Run(j) ==
    /\ jobs[j].pc = "waiting"
    /\ jobs' = [jobs EXCEPT ![j] = [NewJob(jobs[j].kind) EXCEPT !.runs = jobs[j].runs + 1, !.pc = FirstStep(jobs[j].kind)]]
    /\ UNCHANGED <<scripts, asked, reports, time, device, done, faults>>

\* The renderer refuses the parameters, or the library does not know the script
Invalid(j) ==
    /\ jobs[j].pc \in {"create", "ensure"}
    /\ Ending(j, "invalid")
    /\ UNCHANGED <<scripts, asked, reports, time, device, done, faults>>

Create(j) ==
    /\ jobs[j].pc = "create"
    /\ scripts' = scripts \cup {<<j, jobs[j].runs>>}
    /\ jobs' = [jobs EXCEPT ![j].pc = "start", ![j].script = <<j, jobs[j].runs>>]
    /\ UNCHANGED <<asked, reports, time, device, done, faults>>

\* The POST ends with an error, before or after Intune has created the object
CreateFails(j) ==
    /\ jobs[j].pc = "create" /\ Fault
    /\ scripts' \in {scripts, scripts \cup {<<j, jobs[j].runs>>}}
    /\ Ending(j, "start_failed")
    /\ UNCHANGED <<asked, reports, time, device, done>>

\* initiateOnDemandProactiveRemediation, after requestedAt was taken
Start(j) ==
    /\ jobs[j].pc = "start"
    /\ asked' = asked \cup {<<jobs[j].script, j>>}
    /\ jobs' = [jobs EXCEPT ![j].pc = "poll", ![j].since = time]
    /\ UNCHANGED <<scripts, reports, time, device, done, faults>>

StartFails(j) ==
    /\ jobs[j].pc = "start" /\ Fault
    /\ asked' \in {asked, asked \cup {<<jobs[j].script, j>>}}
    /\ IF IsLibrary(<<j, 1>>) THEN Ending(j, "start_failed") ELSE Leaving(j, "start_failed")
    /\ UNCHANGED <<scripts, reports, time, device, done>>

\* There was no state before the start, so every report counts
PollTransient(j) ==
    LET state == reports[jobs[j].script]
    IN  /\ jobs[j].pc = "poll" /\ ~IsLibrary(<<j, 1>>)
        /\ state # NoReport
        /\ Leaving(j, Verdict(jobs[j].kind, state.output))
        /\ UNCHANGED <<scripts, asked, reports, time, device, done, faults>>

Timeout(j) ==
    /\ jobs[j].pc = "poll"
    /\ IF IsLibrary(<<j, 1>>) THEN Going(j, "last") ELSE Leaving(j, "timeout")
    /\ UNCHANGED <<scripts, asked, reports, time, device, done, faults>>

\* getRunState throws: the transient job ends as if it had not started
PollFails(j) ==
    /\ jobs[j].pc = "poll" /\ Fault
    /\ IF IsLibrary(<<j, 1>>) THEN Ending(j, "thrown") ELSE Leaving(j, "start_failed")
    /\ UNCHANGED <<scripts, asked, reports, time, device, done>>

\* Mutant: an offline device may still need the object
DeleteUnlessTimeout(j) ==
    /\ jobs[j].pc = "delete"
    /\ scripts' = IF jobs[j].result = "timeout" THEN scripts ELSE scripts \ {jobs[j].script}
    /\ Going(j, "ended")
    /\ UNCHANGED <<asked, reports, time, device, done, faults>>

Delete(j) ==
    /\ jobs[j].pc = "delete"
    /\ scripts' = scripts \ {jobs[j].script}
    /\ Going(j, "ended")
    /\ UNCHANGED <<asked, reports, time, device, done, faults>>

\* The error is logged and nothing else
DeleteFails(j) ==
    /\ jobs[j].pc = "delete" /\ Fault
    /\ Going(j, "ended")
    /\ UNCHANGED <<scripts, asked, reports, time, device, done>>

-----------------------------------------------------------------------------
(* Scripts of the library *)

Existing == {i \in scripts : IsLibrary(i)}

\* The list shows the first object of that name; an older version is patched
EnsureList(j) ==
    /\ jobs[j].pc = "ensure"
    /\ \/ Existing = {} /\ Going(j, "publish")
       \/ \E i \in Existing : jobs' = [jobs EXCEPT ![j].pc = "baseline", ![j].script = i]
    /\ UNCHANGED <<scripts, asked, reports, time, device, done, faults>>

EnsureCreate(j) ==
    /\ jobs[j].pc = "publish"
    /\ scripts' = scripts \cup {<<j, jobs[j].runs>>}
    /\ jobs' = [jobs EXCEPT ![j].pc = "baseline", ![j].script = <<j, jobs[j].runs>>]
    /\ UNCHANGED <<asked, reports, time, device, done, faults>>

EnsureFails(j) ==
    /\ jobs[j].pc \in {"ensure", "publish"} /\ Fault
    /\ Ending(j, "publish_failed")
    /\ \/ UNCHANGED scripts
       \/ jobs[j].pc = "publish" /\ scripts' = scripts \cup {<<j, jobs[j].runs>>}
    /\ UNCHANGED <<asked, reports, time, device, done>>

\* "tolerated": by the time of the start the report or the synchronization is younger than two minutes
Baseline(j) ==
    /\ jobs[j].pc = "baseline"
    /\ \E young \in BOOLEAN :
          /\ young => reports[jobs[j].script] # NoReport
          /\ jobs' = [jobs EXCEPT ![j].pc = "start", ![j].base = reports[jobs[j].script],
                                  ![j].known = TRUE, ![j].tolerated = young]
    /\ UNCHANGED <<scripts, asked, reports, time, device, done, faults>>

\* An error counts as no state
BaselineFails(j) ==
    /\ jobs[j].pc = "baseline" /\ Fault
    /\ Going(j, "start")
    /\ UNCHANGED <<scripts, asked, reports, time, device, done>>

\* Mutant: whatever Intune knows is the result
FreshAny(j, state) == state # NoReport

\* isFreshRunState: the later of the two times counts, and a difference in either
Fresh(j, state) ==
    /\ state # NoReport
    /\ \/ state.n > jobs[j].since \/ state.sync > jobs[j].since \/ jobs[j].tolerated
       \/ jobs[j].base = NoReport \/ state # jobs[j].base

PollLibrary(j) ==
    LET state == reports[jobs[j].script]
    IN  /\ jobs[j].pc = "poll" /\ IsLibrary(<<j, 1>>)
        /\ Fresh(j, state)
        /\ jobs' = [jobs EXCEPT ![j].pc = "ended", ![j].taken = state, ![j].result = Verdict("library", state.output)]
        /\ UNCHANGED <<scripts, asked, reports, time, device, done, faults>>

\* After the timeout: the last known state, marked as possibly old
Last(j) ==
    LET state == reports[jobs[j].script]
    IN  /\ jobs[j].pc = "last"
        /\ IF state = NoReport
           THEN Ending(j, "timeout")
           ELSE jobs' = [jobs EXCEPT ![j].pc = "ended", ![j].taken = state, ![j].stale = TRUE,
                                     ![j].result = Verdict("library", state.output)]
        /\ UNCHANGED <<scripts, asked, reports, time, device, done, faults>>

-----------------------------------------------------------------------------
(* The device, Intune and crashes *)

\* A script that is gone cannot be fetched; the request is dropped
Fetch ==
    /\ device.script = None
    /\ \E q \in asked :
          /\ asked' = asked \ {q}
          /\ device' = IF q[1] \in scripts
                       THEN [device EXCEPT !.script = q[1], !.job = q[2], !.step = 1]
                       ELSE device
    /\ UNCHANGED <<jobs, scripts, reports, time, done, faults>>

Doing == IF device.script = None THEN "none" ELSE jobs[Owner(device.script)].kind

\* A report for an object that was deleted meanwhile is lost
Report(output) ==
    /\ IF device.script \in scripts
       THEN /\ time' = time + 1
            /\ reports' = [reports EXCEPT ![device.script] = [n |-> time + 1, sync |-> time + 1, output |-> output]]
       ELSE UNCHANGED <<reports, time>>
    /\ done' = IF output \in {"ok", "silent"} /\ Doing # "library" THEN done \cup {<<device.script, device.job>>} ELSE done
    /\ UNCHANGED <<jobs, scripts, asked>>

Idle(d) == [d EXCEPT !.script = None, !.job = None, !.step = 0]

\* The device synchronizes, and the states of some scripts of the library get the new time without a new
\* report; of a transient script nobody compares the time
Sync ==
    /\ time < MaxTime
    /\ \E ids \in SUBSET {i \in Existing : reports[i] # NoReport} :
          /\ ids # {}
          /\ reports' = [i \in Ids |-> IF i \in ids THEN [n |-> reports[i].n, sync |-> time + 1, output |-> reports[i].output]
                                       ELSE reports[i]]
    /\ time' = time + 1
    /\ UNCHANGED <<jobs, scripts, asked, device, done, faults>>

\* The account becomes a member, then the task that removes it is registered.  Adding a member that the
\* look-up has missed ends the script
Grant ==
    /\ Doing = "grant"
    /\ \/ /\ device.step = 1
          /\ device' = [device EXCEPT !.step = 2, !.admin = TRUE]
          /\ UNCHANGED <<jobs, scripts, asked, reports, time, done>>
       \/ /\ device.step = 1 /\ device.admin
          /\ device' = Idle(device)
          /\ Report("error")
       \/ /\ device.step = 2
          /\ device' = Idle([device EXCEPT !.task = TRUE])
          /\ Report("ok")
    /\ UNCHANGED faults

\* Mutant: the task goes first
RevokeTaskFirst ==
    /\ Doing = "revoke"
    /\ \/ /\ device.step = 1
          /\ device' = [device EXCEPT !.step = 2, !.task = FALSE]
          /\ UNCHANGED <<jobs, scripts, asked, reports, time, done>>
       \/ /\ device.step = 2
          /\ \E found \in BOOLEAN :
                device' = Idle([device EXCEPT !.admin = device.admin /\ ~found, !.missed = device.missed \/ (device.admin /\ ~found)])
          /\ Report("ok")
    /\ UNCHANGED faults

\* The member is removed if the look-up finds it (an error of the look-up counts as not found, and a local
\* name or a SID never equals the name it returns), then the task is, in any case
Revoke ==
    /\ Doing = "revoke"
    /\ \/ /\ device.step = 1
          /\ \E found \in BOOLEAN :
                device' = [device EXCEPT !.step = 2, !.admin = device.admin /\ ~found,
                                         !.missed = device.missed \/ (device.admin /\ ~found)]
          /\ UNCHANGED <<jobs, scripts, asked, reports, time, done>>
       \/ /\ device.step = 2
          /\ device' = Idle([device EXCEPT !.task = FALSE])
          /\ Report("ok")
    /\ UNCHANGED faults

\* Every other script is one step here
Execute ==
    /\ Doing \in {"restart", "install", "uninstall", "library"}
    /\ device' = Idle(device)
    /\ \E output \in {"ok", "silent"} : (output = "silent" => Doing \in {"install", "uninstall"}) /\ Report(output)
    /\ UNCHANGED faults

\* A command of the script throws: it reports the error and what it did stays
ScriptFails ==
    /\ Doing # "none" /\ Fault
    /\ device' = Idle(device)
    /\ \E output \in {"error", "broken"} : Report(output)

\* The device is switched off; the run is lost
PowerCut ==
    /\ Doing # "none" /\ Fault
    /\ device' = Idle(device)
    /\ UNCHANGED <<jobs, scripts, asked, reports, time, done>>

\* The scheduled task: member and task are gone
TaskRuns ==
    /\ device.task
    /\ device' = [device EXCEPT !.admin = FALSE, !.task = FALSE]
    /\ UNCHANGED <<jobs, scripts, asked, reports, time, done, faults>>

\* The API process ends in the middle of the handlers
Crash ==
    /\ Fault
    /\ \E j \in Jobs : jobs[j].pc \notin {"waiting", "ended", "orphan"}
    /\ jobs' = [j \in Jobs |-> IF jobs[j].pc \in {"waiting", "ended"} THEN jobs[j] ELSE [jobs[j] EXCEPT !.pc = "orphan"]]
    /\ UNCHANGED <<scripts, asked, reports, time, device, done>>

\* BullMQ's stall check: once more, then the job has failed
Stalled(j) ==
    /\ jobs[j].pc = "orphan"
    /\ IF jobs[j].runs = 1 THEN Going(j, "waiting") ELSE Ending(j, "stalled")
    /\ UNCHANGED <<scripts, asked, reports, time, device, done, faults>>

HandlerStep(j) ==
    \/ Run(j) \/ Create(j) \/ Start(j) \/ PollTransient(j) \/ Timeout(j) \/ Delete(j)
    \/ EnsureList(j) \/ EnsureCreate(j) \/ Baseline(j) \/ PollLibrary(j) \/ Last(j) \/ Stalled(j)
HandlerFails(j) ==
    CreateFails(j) \/ StartFails(j) \/ PollFails(j) \/ DeleteFails(j) \/ EnsureFails(j) \/ BaselineFails(j)
DeviceStep == Fetch \/ Grant \/ Revoke \/ Execute

Next ==
    \/ \E j \in Jobs : HandlerStep(j) \/ HandlerFails(j) \/ Invalid(j)
    \/ DeviceStep \/ Sync \/ ScriptFails \/ PowerCut \/ TaskRuns \/ Crash

Spec == Init /\ [][Next]_vars

\* The task's time comes; nothing makes the device fetch or end a script
FairSpec == Spec /\ WF_vars(TaskRuns)
=============================================================================
