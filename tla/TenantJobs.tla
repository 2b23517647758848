----------------------------- MODULE TenantJobs -----------------------------
(***************************************************************************)
(* Handlers that change a customer's tenant, side by side.  Every handler is a *)
(* sequence of requests to Microsoft Graph or Azure Resource Manager, and  *)
(* between two of them another job, or an administrator in Microsoft's     *)
(* portal, may change what the handler has read.  A request whose answer   *)
(* is lost is sent again, a job whose worker dies runs again from its      *)
(* start.  Approval lies between the preview and the run.                  *)
(***************************************************************************)
EXTENDS TenantOperations

CONSTANTS
    Handlers,
    Cases,       \* jobs that come together, the facts at the start and those the portal may change
    MaxMishaps   \* bound: lost answers, failed requests, timeouts, crashes

\* The words a job of each area may be about
IsPlan(p) ==
    \/ p.area = "identity" /\ p.type \in {"identity.assign-license", "identity.remove-license", "identity.disable-user",
                                         "identity.enable-user", "identity.revoke-sessions", "identity.reset-password"}
    \/ p.area = "group" /\ p.type \in {"group.add", "group.remove"} /\ p.as \in {"member", "owner"}
    \/ p.area = "apps" /\ p.type \in {"apps.assign", "apps.unassign", "apps.create-deployment-groups"}
    \/ p.area = "mailbox" /\ p.type \in {"mailbox.set-auto-reply", "mailbox.create-forward-rule",
                                        "mailbox.set-rule", "mailbox.delete-rule"}
    \/ p.area = "vm" /\ p.type \in {"vm.start", "vm.stop", "vm.restart", "vm.resize", "vm.deploy"}
    \/ p.area = "avd" /\ p.type \in {"avd.start-session-host", "avd.stop-session-host", "avd.set-drain-mode",
                                    "avd.disconnect-session", "avd.logoff-session", "avd.send-message"}
    \/ p.area = "device" /\ p.type \in {"device.sync", "device.restart", "device.defender-scan"}
    \/ p.area = "monitor" /\ p.type \in {"tenant.monitor-enable", "tenant.monitor-disable"}

\* A fact that is a flag is nothing but its word, a rule is on or off
Flags == {"enabled", "session", "running", "script", "schedule"}
WellFormed(f) ==
    /\ f[1] \in Flags => f = <<f[1]>>
    /\ f[1] = "rule" => f = <<"rule", f[2], f[3]>>

\* What may be the case: a rule has one state, a schedule is one of a script
Possible(facts) ==
    /\ IsFiniteSet(facts)
    /\ \A f \in facts : WellFormed(f)
    /\ \A e, f \in Named(facts, "rule") : e[2] = f[2] => e = f
    /\ <<"schedule">> \in facts => <<"script">> \in facts

ASSUME TenantAssumption ==
    /\ MaxMishaps \in Nat
    /\ \A c \in Cases :
          /\ DOMAIN c.jobs = Handlers /\ \A j \in Handlers : IsPlan(c.jobs[j])
          /\ Possible(c.facts) /\ \A f \in c.portal : WellFormed(f)

VARIABLES
    tenant,   \* the facts that hold
    jobs,     \* the handler runs
    portal,   \* facts the administrator of the tenant may still change
    mishaps

tenantVars == <<tenant, jobs, portal, mishaps>>

NoPreview == [scope |-> {}, after |-> {}, refused |-> FALSE]

\* quiet, quietRun: nobody else has changed the tenant since the preview, since the run's start
\* sent: steps that took effect; twice: one that makes a new object did so more than once
\* unified: the group was a Microsoft 365 group when it was loaded; paged: a list of assignments was read in part
\* blind: success without a look at the outcome, as the list could not be read or no operation was named to wait for
NewJob(p) == [p |-> p, pc |-> "new", at |-> 1, run |-> 0, seen |-> {}, promise |-> NoPreview, previewed |-> FALSE,
              quiet |-> FALSE, quietRun |-> FALSE, sent |-> {}, twice |-> FALSE, blind |-> FALSE, paged |-> FALSE,
              unified |-> FALSE, op |-> "none"]

TenantInit ==
    \E c \in Cases :
        /\ tenant = c.facts /\ portal = c.portal
        /\ jobs = [j \in Handlers |-> NewJob(c.jobs[j])]
        /\ mishaps = 0

-----------------------------------------------------------------------------
(* Which handler a job runs *)

Licences == {"identity.assign-license", "identity.remove-license"}

\* Registered with requiresPreview: false
Unprepared == {"avd.set-drain-mode", "avd.disconnect-session", "avd.logoff-session", "avd.send-message"}

Program(p) ==
    CASE p.type \in Licences -> LicenceProgram(p)
      [] p.area = "identity" /\ p.type \notin Licences -> AccountProgram(p)
      [] p.area = "group" -> GroupProgram(p)
      [] p.area = "apps" -> AppProgram(p)
      [] p.area = "mailbox" -> MailboxProgram(p)
      [] p.area = "vm" -> VmProgram(p)
      [] p.type \in Unprepared -> SessionProgram(p)
      [] p.area = "avd" /\ p.type \notin Unprepared -> HostProgram(p)
      [] p.area = "device" -> DeviceProgram(p)
      [] p.area = "monitor" -> MonitorProgram(p)

PreviewOf(p, facts, valid) ==
    CASE p.type \in Licences -> LicencePreview(p, facts)
      [] p.area = "identity" /\ p.type \notin Licences -> AccountPreview(p, facts)
      [] p.area = "group" -> GroupPreview(p, facts)
      [] p.type \in {"apps.assign", "apps.unassign"} -> AppPreview(p, facts)
      [] p.type = "apps.create-deployment-groups" -> DeploymentPreview(p, facts)
      [] p.area = "mailbox" -> MailboxPreview(p, facts)
      [] p.area = "vm" -> VmPreview(p, facts, valid)
      [] p.area = "avd" -> HostPreview(p)
      [] p.area = "device" -> DevicePreview(p, facts)
      [] p.area = "monitor" -> MonitorPreview(p)

Verdict(p, step, facts, unified, readable) ==
    CASE p.area = "group" -> GroupVerdict(p, step, facts, unified)
      [] p.area = "apps" -> AppVerdict(p, step, facts)
      [] p.area = "mailbox" -> MailboxVerdict(p, step, facts)
      [] p.area = "monitor" -> MonitorVerdict(facts, readable)
      [] p.area = "vm" -> "go"

Effect(p, step, facts, seen, run) ==
    CASE p.area = "identity" -> IdentityEffect(p, step, facts, run)
      [] p.area = "group" -> GroupEffect(p, step)
      [] p.area = "apps" -> AppEffect(p, step, facts, seen)
      [] p.area = "mailbox" -> MailboxEffect(p, step, facts)
      [] p.area = "vm" -> ResourceGroupEffect
      [] p.area = "avd" -> SessionEffect(p, step, facts)
      [] p.area = "device" -> DeviceEffect(p, facts)
      [] p.area = "monitor" -> MonitorEffect(p, step)

Reads == {"loadGroup", "hasRelation", "countOwners", "getAssignments", "findRequired", "findAvailable", "findUninstall",
          "resolveUserId", "getRule", "getVm", "findTenantScriptId", "seal"}
Operations == {"power", "resizeVm", "deploy"}
Makes == {"createRequired", "createAvailable", "createUninstall", "createForwardRule", "sendMessage", "deviceAction"}

-----------------------------------------------------------------------------
(* Bookkeeping *)

Step(j) == Program(jobs[j].p)[jobs[j].at]
At(j, steps) == jobs[j].pc = "running" /\ Step(j) \in steps
Requests(j) == jobs[j].pc = "running" /\ Step(j) \notin Reads \cup Operations \cup {"wait"}
Outcome(j) == Effect(jobs[j].p, Step(j), tenant, jobs[j].seen, jobs[j].run)
Mishap == mishaps < MaxMishaps /\ mishaps' = mishaps + 1

Advanced(job, n) ==
    IF job.at + n > Len(Program(job.p)) THEN [job EXCEPT !.pc = "succeeded"] ELSE [job EXCEPT !.at = @ + n]

Turns(j, job) == jobs' = [jobs EXCEPT ![j] = job]

\* job is what has become of j; the others notice what it has changed
Becomes(j, job, facts) ==
    /\ tenant' = facts
    /\ jobs' = [k \in Handlers |-> CASE k = j -> job
                                 [] k # j /\ facts = tenant -> jobs[k]
                                 [] OTHER -> [jobs[k] EXCEPT !.quiet = FALSE, !.quietRun = FALSE]]

TookEffect(job, step) ==
    [job EXCEPT !.sent = @ \cup {job.at}, !.twice = @ \/ (step \in Makes /\ job.at \in job.sent)]

-----------------------------------------------------------------------------
(* Preview and run *)

\* The reads of a preview count as one: what changes between them counts as a change since the preview
Preview(j) ==
    LET p == jobs[j].p
    IN  /\ jobs[j].pc = "new" /\ p.type \notin Unprepared
        /\ p.type \in {"mailbox.set-rule", "mailbox.delete-rule"} => About(tenant, "rule", p.of) # {}
        /\ \E valid \in BOOLEAN :
              Turns(j, [jobs[j] EXCEPT !.pc = "previewed", !.promise = PreviewOf(p, tenant, valid), !.previewed = TRUE,
                                       !.quiet = TRUE, !.paged = p.type \in {"apps.assign", "apps.unassign"} /\ ~Whole(tenant)])
        /\ UNCHANGED <<tenant, portal, mishaps>>

\* Also before the preview is there: the row can be approved meanwhile
Start(j) ==
    /\ jobs[j].pc \in {"new", "previewed"}
    /\ Turns(j, [jobs[j] EXCEPT !.pc = "running", !.run = 1, !.quietRun = TRUE])
    /\ UNCHANGED <<tenant, portal, mishaps>>

\* A read, and what the handler makes of it
Ask(j) ==
    /\ At(j, Reads)
    /\ \E readable \in IF Step(j) = "findTenantScriptId" THEN BOOLEAN ELSE {TRUE} :
          LET verdict == Verdict(jobs[j].p, Step(j), tenant, jobs[j].unified, readable)
              job == [jobs[j] EXCEPT !.seen = tenant, !.blind = @ \/ ~readable,
                                     !.paged = @ \/ (Step(j) = "getAssignments" /\ ~Whole(tenant)),
                                     !.unified = IF Step(j) = "loadGroup" THEN <<"m365">> \in tenant ELSE @]
          IN  Turns(j, CASE verdict = "go" -> Advanced(job, 1)
                         [] verdict = "skip" -> Advanced(job, 2)
                         [] verdict = "unchanged" -> [job EXCEPT !.pc = "succeeded"]
                         [] OTHER -> [job EXCEPT !.pc = verdict])
    /\ UNCHANGED <<tenant, portal, mishaps>>

\* The object a request addresses is not there any more
Gone(p, step, facts) ==
    \/ step = "removeRelation" /\ <<p.as, p.of>> \notin facts
    \/ step \in {"setRuleEnabled", "deleteRule"} /\ About(facts, "rule", p.of) = {}
    \/ step \in {"disconnectSession", "logoffSession"} /\ Named(facts, "desktop") = {}
    \/ step = "setHourlySchedule" /\ <<"script">> \notin facts

Send(j) ==
    /\ Requests(j) /\ ~Gone(jobs[j].p, Step(j), tenant)
    /\ Becomes(j, Advanced(TookEffect(jobs[j], Step(j)), 1), Apply(tenant, Outcome(j)))
    /\ UNCHANGED <<portal, mishaps>>

\* Microsoft may refuse what would change nothing, and refuses what addresses nothing
Rejected(j) ==
    /\ Requests(j)
    /\ Gone(jobs[j].p, Step(j), tenant) \/ Apply(tenant, Outcome(j)) = tenant
    /\ Turns(j, [jobs[j] EXCEPT !.pc = "failed"])
    /\ UNCHANGED <<tenant, portal, mishaps>>

\* Carried out, but the answer is lost or late: the client sends the request again
AnswerLost(j) ==
    /\ Requests(j) /\ ~Gone(jobs[j].p, Step(j), tenant) /\ Mishap
    /\ Becomes(j, TookEffect(jobs[j], Step(j)), Apply(tenant, Outcome(j)))
    /\ UNCHANGED portal

\* An error that is not worth a retry, or the last retry; the request may have been carried out
Fails(j) ==
    /\ jobs[j].pc = "running" /\ Step(j) \notin {"wait", "getVm"} /\ Mishap
    /\ \/ Becomes(j, [jobs[j] EXCEPT !.pc = "failed"], tenant)
       \/ /\ Requests(j) /\ ~Gone(jobs[j].p, Step(j), tenant)
          /\ Becomes(j, [TookEffect(jobs[j], Step(j)) EXCEPT !.pc = "failed"], Apply(tenant, Outcome(j)))
       \/ /\ At(j, Operations) /\ Becomes(j, [jobs[j] EXCEPT !.pc = "failed", !.op = "going"], tenant)
    /\ UNCHANGED portal

\* ARM takes an operation on; a deployment of the same name that is going on is refused.  named: the
\* answer names the operation, else the handler does not wait for it.  A deployment is asked for by its own name
Accepted(j) ==
    /\ At(j, Operations)
    /\ Step(j) = "deploy" => jobs[j].op # "going"
    /\ \E named \in IF Step(j) = "deploy" THEN {TRUE} ELSE BOOLEAN :
          Turns(j, IF named THEN Advanced([jobs[j] EXCEPT !.op = "going"], 1)
                   ELSE Advanced([jobs[j] EXCEPT !.op = "going", !.blind = TRUE], 2))
    /\ UNCHANGED <<tenant, portal, mishaps>>

Conflict(j) ==
    /\ At(j, Operations) /\ jobs[j].op = "going"
    /\ Turns(j, [jobs[j] EXCEPT !.pc = "failed"])
    /\ UNCHANGED <<tenant, portal, mishaps>>

AzureEnds(j) ==
    /\ jobs[j].op = "going"
    /\ \/ /\ OperationFits(jobs[j].p, tenant)
          /\ Becomes(j, [jobs[j] EXCEPT !.op = "done"], Apply(tenant, OperationEffect(jobs[j].p, tenant, jobs[j].run)))
       \/ Becomes(j, [jobs[j] EXCEPT !.op = "failed"], tenant)
    /\ UNCHANGED <<portal, mishaps>>

\* Mutant: an operation that has ended has ended well
WaitEndsAnyhow(j) ==
    /\ At(j, {"wait"}) /\ jobs[j].op \in {"done", "failed"}
    /\ Turns(j, Advanced(jobs[j], 1))
    /\ UNCHANGED <<tenant, portal, mishaps>>

WaitEnds(j) ==
    /\ At(j, {"wait"}) /\ jobs[j].op \in {"done", "failed"}
    /\ Turns(j, IF jobs[j].op = "done" THEN Advanced(jobs[j], 1) ELSE [jobs[j] EXCEPT !.pc = "failed"])
    /\ UNCHANGED <<tenant, portal, mishaps>>

WaitTimesOut(j) ==
    /\ At(j, {"wait"}) /\ jobs[j].op = "going" /\ Mishap
    /\ Turns(j, [jobs[j] EXCEPT !.pc = "failed"])
    /\ UNCHANGED <<tenant, portal>>

\* The process ends, or the success cannot be recorded: BullMQ gives the job to a worker again
Repeat(j) ==
    /\ jobs[j].pc \in {"running", "succeeded"} /\ jobs[j].run = 1 /\ Mishap
    /\ Turns(j, [jobs[j] EXCEPT !.pc = "running", !.at = 1, !.run = 2, !.quietRun = TRUE, !.blind = FALSE])
    /\ UNCHANGED <<tenant, portal>>

\* A target has one intent, a rule one state; a script goes with its schedule, an assignment with its settings
Toggled(facts, f) ==
    IF f \in facts
    THEN facts \ ({f} \cup (IF f = <<"script">> THEN {<<"schedule">>} ELSE {})
                       \cup IF f[1] = "assigned" THEN About(facts, "settings", f[2]) ELSE {})
    ELSE {e \in facts : ~(/\ f[1] \in {"assigned", "rule"} /\ (e[1] = f[1] \/ (f[1] = "assigned" /\ e[1] = "settings"))
                          /\ e[2] = f[2])} \cup {f}

\* Somebody changes one of the facts in Microsoft's portal
Portal ==
    /\ \E f \in portal :
          /\ f = <<"schedule">> => <<"script">> \in tenant
          /\ tenant' = Toggled(tenant, f)
          /\ jobs' = [j \in Handlers |-> [jobs[j] EXCEPT !.quiet = FALSE, !.quietRun = FALSE]]
    /\ portal' = {}
    /\ UNCHANGED mishaps

TenantNext ==
    \/ Portal
    \/ \E j \in Handlers :
          \/ Preview(j) \/ Start(j) \/ Ask(j) \/ Send(j) \/ Rejected(j) \/ AnswerLost(j) \/ Fails(j)
          \/ Accepted(j) \/ Conflict(j) \/ AzureEnds(j) \/ WaitEnds(j) \/ WaitTimesOut(j) \/ Repeat(j)

TenantSpec == TenantInit /\ [][TenantNext]_tenantVars

=============================================================================
