--------------------------- MODULE TenantJobsProps ---------------------------
EXTENDS TenantJobs

Scope(facts, words) == {f \in facts : f[1] \in words}

\* What a job that reports success was asked for
Goal(p, facts, run) ==
    CASE p.type = "identity.assign-license" -> <<"licence", p.of>> \in facts
      [] p.type = "identity.remove-license" -> <<"licence", p.of>> \notin facts
      [] p.type = "identity.disable-user" -> <<"enabled">> \notin facts /\ (p.as = "revoke" => <<"session">> \notin facts)
      [] p.type = "identity.enable-user" -> <<"enabled">> \in facts
      [] p.type = "identity.revoke-sessions" -> <<"session">> \notin facts
      [] p.type = "identity.reset-password" -> Named(facts, "password") = {<<"password", run>>}
      [] p.type = "group.add" -> <<p.as, p.of>> \in facts
      [] p.type = "group.remove" -> <<p.as, p.of>> \notin facts
      [] p.type = "apps.assign" -> About(facts, "assigned", p.of) = {<<"assigned", p.of, p.as>>}
      [] p.type = "apps.unassign" -> <<"assigned", p.of, p.as>> \notin facts
      [] p.type = "apps.create-deployment-groups" ->
            \A i \in 1..3 : /\ Named(facts, Intents[i]) # {}
                            /\ p.as = "assign" => About(facts, "assigned", <<Intents[i], 1>>) = {<<"assigned", <<Intents[i], 1>>, Intents[i]>>}
      [] p.type = "mailbox.set-auto-reply" -> Named(facts, "reply") = {<<"reply", p.as>>}
      [] p.type = "mailbox.create-forward-rule" -> \E f \in Named(facts, "rule") : f = <<"rule", f[2], "on">>
      [] p.type = "mailbox.set-rule" -> About(facts, "rule", p.of) \subseteq {<<"rule", p.of, p.as>>}
      [] p.type = "mailbox.delete-rule" -> About(facts, "rule", p.of) = {}
      [] p.type \in {"vm.start", "vm.restart", "avd.start-session-host"} -> <<"running">> \in facts
      [] p.type \in {"vm.stop", "avd.stop-session-host"} -> <<"running">> \notin facts /\ Named(facts, "desktop") = {}
      [] p.type = "vm.resize" -> Named(facts, "size") = {<<"size", p.as>>}
      [] p.type = "vm.deploy" -> <<"resourceGroup">> \in facts /\ Named(facts, "vm") = {<<"vm", run>>}
      [] p.type = "avd.set-drain-mode" -> (<<"drain">> \in facts) = (p.as = "drain")
      [] p.type = "avd.disconnect-session" -> <<"desktop", "on">> \notin facts
      [] p.type = "avd.logoff-session" -> Named(facts, "desktop") = {}
      [] p.type = "avd.send-message" -> Named(facts, "message") # {}
      [] p.area = "device" -> Named(facts, "asked") # {}
      [] p.type = "tenant.monitor-enable" -> {<<"script">>, <<"schedule">>} \subseteq facts
      [] p.type = "tenant.monitor-disable" -> <<"schedule">> \notin facts

\* A job that reports success has done what it was asked for, however often it was started over
\* and whatever its requests met, unless somebody else has changed the tenant since its run began.
\* A reader of success must not have to look at the tenant.  blind: monitor-disable takes an
\* unreadable list for a missing script and reports success all the same, and a power or resize job
\* does so while its operation goes on when Azure's answer has named no operation to wait for.
SuccessIsDone ==
    \A j \in Handlers : LET job == jobs[j]
                    IN  job.pc = "succeeded" /\ job.quietRun /\ ~job.blind => Goal(job.p, tenant, job.run)

\* Previews that announce a refusal the handler does not make
Warned == {"vm.deploy", "mailbox.set-auto-reply"}

\* The state an engineer has approved is the state that comes about, a job is only refused when its
\* preview has said so, and changes nothing when it has said so, unless somebody else has changed the
\* tenant since the preview, a request that makes a new object was carried out twice, the job reported
\* success blindly or met more assignments than one page holds.  Preview and handler are separate code,
\* and disagree on a refusal in three jobs: Warned and Nowhere name them.
PreviewKept ==
    \A j \in Handlers :
        LET job == jobs[j]
        IN  job.previewed /\ job.quiet =>
              /\ job.pc = "succeeded" /\ ~job.twice /\ ~job.blind /\ ~job.paged =>
                    Scope(tenant, job.promise.scope) = job.promise.after
              /\ job.pc = "refused" => job.promise.refused \/ Nowhere(job.p)
              /\ job.promise.refused /\ job.p.type \notin Warned => job.sent = {}

Moved(j) == jobs'[j].pc # jobs[j].pc \/ jobs'[j].at # jobs[j].at \/ jobs'[j].sent # jobs[j].sent
IsOwn(p, f) == p.type = "apps.create-deployment-groups" \/ f[2] = p.of

\* What a job did not ask for goes wrong only when it changed after the job's last look: the
\* assignment of another target comes or goes only if it went or came since, or if the list had more
\* than one page; and the last owner of a Microsoft 365 group is taken away only if the group was none
\* when it was loaded, or its owners changed since they were counted.
OnlyStaleHurts ==
    [][\A j \in Handlers : Moved(j) =>
          /\ \A f \in Named(tenant, "assigned") \ tenant' : IsOwn(jobs[j].p, f) \/ f \notin jobs[j].seen \/ ~Whole(jobs[j].seen)
          /\ \A f \in Named(tenant', "assigned") \ tenant : IsOwn(jobs[j].p, f) \/ f \in jobs[j].seen
          /\ <<"m365">> \in tenant /\ Named(tenant, "owner") # {} /\ Named(tenant', "owner") = {} =>
                ~jobs[j].unified \/ Named(jobs[j].seen, "owner") # Named(tenant, "owner")]_tenantVars
=============================================================================
