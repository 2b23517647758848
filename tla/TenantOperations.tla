-------------------------- MODULE TenantOperations --------------------------
(***************************************************************************)
(* What the handlers of the tenant jobs do, one after the other: a tenant  *)
(* is a set of facts, a handler a sequence of steps.  A step reads, and    *)
(* decides how the job goes on, or changes the tenant, or waits.  The      *)
(* preview of a job is computed from the facts it reads, apart from the    *)
(* handler, by code of its own.                                            *)
(*                                                                         *)
(* A job p has a type, the object it is about (of) and what the object     *)
(* shall be (as).  facts is the tenant when a step happens, seen what the  *)
(* job has read last, run the number of its run.                           *)
(***************************************************************************)
EXTENDS Integers, Sequences, FiniteSets

CONSTANT PageSize   \* how many assignments of an app Microsoft Graph answers with

ASSUME PageAssumption == PageSize \in Nat \ {0}

\* Facts are tuples that begin with a word for what they say
Named(facts, word) == {f \in facts : f[1] = word}
About(facts, word, x) == {f \in Named(facts, word) : f[2] = x}
Change(drop, add) == [drop |-> drop, add |-> add]
Apply(facts, change) == (facts \ change.drop) \cup change.add
Nothing == Change({}, {})

\* Microsoft gives a new object an id of its own
NewId(facts, word) == CHOOSE n \in 1..(Cardinality(Named(facts, word)) + 1) : About(facts, word, n) = {}

-----------------------------------------------------------------------------
(* Users: accounts, sessions, passwords and licences *)

LicenceProgram(p) == IF p.type = "identity.assign-license" THEN <<"assignLicense">> ELSE <<"removeLicense">>

AccountProgram(p) ==
    CASE p.type = "identity.disable-user" -> IF p.as = "revoke" THEN <<"disableUser", "revokeSignInSessions">> ELSE <<"disableUser">>
      [] p.type = "identity.enable-user" -> <<"enableUser">>
      [] p.type = "identity.revoke-sessions" -> <<"revokeSignInSessions">>
      [] p.type = "identity.reset-password" -> <<"resetPassword">>

\* The temporary password is made in the run and shown as its result
IdentityEffect(p, step, facts, run) ==
    CASE step = "assignLicense" -> Change({}, {<<"licence", p.of>>})
      [] step = "removeLicense" -> Change({<<"licence", p.of>>}, {})
      [] step = "disableUser" -> Change({<<"enabled">>}, {})
      [] step = "enableUser" -> Change({}, {<<"enabled">>})
      [] step = "revokeSignInSessions" -> Change({<<"session">>}, {})
      [] step = "resetPassword" -> Change(Named(facts, "password"), {<<"password", run>>})

\* assign-license shows all licences, remove-license only the one it removes
LicencePreview(p, facts) ==
    IF p.type = "identity.assign-license"
    THEN [scope |-> {"licence"}, after |-> Named(facts, "licence") \cup {<<"licence", p.of>>}, refused |-> FALSE]
    ELSE [scope |-> {}, after |-> {}, refused |-> FALSE]

AccountPreview(p, facts) ==
    CASE p.type = "identity.disable-user" ->
            [scope |-> {"enabled"} \cup IF p.as = "revoke" THEN {"session"} ELSE {}, after |-> {}, refused |-> FALSE]
      [] p.type = "identity.enable-user" -> [scope |-> {"enabled"}, after |-> {<<"enabled">>}, refused |-> FALSE]
      [] p.type = "identity.revoke-sessions" -> [scope |-> {"session"}, after |-> {}, refused |-> FALSE]
      [] p.type = "identity.reset-password" -> [scope |-> {}, after |-> {}, refused |-> FALSE]

-----------------------------------------------------------------------------
(* Groups: p.as is "member" or "owner" *)

GroupProgram(p) ==
    IF p.type = "group.add" THEN <<"loadGroup", "hasRelation", "addRelation">>
    ELSE IF p.as = "owner" THEN <<"loadGroup", "hasRelation", "countOwners", "removeRelation">>
    ELSE <<"loadGroup", "hasRelation", "removeRelation">>

\* unified: a Microsoft 365 group, as loadGroup found it; the owners of another group are not counted
GroupVerdict(p, step, facts, unified) ==
    LET present == <<p.as, p.of>> \in facts
    IN  CASE step = "loadGroup" -> IF <<"dynamic">> \in facts /\ p.as = "member" THEN "refused" ELSE "go"
          [] step = "hasRelation" -> IF present = (p.type = "group.add") THEN "unchanged"
                                     ELSE IF p.type = "group.remove" /\ p.as = "owner" /\ ~unified THEN "skip" ELSE "go"
          [] step = "countOwners" -> IF Cardinality(Named(facts, "owner")) <= 1 THEN "refused" ELSE "go"

GroupEffect(p, step) ==
    IF step = "addRelation" THEN Change({}, {<<p.as, p.of>>}) ELSE Change({<<p.as, p.of>>}, {})

GroupPreview(p, facts) ==
    [scope |-> {p.as},
     after |-> IF p.type = "group.add" THEN Named(facts, p.as) \cup {<<p.as, p.of>>} ELSE Named(facts, p.as) \ {<<p.as, p.of>>},
     refused |-> \/ <<"dynamic">> \in facts /\ p.as = "member"
                 \/ /\ p.type = "group.remove" /\ p.as = "owner" /\ <<"m365">> \in facts
                    /\ Cardinality(Named(facts, "owner")) <= 1]

-----------------------------------------------------------------------------
(* Apps: an assignment is a target (a group) and an intent (p.as); it may have settings *)

\* Only the first page of a list is read
Whole(facts) == Cardinality(Named(facts, "assigned")) <= PageSize
FirstPage(facts) ==
    IF Whole(facts) THEN Named(facts, "assigned")
    ELSE CHOOSE page \in SUBSET Named(facts, "assigned") : Cardinality(page) = PageSize

Intents == <<"required", "available", "uninstall">>

AppProgram(p) ==
    CASE p.type \in {"apps.assign", "apps.unassign"} -> <<"getAssignments", "replaceAssignments">>
      [] p.type = "apps.create-deployment-groups" ->
            IF p.as = "assign"
            THEN <<"findRequired", "createRequired", "findAvailable", "createAvailable", "findUninstall", "createUninstall",
                   "getAssignments", "replaceAssignments">>
            ELSE <<"findRequired", "createRequired", "findAvailable", "createAvailable", "findUninstall", "createUninstall">>

IntentOf(step) ==
    CASE step \in {"findRequired", "createRequired"} -> "required"
      [] step \in {"findAvailable", "createAvailable"} -> "available"
      [] step \in {"findUninstall", "createUninstall"} -> "uninstall"

\* An existing group of the name is used; the step that would create it is skipped
AppVerdict(p, step, facts) ==
    CASE step = "getAssignments" -> IF p.type = "apps.unassign" /\ <<"assigned", p.of, p.as>> \notin FirstPage(facts) THEN "missing" ELSE "go"
      [] OTHER -> IF Named(facts, IntentOf(step)) # {} THEN "skip" ELSE "go"

\* Mutant: /assign is sent only what is new
MergeNewOnly(existing, add, remove) == add \ remove

\* The same target replaces the old assignment, anything else is appended
Merge(existing, add, remove) ==
    {e \in existing \ remove : ~\E a \in add : a[2] = e[2]} \cup add

\* What the job adds: its own target, or the three groups it has found or made
AddedBy(p, facts) ==
    CASE p.type = "apps.assign" -> {<<"assigned", p.of, p.as>>}
      [] p.type = "apps.unassign" -> {}
      [] OTHER -> {<<"assigned", <<Intents[i], 1>>, Intents[i]>> : i \in {k \in 1..3 : Named(facts, Intents[k]) # {}}}

RemovedBy(p) == IF p.type = "apps.unassign" THEN {<<"assigned", p.of, p.as>>} ELSE {}

\* /assign replaces the whole list, and what is written back has no settings
AppEffect(p, step, facts, seen) ==
    IF step = "replaceAssignments"
    THEN Change(Named(facts, "assigned") \cup Named(facts, "settings"), Merge(FirstPage(seen), AddedBy(p, seen), RemovedBy(p)))
    ELSE Change({}, {<<IntentOf(step), NewId(facts, IntentOf(step))>>})

AppPreview(p, facts) ==
    [scope |-> {"assigned"}, after |-> Merge(FirstPage(facts), AddedBy(p, facts), RemovedBy(p)), refused |-> FALSE]

\* Nothing is read: groups of the same name are used again, not doubled
DeploymentPreview(p, facts) ==
    LET words == {Intents[i] : i \in 1..3}
        after == UNION {IF Named(facts, w) = {} THEN {<<w, 1>>} ELSE Named(facts, w) : w \in words}
    IN  [scope |-> words \cup IF p.as = "assign" THEN {"assigned"} ELSE {},
         after |-> after \cup IF p.as = "assign" THEN Merge(Named(facts, "assigned"), AddedBy(p, after), {}) ELSE {},
         refused |-> FALSE]

-----------------------------------------------------------------------------
(* Mailboxes: a rule is a number and "on" or "off" *)

MailboxProgram(p) ==
    CASE p.type = "mailbox.set-auto-reply" -> <<"resolveUserId", "setAutoReply">>
      [] p.type = "mailbox.create-forward-rule" -> <<"resolveUserId", "createForwardRule">>
      [] p.type = "mailbox.set-rule" -> <<"resolveUserId", "getRule", "setRuleEnabled">>
      [] p.type = "mailbox.delete-rule" -> <<"resolveUserId", "getRule", "deleteRule">>

\* A forwarding rule without an address: the preview does not say that the handler refuses it
Nowhere(p) == p.type = "mailbox.create-forward-rule" /\ p.as = "nowhere"

\* Mutant: an unchanged rule ends the job whatever state is asked for
MailboxVerdictAny(p, step, facts) ==
    IF step = "resolveUserId" THEN IF Nowhere(p) THEN "refused" ELSE "go"
    ELSE CASE About(facts, "rule", p.of) = {} -> "unchanged"
           [] <<"readonly", p.of>> \in facts -> "refused"
           [] OTHER -> IF p.type = "mailbox.set-rule" THEN "unchanged" ELSE "go"

MailboxVerdict(p, step, facts) ==
    IF step = "resolveUserId" THEN IF Nowhere(p) THEN "refused" ELSE "go"
    ELSE CASE About(facts, "rule", p.of) = {} -> "unchanged"
           [] About(facts, "rule", p.of) # {} /\ <<"readonly", p.of>> \in facts -> "refused"
           [] OTHER -> IF p.type = "mailbox.set-rule" /\ <<"rule", p.of, p.as>> \in facts THEN "unchanged" ELSE "go"

MailboxEffect(p, step, facts) ==
    CASE step = "setAutoReply" -> Change(Named(facts, "reply"), {<<"reply", p.as>>})
      [] step = "createForwardRule" -> Change({}, {<<"rule", NewId(facts, "rule"), "on">>})
      [] step = "setRuleEnabled" -> Change(About(facts, "rule", p.of), {<<"rule", p.of, p.as>>})
      [] step = "deleteRule" -> Change(About(facts, "rule", p.of), {})

\* An absence from nowhen to nowhen ("timeless") is announced as refused; the handler sets it
MailboxPreview(p, facts) ==
    CASE p.type = "mailbox.set-auto-reply" ->
            [scope |-> {"reply"}, after |-> {<<"reply", p.as>>}, refused |-> p.as = "timeless"]
      [] p.type = "mailbox.create-forward-rule" ->
            [scope |-> {"rule"}, after |-> Named(facts, "rule") \cup {<<"rule", NewId(facts, "rule"), "on">>}, refused |-> FALSE]
      [] OTHER -> [scope |-> {"rule"},
                   after |-> (Named(facts, "rule") \ About(facts, "rule", p.of))
                             \cup IF p.type = "mailbox.set-rule" THEN {<<"rule", p.of, p.as>>} ELSE {},
                   refused |-> <<"readonly", p.of>> \in facts]

-----------------------------------------------------------------------------
(* Machines: Azure carries an operation out after it has answered *)

PowerTypes == {"vm.start", "vm.stop", "vm.restart", "avd.start-session-host", "avd.stop-session-host"}

ResourceGroupEffect == Change({}, {<<"resourceGroup">>})

VmProgram(p) ==
    CASE p.type \in PowerTypes -> <<"power", "wait", "getVm">>
      [] p.type = "vm.resize" -> <<"resizeVm", "wait", "getVm">>
      [] p.type = "vm.deploy" -> <<"ensureResourceGroup", "deploy", "wait", "seal">>

\* valid: what Azure says to the template; it has nothing to check it against before the resource
\* group is there, which only the handler makes.  The handler itself does not ask
VmPreview(p, facts, valid) ==
    CASE p.type \in {"vm.start", "vm.restart"} -> [scope |-> {"running"}, after |-> {<<"running">>}, refused |-> FALSE]
      [] p.type = "vm.stop" -> [scope |-> {"running"}, after |-> {}, refused |-> FALSE]
      [] p.type = "vm.resize" -> [scope |-> {"size"}, after |-> {<<"size", p.as>>}, refused |-> FALSE]
      [] p.type = "vm.deploy" -> [scope |-> {}, after |-> {}, refused |-> ~valid \/ <<"resourceGroup">> \notin facts]

HostProgram(p) == <<"power", "wait">>

\* A session is "on" or, when disconnected, "left"
SessionProgram(p) ==
    CASE p.type = "avd.set-drain-mode" -> <<"setDrainMode">>
      [] p.type = "avd.disconnect-session" -> <<"disconnectSession">>
      [] p.type = "avd.logoff-session" -> <<"logoffSession">>
      [] p.type = "avd.send-message" -> <<"sendMessage">>

HostPreview(p) ==
    IF p.type = "avd.start-session-host" THEN [scope |-> {"running"}, after |-> {<<"running">>}, refused |-> FALSE]
    ELSE [scope |-> {"running", "desktop"}, after |-> {}, refused |-> FALSE]

SessionEffect(p, step, facts) ==
    CASE step = "setDrainMode" -> IF p.as = "drain" THEN Change({}, {<<"drain">>}) ELSE Change({<<"drain">>}, {})
      [] step = "disconnectSession" -> Change({<<"desktop", "on">>}, {<<"desktop", "left">>})
      [] step = "logoffSession" -> Change(Named(facts, "desktop"), {})
      [] step = "sendMessage" -> Change({}, {<<"message", NewId(facts, "message")>>})

\* What an operation leads to when Azure ends it well
PowerEffect(p, facts) ==
    IF p.type \in {"vm.stop", "avd.stop-session-host"} THEN Change({<<"running">>} \cup Named(facts, "desktop"), {})
    ELSE Change({}, {<<"running">>})

ResizeEffect(p, facts) == Change(Named(facts, "size"), {<<"size", p.as>>})

DeployEffect(run) == Change({}, {<<"vm", run>>})

OperationEffect(p, facts, run) ==
    CASE p.type \in PowerTypes -> PowerEffect(p, facts)
      [] p.type = "vm.resize" -> ResizeEffect(p, facts)
      [] p.type = "vm.deploy" -> DeployEffect(run)

\* The password of a machine that exists cannot be changed by a deployment
OperationFits(p, facts) == p.type # "vm.deploy" \/ Named(facts, "vm") = {}

-----------------------------------------------------------------------------
(* Devices and the monitor script *)

DeviceProgram(p) == <<"deviceAction">>

DeviceEffect(p, facts) == Change({}, {<<"asked", NewId(facts, "asked")>>})

DevicePreview(p, facts) ==
    [scope |-> {"asked"}, after |-> Named(facts, "asked") \cup {<<"asked", NewId(facts, "asked")>>}, refused |-> FALSE]

MonitorProgram(p) ==
    IF p.type = "tenant.monitor-enable" THEN <<"ensureScript", "setHourlySchedule">>
    ELSE <<"findTenantScriptId", "setHourlySchedule">>

\* null when the script is not there, and when the list cannot be read
MonitorVerdict(facts, readable) ==
    IF readable /\ <<"script">> \in facts THEN "go" ELSE "unchanged"

MonitorEffect(p, step) ==
    CASE step = "ensureScript" -> Change({}, {<<"script">>})
      [] step = "setHourlySchedule" -> IF p.type = "tenant.monitor-enable" THEN Change({}, {<<"schedule">>}) ELSE Change({<<"schedule">>}, {})

MonitorPreview(p) ==
    IF p.type = "tenant.monitor-enable"
    THEN [scope |-> {"script", "schedule"}, after |-> {<<"script">>, <<"schedule">>}, refused |-> FALSE]
    ELSE [scope |-> {"schedule"}, after |-> {}, refused |-> FALSE]

=============================================================================
