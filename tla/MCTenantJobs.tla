---------------------------- MODULE MCTenantJobs ----------------------------
EXTENDS TenantJobsProps, TLC
CONSTANTS j1, j2
Do(area, type, of, as) == [area |-> area, type |-> type, of |-> of, as |-> as]
Case(p, q, facts, open) == [jobs |-> (j1 :> p @@ j2 :> q), facts |-> facts, portal |-> open]
Target(word) == <<word, 1>>
Team == {<<"m365">>, <<"owner", "a">>, <<"owner", "b">>}
Crowd == {<<"assigned", Target(g), "required">> : g \in {"g1", "g2", "g3", "g4"}} \cup {<<"settings", Target("g2")>>}
Host == {<<"running">>, <<"desktop", "on">>}
MCCases ==
  { Case(Do("group", "group.remove", "a", "owner"), Do("group", "group.remove", "b", "owner"), Team, Team),
    Case(Do("group", "group.remove", "a", "owner"), Do("group", "group.add", "c", "owner"), Team \ {<<"owner", "b">>}, {<<"m365">>}),
    Case(Do("group", "group.remove", "a", "owner"), Do("group", "group.remove", "a", "owner"), {<<"owner", "a">>}, {}),
    Case(Do("group", "group.add", "a", "member"), Do("group", "group.remove", "a", "member"), {}, {<<"dynamic">>}),
    Case(Do("group", "group.remove", "a", "member"), Do("group", "group.remove", "a", "owner"), {<<"dynamic">>, <<"owner", "a">>, <<"member", "a">>}, {}),
    Case(Do("apps", "apps.assign", Target("g1"), "required"), Do("apps", "apps.assign", Target("g2"), "available"),
         {<<"assigned", Target("g1"), "available">>}, {<<"assigned", Target("g2"), "uninstall">>, <<"assigned", Target("g3"), "required">>}),
    Case(Do("apps", "apps.unassign", Target("g1"), "required"), Do("apps", "apps.create-deployment-groups", "app", "assign"),
         {<<"assigned", Target("g1"), "required">>, <<"available", 1>>}, {<<"assigned", Target("g1"), "required">>}),
    Case(Do("apps", "apps.unassign", Target("g1"), "required"), Do("apps", "apps.assign", Target("g5"), "required"), Crowd, {}),
    Case(Do("apps", "apps.create-deployment-groups", "app", "only"), Do("apps", "apps.create-deployment-groups", "app", "only"), {}, {}),
    Case(Do("identity", "identity.assign-license", "e3", "on"), Do("identity", "identity.remove-license", "e5", "off"),
         {<<"licence", "e5">>}, {<<"licence", "e3">>}),
    Case(Do("identity", "identity.disable-user", "u", "revoke"), Do("identity", "identity.enable-user", "u", "on"),
         {<<"enabled">>, <<"session">>}, {<<"session">>}),
    Case(Do("identity", "identity.disable-user", "u", "only"), Do("identity", "identity.revoke-sessions", "u", "off"),
         {<<"enabled">>, <<"session">>}, {}),
    Case(Do("identity", "identity.reset-password", "u", "new"), Do("identity", "identity.reset-password", "u", "new"), {<<"password", 0>>}, {}),
    Case(Do("mailbox", "mailbox.set-auto-reply", "u", "timeless"), Do("mailbox", "mailbox.set-auto-reply", "u", "off"), {<<"reply", "off">>}, {}),
    Case(Do("mailbox", "mailbox.set-auto-reply", "u", "on"), Do("mailbox", "mailbox.create-forward-rule", "u", "on"),
         {<<"reply", "off">>, <<"rule", 1, "off">>}, {<<"rule", 1, "off">>}),
    Case(Do("mailbox", "mailbox.set-rule", 1, "off"), Do("mailbox", "mailbox.delete-rule", 1, "gone"),
         {<<"rule", 1, "on">>}, {<<"readonly", 1>>, <<"rule", 1, "on">>}),
    Case(Do("vm", "vm.start", "m", "on"), Do("vm", "vm.stop", "m", "off"), {}, {<<"running">>}),
    Case(Do("vm", "vm.resize", "m", "large"), Do("vm", "vm.restart", "m", "on"), {<<"running">>, <<"size", "small">>}, {}),
    Case(Do("vm", "vm.deploy", "m", "new"), Do("avd", "avd.stop-session-host", "m", "off"), Host \cup {<<"resourceGroup">>}, {<<"vm", 9>>}),
    Case(Do("avd", "avd.start-session-host", "m", "on"), Do("avd", "avd.set-drain-mode", "m", "drain"), {}, {}),
    Case(Do("avd", "avd.disconnect-session", "m", "left"), Do("avd", "avd.logoff-session", "m", "off"), Host, {}),
    Case(Do("avd", "avd.send-message", "m", "text"), Do("device", "device.sync", "d", "sync"), Host, {}),
    Case(Do("device", "device.restart", "d", "restart"), Do("device", "device.defender-scan", "d", "scan"), {}, {}),
    Case(Do("monitor", "tenant.monitor-enable", "monitor", "on"), Do("monitor", "tenant.monitor-disable", "monitor", "off"),
         {<<"script">>}, {<<"schedule">>}) }
=============================================================================
