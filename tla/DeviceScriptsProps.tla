------------------------- MODULE DeviceScriptsProps -------------------------
EXTENDS DeviceScripts

Running(j) == jobs[j].pc \notin {"waiting", "ended", "orphan"}
TransientIds == {i \in Ids : ~IsLibrary(i)}

\* remediation-provider.ts:277: an object of one run is gone when the run is
\* over, whatever came of it; each one a job leaves behind is the price of a fault.
NothingLeft ==
    \A j \in Jobs : Cardinality({i \in scripts \cap TransientIds : Owner(i) = j /\ ~(Running(j) /\ jobs[j].script = i)}) <= faults

\* temp-admin-job-handlers.ts:94, winget-job-handlers.ts:93, script-job-handlers.ts:91: a transient job
\* that ends as succeeded ran its own script to the end, not that of an earlier run; a library result
\* that is not marked as possibly old is not the state read before the start, but was reported after it
\* or less than two minutes before the start, except where that state could not be read. The second
\* exception is the code's (remediation-provider.ts:115): where the device has synchronized since,
\* the report of an earlier run counts as well.
ResultIsOfRun ==
    \A j \in Jobs :
       LET x == jobs[j]
       IN  /\ x.result = "succeeded" /\ x.kind \in Transient => <<x.script, j>> \in done
           /\ x.taken # NoReport /\ ~x.stale /\ x.known => x.taken.n > x.base.n \/ x.tolerated \/ x.taken.sync > x.base.sync

\* temp-admin-job-handlers.ts:88, "es wurden keine Rechte gewaehrt, solange das
\* Skript nicht lief": once a job has ended without a fault, or its object is gone
\* all the same, only a run the device had begun by then still takes effect.
TimeoutIsHarmless ==
    [][\A j \in Jobs : LET i == jobs[j].script
                       IN  jobs[j].kind \in Transient /\ jobs[j].pc = "ended" /\ i # None /\ (i \notin scripts \/ faults = 0) /\ device.script # i =>
                              device'.script # i /\ (<<i, j>> \in done' => <<i, j>> \in done)]_vars

\* temp-admin-job-handlers.ts:5-7: rights that have their task end, though scripts
\* fail, the device is switched off and the cockpit crashes, unless a revoke script
\* does not find the account among the members (temp-admin.revoke.ps1:24-26).
RightsEnd == device.admin /\ device.task ~> ~device.admin \/ device.missed
=============================================================================
