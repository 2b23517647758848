-------------------------- MODULE BuildQueueProps --------------------------
(* What the build queue of a package promises. *)
EXTENDS BuildQueue

Known == Builds \cup {None}

\* Every variable has its type: builds are numbered without gaps, a claimed
\* build names its worker (build_jobs, claimBuild) and nobody else's build has one.
TypeOK ==
    /\ pkg \in [status : {"draft", "installer-uploaded", "queued", "building", "ready", "failed", "deleted"},
                type : InstallerTypes, version : Versions, installer : BOOLEAN, artifact : Versions \cup {None}]
    /\ builds \in [Builds -> [status : Open \cup Closed \cup {"absent"},
                              worker : Workers \cup {None}, silent : 0..(StaleAfter + 1)]]
    /\ \A b \in Builds : builds[b].status \in Held \cup Closed <=> builds[b].worker # None
    /\ \A w \in Workers : workers[w].build \in Known /\ workers[w].lines \in 0..MaxLines
    /\ uploaded \subseteq Builds /\ listed \in BOOLEAN /\ faults \in 0..MaxFaults

Holding == {"plan", "mark_build", "mark_package", "work", "log", "stream", "report", "finish", "finish_package"}

\* claimBuild: a build is handed to one worker only, also when two of them poll
\* at once, are killed and come back, or answer after their build has expired.
ExclusiveClaim ==
    \A v, w \in Workers :
       v # w /\ workers[v].pc \in Holding /\ workers[w].pc \in Holding
       => workers[v].build # workers[w].build

\* finishBuild: a build that succeeded has brought its own artifact; one left by
\* an earlier build, or uploaded by hand meanwhile, is no success.
SuccessIsOwnUpload == \A b \in Builds : builds[b].status = "succeeded" => b \in uploaded

\* storeFile, finishBuild, updateManifest: no stale status that an edit, an upload
\* or a report writes back makes a package ready before there is an artifact.  The
\* one way to be ready without is to have been saved as a package of the store.
ReadyHasArtifact == pkg.status = "ready" => pkg.artifact # None \/ listed

\* A report that found the build open and has yet to write it
Answering(b) ==
    \E w \in Workers : /\ workers[w].build = b /\ workers[w].pc = "finish"
                       /\ workers[w].row \in Open

\* finishBuild, expireStaleBuilds: the result of a build is final.  A worker that
\* reports late is turned away, unless the build expired while the report was
\* between its read and its write.
ResultStays ==
    [][\A b \in Builds : builds[b].status \in Closed /\ ~Answering(b)
                         => builds'[b].status \in {builds[b].status, "absent"}]_vars

\* claimBuild, expireStaleBuilds: as long as one worker polls, a build somebody
\* asked for is closed in the end, whoever else hangs, dies or loses a request,
\* so that the package can be built again.
BuildsClose == \A b \in Builds : builds[b].status \in Open ~> builds[b].status \notin Open

=============================================================================
