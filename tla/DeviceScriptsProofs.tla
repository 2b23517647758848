------------------------ MODULE DeviceScriptsProofs ------------------------
(***************************************************************************)
(* Proofs about the jobs that run scripts on a device.  "Types" is the     *)
(* shape of the state.  "Fits" is what a job knows and has at each point   *)
(* of its run: its object, the number of the state it has read before the  *)
(* start, the run behind its result.  "Carried" follows a transient script *)
(* from its request to the history, "Ordered" is the order of reports.     *)
(***************************************************************************)
EXTENDS DeviceScriptsProps, FiniteSetTheorems, TLAPS

Few == {0, 1, 2}
ReportType == [n : Nat, sync : Nat, output : Outputs \cup {"none"}]
Pcs == {"waiting", "create", "ensure", "publish", "baseline", "start", "poll", "last", "delete", "ended", "orphan"}
JobType == [kind : Kinds, pc : Pcs, runs : Few, script : Ids \cup {None}, base : ReportType, since : Nat,
            known : BOOLEAN, tolerated : BOOLEAN, taken : ReportType, stale : BOOLEAN, result : Results \cup {None}]
DeviceType == [script : Ids \cup {None}, job : Jobs \cup {None}, step : Few, admin : BOOLEAN, task : BOOLEAN, missed : BOOLEAN]

JobsOK == jobs \in [Jobs -> JobType]
IntuneOK == scripts \subseteq Ids /\ asked \subseteq Ids \X Jobs /\ reports \in [Ids -> ReportType] /\ time \in Nat
DeviceOK == device \in DeviceType /\ done \subseteq Ids \X Jobs /\ faults \in Nat

Types == JobsOK /\ IntuneOK /\ DeviceOK

\* Where a job may be with what it has; a transient job has the object of its run, one of the library an object of the library
Shared(x) == x.script # None => jobs[Owner(x.script)].kind = "library"
Stage(j, x) ==
    /\ x.pc = "waiting" => x.runs # 2
    /\ x.pc # "waiting" => x.runs # 0
    /\ x.pc \in {"create", "ensure", "publish"} => x.script = None /\ ~x.known
    /\ x.pc \in {"create", "delete"} => x.kind # "library"
    /\ x.pc \in {"ensure", "publish", "baseline", "last"} => x.kind = "library"
    /\ x.pc \in {"baseline", "start", "poll", "last", "delete"} => x.script # None
    /\ x.pc = "baseline" => ~x.known
    /\ IF x.kind = "library" THEN Shared(x) ELSE x.script \in {None, <<j, x.runs>>}

\* The report a library job has read before its start, or will read
Later(s, t) == s.n > t.n \/ s.sync > t.sync
SinceBase(x) == x.script # None /\ (reports[x.script] = x.base \/ Later(reports[x.script], x.base))
Compared(x) ==
    /\ x.base.n <= time /\ x.base.sync <= time /\ (x.base = NoReport \/ x.base.n > 0)
    /\ x.known => SinceBase(x)
    /\ x.pc = "poll" => x.base.n <= x.since /\ x.base.sync <= x.since
    /\ x.taken # NoReport => x.pc = "ended" /\ (~x.stale /\ x.known => Later(x.taken, x.base) \/ x.tolerated)

\* A transient job that succeeded
Earned(j, x) ==
    x.result = "succeeded" =>
        /\ x.pc \in {"delete", "ended", "orphan", "waiting"}
        /\ x.kind # "library" => <<x.script, j>> \in done

Fits(j, x) == Stage(j, x) /\ Compared(x) /\ Earned(j, x)

\* The script of a transient job is asked for, run and reported for that job alone
Carried ==
    /\ \A q \in asked : IsLibrary(q[1]) \/ q[2] = Owner(q[1])
    /\ device.script # None => device.job \in Jobs /\ (IsLibrary(device.script) \/ device.job = Owner(device.script))
    /\ \A i \in TransientIds : reports[i].output \in {"ok", "silent"} => <<i, Owner(i)>> \in done

\* Later reports have larger numbers
Ordered == \A i \in Ids : reports[i].n <= time /\ reports[i].sync <= time /\ (reports[i] = NoReport \/ reports[i].n > 0)

\* What a job has left behind
Left(j) == {i \in scripts \cap TransientIds : Owner(i) = j /\ ~(Running(j) /\ jobs[j].script = i)}

Inv == Types /\ (\A j \in Jobs : Fits(j, jobs[j])) /\ Carried /\ Ordered /\ NothingLeft

-----------------------------------------------------------------------------
(* The shape of what is written *)

LEMMA NewJobs == ASSUME NEW k \in Kinds PROVE NewJob(k) \in JobType
<1>1. NoReport \in ReportType /\ "waiting" \in Pcs /\ 0 \in Few
  BY DEF NoReport, ReportType, Outputs, Pcs, Few
<1> QED BY <1>1 DEF NewJob, JobType

LEMMA DeviceWrites ==
  ASSUME NEW d \in DeviceType, NEW i \in Ids, NEW j \in Jobs, NEW b \in BOOLEAN
  PROVE  /\ Idle(d) \in DeviceType
         /\ Idle([d EXCEPT !.task = b]) \in DeviceType
         /\ [d EXCEPT !.script = i, !.job = j, !.step = 1] \in DeviceType
         /\ [d EXCEPT !.step = 2, !.admin = b] \in DeviceType
         /\ [d EXCEPT !.admin = FALSE, !.task = FALSE] \in DeviceType
<1>1. {0, 1, 2} \subseteq Few
  BY DEF Few
<1>2. Idle(d) \in DeviceType /\ Idle([d EXCEPT !.task = b]) \in DeviceType
  BY <1>1 DEF DeviceType, Idle
<1>3. [d EXCEPT !.script = i, !.job = j, !.step = 1] \in DeviceType
  BY <1>1 DEF DeviceType
<1>4. [d EXCEPT !.step = 2, !.admin = b] \in DeviceType
  BY <1>1 DEF DeviceType
<1>5. [d EXCEPT !.admin = FALSE, !.task = FALSE] \in DeviceType
  BY DEF DeviceType
<1> QED BY <1>2, <1>3, <1>4, <1>5

LEMMA Verdicts ==
  ASSUME NEW k \in Kinds, NEW o
  PROVE  /\ Verdict(k, o) \in {"succeeded", "failed"}
         /\ k # "library" /\ Verdict(k, o) = "succeeded" => o \in {"ok", "silent"}
<1> QED BY DEF Verdict, GrantVerdict, RevokeVerdict, RestartVerdict, InstallVerdict, UninstallVerdict, LibraryVerdict,
              Kinds, Transient

-----------------------------------------------------------------------------
(* What is left behind *)

LEMMA LeftFinite == ASSUME NEW j \in Jobs PROVE IsFiniteSet(Left(j)) /\ Cardinality(Left(j)) \in Nat
<1>1. Left(j) \subseteq {<<j, 1>>, <<j, 2>>}
  BY DEF Left, Owner, TransientIds, Ids
<1>2. IsFiniteSet({<<j, 1>>} \cup {<<j, 2>>})
  BY FS_Singleton, FS_AddElement
<1>3. Left(j) \in SUBSET ({<<j, 1>>} \cup {<<j, 2>>})
  BY <1>1
<1> QED BY <1>2, <1>3, FS_Subset, FS_CardinalityType

LEMMA OneMore ==
  ASSUME NEW j \in Jobs, NEW i, NEW S, S \subseteq Left(j) \cup {i}
  PROVE  Cardinality(S) <= Cardinality(Left(j)) + 1
<1>1. IsFiniteSet(Left(j)) /\ Cardinality(Left(j)) \in Nat
  BY LeftFinite
<1>2. PICK T : T = Left(j) \cup {i}
  OBVIOUS
<1>3. IsFiniteSet(T) /\ Cardinality(T) = IF i \in Left(j) THEN Cardinality(Left(j)) ELSE Cardinality(Left(j)) + 1
  BY <1>1, <1>2, FS_AddElement
<1>4. Cardinality(T) <= Cardinality(Left(j)) + 1
  BY <1>1, <1>3
<1>5. Cardinality(S) <= Cardinality(T) /\ Cardinality(S) \in Nat /\ Cardinality(T) \in Nat
  BY <1>2, <1>3, FS_Subset, FS_CardinalityType
<1> QED BY <1>1, <1>4, <1>5

LEMMA LeftCounted == NothingLeft <=> \A j \in Jobs : Cardinality(Left(j)) <= faults
  BY DEF NothingLeft, Left

\* Nothing that was not left before is left by a step without a fault, one object by a step with one
LEMMA LeftKept ==
  ASSUME Types, NothingLeft, faults' \in {faults, faults + 1},
         \A j \in Jobs : Left(j)' \subseteq Left(j) \/ (faults' = faults + 1 /\ \E i \in Ids : Left(j)' \subseteq Left(j) \cup {i})
  PROVE  NothingLeft'
<1>1. faults \in Nat /\ faults <= faults'
  BY DEF Types, DeviceOK
<1>2. ASSUME NEW j \in Jobs PROVE Cardinality(Left(j)') <= faults'
  <2>1. Cardinality(Left(j)) <= faults
    BY LeftCounted
  <2>2. CASE Left(j)' \subseteq Left(j)
    <3>1. Cardinality(Left(j)') <= Cardinality(Left(j)) /\ Cardinality(Left(j)') \in Nat
      BY <2>2, LeftFinite, FS_Subset, FS_CardinalityType
    <3> QED BY <1>1, <2>1, <3>1, LeftFinite
  <2>3. ASSUME NEW i \in Ids, faults' = faults + 1, Left(j)' \subseteq Left(j) \cup {i}
        PROVE  Cardinality(Left(j)') <= faults'
    <3>1. Cardinality(Left(j)') <= Cardinality(Left(j)) + 1
      BY <2>3, OneMore
    <3>2. IsFiniteSet(Left(j) \cup {i})
      BY LeftFinite, FS_AddElement
    <3>3. Cardinality(Left(j)') \in Nat
      BY <2>3, <3>2, FS_Subset, FS_CardinalityType
    <3> QED BY <1>1, <2>1, <2>3, <3>1, <3>3, LeftFinite
  <2> QED BY <2>2, <2>3
<1> QED BY <1>2 DEF NothingLeft, Left

-----------------------------------------------------------------------------
(* A step of a handler, which makes x of its job *)

Pending(x) == x.pc \notin {"waiting", "ended", "orphan"}
Own(j) == <<j, jobs[j].runs>>

\* Everything of j that is left after the step was left before
Clean(j, x) ==
    x.kind = "library" \/ \A i \in scripts' : Owner(i) = j /\ ~(Pending(x) /\ x.script = i) => i \in scripts /\ ~(Running(j) /\ jobs[j].script = i)

Handles(j, x) ==
    /\ x \in JobType /\ x.kind = jobs[j].kind /\ Fits(j, x)
    /\ jobs' = [jobs EXCEPT ![j] = x]
    /\ scripts' \subseteq scripts \cup {Own(j)} /\ (jobs[j].runs = 0 => scripts' = scripts)
    /\ asked' \subseteq asked \cup {<<jobs[j].script, j>>} /\ (jobs[j].script = None => asked' = asked)
    /\ faults' = faults + 1 \/ (faults' = faults /\ Clean(j, x))
    /\ UNCHANGED <<reports, time, device, done>>

LEMMA JobStep == ASSUME Inv, NEW j \in Jobs, NEW x, Handles(j, x) PROVE Inv'
<1>1. x \in JobType /\ x.kind = jobs[j].kind /\ jobs'[j] = x /\ \A k \in Jobs : k # j => jobs'[k] = jobs[k]
  BY DEF Handles, Inv, Types, JobsOK
<1>2. \A k \in Jobs : jobs'[k].kind = jobs[k].kind
  BY <1>1
<1>3. jobs[j] \in JobType /\ Stage(j, jobs[j])
  BY DEF Inv, Types, JobsOK, Fits
<1>4. Types'
  <2>1. jobs' \in [Jobs -> JobType]
    BY <1>1 DEF Handles, Inv, Types, JobsOK
  <2>2. jobs[j].runs # 0 => Own(j) \in Ids
    BY <1>3 DEF Own, Ids, JobType, Few
  <2>3. scripts' \subseteq Ids
    BY <2>2 DEF Handles, Inv, Types, IntuneOK
  <2>4. jobs[j].script # None => jobs[j].script \in Ids
    BY <1>3 DEF JobType
  <2>5. asked' \subseteq Ids \X Jobs
    BY <2>4 DEF Handles, Inv, Types, IntuneOK
  <2>6. faults' \in Nat
    BY DEF Handles, Inv, Types, DeviceOK
  <2> QED BY <2>1, <2>3, <2>5, <2>6 DEF Handles, Inv, Types, JobsOK, IntuneOK, DeviceOK
<1>5. \A k \in Jobs : Fits(k, jobs[k])'
  <2>1. ASSUME NEW k \in Jobs PROVE Fits(k, jobs[k])'
    <3>1. PICK y \in JobType : y = jobs'[k] /\ Fits(k, y)
      BY <1>1 DEF Handles, Inv, Types, JobsOK
    <3>2. Stage(k, jobs[k])'
      <4>1. y.script # None => Owner(y.script) \in Jobs
        BY <3>1 DEF JobType, Ids, Owner
      <4>2. y.kind = "library" => Shared(jobs[k])'
        BY <1>2, <3>1, <4>1 DEF Fits, Stage, Shared
      <4> QED BY <3>1, <4>2 DEF Fits, Stage
    <3>3. Compared(jobs[k])'
      BY <3>1 DEF Handles, Fits, Compared, SinceBase
    <3>4. Earned(k, jobs[k])'
      BY <3>1 DEF Handles, Fits, Earned
    <3> QED BY <3>2, <3>3, <3>4 DEF Fits
  <2> QED BY <2>1
<1>6. \A i \in Ids : IsLibrary(i)' <=> IsLibrary(i)
  BY <1>2 DEF IsLibrary, Ids, Owner
<1>7. Carried'
  <2>1. \A q \in asked' : IsLibrary(q[1]) \/ q[2] = Owner(q[1])
    <3>1. jobs[j].script # None => IsLibrary(jobs[j].script) \/ j = Owner(jobs[j].script)
      BY <1>3 DEF Stage, Shared, IsLibrary, Owner
    <3>2. ASSUME NEW q \in asked', q \notin asked PROVE IsLibrary(q[1]) \/ q[2] = Owner(q[1])
      BY <3>1, <3>2 DEF Handles
    <3> QED BY <3>2 DEF Inv, Carried
  <2>2. \A q \in asked' : q[1] \in Ids
    BY <1>4 DEF Types, IntuneOK
  <2>3. device.script \in Ids \/ device.script = None
    BY DEF Inv, Types, DeviceOK, DeviceType
  <2>4. TransientIds' = TransientIds
    BY <1>6 DEF TransientIds, Ids
  <2> HIDE DEF IsLibrary, TransientIds
  <2> QED BY <1>6, <2>1, <2>2, <2>3, <2>4 DEF Handles, Inv, Carried
<1>8. Ordered'
  BY DEF Handles, Inv, Ordered
<1>9. NothingLeft'
  <2>1. TransientIds' = TransientIds
    BY <1>6 DEF TransientIds, Ids
  <2>2. \A k \in Jobs : k # j => Left(k)' \subseteq Left(k)
    BY <1>1, <2>1 DEF Handles, Left, Own, Owner, Running
  <2>3. CASE faults' = faults /\ Clean(j, x)
    <3>1. \A i \in TransientIds : Owner(i) = j => x.kind # "library"
      BY <1>1 DEF TransientIds, IsLibrary
    <3>2. Left(j)' \subseteq Left(j)
      BY <1>1, <2>1, <2>3, <3>1 DEF Left, Clean, Pending, Running
    <3> QED BY <2>2, <2>3, <3>2, LeftKept DEF Inv
  <2>4. CASE faults' = faults + 1
    <3>1. \A i \in TransientIds : Owner(i) = j => jobs[j].kind # "library"
      BY DEF TransientIds, IsLibrary
    <3>2. Left(j)' \subseteq Left(j) \cup {Own(j)}
      <4>1. ASSUME NEW i \in Left(j)', i # Own(j) PROVE i \in Left(j)
        <5>1. i \in scripts /\ i \in TransientIds /\ Owner(i) = j
          BY <2>1, <4>1 DEF Left, Handles
        <5>2. i # None /\ jobs[j].kind # "library"
          BY <3>1, <5>1, ScriptAssumption DEF TransientIds
        <5>3. jobs[j].script # i
          BY <1>3, <4>1, <5>2 DEF Stage, Own
        <5> QED BY <5>1, <5>3 DEF Left
      <4> QED BY <4>1
    <3>3. Own(j) \in Ids \/ Left(j)' \subseteq Left(j)
      <4>1. jobs[j].runs # 0 => Own(j) \in Ids
        BY <1>3 DEF Own, Ids, JobType, Few
      <4>2. \A i \in Ids : i = Own(j) => jobs[j].runs # 0
        BY DEF Ids, Own
      <4> QED BY <3>2, <4>1, <4>2, <2>1 DEF Left, TransientIds
    <3> QED BY <2>2, <2>4, <3>2, <3>3, LeftKept DEF Inv
  <2> QED BY <2>3, <2>4 DEF Handles
<1> QED BY <1>4, <1>5, <1>7, <1>8, <1>9 DEF Inv
-----------------------------------------------------------------------------
(* Steps that write no more than the stage and the result *)

Same(x, y) ==
    /\ x.kind = y.kind /\ x.runs = y.runs /\ x.script = y.script /\ x.base = y.base /\ x.taken = y.taken
    /\ (x.known <=> y.known) /\ (x.stale <=> y.stale) /\ (x.tolerated <=> y.tolerated)

Written(x, y, p, r) == x \in JobType /\ Same(x, y) /\ x.pc = p /\ x.result = r

LEMMA WrittenIs ==
  ASSUME NEW y \in JobType, NEW p \in Pcs, NEW r \in Results \cup {None}
  PROVE  /\ Written([y EXCEPT !.pc = p], y, p, y.result)
         /\ Written([y EXCEPT !.pc = p, !.result = r], y, p, r)
<1>1. Written([y EXCEPT !.pc = p], y, p, y.result)
  BY DEF Written, Same, JobType
<1>2. Written([y EXCEPT !.pc = p, !.result = r], y, p, r)
  BY DEF Written, Same, JobType
<1> QED BY <1>1, <1>2

\* The stage p is one that a job with the object and the runs of y may reach with the result r
Reachable(j, y, p, r) ==
    /\ p \in {"waiting", "publish", "start", "last", "delete", "ended", "orphan"} /\ y.pc # "ended" /\ y.runs # 0
    /\ p = "waiting" => y.runs # 2
    /\ p = "publish" => y.script = None /\ ~y.known
    /\ p = "delete" => y.kind # "library"
    /\ p \in {"publish", "last"} => y.kind = "library"
    /\ p \in {"start", "last", "delete"} => y.script # None
    /\ r = "succeeded" => p \in {"waiting", "delete", "ended", "orphan"} /\ (y.kind # "library" => <<y.script, j>> \in done)

LEMMA StillFits ==
  ASSUME NEW j, NEW y, NEW x, NEW p, NEW r, Fits(j, y), Written(x, y, p, r), Reachable(j, y, p, r)
  PROVE  Fits(j, x)
<1>1. Stage(j, x)
  BY DEF Fits, Stage, Shared, Written, Same, Reachable
<1>2. Compared(x)
  BY DEF Fits, Compared, SinceBase, Written, Same, Reachable
<1>3. Earned(j, x)
  BY DEF Earned, Written, Same, Reachable
<1> QED BY <1>1, <1>2, <1>3 DEF Fits

\* What else such a step may do
Around(j) ==
    /\ scripts' \subseteq scripts \cup {Own(j)} /\ (jobs[j].runs = 0 => scripts' = scripts)
    /\ asked' \subseteq asked \cup {<<jobs[j].script, j>>} /\ (jobs[j].script = None => asked' = asked)
    /\ UNCHANGED <<reports, time, device, done>>

\* Nothing of j is given up: it was not running, is going on with its object or has deleted it
Tidy(j, p) ==
    \/ faults' = faults + 1
    \/ /\ faults' = faults
       /\ \/ jobs[j].kind = "library"
          \/ scripts' = scripts /\ (p \notin {"waiting", "ended", "orphan"} \/ ~Running(j) \/ jobs[j].script = None)
          \/ scripts' = scripts \ {jobs[j].script}

LEMMA StageStep ==
  ASSUME Inv, NEW j \in Jobs, NEW p \in Pcs, NEW r \in Results \cup {None}, Reachable(j, jobs[j], p, r), Around(j), Tidy(j, p),
         \/ jobs' = [jobs EXCEPT ![j].pc = p] /\ r = jobs[j].result
         \/ jobs' = [jobs EXCEPT ![j].pc = p, ![j].result = r]
  PROVE  Inv'
<1>1. jobs[j] \in JobType /\ Fits(j, jobs[j])
  BY DEF Inv, Types, JobsOK
<1>2. PICK x : jobs' = [jobs EXCEPT ![j] = x] /\ Written(x, jobs[j], p, r)
  <2>1. CASE jobs' = [jobs EXCEPT ![j].pc = p] /\ r = jobs[j].result
    BY <1>1, <2>1, WrittenIs DEF Inv, Types, JobsOK
  <2>2. CASE jobs' = [jobs EXCEPT ![j].pc = p, ![j].result = r]
    <3>1. jobs' = [jobs EXCEPT ![j] = [jobs[j] EXCEPT !.pc = p, !.result = r]]
      BY <2>2 DEF Inv, Types, JobsOK
    <3> QED BY <1>1, <3>1, WrittenIs
  <2> QED BY <2>1, <2>2
<1>3. Fits(j, x)
  BY <1>1, <1>2, StillFits
<1>4. faults' = faults + 1 \/ (faults' = faults /\ Clean(j, x))
  <2>1. \A i \in scripts' : i # None
    BY <1>1, ScriptAssumption DEF Around, Inv, Types, IntuneOK, JobType, Own, Ids, Few
  <2> QED BY <1>2, <2>1 DEF Tidy, Clean, Written, Same, Pending, Running
<1>5. Handles(j, x)
  BY <1>2, <1>3, <1>4 DEF Handles, Around, Written, Same
<1> QED BY <1>5, JobStep
LEMMA JobIs ==
  ASSUME Inv, NEW j \in Jobs
  PROVE  /\ jobs[j] \in JobType /\ jobs[j].kind \in Kinds /\ jobs[j].result \in Results \cup {None}
         /\ jobs[j].script \in Ids \cup {None} /\ Fits(j, jobs[j]) /\ Stage(j, jobs[j]) /\ faults \in Nat
         /\ jobs[j].result = "succeeded" => Earned(j, jobs[j])
         /\ IsLibrary(<<j, 1>>) <=> jobs[j].kind = "library"
  BY DEF Inv, Types, JobsOK, DeviceOK, JobType, Fits, IsLibrary, Owner

LEMMA OneStage ==
  ASSUME Inv, NEW j \in Jobs,
         \/ Invalid(j) \/ CreateFails(j) \/ StartFails(j) \/ Timeout(j) \/ PollFails(j)
         \/ Delete(j) \/ DeleteFails(j) \/ EnsureFails(j) \/ BaselineFails(j) \/ Stalled(j)
  PROVE  Inv'
<1> DEFINE y == jobs[j]
<1>0. /\ y \in JobType /\ y.kind \in Kinds /\ y.result \in Results \cup {None} /\ y.script \in Ids \cup {None}
      /\ Stage(j, y) /\ (y.result = "succeeded" => Earned(j, y)) /\ (IsLibrary(<<j, 1>>) <=> y.kind = "library")
  BY JobIs
<1> USE DEF Pcs, Results
<1>1. CASE Invalid(j)
  <2>1. Reachable(j, y, "ended", "invalid") /\ Around(j) /\ Tidy(j, "ended")
    BY <1>0, <1>1 DEF Invalid, Stage, Reachable, Around, Tidy, Ending
  <2> QED BY <1>1, <2>1, StageStep DEF Invalid, Ending
<1>2. CASE CreateFails(j)
  <2>1. Reachable(j, y, "ended", "start_failed") /\ Around(j) /\ Tidy(j, "ended")
    BY <1>0, <1>2 DEF CreateFails, Fault, Stage, Reachable, Around, Tidy, Own
  <2> QED BY <1>2, <2>1, StageStep DEF CreateFails, Ending
<1>3. CASE StartFails(j)
  <2>1. Around(j) /\ \A p \in Pcs : Tidy(j, p)
    BY <1>0, <1>3 DEF StartFails, Fault, Stage, Around, Tidy
  <2>2. CASE y.kind = "library"
    <3>1. Reachable(j, y, "ended", "start_failed")
      BY <1>0, <1>3, <2>2 DEF StartFails, Stage, Reachable
    <3> QED BY <1>0, <1>3, <2>1, <2>2, <3>1, StageStep DEF StartFails, Ending
  <2>3. CASE y.kind # "library"
    <3>1. Reachable(j, y, "delete", "start_failed")
      BY <1>0, <1>3, <2>3 DEF StartFails, Stage, Reachable
    <3> QED BY <1>0, <1>3, <2>1, <2>3, <3>1, StageStep DEF StartFails, Leaving
  <2> QED BY <2>2, <2>3
<1>4. CASE Timeout(j)
  <2>1. CASE y.kind = "library"
    <3>1. Reachable(j, y, "last", y.result) /\ Around(j) /\ Tidy(j, "last")
      BY <1>0, <1>4, <2>1 DEF Timeout, Stage, Reachable, Around, Tidy, Earned
    <3> QED BY <1>0, <1>4, <2>1, <3>1, StageStep DEF Timeout, Going
  <2>2. CASE y.kind # "library"
    <3>1. Reachable(j, y, "delete", "timeout") /\ Around(j) /\ Tidy(j, "delete")
      BY <1>0, <1>4, <2>2 DEF Timeout, Stage, Reachable, Around, Tidy
    <3> QED BY <1>0, <1>4, <2>2, <3>1, StageStep DEF Timeout, Leaving
  <2> QED BY <2>1, <2>2
<1>5. CASE PollFails(j)
  <2>1. Around(j) /\ \A p \in Pcs : Tidy(j, p)
    BY <1>0, <1>5 DEF PollFails, Fault, Stage, Around, Tidy
  <2>2. CASE y.kind = "library"
    <3>1. Reachable(j, y, "ended", "thrown")
      BY <1>0, <1>5, <2>2 DEF PollFails, Stage, Reachable
    <3> QED BY <1>0, <1>5, <2>1, <2>2, <3>1, StageStep DEF PollFails, Ending
  <2>3. CASE y.kind # "library"
    <3>1. Reachable(j, y, "delete", "start_failed")
      BY <1>0, <1>5, <2>3 DEF PollFails, Stage, Reachable
    <3> QED BY <1>0, <1>5, <2>1, <2>3, <3>1, StageStep DEF PollFails, Leaving
  <2> QED BY <2>2, <2>3
<1>6. CASE Delete(j)
  <2>1. Reachable(j, y, "ended", y.result) /\ Around(j) /\ Tidy(j, "ended")
    BY <1>0, <1>6 DEF Delete, Stage, Reachable, Around, Tidy, Earned
  <2> QED BY <1>0, <1>6, <2>1, StageStep DEF Delete, Going
<1>7. CASE DeleteFails(j)
  <2>1. Reachable(j, y, "ended", y.result) /\ Around(j) /\ Tidy(j, "ended")
    BY <1>0, <1>7 DEF DeleteFails, Fault, Stage, Reachable, Around, Tidy, Earned
  <2> QED BY <1>0, <1>7, <2>1, StageStep DEF DeleteFails, Going
<1>8. CASE EnsureFails(j)
  <2>1. Reachable(j, y, "ended", "publish_failed") /\ Around(j) /\ Tidy(j, "ended")
    BY <1>0, <1>8 DEF EnsureFails, Fault, Stage, Reachable, Around, Tidy, Own
  <2> QED BY <1>8, <2>1, StageStep DEF EnsureFails, Ending
<1>9. CASE BaselineFails(j)
  <2>1. Reachable(j, y, "start", y.result) /\ Around(j) /\ Tidy(j, "start")
    BY <1>0, <1>9 DEF BaselineFails, Fault, Stage, Reachable, Around, Tidy, Earned
  <2> QED BY <1>0, <1>9, <2>1, StageStep DEF BaselineFails, Going
<1>10. CASE Stalled(j)
  <2>1. Around(j) /\ \A p \in Pcs : Tidy(j, p)
    BY <1>10 DEF Stalled, Around, Tidy, Running
  <2>2. CASE y.runs = 1
    <3>1. Reachable(j, y, "waiting", y.result)
      BY <1>0, <1>10, <2>2 DEF Stalled, Stage, Reachable, Earned
    <3> QED BY <1>0, <1>10, <2>1, <2>2, <3>1, StageStep DEF Stalled, Going
  <2>3. CASE y.runs # 1
    <3>1. Reachable(j, y, "ended", "stalled")
      BY <1>0, <1>10, <2>3 DEF Stalled, Stage, Reachable
    <3> QED BY <1>0, <1>10, <2>1, <2>3, <3>1, StageStep DEF Stalled, Ending
  <2> QED BY <2>2, <2>3
<1> QED BY <1>1, <1>2, <1>3, <1>4, <1>5, <1>6, <1>7, <1>8, <1>9, <1>10
-----------------------------------------------------------------------------
(* Steps that write more of the job *)

LEMMA RunIs == ASSUME Inv, NEW j \in Jobs, Run(j) PROVE Inv'
<1> DEFINE y == jobs[j]
           p == FirstStep(y.kind)
           x == [NewJob(y.kind) EXCEPT !.runs = y.runs + 1, !.pc = p]
<1>0. y \in JobType /\ y.kind \in Kinds /\ Stage(j, y) /\ y.pc = "waiting"
  BY JobIs DEF Run
<1>1. y.runs + 1 \in Few /\ y.runs + 1 # 0
  BY <1>0 DEF JobType, Stage, Few
<1>2. p \in Pcs /\ p = (IF y.kind = "library" THEN "ensure" ELSE "create")
  BY DEF FirstStep, Pcs
<1>3. x \in JobType
  <2>1. NewJob(y.kind) \in JobType
    BY <1>0, NewJobs
  <2> HIDE DEF p
  <2> QED BY <1>1, <1>2, <2>1 DEF JobType
<1>4. /\ x.kind = y.kind /\ x.pc = p /\ x.runs = y.runs + 1 /\ x.script = None /\ x.base = NoReport
      /\ ~x.known /\ x.taken = NoReport /\ x.result = None
  BY <1>0 DEF NewJob
<1>5. jobs' = [jobs EXCEPT ![j] = x]
  BY DEF Run
<1> HIDE DEF x, p
<1>6. Fits(j, x)
  <2>1. Stage(j, x)
    BY <1>1, <1>2, <1>4 DEF Stage, Shared
  <2>2. Compared(x)
    BY <1>2, <1>4 DEF Compared, NoReport, Inv, Types, IntuneOK
  <2>3. Earned(j, x)
    BY <1>4, ScriptAssumption DEF Earned, Results
  <2> QED BY <2>1, <2>2, <2>3 DEF Fits
<1>7. Clean(j, x)
  BY <1>0 DEF Run, Clean, Running
<1> QED BY <1>3, <1>4, <1>5, <1>6, <1>7, JobStep DEF Handles, Run

\* The job gets its object
LEMMA ObjectStep ==
  ASSUME Inv, NEW j \in Jobs, NEW i \in Ids, NEW p \in {"start", "baseline"},
         jobs' = [jobs EXCEPT ![j].pc = p, ![j].script = i], Stage(j, jobs[j]),
         /\ jobs[j].pc \in {"create", "ensure", "publish"}
         /\ p = "baseline" <=> jobs[j].kind = "library"
         /\ IF jobs[j].kind = "library" THEN jobs[Owner(i)].kind = "library" ELSE i = Own(j),
         scripts' \in {scripts, scripts \cup {Own(j)}}, UNCHANGED <<asked, reports, time, device, done, faults>>
  PROVE  Inv'
<1> DEFINE y == jobs[j]
           x == [jobs[j] EXCEPT !.pc = p, !.script = i]
<1>0. y \in JobType /\ Fits(j, y) /\ y.runs # 0 /\ y.script = None /\ ~y.known
  BY JobIs DEF Stage
<1>1. x \in JobType
  <2>1. p \in Pcs
    BY DEF Pcs
  <2> QED BY <1>0, <2>1 DEF JobType
<1>2. /\ x.kind = y.kind /\ x.pc = p /\ x.runs = y.runs /\ x.script = i /\ x.base = y.base
      /\ ~x.known /\ x.taken = y.taken /\ x.result = y.result
  BY <1>0 DEF JobType
<1>3. jobs' = [jobs EXCEPT ![j] = x]
  BY DEF Inv, Types, JobsOK
<1> HIDE DEF x
<1>4. Fits(j, x)
  <2>1. Stage(j, x)
    BY <1>0, <1>2, ScriptAssumption DEF Stage, Shared, Own
  <2>2. Compared(x)
    BY <1>0, <1>2 DEF Fits, Compared
  <2>3. Earned(j, x)
    BY <1>0, <1>2 DEF Fits, Earned
  <2> QED BY <2>1, <2>2, <2>3 DEF Fits
<1>5. Clean(j, x)
  <2>1. CASE y.kind = "library"
    BY <1>2, <2>1 DEF Clean
  <2>2. CASE y.kind # "library"
    <3>1. ASSUME NEW k \in scripts', k # i PROVE k \in scripts /\ jobs[j].script # k
      BY <1>0, <2>2, <3>1, ScriptAssumption DEF Inv, Types, IntuneOK
    <3> QED BY <1>2, <3>1 DEF Clean, Pending
  <2> QED BY <2>1, <2>2
<1>6. scripts' \subseteq scripts \cup {Own(j)}
  OBVIOUS
<1> QED BY <1>0, <1>1, <1>2, <1>3, <1>4, <1>5, <1>6, JobStep DEF Handles

LEMMA ObjectIs == ASSUME Inv, NEW j \in Jobs, Create(j) \/ EnsureList(j) \/ EnsureCreate(j) PROVE Inv'
<1>0. jobs[j] \in JobType /\ Stage(j, jobs[j])
  BY JobIs
<1>1. jobs[j].pc # "waiting" => Own(j) \in Ids /\ jobs[Owner(Own(j))] = jobs[j]
  BY <1>0 DEF Own, Owner, Ids, JobType, Few, Stage
<1>2. CASE Create(j)
  BY <1>0, <1>1, <1>2, ObjectStep DEF Create, Stage, Own
<1>3. CASE EnsureCreate(j)
  BY <1>0, <1>1, <1>3, ObjectStep DEF EnsureCreate, Stage, Own
<1>4. CASE EnsureList(j)
  <2>1. CASE Going(j, "publish") /\ Existing = {}
    <3>1. Reachable(j, jobs[j], "publish", jobs[j].result) /\ Around(j) /\ Tidy(j, "publish")
      BY <1>0, <1>4, <2>1, JobIs DEF EnsureList, Stage, Reachable, Around, Tidy, Earned
    <3> QED BY <2>1, <3>1, StageStep, JobIs DEF Going, Pcs
  <2>2. ASSUME NEW i \in Existing, jobs' = [jobs EXCEPT ![j].pc = "baseline", ![j].script = i] PROVE Inv'
    <3>1. i \in Ids /\ jobs[Owner(i)].kind = "library"
      BY DEF Existing, IsLibrary, Inv, Types, IntuneOK
    <3> QED BY <1>0, <1>4, <2>2, <3>1, ObjectStep DEF EnsureList, Stage
  <2> QED BY <1>4, <2>1, <2>2 DEF EnsureList
<1> QED BY <1>2, <1>3, <1>4

LEMMA StartIs == ASSUME Inv, NEW j \in Jobs, Start(j) PROVE Inv'
<1> DEFINE y == jobs[j]
           x == [jobs[j] EXCEPT !.pc = "poll", !.since = time]
<1>0. y \in JobType /\ Fits(j, y) /\ Stage(j, y) /\ y.pc = "start" /\ y.script # None /\ y.runs # 0
  BY JobIs DEF Stage, Start
<1>1. x \in JobType
  <2>1. "poll" \in Pcs /\ time \in Nat
    BY DEF Pcs, Inv, Types, IntuneOK
  <2> QED BY <1>0, <2>1 DEF JobType
<1>2. /\ x.kind = y.kind /\ x.pc = "poll" /\ x.runs = y.runs /\ x.script = y.script /\ x.base = y.base /\ x.since = time
      /\ (x.known <=> y.known) /\ x.taken = y.taken /\ x.result = y.result
  BY <1>0 DEF JobType
<1>3. jobs' = [jobs EXCEPT ![j] = x]
  BY DEF Start, Inv, Types, JobsOK
<1> HIDE DEF x
<1>4. Fits(j, x)
  <2>1. Stage(j, x)
    BY <1>0, <1>2 DEF Stage, Shared
  <2>2. Compared(x)
    BY <1>0, <1>2 DEF Fits, Compared, SinceBase
  <2>3. Earned(j, x)
    BY <1>0, <1>2 DEF Fits, Earned
  <2> QED BY <2>1, <2>2, <2>3 DEF Fits
<1>5. Clean(j, x)
  BY <1>2 DEF Start, Clean, Pending
<1> QED BY <1>0, <1>1, <1>2, <1>3, <1>4, <1>5, JobStep DEF Handles, Start

LEMMA BaselineIs == ASSUME Inv, NEW j \in Jobs, Baseline(j) PROVE Inv'
<1> DEFINE y == jobs[j]
           s == reports[y.script]
<1>0. y \in JobType /\ Fits(j, y) /\ Stage(j, y) /\ y.pc = "baseline" /\ y.script \in Ids /\ y.kind = "library"
  BY JobIs DEF Stage, Baseline
<1>s. s \in ReportType /\ s.n <= time /\ s.sync <= time /\ (s = NoReport \/ s.n > 0)
  BY <1>0 DEF Inv, Types, IntuneOK, Ordered
<1>1. PICK young \in BOOLEAN : jobs' = [jobs EXCEPT ![j].pc = "start", ![j].base = s, ![j].known = TRUE, ![j].tolerated = young]
  BY DEF Baseline
<1> DEFINE x == [jobs[j] EXCEPT !.pc = "start", !.base = s, !.known = TRUE, !.tolerated = young]
<1>2. x \in JobType
  <2>1. "start" \in Pcs
    BY DEF Pcs
  <2> HIDE DEF s
  <2> QED BY <1>0, <1>s, <2>1 DEF JobType
<1>3. /\ x.kind = y.kind /\ x.pc = "start" /\ x.runs = y.runs /\ x.script = y.script /\ x.base = s
      /\ x.taken = y.taken /\ x.result = y.result
  BY <1>0 DEF JobType
<1>4. jobs' = [jobs EXCEPT ![j] = x]
  BY <1>1 DEF Inv, Types, JobsOK
<1> HIDE DEF x
<1>5. Fits(j, x)
  <2>1. Stage(j, x)
    BY <1>0, <1>3 DEF Stage, Shared
  <2>2. Compared(x)
    BY <1>0, <1>s, <1>3, ScriptAssumption DEF Fits, Compared, SinceBase
  <2>3. Earned(j, x)
    BY <1>0, <1>3 DEF Fits, Earned
  <2> QED BY <2>1, <2>2, <2>3 DEF Fits
<1>6. Clean(j, x)
  BY <1>0, <1>3 DEF Clean
<1> QED BY <1>0, <1>2, <1>3, <1>4, <1>5, <1>6, JobStep DEF Handles, Baseline
\* The report of the object counts for the job that made it only
LEMMA PollTransientIs == ASSUME Inv, NEW j \in Jobs, PollTransient(j) PROVE Inv'
<1> DEFINE y == jobs[j]
           o == reports[y.script].output
           r == Verdict(y.kind, o)
<1>0. /\ y \in JobType /\ y.kind \in Kinds /\ Stage(j, y) /\ y.script \in Ids \cup {None} /\ y.kind # "library"
      /\ y.pc = "poll"
  BY JobIs DEF PollTransient
<1>1. r \in {"succeeded", "failed"} /\ (r = "succeeded" => o \in {"ok", "silent"})
  BY <1>0, Verdicts
<1>2. y.script = Own(j) /\ y.script \in TransientIds /\ Owner(y.script) = j
  BY <1>0 DEF Stage, Own, Owner, TransientIds, IsLibrary
<1>3. r = "succeeded" => <<y.script, j>> \in done
  BY <1>1, <1>2 DEF Inv, Carried
<1>4. jobs' = [jobs EXCEPT ![j].pc = "delete", ![j].result = r]
  BY DEF PollTransient, Leaving
<1>5. Around(j) /\ Tidy(j, "delete")
  BY DEF PollTransient, Around, Tidy
<1> HIDE DEF r
<1>6. Reachable(j, y, "delete", r)
  BY <1>0, <1>3 DEF Stage, Reachable
<1>7. "delete" \in Pcs /\ r \in Results \cup {None}
  BY <1>1 DEF Pcs, Results
<1> QED BY <1>4, <1>5, <1>6, <1>7, StageStep

\* A library job takes the report of its object
LEMMA TakeStep ==
  ASSUME Inv, NEW j \in Jobs, NEW r \in {"succeeded", "failed"}, NEW x \in JobType,
         jobs[j].pc \in {"poll", "last"}, jobs[j].kind = "library",
         jobs' = [jobs EXCEPT ![j] = x],
         /\ x.kind = jobs[j].kind /\ x.pc = "ended" /\ x.runs = jobs[j].runs /\ x.script = jobs[j].script
         /\ x.base = jobs[j].base /\ x.result = r /\ (x.known <=> jobs[j].known) /\ (x.tolerated <=> jobs[j].tolerated),
         x.stale \/ (x.known => Later(x.taken, x.base) \/ x.tolerated),
         UNCHANGED <<scripts, asked, reports, time, device, done, faults>>
  PROVE  Inv'
<1>0. Fits(j, jobs[j]) /\ Stage(j, jobs[j])
  BY JobIs
<1>1. Stage(j, x)
  BY <1>0 DEF Stage, Shared
<1>2. Compared(x)
  BY <1>0 DEF Fits, Compared, SinceBase
<1>3. Earned(j, x)
  BY DEF Earned
<1>4. Clean(j, x)
  BY DEF Clean
<1> QED BY <1>1, <1>2, <1>3, <1>4, JobStep DEF Fits, Handles

LEMMA PollLibraryIs == ASSUME Inv, NEW j \in Jobs, PollLibrary(j) PROVE Inv'
<1> DEFINE y == jobs[j]
           s == reports[y.script]
           r == Verdict("library", s.output)
           x == [jobs[j] EXCEPT !.pc = "ended", !.taken = s, !.result = r]
<1>0. y \in JobType /\ Fits(j, y) /\ Stage(j, y) /\ y.pc = "poll" /\ y.kind = "library"
  BY JobIs DEF PollLibrary
<1>1. y.script \in Ids
  BY <1>0 DEF Stage, JobType
<1>2. s \in ReportType /\ r \in {"succeeded", "failed"} /\ s.n \in Nat /\ s.sync \in Nat /\ y.base.n \in Nat /\ y.base.sync \in Nat /\ y.since \in Nat
  BY <1>0, <1>1, Verdicts DEF Inv, Types, IntuneOK, Kinds, JobType, ReportType
<1>3. s # NoReport /\ (s.n > y.since \/ s.sync > y.since \/ y.tolerated \/ y.base = NoReport \/ s # y.base)
  BY DEF PollLibrary, Fresh
<1>4. y.known => Later(s, y.base) \/ y.tolerated
  <2>1. CASE s.n > y.since \/ s.sync > y.since
    BY <1>0, <1>2, <2>1 DEF Fits, Compared, Later
  <2>2. CASE s # y.base
    BY <1>0, <2>2 DEF Fits, Compared, SinceBase
  <2> QED BY <1>3, <2>1, <2>2
<1>5. jobs' = [jobs EXCEPT ![j] = x]
  BY DEF PollLibrary, Inv, Types, JobsOK
<1>6. UNCHANGED <<scripts, asked, reports, time, device, done, faults>>
  BY DEF PollLibrary
<1> HIDE DEF r, s
<1>7. x \in JobType
  <2>1. "ended" \in Pcs /\ r \in Results
    BY <1>2 DEF Pcs, Results
  <2> QED BY <1>0, <1>2, <2>1 DEF JobType
<1>8. /\ x.kind = y.kind /\ x.pc = "ended" /\ x.runs = y.runs /\ x.script = y.script /\ x.base = y.base
      /\ x.taken = s /\ x.result = r /\ (x.known <=> y.known) /\ (x.tolerated <=> y.tolerated)
  BY <1>0 DEF JobType
<1> HIDE DEF x
<1> QED BY <1>0, <1>2, <1>4, <1>5, <1>6, <1>7, <1>8, TakeStep

LEMMA LastIs == ASSUME Inv, NEW j \in Jobs, Last(j) PROVE Inv'
<1> DEFINE y == jobs[j]
           s == reports[y.script]
           r == Verdict("library", s.output)
           x == [jobs[j] EXCEPT !.pc = "ended", !.taken = s, !.stale = TRUE, !.result = r]
<1>0. y \in JobType /\ Stage(j, y) /\ y.pc = "last" /\ y.kind = "library"
  BY JobIs DEF Last, Stage
<1>1. CASE s = NoReport
  <2>1. Reachable(j, y, "ended", "timeout") /\ Around(j) /\ Tidy(j, "ended")
    BY <1>0, <1>1 DEF Last, Stage, Reachable, Around, Tidy
  <2> QED BY <1>1, <2>1, StageStep DEF Last, Ending, Pcs, Results
<1>2. CASE s # NoReport
  <2>1. y.script \in Ids
    BY <1>0 DEF Stage, JobType
  <2>2. s \in ReportType /\ r \in {"succeeded", "failed"}
    BY <2>1, Verdicts DEF Inv, Types, IntuneOK, Kinds
  <2>3. jobs' = [jobs EXCEPT ![j] = x]
    BY <1>2 DEF Last, Inv, Types, JobsOK
  <2>4. UNCHANGED <<scripts, asked, reports, time, device, done, faults>>
    BY DEF Last
  <2> HIDE DEF r, s
  <2>5. x \in JobType
    <3>1. "ended" \in Pcs /\ r \in Results
      BY <2>2 DEF Pcs, Results
    <3> QED BY <1>0, <2>2, <3>1 DEF JobType
  <2>6. /\ x.kind = y.kind /\ x.pc = "ended" /\ x.runs = y.runs /\ x.script = y.script /\ x.base = y.base
        /\ x.stale /\ x.result = r /\ (x.known <=> y.known) /\ (x.tolerated <=> y.tolerated)
    BY <1>0 DEF JobType
  <2> HIDE DEF x
  <2> QED BY <1>0, <2>2, <2>3, <2>4, <2>5, <2>6, TakeStep
<1> QED BY <1>1, <1>2

-----------------------------------------------------------------------------
(* The device *)

\* The states of Intune get no older
LEMMA LaterReports ==
  ASSUME Inv, jobs' = jobs, time \in Nat, time' \in Nat, time <= time', done \subseteq done', reports' \in [Ids -> ReportType],
         \A k \in Ids : \/ reports'[k] = reports[k]
                        \/ /\ reports'[k].sync = time' /\ time < time'
                           /\ reports'[k].n <= time' /\ reports'[k].n > 0
  PROVE  (\A j \in Jobs : Fits(j, jobs[j])') /\ Ordered'
<1>0. \A k \in Ids : reports[k] \in ReportType
  BY DEF Inv, Types, IntuneOK
<1>1. Ordered'
  <2>1. ASSUME NEW k \in Ids PROVE reports'[k].n <= time' /\ reports'[k].sync <= time' /\ (reports'[k] = NoReport \/ reports'[k].n > 0)
    <3>1. reports[k].n \in Nat /\ reports[k].sync \in Nat
      BY <1>0 DEF ReportType
    <3> QED BY <3>1 DEF Inv, Ordered
  <2> QED BY <2>1 DEF Ordered
<1>2. ASSUME NEW j \in Jobs PROVE Fits(j, jobs[j])'
  <2>1. jobs[j] \in JobType /\ Fits(j, jobs[j]) /\ jobs[j].base.n \in Nat /\ jobs[j].base.sync \in Nat
    BY JobIs DEF JobType, ReportType
  <2>2. Stage(j, jobs[j])'
    BY <2>1 DEF Fits, Stage, Shared
  <2>3. Compared(jobs[j])'
    <3>1. jobs[j].known => jobs[j].script \in Ids /\ SinceBase(jobs[j])
      BY <2>1 DEF Fits, Compared, SinceBase, JobType
    <3>2. jobs[j].known => SinceBase(jobs[j])'
      BY <2>1, <3>1 DEF SinceBase, Later, Fits, Compared
    <3> QED BY <2>1, <3>2 DEF Fits, Compared
  <2>4. Earned(j, jobs[j])'
    BY <2>1 DEF Fits, Earned
  <2> QED BY <2>2, <2>3, <2>4 DEF Fits
<1> QED BY <1>1, <1>2

\* What a script reports, and what is noted of it
LEMMA ReportIs ==
  ASSUME Inv, device.script # None, NEW o \in Outputs, Report(o), device' \in DeviceType, device'.script = None,
         faults' \in {faults, faults + 1}
  PROVE  Inv'
<1> DEFINE i == device.script
<1>0. i \in Ids /\ device.job \in Jobs /\ (IsLibrary(i) \/ device.job = Owner(i)) /\ i \notin {None}
  BY DEF Inv, Types, DeviceOK, DeviceType, Carried
<1>1. UNCHANGED <<jobs, scripts, asked>> /\ reports \in [Ids -> ReportType] /\ time \in Nat /\ faults \in Nat
  BY DEF Report, Inv, Types, IntuneOK, DeviceOK
<1>2. reports' \in [Ids -> ReportType] /\ time' \in Nat /\ time <= time'
  <2>1. [n |-> time + 1, sync |-> time + 1, output |-> o] \in ReportType
    BY <1>1 DEF ReportType
  <2> QED BY <1>1, <2>1 DEF Report
<1>3. \A k \in Ids : \/ reports'[k] = reports[k]
                     \/ k = i /\ reports'[k] = [n |-> time + 1, sync |-> time + 1, output |-> o] /\ time' = time + 1
  BY <1>1 DEF Report
<1>4. done \subseteq done' /\ done' \subseteq Ids \X Jobs
  BY <1>0 DEF Report, Inv, Types, DeviceOK
<1>5. ~IsLibrary(i) /\ o \in {"ok", "silent"} => <<i, Owner(i)>> \in done'
  BY <1>0 DEF Report, Doing, IsLibrary
<1>6. Types'
  BY <1>1, <1>2, <1>4 DEF Inv, Types, JobsOK, IntuneOK, DeviceOK
<1>7. \A k \in Ids : IsLibrary(k)' <=> IsLibrary(k)
  BY <1>1 DEF IsLibrary
<1>8. TransientIds' = TransientIds
  BY <1>7 DEF TransientIds, Ids
<1>9. (\A j \in Jobs : Fits(j, jobs[j])') /\ Ordered'
  <2>1. \A k \in Ids : \/ reports'[k] = reports[k]
                       \/ reports'[k].sync = time' /\ time < time' /\ reports'[k].n <= time' /\ reports'[k].n > 0
    BY <1>1, <1>3
  <2> QED BY <1>1, <1>2, <1>4, <2>1, LaterReports
<1>10. Carried'
  <2>1. \A q \in asked : IsLibrary(q[1])' \/ q[2] = Owner(q[1])
    BY <1>7 DEF Inv, Carried, Types, IntuneOK
  <2>2. \A k \in TransientIds : reports'[k].output \in {"ok", "silent"} => <<k, Owner(k)>> \in done'
    BY <1>3, <1>4, <1>5 DEF Inv, Carried, TransientIds
  <2> HIDE DEF IsLibrary, TransientIds
  <2> QED BY <1>1, <1>8, <2>1, <2>2 DEF Carried
<1>11. NothingLeft'
  <2>1. \A j \in Jobs : Left(j)' \subseteq Left(j)
    BY <1>1, <1>8 DEF Left, Running
  <2> QED BY <2>1, LeftKept DEF Inv
<1> QED BY <1>6, <1>9, <1>10, <1>11 DEF Inv

\* A synchronization without a report
LEMMA SyncIs == ASSUME Inv, Sync PROVE Inv'
<1>0. reports \in [Ids -> ReportType] /\ time \in Nat
  BY DEF Inv, Types, IntuneOK
<1>1. UNCHANGED <<jobs, scripts, asked, device, done, faults>> /\ time' = time + 1
  BY DEF Sync
<1>2. PICK ids \in SUBSET {i \in Existing : reports[i] # NoReport} :
         reports' = [i \in Ids |-> IF i \in ids THEN [n |-> reports[i].n, sync |-> time + 1, output |-> reports[i].output] ELSE reports[i]]
  BY DEF Sync
<1>3. \A i \in Ids : [n |-> reports[i].n, sync |-> time + 1, output |-> reports[i].output] \in ReportType
  BY <1>0 DEF ReportType
<1>4. reports' \in [Ids -> ReportType] /\ \A i \in Ids : reports'[i].output = reports[i].output
  BY <1>0, <1>2, <1>3
<1>5. ASSUME NEW k \in Ids
      PROVE  \/ reports'[k] = reports[k]
             \/ reports'[k].sync = time' /\ time < time' /\ reports'[k].n <= time' /\ reports'[k].n > 0
  <2>1. reports[k].n \in Nat /\ reports[k].n <= time /\ (reports[k] = NoReport \/ reports[k].n > 0)
    BY <1>0 DEF Inv, Ordered, ReportType
  <2>2. CASE k \in ids
    BY <1>0, <1>1, <1>2, <2>1, <2>2
  <2> QED BY <1>2, <2>2
<1>6. (\A j \in Jobs : Fits(j, jobs[j])') /\ Ordered'
  BY <1>0, <1>1, <1>4, <1>5, LaterReports
<1>7. Types'
  BY <1>0, <1>1, <1>4 DEF Inv, Types, JobsOK, IntuneOK, DeviceOK
<1>8. TransientIds' = TransientIds /\ \A k : IsLibrary(k)' <=> IsLibrary(k)
  BY <1>1 DEF TransientIds, IsLibrary, Ids
<1>9. Carried'
  <2>1. TransientIds \subseteq Ids
    BY DEF TransientIds
  <2> HIDE DEF IsLibrary, TransientIds
  <2> QED BY <1>1, <1>4, <1>8, <2>1 DEF Inv, Carried
<1>10. NothingLeft'
  <2>1. \A j \in Jobs : Left(j)' \subseteq Left(j)
    BY <1>1, <1>8 DEF Left, Running
  <2> QED BY <1>1, <2>1, LeftKept DEF Inv
<1> QED BY <1>6, <1>7, <1>9, <1>10 DEF Inv

\* A step of the device without a report: it begins a script, goes on, or has lost it
LEMMA DeviceOnly ==
  ASSUME Inv, device' \in DeviceType, faults' \in {faults, faults + 1}, UNCHANGED <<jobs, scripts, reports, time, done>>,
         asked' \subseteq asked,
         \/ device'.script = None
         \/ device'.script = device.script /\ device'.job = device.job
         \/ <<device'.script, device'.job>> \in asked
  PROVE  Inv'
<1>1. Types'
  BY DEF Inv, Types, JobsOK, IntuneOK, DeviceOK
<1>2. \A j \in Jobs : Fits(j, jobs[j])'
  BY DEF Inv, Fits, Stage, Shared, Compared, SinceBase, Earned
<1>3. TransientIds' = TransientIds /\ \A k : IsLibrary(k)' <=> IsLibrary(k)
  BY DEF TransientIds, IsLibrary, Ids
<1>4. Carried'
  <2>1. device'.script # None => device'.job \in Jobs /\ (IsLibrary(device'.script) \/ device'.job = Owner(device'.script))
    BY DEF Inv, Carried, Types, IntuneOK
  <2> HIDE DEF IsLibrary, TransientIds
  <2> QED BY <1>3, <2>1 DEF Inv, Carried
<1>5. Ordered'
  BY DEF Inv, Ordered
<1>6. NothingLeft'
  <2>1. \A j \in Jobs : Left(j)' \subseteq Left(j)
    BY <1>3 DEF Left, Running
  <2> QED BY <2>1, LeftKept DEF Inv
<1> QED BY <1>1, <1>2, <1>4, <1>5, <1>6 DEF Inv
LEMMA DeviceIs ==
  ASSUME Inv, Fetch \/ Grant \/ Revoke \/ Execute \/ Sync \/ ScriptFails \/ PowerCut \/ TaskRuns
  PROVE  Inv'
<1>0. device \in DeviceType /\ faults \in Nat /\ asked \subseteq Ids \X Jobs /\ Doing \in Kinds \cup {"none"}
  BY DEF Inv, Types, IntuneOK, DeviceOK, Doing, DeviceType, JobsOK, JobType, Ids, Owner
<1>i. \A b \in BOOLEAN : Idle([device EXCEPT !.task = b]) \in DeviceType /\ Idle([device EXCEPT !.admin = b]) \in DeviceType
  <2>1. \A b \in BOOLEAN : [device EXCEPT !.task = b] \in DeviceType /\ [device EXCEPT !.admin = b] \in DeviceType
    BY <1>0 DEF DeviceType
  <2>2. \A d \in DeviceType : Idle(d) \in DeviceType
    <3>1. 0 \in Few
      BY DEF Few
    <3> QED BY <3>1 DEF DeviceType, Idle
  <2> QED BY <2>1, <2>2
<1>n. \A d \in DeviceType : Idle(d) \in DeviceType /\ Idle(d).script = None
  <2>1. 0 \in Few
    BY DEF Few
  <2> QED BY <2>1 DEF DeviceType, Idle
<1>t. \A b \in BOOLEAN : Idle([device EXCEPT !.task = b]).script = None /\ Idle([device EXCEPT !.admin = b]).script = None
  <2>1. \A b \in BOOLEAN : [device EXCEPT !.task = b] \in DeviceType /\ [device EXCEPT !.admin = b] \in DeviceType
    BY <1>0 DEF DeviceType
  <2> QED BY <1>n, <2>1
<1>o. {"ok", "silent", "error", "broken"} = Outputs
  BY DEF Outputs
<1>1. CASE Fetch
  <2>1. PICK q \in asked : /\ asked' = asked \ {q}
                           /\ device' = IF q[1] \in scripts
                                        THEN [device EXCEPT !.script = q[1], !.job = q[2], !.step = 1]
                                        ELSE device
    BY <1>1 DEF Fetch
  <2>2. q = <<q[1], q[2]>> /\ q[1] \in Ids /\ q[2] \in Jobs
    BY <1>0, <2>1
  <2>3. CASE q[1] \in scripts
    <3>1. device' = [device EXCEPT !.script = q[1], !.job = q[2], !.step = 1]
      BY <2>1, <2>3
    <3>2. device' \in DeviceType /\ device'.script = q[1] /\ device'.job = q[2]
      <4>1. 1 \in Few
        BY DEF Few
      <4> QED BY <1>0, <2>2, <3>1, <4>1 DEF DeviceType
    <3>3. <<device'.script, device'.job>> \in asked
      BY <2>1, <2>2, <3>2
    <3> QED BY <1>1, <2>1, <3>2, <3>3, DeviceOnly DEF Fetch
  <2>4. CASE q[1] \notin scripts
    BY <1>0, <1>1, <2>1, <2>4, DeviceOnly DEF Fetch
  <2> QED BY <2>3, <2>4
<1>2. CASE Grant
  <2>1. CASE device' = [device EXCEPT !.step = 2, !.admin = TRUE] /\ UNCHANGED <<jobs, scripts, asked, reports, time, done>>
    <3>1. device' \in DeviceType /\ device'.script = device.script /\ device'.job = device.job
      <4>1. 2 \in Few
        BY DEF Few
      <4> QED BY <1>0, <2>1, <4>1 DEF DeviceType
    <3> QED BY <1>2, <2>1, <3>1, DeviceOnly DEF Grant
  <2>2. CASE device' = Idle([device EXCEPT !.task = TRUE]) /\ Report("ok")
    BY <1>2, <2>2, <1>i, <1>t, <1>o, ReportIs DEF Grant, Doing
  <2>3. CASE device' = Idle(device) /\ Report("error")
    BY <1>0, <1>2, <2>3, <1>n, <1>o, ReportIs DEF Grant, Doing
  <2> QED BY <1>2, <2>1, <2>2, <2>3 DEF Grant
<1>3. CASE Revoke
  <2>1. ASSUME NEW a \in BOOLEAN, NEW m \in BOOLEAN, device' = [device EXCEPT !.step = 2, !.admin = a, !.missed = m],
               UNCHANGED <<jobs, scripts, asked, reports, time, done>>
        PROVE  Inv'
    <3>1. device' \in DeviceType /\ device'.script = device.script /\ device'.job = device.job
      <4>1. 2 \in Few
        BY DEF Few
      <4> QED BY <1>0, <2>1, <4>1 DEF DeviceType
    <3> QED BY <1>3, <2>1, <3>1, DeviceOnly DEF Revoke
  <2>2. CASE device' = Idle([device EXCEPT !.task = FALSE]) /\ Report("ok")
    BY <1>3, <2>2, <1>i, <1>t, <1>o, ReportIs DEF Revoke, Doing
  <2>3. \A found \in BOOLEAN : (device.admin /\ ~found) \in BOOLEAN /\ (device.missed \/ (device.admin /\ ~found)) \in BOOLEAN
    BY <1>0 DEF DeviceType
  <2> QED BY <1>3, <2>1, <2>2, <2>3 DEF Revoke
<1>4. CASE Execute
  <2>1. device.script # None /\ device' \in DeviceType /\ device'.script = None /\ faults' = faults
    BY <1>0, <1>4, <1>n DEF Execute, Doing
  <2> QED BY <1>4, <1>o, <2>1, ReportIs DEF Execute
<1>5. CASE ScriptFails
  <2>1. device.script # None /\ device' \in DeviceType /\ device'.script = None /\ faults' = faults + 1
    BY <1>0, <1>5, <1>n DEF ScriptFails, Fault, Doing
  <2> QED BY <1>5, <1>o, <2>1, ReportIs DEF ScriptFails
<1>6. CASE PowerCut
  <2>1. device' \in DeviceType /\ device'.script = None /\ faults' = faults + 1
    BY <1>0, <1>6, <1>n DEF PowerCut, Fault
  <2> QED BY <1>6, <2>1, DeviceOnly DEF PowerCut
<1>7. CASE TaskRuns
  <2>1. device' \in DeviceType /\ device'.script = device.script /\ device'.job = device.job
    BY <1>0, <1>7 DEF TaskRuns, DeviceType
  <2> QED BY <1>7, <2>1, DeviceOnly DEF TaskRuns
<1> QED BY <1>1, <1>2, <1>3, <1>4, <1>5, <1>6, <1>7, SyncIs

\* A crash leaves behind the object each job was about
LEMMA CrashIs == ASSUME Inv, Crash PROVE Inv'
<1> DEFINE new(k) == [jobs[k] EXCEPT !.pc = "orphan"]
<1>1. faults' = faults + 1 /\ UNCHANGED <<scripts, asked, reports, time, device, done>>
  BY DEF Crash, Fault
<1>2. ASSUME NEW k \in Jobs, jobs[k].pc \notin {"waiting", "ended"}
      PROVE  new(k) \in JobType /\ Same(new(k), jobs[k]) /\ Fits(k, new(k))
  <2>1. jobs[k] \in JobType /\ Fits(k, jobs[k]) /\ jobs[k].result \in Results \cup {None} /\ "orphan" \in Pcs
    BY JobIs DEF Pcs
  <2>2. Written(new(k), jobs[k], "orphan", jobs[k].result)
    BY <2>1, WrittenIs
  <2>3. Reachable(k, jobs[k], "orphan", jobs[k].result)
    BY <1>2, <2>1 DEF Reachable, Fits, Stage, Earned
  <2> QED BY <2>1, <2>2, <2>3, StillFits DEF Written
<1>3. \A k \in Jobs : jobs'[k] = IF jobs[k].pc \in {"waiting", "ended"} THEN jobs[k] ELSE new(k)
  BY DEF Crash
<1>4. DOMAIN jobs' = Jobs /\ jobs' = [k \in Jobs |-> jobs'[k]]
  BY DEF Crash
<1> HIDE DEF new
<1>5. \A k \in Jobs : /\ jobs'[k] \in JobType /\ jobs'[k].kind = jobs[k].kind /\ jobs'[k].script = jobs[k].script
                      /\ \E y \in JobType : y = jobs'[k] /\ Fits(k, y)
  BY <1>2, <1>3, JobIs DEF Same
<1>6. Types'
  <2>1. jobs' \in [Jobs -> JobType]
    BY <1>4, <1>5
  <2> QED BY <1>1, <2>1 DEF Inv, Types, JobsOK, IntuneOK, DeviceOK
<1>7. \A k \in Jobs : Fits(k, jobs[k])'
  <2>1. ASSUME NEW k \in Jobs PROVE Fits(k, jobs[k])'
    <3>1. PICK y \in JobType : y = jobs'[k] /\ Fits(k, y)
      BY <1>5
    <3>2. y.script # None => Owner(y.script) \in Jobs
      BY <3>1 DEF JobType, Ids, Owner
    <3>3. Stage(k, jobs[k])'
      BY <1>5, <3>1, <3>2 DEF Fits, Stage, Shared
    <3>4. Compared(jobs[k])' /\ Earned(k, jobs[k])'
      BY <1>1, <3>1 DEF Fits, Compared, SinceBase, Earned
    <3> QED BY <3>3, <3>4 DEF Fits
  <2> QED BY <2>1
<1>8. (\A i \in Ids : IsLibrary(i)' <=> IsLibrary(i)) /\ TransientIds' = TransientIds
  BY <1>5 DEF IsLibrary, Ids, Owner, TransientIds
<1>9. Carried'
  <2>1. (\A q \in asked : q[1] \in Ids) /\ (device.script # None => device.script \in Ids)
    BY DEF Inv, Types, IntuneOK, DeviceOK, DeviceType
  <2> HIDE DEF IsLibrary, TransientIds
  <2> QED BY <1>1, <1>8, <2>1 DEF Inv, Carried
<1>10. Ordered'
  BY <1>1 DEF Inv, Ordered
<1>11. NothingLeft'
  <2>1. ASSUME NEW k \in Jobs PROVE Left(k)' \subseteq Left(k) \/ \E i \in Ids : Left(k)' \subseteq Left(k) \cup {i}
    <3>1. \A i \in Left(k)' : i \in Left(k) \/ i = jobs[k].script
      BY <1>1, <1>8 DEF Left
    <3>2. jobs[k].script \in Ids \/ jobs[k].script = None
      BY JobIs
    <3>3. \A i \in Left(k)' : i # None
      BY <1>1, <1>8, ScriptAssumption DEF Left, TransientIds
    <3> QED BY <3>1, <3>2, <3>3
  <2> QED BY <1>1, <2>1, LeftKept DEF Inv
<1> QED BY <1>6, <1>7, <1>9, <1>10, <1>11 DEF Inv

-----------------------------------------------------------------------------
(* The theorems *)

LEMMA InvInit == Init => Inv
<1> SUFFICES ASSUME Init PROVE Inv
  OBVIOUS
<1>1. PICK kind \in KindChoices : jobs = [j \in Jobs |-> NewJob(kind[j])]
  BY DEF Init
<1>2. \A j \in Jobs : kind[j] \in Kinds
  BY ScriptAssumption
<1>3. JobsOK
  BY <1>1, <1>2, NewJobs DEF JobsOK
<1>4. NoReport \in ReportType /\ 0 \in Few
  BY DEF NoReport, ReportType, Outputs, Few
<1>5. Resting \in DeviceType
  BY <1>4 DEF Resting, DeviceType
<1>6. Types
  BY <1>3, <1>4, <1>5 DEF Init, Types, IntuneOK, DeviceOK
<1>7. \A j \in Jobs : Fits(j, jobs[j])
  <2>1. ASSUME NEW j \in Jobs PROVE Fits(j, NewJob(kind[j]))
    BY ScriptAssumption DEF Init, Fits, Stage, Shared, Compared, Earned, NewJob, NoReport, Results
  <2> QED BY <1>1, <2>1
<1>8. Carried /\ Ordered
  BY DEF Init, Carried, Ordered, Resting, NoReport, TransientIds
<1>9. NothingLeft
  <2>1. \A j \in Jobs : Left(j) = {}
    BY DEF Init, Left
  <2> QED BY <2>1, LeftCounted, FS_EmptySet DEF Init
<1> QED BY <1>6, <1>7, <1>8, <1>9 DEF Inv

LEMMA InvNext == Inv /\ [Next]_vars => Inv'
<1> SUFFICES ASSUME Inv, [Next]_vars PROVE Inv'
  OBVIOUS
<1>1. ASSUME NEW j \in Jobs, HandlerStep(j) \/ HandlerFails(j) \/ Invalid(j) PROVE Inv'
  <2>1. CASE \/ Invalid(j) \/ CreateFails(j) \/ StartFails(j) \/ Timeout(j) \/ PollFails(j)
             \/ Delete(j) \/ DeleteFails(j) \/ EnsureFails(j) \/ BaselineFails(j) \/ Stalled(j)
    BY <2>1, OneStage
  <2>2. CASE Run(j)
    BY <2>2, RunIs
  <2>3. CASE Create(j) \/ EnsureList(j) \/ EnsureCreate(j)
    BY <2>3, ObjectIs
  <2>4. CASE Start(j)
    BY <2>4, StartIs
  <2>5. CASE Baseline(j)
    BY <2>5, BaselineIs
  <2>6. CASE PollTransient(j)
    BY <2>6, PollTransientIs
  <2>7. CASE PollLibrary(j)
    BY <2>7, PollLibraryIs
  <2>8. CASE Last(j)
    BY <2>8, LastIs
  <2> QED BY <1>1, <2>1, <2>2, <2>3, <2>4, <2>5, <2>6, <2>7, <2>8 DEF HandlerStep, HandlerFails
<1>2. CASE DeviceStep \/ Sync \/ ScriptFails \/ PowerCut \/ TaskRuns
  BY <1>2, DeviceIs DEF DeviceStep
<1>3. CASE Crash
  BY <1>3, CrashIs
<1>4. CASE UNCHANGED vars
  <2>1. TransientIds' = TransientIds /\ \A k : IsLibrary(k)' <=> IsLibrary(k)
    BY <1>4 DEF vars, TransientIds, IsLibrary, Ids
  <2>2. Types' /\ (\A j \in Jobs : Fits(j, jobs[j])') /\ Ordered'
    BY <1>4 DEF vars, Inv, Types, JobsOK, IntuneOK, DeviceOK, Fits, Stage, Shared, Compared, SinceBase, Earned, Ordered
  <2>3. Carried'
    BY <1>4, <2>1 DEF vars, Inv, Carried
  <2>4. NothingLeft'
    BY <1>4, <2>1 DEF vars, Inv, NothingLeft, Running
  <2> QED BY <2>2, <2>3, <2>4 DEF Inv
<1> QED BY <1>1, <1>2, <1>3, <1>4 DEF Next

LEMMA Invariant == Spec => []Inv
<1> QED BY InvInit, InvNext, PTL DEF Spec

\* Jobs, script objects, requests, reports and the device have the shape the code gives them, however
\* many jobs run against the device (RemediationProvider and the handlers that call it).
THEOREM TypeCorrect == Spec => []Types
<1>1. Inv => Types
  BY DEF Inv
<1> QED BY <1>1, Invariant, PTL

\* RemediationProvider.runTransient: a job leaves no object behind but for a fault, whatever the other
\* jobs and the device do and wherever the job or the process ends (remediation-provider.ts:275-281).
THEOREM NothingIsLeft == Spec => []NothingLeft
<1>1. Inv => NothingLeft
  BY DEF Inv
<1> QED BY <1>1, Invariant, PTL

\* waitForRunState and isFreshRunState: a transient job that succeeds has run its own script to the end,
\* a library job that takes a state as new takes none that is the one read before its start in both times,
\* but for the tolerated one.
THEOREM OwnResult == Spec => []ResultIsOfRun
<1>1. ASSUME Inv, NEW j \in Jobs
      PROVE  /\ jobs[j].result = "succeeded" /\ jobs[j].kind \in Transient => <<jobs[j].script, j>> \in done
             /\ jobs[j].taken # NoReport /\ ~jobs[j].stale /\ jobs[j].known =>
                   jobs[j].taken.n > jobs[j].base.n \/ jobs[j].tolerated \/ jobs[j].taken.sync > jobs[j].base.sync
  BY <1>1 DEF Inv, Fits, Earned, Compared, Later, Transient
<1>2. Inv => ResultIsOfRun
  BY <1>1 DEF ResultIsOfRun
<1> QED BY <1>2, Invariant, PTL

\* What the device begins was there, and what is noted as carried out is what it ran
LEMMA DeviceChanges ==
  ASSUME Inv, [Next]_vars
  PROVE  /\ device'.script \in {device.script, None} \cup scripts
         /\ \A i \in done' : i \in done \/ i = <<device.script, device.job>>
<1>0. device \in DeviceType
  BY DEF Inv, Types, DeviceOK
<1>1. ASSUME NEW j \in Jobs, HandlerStep(j) PROVE UNCHANGED <<device, done>>
  BY <1>1 DEF HandlerStep, Run, Create, Start, PollTransient, Timeout, Delete, EnsureList, EnsureCreate, Baseline,
              PollLibrary, Last, Stalled
<1>2. ASSUME NEW j \in Jobs, HandlerFails(j) \/ Invalid(j) PROVE UNCHANGED <<device, done>>
  BY <1>2 DEF HandlerFails, Invalid, CreateFails, StartFails, PollFails, DeleteFails, EnsureFails, BaselineFails
<1>3. \A d \in DeviceType : Idle(d).script = None
  BY DEF DeviceType, Idle
<1>4. \A b \in BOOLEAN : [device EXCEPT !.task = b] \in DeviceType /\ [device EXCEPT !.admin = b] \in DeviceType
  BY <1>0 DEF DeviceType
<1>5. CASE Fetch
  <2>1. PICK q \in asked : device' = IF q[1] \in scripts THEN [device EXCEPT !.script = q[1], !.job = q[2], !.step = 1]
                                     ELSE device
    BY <1>5 DEF Fetch
  <2>2. device'.script \in {device.script} \cup scripts
    BY <1>0, <2>1 DEF DeviceType
  <2> QED BY <1>5, <2>2 DEF Fetch
<1>6. CASE Grant
  <2>1. CASE device' = [device EXCEPT !.step = 2, !.admin = TRUE] /\ done' = done
    BY <1>0, <2>1 DEF DeviceType
  <2>2. CASE device' = Idle([device EXCEPT !.task = TRUE]) /\ Report("ok")
    BY <1>3, <1>4, <2>2 DEF Report
  <2>3. CASE device' = Idle(device) /\ Report("error")
    BY <1>0, <1>3, <2>3 DEF Report
  <2> QED BY <1>6, <2>1, <2>2, <2>3 DEF Grant
<1>7. CASE Revoke
  <2>1. ASSUME NEW a, NEW m, device' = [device EXCEPT !.step = 2, !.admin = a, !.missed = m], done' = done
        PROVE  device'.script = device.script
    BY <1>0, <2>1 DEF DeviceType
  <2>2. CASE device' = Idle([device EXCEPT !.task = FALSE]) /\ Report("ok")
    BY <1>3, <1>4, <2>2 DEF Report
  <2> QED BY <1>7, <2>1, <2>2 DEF Revoke
<1>8. CASE Execute \/ ScriptFails \/ PowerCut
  BY <1>0, <1>3, <1>8 DEF Execute, ScriptFails, PowerCut, Report
<1>9. CASE Sync \/ TaskRuns \/ Crash \/ UNCHANGED vars
  BY <1>0, <1>9 DEF Sync, TaskRuns, Crash, vars, DeviceType
<1> QED BY <1>1, <1>2, <1>5, <1>6, <1>7, <1>8, <1>9 DEF Next, DeviceStep

\* temp-admin-job-handlers.ts:84-89: once a transient job is over without a fault, or its object is gone,
\* the device neither begins its script any more nor carries it out, however long it was offline.
THEOREM NoLateEffect == Spec => TimeoutIsHarmless
<1>1. ASSUME Inv, NEW j \in Jobs, faults = 0, jobs[j].kind \in Transient, jobs[j].pc = "ended", jobs[j].script # None
      PROVE  jobs[j].script \notin scripts
  <2>1. SUFFICES ASSUME jobs[j].script \in scripts PROVE FALSE
    OBVIOUS
  <2>2. jobs[j].script = Own(j) /\ jobs[j].script \in Ids
    BY <1>1, JobIs DEF Stage, Own, Transient
  <2>3. jobs[j].script \in Left(j)
    BY <1>1, <2>1, <2>2 DEF Left, TransientIds, IsLibrary, Own, Owner, Running, Transient
  <2>4. IsFiniteSet(Left(j)) /\ Cardinality(Left(j)) <= 0 /\ Cardinality(Left(j)) \in Nat
    BY <1>1, LeftCounted, LeftFinite DEF Inv
  <2> QED BY <2>3, <2>4, FS_EmptySet
<1>2. ASSUME Inv, [Next]_vars, NEW j \in Jobs, jobs[j].kind \in Transient, jobs[j].pc = "ended", jobs[j].script # None,
             jobs[j].script \notin scripts \/ faults = 0, device.script # jobs[j].script
      PROVE  device'.script # jobs[j].script /\ (<<jobs[j].script, j>> \in done' => <<jobs[j].script, j>> \in done)
  <2>1. jobs[j].script \notin scripts
    BY <1>1, <1>2
  <2> QED BY <1>2, <2>1, DeviceChanges
<1>3. Inv /\ [Next]_vars =>
         [\A j \in Jobs : LET i == jobs[j].script
                          IN  jobs[j].kind \in Transient /\ jobs[j].pc = "ended" /\ i # None /\ (i \notin scripts \/ faults = 0) /\ device.script # i =>
                                 device'.script # i /\ (<<i, j>> \in done' => <<i, j>> \in done)]_vars
  BY <1>2
<1> QED BY <1>3, Invariant, PTL DEF Spec, TimeoutIsHarmless
=============================================================================
