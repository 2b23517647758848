---------------------------- MODULE JobQueueProofs ----------------------------
EXTENDS JobQueueProps, TLAPS

RowType == [status : Statuses, expires : Nat, approvals : Seq(Users),
            second : BOOLEAN, createdAt : Nat, retryCount : Nat]
EntryType == [state : {"none", "waiting", "active", "completed", "failed"},
              made : Nat, stalled : Nat]
CallType == [pc : CallPcs, job : Jobs \cup {None}, user : Users \cup {None},
             approvals : Seq(Users), previewed : BOOLEAN]
RunType == [pc : {"idle", "start", "handle", "save", "audit", "finish"},
            job : Jobs \cup {None},
            outcome : {"none", "success", "failure", "thrown"}]
LogType == [user : Users \cup {None},
            label : {"job.approve", "job.approve.first", "job.approve.second"}]

RowsOK == rows \in [Jobs -> RowType]
BullOK == bull \in [Jobs -> EntryType]
\* A request that is under way and an execution have a job
CallsOK ==
    /\ calls \in [Calls -> CallType]
    /\ \A c \in Calls : calls[c].pc \notin {"idle", "done"} => calls[c].job \in Jobs
RunsOK ==
    /\ runs \in [Slots -> RunType]
    /\ \A s \in Slots : runs[s].pc # "idle" => runs[s].job \in Jobs
LogsOK ==
    /\ approvalLog \in [Jobs -> SUBSET LogType]
    /\ outcomeLog \in [Jobs -> SUBSET {"success", "failure"}]
CountersOK ==
    /\ now \in 0..MaxTime
    /\ effects \in [Jobs -> Nat]
    /\ crashes \in 0..MaxCrashes

Types == RowsOK /\ BullOK /\ CallsOK /\ RunsOK /\ LogsOK /\ CountersOK

LEMMA TypesInit == Init => Types
  BY SetsAssumption, TimesAssumption
  DEF Init, Types, RowsOK, BullOK, CallsOK, RunsOK, LogsOK, CountersOK, NoRow, NoEntry, Idle, NoRun,
      RowType, EntryType, CallType, RunType, LogType, CallPcs, Statuses

LEMMA BeginOK ==
  ASSUME Types, NEW c \in Calls, NEW j \in Jobs, NEW u \in Users \cup {None}, NEW pc \in CallPcs,
         NEW list \in Seq(Users), Begin(c, pc, j, u, list)
  PROVE  CallsOK'
<1> USE DEF Types, CallsOK
<1>1. [pc |-> pc, job |-> j, user |-> u, approvals |-> list, previewed |-> rows[j].expires # 0] \in CallType
  BY DEF CallType
<1>2. calls' \in [Calls -> CallType]
  BY <1>1 DEF Begin
<1>3. ASSUME NEW d \in Calls, calls'[d].pc \notin {"idle", "done"} PROVE calls'[d].job \in Jobs
  BY <1>3 DEF Begin
<1> QED BY <1>2, <1>3

LEMMA GoOK ==
  ASSUME Types, NEW c \in Calls, NEW pc \in CallPcs, calls[c].pc \notin {"idle", "done"}, Go(c, pc)
  PROVE  CallsOK'
<1> USE DEF Types, CallsOK
<1>1. [calls[c] EXCEPT !.pc = pc] \in CallType
  BY DEF CallType
<1>2. calls' \in [Calls -> CallType]
  BY <1>1 DEF Go
<1>3. ASSUME NEW d \in Calls, calls'[d].pc \notin {"idle", "done"} PROVE calls'[d].job \in Jobs
  BY <1>3 DEF Go, CallType
<1> QED BY <1>2, <1>3

LEMMA EndOK ==
  ASSUME Types, NEW c \in Calls, End(c)
  PROVE  CallsOK'
<1> USE DEF Types, CallsOK
<1>1. Idle("done") \in CallType
  BY DEF CallType, Idle, CallPcs
<1>2. calls' \in [Calls -> CallType]
  BY <1>1 DEF End
<1>3. ASSUME NEW d \in Calls, calls'[d].pc \notin {"idle", "done"} PROVE calls'[d].job \in Jobs
  BY <1>3 DEF End, Idle
<1> QED BY <1>2, <1>3

LEMMA CallJob ==
  ASSUME Types, NEW c \in Calls, NEW pc, pc \notin {"idle", "done"}, At(c, pc)
  PROVE  /\ calls[c].pc \notin {"idle", "done"}
         /\ calls[c].job \in Jobs
         /\ rows[calls[c].job] \in RowType
         /\ bull[calls[c].job] \in EntryType
  BY DEF Types, CallsOK, RowsOK, BullOK, At

LEMMA RequestTypes == ASSUME Types, NEW c \in Calls, Request(c) PROVE Types'
<1> PICK j \in Jobs : \/ CreateInsert(c, j)
                      \/ CancelRead(c, j)
                      \/ CancelRefused(c, j)
                      \/ \E u \in Users : \/ ApproveRefused(c, j, u)
                                          \/ ApproveExpired(c, j, u)
                                          \/ ApproveFirst(c, j, u)
                                          \/ ApproveFinal(c, j, u)
  BY DEF Request
<1>0. /\ <<>> \in Seq(Users)
      /\ None \in Users \cup {None}
      /\ \A u \in Users : u \in Users \cup {None} /\ Append(rows[j].approvals, u) \in Seq(Users)
  BY DEF Types, RowsOK, RowType
<1>1. CASE CreateInsert(c, j)
  <2>1. CallsOK'
    BY <1>1, <1>0, BeginOK DEF CreateInsert, CallPcs
  <2>2. RowsOK'
    <3>1. [NoRow EXCEPT !.status = IF j \in Previewed THEN "pending_approval" ELSE "queued", !.createdAt = now] \in RowType
      <4>1. now \in Nat
        BY TimesAssumption DEF Types, CountersOK
      <4>2. CASE j \in Previewed
        BY <4>1, <4>2, <1>0 DEF NoRow, RowType, Statuses
      <4>3. CASE j \notin Previewed
        BY <4>1, <4>3, <1>0 DEF NoRow, RowType, Statuses
      <4> QED BY <4>2, <4>3
    <3> QED BY <3>1, <1>1 DEF CreateInsert, Types, RowsOK
  <2> QED BY <1>1, <2>1, <2>2 DEF CreateInsert, RowAndCall, queueVars, Types, BullOK, RunsOK, LogsOK, CountersOK
<1>2. ASSUME OnlyCalls, CallsOK' PROVE Types'
  BY <1>2 DEF OnlyCalls, queueVars, Types, RowsOK, BullOK, RunsOK, LogsOK, CountersOK
<1>3. CASE CancelRead(c, j)
  BY <1>3, <1>0, <1>2, BeginOK DEF CancelRead, CallPcs
<1>4. CASE CancelRefused(c, j)
  BY <1>4, <1>2, EndOK DEF CancelRefused
<1>5. ASSUME NEW u \in Users, ApproveRefused(c, j, u) PROVE Types'
  BY <1>5, <1>2, EndOK DEF ApproveRefused
<1>6. ASSUME NEW u \in Users, ApproveExpired(c, j, u) PROVE Types'
  BY <1>6, <1>0, <1>2, BeginOK DEF ApproveExpired, CallPcs
<1>7. ASSUME NEW u \in Users, ApproveFirst(c, j, u) PROVE Types'
  BY <1>7, <1>0, <1>2, BeginOK DEF ApproveFirst, CallPcs
<1>8. ASSUME NEW u \in Users, ApproveFinal(c, j, u) PROVE Types'
  BY <1>8, <1>0, <1>2, BeginOK DEF ApproveFinal, CallPcs
<1> QED BY <1>1, <1>3, <1>4, <1>5, <1>6, <1>7, <1>8

LEMMA RowUpdate ==
  ASSUME Types, NEW j \in Jobs, NEW r \in RowType, rows' = [rows EXCEPT ![j] = r], RowAndCall, CallsOK'
  PROVE  Types'
  BY DEF RowAndCall, queueVars, Types, RowsOK, BullOK, RunsOK, LogsOK, CountersOK

LEMMA NoUpdate ==
  ASSUME Types, OnlyCalls, CallsOK'
  PROVE  Types'
  BY DEF OnlyCalls, queueVars, Types, RowsOK, BullOK, RunsOK, LogsOK, CountersOK

LEMMA StatusType ==
  ASSUME NEW r \in RowType, NEW status \in Statuses PROVE [r EXCEPT !.status = status] \in RowType
  BY DEF RowType

LEMMA CallStepTypes == ASSUME Types, NEW c \in Calls, CallStep(c) PROVE Types'
<1> DEFINE j == calls[c].job
<1>0. now \in Nat /\ {PreviewTtl, SecondWindow} \subseteq Nat
  BY TimesAssumption DEF Types, CountersOK
<1>1. CASE SavePreview(c)
  <2>1. j \in Jobs /\ rows[j] \in RowType
    BY <1>1, CallJob DEF SavePreview
  <2>2. PICK second \in PolicyAnswers :
           rows' = [rows EXCEPT ![j].expires = now + PreviewTtl, ![j].second = second]
    BY <1>1 DEF SavePreview
  <2>3. [rows[j] EXCEPT !.expires = now + PreviewTtl, !.second = second] \in RowType
    <3>1. now + PreviewTtl \in Nat
      BY <1>0
    <3>2. second \in BOOLEAN
      BY SetsAssumption
    <3> QED BY <2>1, <3>1, <3>2, Zenon DEF RowType
  <2>4. rows' = [rows EXCEPT ![j] = [rows[j] EXCEPT !.expires = now + PreviewTtl, !.second = second]]
    BY <2>1, <2>2 DEF Types, RowsOK
  <2> HIDE DEF j
  <2> QED BY <2>1, <2>3, <2>4, <1>1, EndOK, RowUpdate DEF SavePreview
<1>2. CASE AddToBull(c)
  <2>1. j \in Jobs /\ bull[j] \in EntryType /\ CallsOK'
    BY <1>2, CallJob, GoOK DEF AddToBull, CallPcs
  <2>2. [bull[j] EXCEPT !.state = "waiting"] \in EntryType
    BY <2>1 DEF EntryType
  <2>3. BullOK'
    BY <2>1, <2>2, <1>2 DEF AddToBull, Types, BullOK
  <2> QED BY <2>1, <2>3, <1>2 DEF AddToBull, queueVars, Types, RowsOK, RunsOK, LogsOK, CountersOK
<1>3. CASE MarkQueued(c)
  <2>1. j \in Jobs /\ rows[j] \in RowType /\ CallsOK'
    BY <1>3, CallJob, GoOK, EndOK DEF MarkQueued, CallPcs
  <2>2. [rows[j] EXCEPT !.status = "queued"] \in RowType
    BY <2>1, StatusType DEF Statuses
  <2> QED BY <2>1, <2>2, <1>3, RowUpdate DEF MarkQueued
<1>4. CASE RefreshRead(c)
  BY <1>4, CallJob, GoOK, EndOK, NoUpdate DEF RefreshRead, CallPcs
<1>5. CASE SaveFirstApproval(c)
  <2>1. j \in Jobs /\ rows[j] \in RowType /\ CallsOK'
    BY <1>5, CallJob, GoOK DEF SaveFirstApproval, CallPcs
  <2>2. calls[c].approvals \in Seq(Users)
    BY DEF Types, CallsOK, CallType
  <2> DEFINE expires == IF calls[c].previewed THEN now + SecondWindow ELSE rows[j].expires
  <2>3. expires \in Nat
    <3>1. rows[j].expires \in Nat /\ now + SecondWindow \in Nat
      BY <2>1, <1>0 DEF RowType
    <3> QED BY <3>1, Zenon
  <2>4. rows' = [rows EXCEPT ![j] = [rows[j] EXCEPT !.status = "pending_second_approval",
                                !.approvals = calls[c].approvals, !.expires = expires]]
    BY <1>5, Zenon DEF SaveFirstApproval
  <2> HIDE DEF expires, j
  <2>5. [rows[j] EXCEPT !.status = "pending_second_approval",
                        !.approvals = calls[c].approvals, !.expires = expires] \in RowType
    BY <2>1, <2>2, <2>3 DEF RowType, Statuses
  <2> QED BY <2>1, <2>4, <2>5, <1>5, RowUpdate DEF SaveFirstApproval
<1>6. CASE FirstApprovalRejected(c)
  BY <1>6, EndOK, NoUpdate DEF FirstApprovalRejected
<1>7. CASE SaveApproved(c)
  <2>1. j \in Jobs /\ rows[j] \in RowType /\ CallsOK'
    BY <1>7, CallJob, GoOK DEF SaveApproved, CallPcs
  <2>2. calls[c].approvals \in Seq(Users)
    BY DEF Types, CallsOK, CallType
  <2>3. [rows[j] EXCEPT !.status = "queued", !.approvals = calls[c].approvals] \in RowType
    BY <2>1, <2>2 DEF RowType, Statuses
  <2> QED BY <2>1, <2>3, <1>7, RowUpdate DEF SaveApproved
<1>8. CASE AuditApproval(c)
  <2>1. j \in Jobs /\ CallsOK'
    BY <1>8, CallJob, EndOK DEF AuditApproval
  <2>2. [user |-> calls[c].user, label |-> LabelOf(rows[j])] \in LogType
    BY DEF LabelOf, LogType, Types, CallsOK, CallType
  <2>3. LogsOK'
    BY <2>1, <2>2, <1>8 DEF AuditApproval, queueVars, Types, LogsOK
  <2> QED BY <2>1, <2>3, <1>8 DEF AuditApproval, queueVars, Types, RowsOK, BullOK, RunsOK, CountersOK
<1>9. CASE SaveCancel(c)
  <2>1. j \in Jobs /\ rows[j] \in RowType /\ CallsOK'
    BY <1>9, CallJob, EndOK DEF SaveCancel
  <2>2. [rows[j] EXCEPT !.status = "cancelled"] \in RowType
    BY <2>1, StatusType DEF Statuses
  <2> QED BY <2>1, <2>2, <1>9, RowUpdate DEF SaveCancel
<1> QED BY <1>1, <1>2, <1>3, <1>4, <1>5, <1>6, <1>7, <1>8, <1>9 DEF CallStep

LEMMA CallFailsTypes == ASSUME Types, NEW c \in Calls, CallFails(c) PROVE Types'
  BY EndOK, NoUpdate DEF CallFails
LEMMA RunJob ==
  ASSUME Types, NEW s \in Slots, NEW pc, pc # "idle", RunAt(s, pc)
  PROVE  /\ runs[s].job \in Jobs
         /\ rows[runs[s].job] \in RowType
         /\ bull[runs[s].job] \in EntryType
  BY DEF Types, RunsOK, RowsOK, BullOK, RunAt

\* An execution moves on with another pc or outcome and keeps its job
LEMMA RunUpdate ==
  ASSUME Types, NEW s \in Slots, runs[s].pc # "idle",
         NEW pc \in {"handle", "save", "audit", "finish"},
         NEW outcome \in {"none", "success", "failure", "thrown"},
         runs' = [runs EXCEPT ![s].pc = pc, ![s].outcome = outcome]
  PROVE  RunsOK'
<1> USE DEF Types, RunsOK
<1>1. [runs[s] EXCEPT !.pc = pc, !.outcome = outcome] \in RunType
  BY DEF RunType
<1>2. runs' = [runs EXCEPT ![s] = [runs[s] EXCEPT !.pc = pc, !.outcome = outcome]]
  OBVIOUS
<1>4. runs' \in [Slots -> RunType]
  BY <1>1, <1>2
<1>3. ASSUME NEW t \in Slots, runs'[t].pc # "idle" PROVE runs'[t].job \in Jobs
  BY <1>2, <1>3 DEF RunType
<1> QED BY <1>4, <1>3

LEMMA RunGoOK ==
  ASSUME Types, NEW s \in Slots, runs[s].pc # "idle",
         NEW pc \in {"handle", "save", "audit", "finish"}, RunGo(s, pc)
  PROVE  RunsOK'
<1>1. runs[s] \in RunType
  BY DEF Types, RunsOK
<1>2. [runs[s] EXCEPT !.pc = pc] \in RunType
  BY <1>1 DEF RunType
<1>3. runs' \in [Slots -> RunType]
  BY <1>2 DEF RunGo, Types, RunsOK
<1>4. ASSUME NEW t \in Slots, runs'[t].pc # "idle" PROVE runs'[t].job \in Jobs
  BY <1>1, <1>4 DEF RunGo, RunType, Types, RunsOK
<1> QED BY <1>3, <1>4 DEF RunsOK

LEMMA ReleaseOK ==
  ASSUME Types, NEW s \in Slots, runs[s].pc # "idle", NEW thrown \in BOOLEAN, Release(s, thrown)
  PROVE  RunsOK' /\ BullOK'
<1>1. runs[s].job \in Jobs /\ bull[runs[s].job] \in EntryType
  BY DEF Types, RunsOK, BullOK
<1>2. EntryAfter(bull[runs[s].job], thrown) \in EntryType
  <2> DEFINE entry == bull[runs[s].job]
             state == IF ~thrown THEN "completed"
                      ELSE IF entry.made + 1 < Attempts THEN "waiting" ELSE "failed"
  <2>1. state \in {"none", "waiting", "active", "completed", "failed"}
    BY Zenon
  <2>2. entry.made + 1 \in Nat
    BY <1>1 DEF EntryType
  <2>3. EntryAfter(entry, thrown) = [entry EXCEPT !.made = entry.made + 1, !.state = state]
    BY Zenon DEF EntryAfter
  <2> HIDE DEF state
  <2> QED BY <1>1, <2>1, <2>2, <2>3 DEF EntryType
<1>3. BullOK'
  BY <1>1, <1>2 DEF Release, Types, BullOK
<1>4. NoRun \in RunType
  BY DEF NoRun, RunType
<1>5. runs' \in [Slots -> RunType]
  BY <1>4 DEF Release, Types, RunsOK
<1>6. ASSUME NEW t \in Slots, runs'[t].pc # "idle" PROVE runs'[t].job \in Jobs
  BY <1>6 DEF Release, NoRun, Types, RunsOK
<1> QED BY <1>3, <1>5, <1>6 DEF RunsOK

LEMMA WorkerTypes ==
  ASSUME Types, NEW s \in Slots, RunStep(s) \/ Handle(s) \/ RunFails(s) \/ \E j \in Jobs : Take(s, j)
  PROVE  Types'
<1>1. CASE Start(s)
  <2>1. runs[s].job \in Jobs /\ rows[runs[s].job] \in RowType /\ bull[runs[s].job] \in EntryType
    BY <1>1, RunJob DEF Start
  <2>2. [rows[runs[s].job] EXCEPT !.status = "running", !.retryCount = bull[runs[s].job].made] \in RowType
    BY <2>1 DEF RowType, EntryType, Statuses
  <2>3. RowsOK'
    BY <2>1, <2>2, <1>1 DEF Start, Types, RowsOK
  <2>4. RunsOK'
    BY <1>1, RunGoOK DEF Start, RunAt
  <2> QED BY <2>3, <2>4, <1>1 DEF Start, Types, BullOK, CallsOK, LogsOK, CountersOK
<1>2. CASE Handle(s)
  <2>1. runs[s].job \in Jobs
    BY <1>2, RunJob DEF Handle
  <2>2. RunsOK'
    <3>1. PICK outcome \in {"success", "failure", "thrown"} :
             runs' = [runs EXCEPT ![s].pc = "save", ![s].outcome = outcome]
      BY <1>2 DEF Handle
    <3> QED BY <3>1, <1>2, RunUpdate DEF Handle, RunAt
  <2>3. effects' \in [Jobs -> Nat]
    BY <1>2, <2>1 DEF Handle, Types, CountersOK
  <2> QED BY <2>2, <2>3, <1>2 DEF Handle, Types, RowsOK, BullOK, CallsOK, LogsOK, CountersOK
<1>3. CASE SaveOutcome(s)
  <2>1. runs[s].job \in Jobs /\ rows[runs[s].job] \in RowType
    BY <1>3, RunJob DEF SaveOutcome
  <2>2. [rows[runs[s].job] EXCEPT !.status = IF runs[s].outcome = "success" THEN "completed" ELSE "failed"] \in RowType
    BY <2>1, StatusType DEF Statuses
  <2>3. RowsOK'
    BY <2>1, <2>2, <1>3 DEF SaveOutcome, Types, RowsOK
  <2>4. RunsOK'
    BY <1>3, RunGoOK DEF SaveOutcome, RunAt
  <2> QED BY <2>3, <2>4, <1>3 DEF SaveOutcome, Types, BullOK, CallsOK, LogsOK, CountersOK
<1>4. CASE AuditOutcome(s)
  <2>1. runs[s].job \in Jobs
    BY <1>4, RunJob DEF AuditOutcome
  <2>2. RunsOK'
    BY <1>4, RunGoOK DEF AuditOutcome, RunAt
  <2>3. LogsOK'
    BY <2>1, <1>4 DEF AuditOutcome, Types, LogsOK
  <2> QED BY <2>2, <2>3, <1>4 DEF AuditOutcome, Types, RowsOK, BullOK, CallsOK, CountersOK
<1>5. CASE Finish(s)
  BY <1>5, ReleaseOK DEF Finish, RunAt, Types, RowsOK, CallsOK, LogsOK, CountersOK
<1>6. CASE RunFails(s)
  <2>1. CASE Release(s, TRUE)
    BY <1>6, <2>1, ReleaseOK DEF RunFails, Types, RowsOK, CallsOK, LogsOK, CountersOK
  <2>2. CASE Catch(s) /\ UNCHANGED bull
    <3>1. RunsOK'
      BY <1>6, <2>2, RunUpdate DEF RunFails, Catch
    <3> QED BY <3>1, <1>6, <2>2 DEF RunFails, Types, RowsOK, BullOK, CallsOK, LogsOK, CountersOK
  <2> QED BY <2>1, <2>2, <1>6 DEF RunFails
<1>7. ASSUME NEW j \in Jobs, Take(s, j) PROVE Types'
  <2>1. bull[j] \in EntryType
    BY DEF Types, BullOK
  <2>2. [bull[j] EXCEPT !.state = "active"] \in EntryType
    BY <2>1 DEF EntryType
  <2>3. BullOK'
    BY <2>2, <1>7 DEF Take, Types, BullOK
  <2>4. [pc |-> "start", job |-> j, outcome |-> "none"] \in RunType
    BY DEF RunType
  <2>5. RunsOK'
    BY <2>4, <1>7 DEF Take, Types, RunsOK
  <2> QED BY <2>3, <2>5, <1>7 DEF Take, Types, RowsOK, CallsOK, LogsOK, CountersOK
<1> QED BY <1>1, <1>2, <1>3, <1>4, <1>5, <1>6, <1>7 DEF RunStep

LEMMA SweepTypes ==
  ASSUME Types, NEW from, NEW ttl, NEW to \in Statuses, SweepStatus(from, ttl, to)
  PROVE  Types'
<1>1. ASSUME NEW j \in Jobs PROVE rows'[j] \in RowType
  BY StatusType DEF SweepStatus, Types, RowsOK
<1>2. RowsOK'
  BY <1>1 DEF SweepStatus, RowsOK
<1> QED BY <1>2 DEF SweepStatus, queueVars, Types, BullOK, CallsOK, RunsOK, LogsOK, CountersOK

LEMMA EnvironmentTypes ==
  ASSUME Types,
         \/ \E j \in Jobs : Stalled(j)
         \/ Crash \/ SweepPending \/ SweepSecond \/ SweepActive \/ Tick
  PROVE  Types'
<1>1. ASSUME NEW j \in Jobs, Stalled(j) PROVE Types'
  <2> DEFINE state == IF bull[j].stalled < MaxStalled THEN "waiting" ELSE "failed"
  <2>1. bull[j] \in EntryType /\ state \in {"waiting", "failed"}
    BY DEF Types, BullOK
  <2>3. bull' = [bull EXCEPT ![j].stalled = @ + 1, ![j].state = state]
    BY <1>1, Zenon DEF Stalled
  <2>6. state \in {"none", "waiting", "active", "completed", "failed"}
    BY Zenon
  <2>7. bull[j].stalled + 1 \in Nat
    BY <2>1 DEF EntryType
  <2> HIDE DEF state
  <2>5. bull' = [bull EXCEPT ![j] = [bull[j] EXCEPT !.stalled = bull[j].stalled + 1, !.state = state]]
    BY <2>3 DEF Types, BullOK
  <2>2. [bull[j] EXCEPT !.stalled = bull[j].stalled + 1, !.state = state] \in EntryType
    BY <2>1, <2>6, <2>7 DEF EntryType
  <2>4. BullOK'
    BY <2>2, <2>5 DEF Types, BullOK
  <2> QED BY <2>4, <1>1 DEF Stalled, queueVars, Types, RowsOK, CallsOK, RunsOK, LogsOK, CountersOK
<1>2. CASE Crash
  <2>1. Idle("done") \in CallType /\ NoRun \in RunType
    BY DEF CallType, Idle, CallPcs, NoRun, RunType
  <2>2. CallsOK'
    BY <2>1, <1>2 DEF Crash, Types, CallsOK, Idle, At
  <2>3. RunsOK'
    BY <2>1, <1>2 DEF Crash, Types, RunsOK, NoRun
  <2>4. CountersOK'
    BY <1>2, TimesAssumption DEF Crash, Types, CountersOK
  <2> QED BY <2>2, <2>3, <2>4, <1>2 DEF Crash, Types, RowsOK, BullOK, LogsOK
<1>3. CASE SweepPending \/ SweepSecond \/ SweepActive
  BY <1>3, SweepTypes DEF SweepPending, SweepSecond, SweepActive, Statuses
<1>4. CASE Tick
  <2>1. CountersOK'
    BY <1>4, TimesAssumption DEF Tick, queueVars, Types, CountersOK
  <2> QED BY <2>1, <1>4 DEF Tick, queueVars, Types, RowsOK, BullOK, CallsOK, RunsOK, LogsOK
<1> QED BY <1>1, <1>2, <1>3, <1>4

\* Every value a variable ever holds has the type of its column, entry or
\* local variable.
THEOREM TypesAlways == Spec => []Types
<1>1. Init => Types
  BY TypesInit
<1>2. Types /\ [Next]_vars => Types'
  <2> SUFFICES ASSUME Types, [Next]_vars PROVE Types'
    OBVIOUS
  <2>1. CASE UNCHANGED vars
    BY <2>1 DEF vars, Types, RowsOK, BullOK, CallsOK, RunsOK, LogsOK, CountersOK
  <2>2. CASE Next
    BY <2>2, RequestTypes, CallStepTypes, CallFailsTypes, WorkerTypes, EnvironmentTypes DEF Next
  <2> QED BY <2>1, <2>2
<1> QED BY <1>1, <1>2, PTL DEF Spec

-----------------------------------------------------------------------------
(* Approvals *)

Distinct(list) == Len(list) <= 2 /\ (Len(list) = 2 => list[1] # list[2])

\* An approval request only ever holds what a pending row held plus one more
\* person, and an unapproved row holds none.
Lists ==
    /\ \A j \in Jobs :
          /\ rows[j].status \in {"absent", "pending_approval"} => rows[j].approvals = <<>>
          /\ rows[j].status = "pending_second_approval" => Len(rows[j].approvals) = 1
          /\ Distinct(rows[j].approvals)
    /\ \A c \in Calls :
          /\ Distinct(calls[c].approvals)
          /\ calls[c].pc = "save_first" => Len(calls[c].approvals) = 1
          /\ calls[c].pc = "save_approved" => calls[c].approvals # <<>>

LEMMA ListsInit == Init => Lists
  BY DEF Init, Lists, NoRow, Idle, Distinct

\* The approvals a request starts with
BeginsWell(c) ==
    /\ Distinct(calls[c].approvals)
    /\ calls[c].pc = "save_first" => Len(calls[c].approvals) = 1
    /\ calls[c].pc = "save_approved" => calls[c].approvals # <<>>

LEMMA RequestLists == ASSUME Types, Lists, NEW c \in Calls, Request(c) PROVE Lists'
<1> USE DEF Lists, BeginsWell
<1> PICK j \in Jobs : \/ CreateInsert(c, j)
                      \/ CancelRead(c, j)
                      \/ CancelRefused(c, j)
                      \/ \E u \in Users : \/ ApproveRefused(c, j, u)
                                          \/ ApproveExpired(c, j, u)
                                          \/ ApproveFirst(c, j, u)
                                          \/ ApproveFinal(c, j, u)
  BY DEF Request
<1>1. ASSUME OnlyCalls, NEW call, calls' = [calls EXCEPT ![c] = call], BeginsWell(c)' PROVE Lists'
  BY <1>1 DEF OnlyCalls, Types, CallsOK
<1>2. Distinct(<<>>) /\ Len(<<>>) = 0
  BY DEF Distinct
<1>3. CASE CreateInsert(c, j)
  <2>1. [NoRow EXCEPT !.status = IF j \in Previewed THEN "pending_approval" ELSE "queued", !.createdAt = now].approvals = <<>>
    BY DEF NoRow
  <2>2. rows'[j].approvals = <<>> /\ rows'[j].status # "pending_second_approval"
    BY <1>3, <2>1 DEF CreateInsert, NoRow, Types, RowsOK
  <2>3. \A i \in Jobs : i # j => rows'[i] = rows[i]
    BY <1>3 DEF CreateInsert, Types, RowsOK
  <2>4. calls'[c].approvals = <<>> /\ calls'[c].pc \in {"preview", "add"}
    BY <1>3 DEF CreateInsert, Begin, Types, CallsOK
  <2>5. \A d \in Calls : d # c => calls'[d] = calls[d]
    BY <1>3 DEF CreateInsert, Begin, Types, CallsOK
  <2> QED BY <2>2, <2>3, <2>4, <2>5, <1>2
<1>4. CASE CancelRead(c, j)
  <2>1. BeginsWell(c)'
    BY <1>4, <1>2 DEF CancelRead, Begin, Types, CallsOK
  <2> QED BY <2>1, <1>1, <1>4 DEF CancelRead, Begin
<1>5. ASSUME OnlyCalls, End(c) PROVE Lists'
  <2>1. BeginsWell(c)'
    BY <1>5, <1>2 DEF End, Idle, Types, CallsOK
  <2> QED BY <2>1, <1>1, <1>5 DEF End
<1>6. ASSUME NEW u \in Users, ApproveExpired(c, j, u) PROVE Lists'
  <2>1. BeginsWell(c)'
    BY <1>6, <1>2 DEF ApproveExpired, Begin, Types, CallsOK
  <2> QED BY <2>1, <1>1, <1>6 DEF ApproveExpired, Begin
<1>7. ASSUME NEW u \in Users PROVE
        /\ rows[j].status = "pending_approval" => Len(Append(rows[j].approvals, u)) = 1
        /\ rows[j].status = "pending_second_approval" =>
             /\ Len(Append(rows[j].approvals, u)) = 2
             /\ Append(rows[j].approvals, u)[1] = rows[j].approvals[1]
             /\ Append(rows[j].approvals, u)[2] = u
  <2> DEFINE list == rows[j].approvals
  <2>1. list \in Seq(Users)
    BY DEF Types, RowsOK, RowType
  <2>2. /\ rows[j].status = "pending_approval" => list = <<>>
        /\ rows[j].status = "pending_second_approval" => Len(list) = 1
    OBVIOUS
  <2> HIDE DEF list
  <2>3. /\ Len(Append(list, u)) = Len(list) + 1
        /\ Len(list) = 1 => Append(list, u)[1] = list[1] /\ Append(list, u)[2] = u
    BY <2>1 DEF Lists
  <2> QED BY <1>2, <2>2, <2>3 DEF list
<1>8. ASSUME NEW u \in Users, ApproveFirst(c, j, u) PROVE Lists'
  <2>1. BeginsWell(c)'
    BY <1>8, <1>7 DEF ApproveFirst, Begin, Types, CallsOK, Distinct
  <2> QED BY <2>1, <1>1, <1>8 DEF ApproveFirst, Begin
<1>9. ASSUME NEW u \in Users, ApproveFinal(c, j, u) PROVE Lists'
  <2> DEFINE list == Append(rows[j].approvals, u)
  <2>1. Distinct(list) /\ list # <<>>
    <3>1. CASE rows[j].status = "pending_approval"
      <4>1. Len(list) = 1
        BY <3>1, <1>7
      <4>2. list # <<>>
        BY <4>1, <1>2
      <4> HIDE DEF list
      <4> QED BY <4>1, <4>2 DEF Distinct
    <3>2. CASE rows[j].status = "pending_second_approval" /\ ~SameApprover(j, u)
      <4>1. rows[j].approvals # <<>>
        BY <3>2, <1>2
      <4> QED BY <3>2, <4>1, <1>2, <1>7 DEF Distinct, SameApprover
    <3> QED BY <1>9, <3>1, <3>2 DEF ApproveFinal
  <2>2. calls'[c].approvals = list /\ calls'[c].pc = "save_approved"
    BY <1>9 DEF ApproveFinal, Begin, Types, CallsOK
  <2>3. BeginsWell(c)'
    BY <2>1, <2>2
  <2> QED BY <2>3, <1>1, <1>9 DEF ApproveFinal, Begin
<1> QED BY <1>3, <1>4, <1>5, <1>6, <1>8, <1>9 DEF CancelRefused, ApproveRefused

\* A step that writes no approvals and leaves the row pending, or closes or
\* runs it, keeps the lists; so does a request that only moves on or ends.
RowsKeepLists ==
    \A j \in Jobs :
       /\ rows'[j].approvals = rows[j].approvals
       /\ rows'[j].status # rows[j].status =>
              rows'[j].status \notin {"absent", "pending_approval", "pending_second_approval"}
CallsKeepLists ==
    \A c \in Calls :
       \/ calls'[c].approvals = <<>> /\ calls'[c].pc \notin {"save_first", "save_approved"}
       \/ /\ calls'[c].approvals = calls[c].approvals
          /\ calls'[c].pc # calls[c].pc => calls'[c].pc \notin {"save_first", "save_approved"}

LEMMA KeepLists == ASSUME Lists, RowsKeepLists, CallsKeepLists PROVE Lists'
  BY DEF Lists, RowsKeepLists, CallsKeepLists, Distinct

LEMMA GoKeeps ==
  ASSUME Types, NEW c \in Calls, NEW pc, pc \notin {"save_first", "save_approved"}, Go(c, pc) \/ End(c)
  PROVE  CallsKeepLists
<1>1. CASE Go(c, pc)
  BY <1>1 DEF Go, CallsKeepLists, Types, CallsOK, CallType
<1>2. CASE End(c)
  BY <1>2 DEF End, Idle, CallsKeepLists, Types, CallsOK
<1> QED BY <1>1, <1>2

LEMMA CallStepLists == ASSUME Types, Lists, NEW c \in Calls, CallStep(c) PROVE Lists'
<1> DEFINE j == calls[c].job
<1>1. CASE SavePreview(c)
  <2>1. PICK second \in PolicyAnswers :
           rows' = [rows EXCEPT ![j].expires = now + PreviewTtl, ![j].second = second]
    BY <1>1 DEF SavePreview
  <2>2. RowsKeepLists
    BY <2>1, <1>1, CallJob DEF SavePreview, RowsKeepLists, Types, RowsOK, RowType
  <2> QED BY <2>2, <1>1, GoKeeps, KeepLists DEF SavePreview
<1>2. CASE AddToBull(c)
  BY <1>2, GoKeeps, KeepLists DEF AddToBull, RowsKeepLists
<1>3. CASE MarkQueued(c)
  BY <1>3, CallJob, GoKeeps, KeepLists DEF MarkQueued, RowsKeepLists, Types, RowsOK, RowType
<1>4. CASE RefreshRead(c)
  BY <1>4, GoKeeps, KeepLists DEF RefreshRead, OnlyCalls, RowsKeepLists
<1>5. CASE SaveFirstApproval(c)
  <2>1. j \in Jobs /\ rows[j] \in RowType
    BY <1>5, CallJob DEF SaveFirstApproval
  <2>2. rows'[j].approvals = calls[c].approvals /\ rows'[j].status = "pending_second_approval"
    BY <1>5, <2>1 DEF SaveFirstApproval, Types, RowsOK, RowType
  <2>3. \A i \in Jobs : i # j => rows'[i] = rows[i]
    BY <1>5 DEF SaveFirstApproval, Types, RowsOK
  <2>4. CallsKeepLists
    BY <1>5, GoKeeps DEF SaveFirstApproval
  <2>5. Len(calls[c].approvals) = 1 /\ Distinct(calls[c].approvals)
    BY <1>5 DEF SaveFirstApproval, At, Lists
  <2> HIDE DEF j
  <2> QED BY <2>1, <2>2, <2>3, <2>4, <2>5 DEF Lists, CallsKeepLists, Distinct
<1>6. CASE FirstApprovalRejected(c)
  BY <1>6, GoKeeps, KeepLists DEF FirstApprovalRejected, OnlyCalls, RowsKeepLists
<1>7. CASE SaveApproved(c)
  <2>1. j \in Jobs /\ rows[j] \in RowType
    BY <1>7, CallJob DEF SaveApproved
  <2>2. rows'[j].approvals = calls[c].approvals /\ rows'[j].status = "queued"
    BY <1>7, <2>1 DEF SaveApproved, Types, RowsOK, RowType
  <2>3. \A i \in Jobs : i # j => rows'[i] = rows[i]
    BY <1>7 DEF SaveApproved, Types, RowsOK
  <2>4. CallsKeepLists
    BY <1>7, GoKeeps DEF SaveApproved
  <2> HIDE DEF j
  <2> QED BY <2>1, <2>2, <2>3, <2>4 DEF Lists, CallsKeepLists, Distinct
<1>8. CASE AuditApproval(c)
  BY <1>8, GoKeeps, KeepLists DEF AuditApproval, RowsKeepLists
<1>9. CASE SaveCancel(c)
  BY <1>9, CallJob, GoKeeps, KeepLists DEF SaveCancel, RowsKeepLists, Types, RowsOK, RowType
<1> QED BY <1>1, <1>2, <1>3, <1>4, <1>5, <1>6, <1>7, <1>8, <1>9 DEF CallStep
LEMMA WorkerLists ==
  ASSUME Types, Lists, NEW s \in Slots,
         RunStep(s) \/ Handle(s) \/ RunFails(s) \/ \E j \in Jobs : Take(s, j)
  PROVE  Lists'
<1>1. CallsKeepLists
  BY DEF RunStep, Start, Handle, SaveOutcome, AuditOutcome, Finish, RunFails, Take, CallsKeepLists
<1>2. CASE Start(s)
  BY <1>1, <1>2, RunJob, KeepLists DEF Start, RowsKeepLists, Types, RowsOK, RowType
<1>3. CASE SaveOutcome(s)
  BY <1>1, <1>3, RunJob, KeepLists DEF SaveOutcome, RowsKeepLists, Types, RowsOK, RowType
<1>4. CASE UNCHANGED rows
  BY <1>1, <1>4, KeepLists DEF RowsKeepLists
<1> QED BY <1>2, <1>3, <1>4 DEF RunStep, Handle, AuditOutcome, Finish, RunFails, Take

LEMMA EnvironmentLists ==
  ASSUME Types, Lists,
         \/ \E j \in Jobs : Stalled(j)
         \/ Crash \/ SweepPending \/ SweepSecond \/ SweepActive \/ Tick
  PROVE  Lists'
<1>1. CASE Crash
  <2>1. CallsKeepLists /\ RowsKeepLists
    BY <1>1 DEF Crash, Idle, CallsKeepLists, RowsKeepLists
  <2> QED BY <2>1, KeepLists
<1>2. CASE (\E j \in Jobs : Stalled(j)) \/ Tick
  <2>1. CallsKeepLists /\ RowsKeepLists
    BY <1>2 DEF Stalled, Tick, CallsKeepLists, RowsKeepLists
  <2> QED BY <2>1, KeepLists
<1>3. ASSUME NEW from, NEW ttl, NEW to \in Terminal, SweepStatus(from, ttl, to) PROVE Lists'
  <2>1. CallsKeepLists
    BY <1>3 DEF SweepStatus, CallsKeepLists
  <2>2. RowsKeepLists
    BY <1>3 DEF SweepStatus, Terminal, RowsKeepLists, Types, RowsOK, RowType
  <2> QED BY <2>1, <2>2, KeepLists
<1> QED BY <1>1, <1>2, <1>3 DEF SweepPending, SweepSecond, SweepActive, Terminal

LEMMA CallFailsLists == ASSUME Types, Lists, NEW c \in Calls, CallFails(c) PROVE Lists'
  BY GoKeeps, KeepLists DEF CallFails, OnlyCalls, RowsKeepLists

LEMMA ListsStep == Types /\ Lists /\ [Next]_vars => Lists'
<1> SUFFICES ASSUME Types, Lists, [Next]_vars PROVE Lists'
  OBVIOUS
<1>1. CASE UNCHANGED vars
  BY <1>1 DEF vars, Lists, Distinct
<1>2. CASE Next
  BY <1>2, RequestLists, CallStepLists, CallFailsLists, WorkerLists, EnvironmentLists DEF Next
<1> QED BY <1>1, <1>2

LEMMA ListsAlways == Spec => []Lists
<1>1. Types /\ Lists /\ [Next]_vars => Lists'
  BY ListsStep
<1> QED BY <1>1, ListsInit, TypesAlways, PTL DEF Spec

\* The type invariant the runs check, for every number of jobs, users,
\* requests and slots.
THEOREM TypeCorrect == Spec => []TypeOK
<1>1. Types /\ Lists => TypeOK
  BY DEF Types, Lists, Distinct, TypeOK, RowsOK, BullOK, CallsOK, RunsOK, LogsOK, CountersOK,
         RowType, EntryType, CallType, RunType, LogType
<1> QED BY <1>1, TypesAlways, ListsAlways, PTL

\* No row ever carries two approvals of one person, however many requests
\* approve at the same time.
THEOREM ApproversDistinct == Spec => []DistinctApprovers
<1>1. Lists => DistinctApprovers
  BY DEF Lists, Distinct, DistinctApprovers
<1> QED BY <1>1, ListsAlways, PTL

-----------------------------------------------------------------------------
(* The worker and its entries *)

\* A slot that is not idle holds the lock of an active entry, alone
Exclusive ==
    /\ \A s \in Slots : runs[s].pc # "idle" => bull[runs[s].job].state = "active"
    /\ \A s, t \in Slots :
          s # t /\ runs[s].pc # "idle" /\ runs[t].pc # "idle" => runs[s].job # runs[t].job

Spent(j) == bull[j].made + bull[j].stalled

\* Every effect has been paid for with an attempt or a stall, except one of
\* the execution under way
Budget ==
    /\ \A j \in Jobs :
          /\ bull[j].state \in {"none", "waiting", "active"} =>
                bull[j].made < Attempts /\ bull[j].stalled <= MaxStalled
          /\ Spent(j) <= Attempts + MaxStalled
          /\ bull[j].state = "active" => effects[j] <= Spent(j) + 1
          /\ bull[j].state # "active" => effects[j] <= Spent(j)
    /\ \A s \in Slots : runs[s].pc \in {"start", "handle"} => effects[runs[s].job] <= Spent(runs[s].job)

WorkInv == Exclusive /\ Budget

LEMMA WorkInit == Init => WorkInv
  BY TimesAssumption DEF Init, WorkInv, Exclusive, Budget, Spent, NoEntry, NoRun

LEMMA WorkUnchanged == ASSUME WorkInv, UNCHANGED <<bull, runs, effects>> PROVE WorkInv'
  BY DEF WorkInv, Exclusive, Budget, Spent

\* An execution that goes on, without an effect and not back before its handler
LEMMA WorkGoesOn ==
  ASSUME Types, WorkInv, UNCHANGED <<bull, effects>>, NEW s \in Slots, runs[s].pc # "idle",
         \A t \in Slots : t # s => runs'[t] = runs[t],
         runs'[s].job = runs[s].job,
         runs'[s].pc \in {"start", "handle"} => runs[s].pc \in {"start", "handle"}
  PROVE  WorkInv'
<1>1. Exclusive'
  BY DEF WorkInv, Exclusive
<1>2. Budget'
  BY DEF WorkInv, Budget, Spent
<1> QED BY <1>1, <1>2 DEF WorkInv

LEMMA EntryAfterFacts ==
  ASSUME NEW entry \in EntryType, NEW thrown \in BOOLEAN, entry.made < Attempts
  PROVE  LET after == EntryAfter(entry, thrown) IN
         /\ after.made = entry.made + 1
         /\ after.stalled = entry.stalled
         /\ after.state \in {"completed", "waiting", "failed"}
         /\ after.state = "waiting" => after.made < Attempts
<1>1. CASE thrown = FALSE
  BY <1>1 DEF EntryAfter, EntryType
<1>2. CASE thrown = TRUE
  BY <1>2 DEF EntryAfter, EntryType
<1> QED BY <1>1, <1>2

\* An entry that leaves the active state pays for its execution
LEMMA WorkPays ==
  ASSUME Types, WorkInv, NEW j \in Jobs, bull[j].state = "active", UNCHANGED effects,
         \A i \in Jobs : i # j => bull'[i] = bull[i],
         bull'[j].made \in Nat, bull'[j].stalled \in Nat,
         bull'[j].made + bull'[j].stalled = Spent(j) + 1,
         bull'[j].state \in {"waiting", "completed", "failed"},
         bull'[j].state = "waiting" => bull'[j].made < Attempts /\ bull'[j].stalled <= MaxStalled,
         \A s \in Slots : runs'[s].pc # "idle" => runs'[s] = runs[s] /\ runs[s].job # j
  PROVE  WorkInv'
<1>0. /\ bull[j].made \in Nat /\ bull[j].stalled \in Nat /\ effects[j] \in Nat
      /\ bull[j].made < Attempts /\ bull[j].stalled <= MaxStalled
      /\ effects[j] <= Spent(j) + 1
      /\ Attempts \in Nat /\ MaxStalled \in Nat
  BY TimesAssumption DEF Types, BullOK, EntryType, CountersOK, WorkInv, Budget
<1>1. Exclusive'
  BY DEF WorkInv, Exclusive, Types, RunsOK
<1>2. ASSUME NEW i \in Jobs PROVE
        /\ bull'[i].state \in {"none", "waiting", "active"} =>
             bull'[i].made < Attempts /\ bull'[i].stalled <= MaxStalled
        /\ bull'[i].made + bull'[i].stalled <= Attempts + MaxStalled
        /\ bull'[i].state = "active" => effects'[i] <= bull'[i].made + bull'[i].stalled + 1
        /\ bull'[i].state # "active" => effects'[i] <= bull'[i].made + bull'[i].stalled
  <2>1. CASE i = j
    BY <2>1, <1>0 DEF Spent
  <2>2. CASE i # j
    BY <2>2 DEF WorkInv, Budget, Spent
  <2> QED BY <2>1, <2>2
<1>3. ASSUME NEW s \in Slots, runs'[s].pc \in {"start", "handle"}
      PROVE effects'[runs'[s].job] <= bull'[runs'[s].job].made + bull'[runs'[s].job].stalled
  <2>1. runs'[s] = runs[s] /\ runs[s].job # j /\ runs[s].job \in Jobs
    BY <1>3 DEF Types, RunsOK
  <2>2. bull'[runs[s].job] = bull[runs[s].job]
    BY <2>1
  <2>3. effects[runs[s].job] <= bull[runs[s].job].made + bull[runs[s].job].stalled
    BY <1>3, <2>1 DEF WorkInv, Budget, Spent
  <2> QED BY <2>1, <2>2, <2>3
<1>4. Budget'
  BY <1>2, <1>3 DEF Budget, Spent
<1> QED BY <1>1, <1>4 DEF WorkInv

LEMMA ReleasePays ==
  ASSUME Types, WorkInv, NEW s \in Slots, runs[s].pc # "idle", NEW thrown \in BOOLEAN,
         Release(s, thrown), UNCHANGED effects
  PROVE  WorkInv'
<1> DEFINE j == runs[s].job
<1>1. j \in Jobs /\ bull[j] \in EntryType /\ bull[j].state = "active"
  BY DEF Types, RunsOK, BullOK, WorkInv, Exclusive
<1>2. bull[j].made < Attempts /\ bull[j].stalled <= MaxStalled
  BY <1>1 DEF WorkInv, Budget
<1>3. bull'[j] = EntryAfter(bull[j], thrown) /\ \A i \in Jobs : i # j => bull'[i] = bull[i]
  BY <1>1 DEF Release, Types, BullOK
<1>4. /\ bull'[j].made = bull[j].made + 1
      /\ bull'[j].stalled = bull[j].stalled
      /\ bull'[j].state \in {"completed", "waiting", "failed"}
      /\ bull'[j].state = "waiting" => bull'[j].made < Attempts
  BY <1>1, <1>2, <1>3, EntryAfterFacts
<1>5. bull[j].made \in Nat /\ bull[j].stalled \in Nat
  BY <1>1 DEF EntryType
<1>6. /\ bull'[j].made \in Nat /\ bull'[j].stalled \in Nat
      /\ bull'[j].made + bull'[j].stalled = Spent(j) + 1
  BY <1>4, <1>5 DEF Spent
<1>7. \A t \in Slots : runs'[t].pc # "idle" => runs'[t] = runs[t] /\ runs[t].job # j
  BY DEF Release, NoRun, Types, RunsOK, WorkInv, Exclusive
<1> HIDE DEF j
<1> QED BY <1>1, <1>2, <1>3, <1>4, <1>6, <1>7, WorkPays

LEMMA WorkStep == Types /\ WorkInv /\ [Next]_vars => WorkInv'
<1> SUFFICES ASSUME Types, WorkInv, [Next]_vars PROVE WorkInv'
  OBVIOUS
<1>1. CASE UNCHANGED vars
  BY <1>1, WorkUnchanged DEF vars
<1>2. ASSUME NEW c \in Calls, Request(c) \/ CallFails(c) PROVE WorkInv'
  BY <1>2, WorkUnchanged DEF Request, CreateInsert, CancelRead, CancelRefused, ApproveRefused,
     ApproveExpired, ApproveFirst, ApproveFinal, CallFails, OnlyCalls, RowAndCall, queueVars
<1>3. ASSUME NEW c \in Calls, CallStep(c), ~AddToBull(c) PROVE WorkInv'
  BY <1>3, WorkUnchanged DEF CallStep, SavePreview, MarkQueued, RefreshRead, SaveFirstApproval,
     FirstApprovalRejected, SaveApproved, AuditApproval, SaveCancel, OnlyCalls, RowAndCall, queueVars
<1>4. ASSUME NEW c \in Calls, AddToBull(c) PROVE WorkInv'
  <2>1. calls[c].job \in Jobs
    BY <1>4, CallJob DEF AddToBull
  <2>2. CASE bull' = bull
    BY <2>2, <1>4, WorkUnchanged DEF AddToBull, queueVars
  <2>3. CASE bull[calls[c].job].state = "none" /\ bull' = [bull EXCEPT ![calls[c].job].state = "waiting"]
    <3>1. /\ bull'[calls[c].job].state = "waiting"
          /\ bull'[calls[c].job].made = bull[calls[c].job].made
          /\ bull'[calls[c].job].stalled = bull[calls[c].job].stalled
          /\ \A i \in Jobs : i # calls[c].job => bull'[i] = bull[i]
      BY <2>1, <2>3 DEF Types, BullOK, EntryType
    <3>2. UNCHANGED <<runs, effects>>
      BY <1>4 DEF AddToBull, queueVars
    <3>3. Exclusive'
      BY <3>1, <3>2, <2>3 DEF WorkInv, Exclusive, Types, RunsOK
    <3>4. Budget'
      BY <3>1, <3>2, <2>3 DEF WorkInv, Budget, Spent, Types, RunsOK
    <3> QED BY <3>3, <3>4 DEF WorkInv
  <2> QED BY <2>2, <2>3, <1>4 DEF AddToBull
<1>5. ASSUME NEW s \in Slots, NEW j \in Jobs, Take(s, j) PROVE WorkInv'
  <2>1. /\ bull[j].state = "waiting"
        /\ bull'[j].state = "active"
        /\ bull'[j].made = bull[j].made
        /\ bull'[j].stalled = bull[j].stalled
        /\ \A i \in Jobs : i # j => bull'[i] = bull[i]
    BY <1>5 DEF Take, Types, BullOK, EntryType
  <2>2. /\ runs'[s].job = j /\ runs'[s].pc = "start" /\ runs[s].pc = "idle"
        /\ \A t \in Slots : t # s => runs'[t] = runs[t]
        /\ UNCHANGED effects
    BY <1>5 DEF Take, RunAt, Types, RunsOK
  <2>3. Exclusive'
    BY <2>1, <2>2 DEF WorkInv, Exclusive, Types, RunsOK
  <2>4. \A i \in Jobs : Spent(i)' = Spent(i)
    BY <2>1 DEF Spent
  <2>5. effects[j] <= Spent(j) /\ effects[j] \in Nat /\ Spent(j) \in Nat
    BY <2>1 DEF WorkInv, Budget, Spent, Types, BullOK, EntryType, CountersOK
  <2>6. Budget'
    BY <2>1, <2>2, <2>4, <2>5 DEF WorkInv, Budget, Types, RunsOK
  <2> QED BY <2>3, <2>6 DEF WorkInv
<1>6. ASSUME NEW s \in Slots, Start(s) \/ SaveOutcome(s) \/ AuditOutcome(s) PROVE WorkInv'
  <2>1. /\ runs[s].pc # "idle" /\ runs'[s].job = runs[s].job
        /\ runs'[s].pc \in {"start", "handle"} => runs[s].pc \in {"start", "handle"}
        /\ \A t \in Slots : t # s => runs'[t] = runs[t]
    BY <1>6 DEF Start, SaveOutcome, AuditOutcome, RunAt, RunGo, Types, RunsOK, RunType
  <2> QED BY <2>1, <1>6, WorkGoesOn DEF Start, SaveOutcome, AuditOutcome
<1>7. ASSUME NEW s \in Slots, Handle(s) PROVE WorkInv'
  <2> DEFINE j == runs[s].job
  <2>1. j \in Jobs /\ runs[s].pc = "handle" /\ bull[j].state = "active"
    BY <1>7, RunJob DEF Handle, RunAt, WorkInv, Exclusive
  <2>2. effects[j] \in Nat /\ Spent(j) \in Nat /\ effects[j] <= Spent(j)
    BY <2>1 DEF Types, CountersOK, BullOK, EntryType, WorkInv, Budget, Spent
  <2>3. /\ runs'[s].job = j /\ runs'[s].pc = "save"
        /\ \A t \in Slots : t # s => runs'[t] = runs[t]
    BY <1>7 DEF Handle, RunAt, Types, RunsOK, RunType
  <2>4. effects'[j] <= Spent(j) + 1 /\ \A i \in Jobs : i # j => effects'[i] = effects[i]
    BY <1>7, <2>1, <2>2 DEF Handle, Types, CountersOK
  <2>5. UNCHANGED bull
    BY <1>7 DEF Handle
  <2>6. \A t \in Slots : t # s /\ runs[t].pc # "idle" => runs[t].job # j
    BY <2>1 DEF WorkInv, Exclusive
  <2> HIDE DEF j
  <2>7. Exclusive'
    BY <2>1, <2>3, <2>5, <2>6 DEF WorkInv, Exclusive
  <2>8. Budget'
    BY <2>1, <2>3, <2>4, <2>5, <2>6 DEF WorkInv, Budget, Spent, Types, RunsOK
  <2> QED BY <2>7, <2>8 DEF WorkInv
<1>8. ASSUME NEW s \in Slots, Finish(s) PROVE WorkInv'
  BY <1>8, ReleasePays DEF Finish, RunAt
<1>9. ASSUME NEW s \in Slots, RunFails(s) PROVE WorkInv'
  <2>1. CASE Release(s, TRUE)
    BY <1>9, <2>1, ReleasePays DEF RunFails
  <2>2. CASE ~RunAt(s, "start") /\ Catch(s) /\ UNCHANGED bull
    <3>1. /\ runs'[s].job = runs[s].job /\ runs'[s].pc = "save"
          /\ \A t \in Slots : t # s => runs'[t] = runs[t]
      BY <2>2 DEF Catch, Types, RunsOK, RunType
    <3> QED BY <3>1, <1>9, <2>2, WorkGoesOn DEF RunFails
  <2> QED BY <1>9, <2>1, <2>2 DEF RunFails
<1>10. ASSUME NEW j \in Jobs, Stalled(j) PROVE WorkInv'
  <2> DEFINE state == IF bull[j].stalled < MaxStalled THEN "waiting" ELSE "failed"
  <2>1. bull[j].state = "active" /\ bull[j] \in EntryType
    BY <1>10 DEF Stalled, Types, BullOK
  <2>2. bull' = [bull EXCEPT ![j].stalled = @ + 1, ![j].state = state]
    BY <1>10 DEF Stalled
  <2>3. state \in {"waiting", "failed"} /\ (state = "waiting" => bull[j].stalled < MaxStalled)
    OBVIOUS
  <2> HIDE DEF state
  <2>4. /\ bull'[j].made = bull[j].made /\ bull'[j].stalled = bull[j].stalled + 1
        /\ bull'[j].state = state
        /\ \A i \in Jobs : i # j => bull'[i] = bull[i]
    BY <2>1, <2>2 DEF Types, BullOK, EntryType
  <2>5. bull[j].made \in Nat /\ bull[j].stalled \in Nat /\ bull[j].made < Attempts
        /\ MaxStalled \in Nat
    BY <2>1, TimesAssumption DEF EntryType, WorkInv, Budget
  <2>6. /\ bull'[j].made \in Nat /\ bull'[j].stalled \in Nat
        /\ bull'[j].made + bull'[j].stalled = Spent(j) + 1
        /\ bull'[j].state = "waiting" => bull'[j].made < Attempts /\ bull'[j].stalled <= MaxStalled
    BY <2>3, <2>4, <2>5 DEF Spent
  <2>7. \A s \in Slots : runs'[s] = runs[s] /\ runs[s].job # j
    BY <1>10 DEF Stalled, queueVars
  <2>8. UNCHANGED effects
    BY <1>10 DEF Stalled, queueVars
  <2> QED BY <2>1, <2>3, <2>4, <2>6, <2>7, <2>8, WorkPays
<1>11. CASE Crash
  <2>1. UNCHANGED <<bull, effects>> /\ \A s \in Slots : runs'[s].pc = "idle"
    BY <1>11 DEF Crash, NoRun
  <2>2. Exclusive'
    BY <2>1 DEF Exclusive
  <2>3. Budget'
    BY <2>1 DEF WorkInv, Budget, Spent
  <2> QED BY <2>2, <2>3 DEF WorkInv
<1>12. CASE SweepPending \/ SweepSecond \/ SweepActive \/ Tick
  BY <1>12, WorkUnchanged DEF SweepPending, SweepSecond, SweepActive, SweepStatus, Tick, queueVars
<1> QED BY <1>1, <1>2, <1>3, <1>4, <1>5, <1>6, <1>7, <1>8, <1>9, <1>10, <1>11, <1>12 DEF Next, RunStep

LEMMA WorkAlways == Spec => []WorkInv
  BY WorkInit, WorkStep, TypesAlways, PTL DEF Spec

\* No job takes effect more often than BullMQ has attempts and forgiven stalls.
THEOREM EffectsBounded == Spec => []EffectsWithinAttempts
<1>1. Types /\ WorkInv => EffectsWithinAttempts
  <2> SUFFICES ASSUME Types, WorkInv, NEW j \in Jobs PROVE effects[j] <= Attempts + MaxStalled
    BY DEF EffectsWithinAttempts
  <2>1. /\ bull[j].made \in Nat /\ bull[j].stalled \in Nat /\ effects[j] \in Nat
        /\ Attempts \in Nat /\ MaxStalled \in Nat
    BY TimesAssumption DEF Types, BullOK, EntryType, CountersOK
  <2> QED BY <2>1 DEF WorkInv, Budget, Spent
<1> QED BY <1>1, TypesAlways, WorkAlways, PTL

-----------------------------------------------------------------------------
(* What reaches the worker *)

\* A request stands where it may stand, given the row of its job
CallFits(c) ==
    calls[c].pc \notin {"idle", "done"} =>
        /\ rows[calls[c].job].status # "absent"
        /\ calls[c].pc \in {"add", "mark"} /\ calls[c].job \in Previewed
              => rows[calls[c].job].approvals # <<>>

\* Behind every BullMQ entry is a row, approved if its type has a preview
Approved ==
    /\ \A j \in Jobs : bull[j].state # "none" =>
          /\ rows[j].status # "absent"
          /\ j \in Previewed => rows[j].approvals # <<>>
    /\ \A c \in Calls : CallFits(c)

LEMMA ApprovedInit == Init => Approved
  BY DEF Init, Approved, CallFits, NoEntry, Idle

\* Rows are never deleted and approvals never taken back ...
RowsGrow ==
    \A j \in Jobs :
       /\ rows[j].status # "absent" => rows'[j].status # "absent"
       /\ rows[j].approvals # <<>> => rows'[j].approvals # <<>>
\* ... entries appear only for a request in queue.add ...
EntriesGrow ==
    \A j \in Jobs : bull'[j].state # "none" =>
        bull[j].state # "none" \/ \E c \in Calls : At(c, "add") /\ calls[c].job = j
\* ... and each request stays, ends or moves to where it fits.
CallsFit == \A c \in Calls : calls'[c] = calls[c] \/ CallFits(c)'

LEMMA ApprovedKept ==
  ASSUME Types, Approved, RowsGrow, EntriesGrow, CallsFit PROVE Approved'
<1>1. ASSUME NEW c \in Calls PROVE CallFits(c)'
  BY DEF Approved, CallFits, RowsGrow, CallsFit, Types, CallsOK
<1>2. ASSUME NEW j \in Jobs, bull'[j].state # "none"
      PROVE rows'[j].status # "absent" /\ (j \in Previewed => rows'[j].approvals # <<>>)
  BY <1>2 DEF Approved, CallFits, RowsGrow, EntriesGrow, At
<1> QED BY <1>1, <1>2 DEF Approved

LEMMA RequestApproved ==
  ASSUME Types, Lists, Approved, NEW c \in Calls, Request(c) PROVE Approved'
<1> PICK j \in Jobs : \/ CreateInsert(c, j)
                      \/ CancelRead(c, j)
                      \/ CancelRefused(c, j)
                      \/ \E u \in Users : \/ ApproveRefused(c, j, u)
                                          \/ ApproveExpired(c, j, u)
                                          \/ ApproveFirst(c, j, u)
                                          \/ ApproveFinal(c, j, u)
  BY DEF Request
<1>1. CASE CreateInsert(c, j)
  <2>1. rows'[j].status # "absent" /\ \A i \in Jobs : i # j => rows'[i] = rows[i]
    BY <1>1 DEF CreateInsert, NoRow, Types, RowsOK
  <2>2. RowsGrow
    BY <2>1, <1>1 DEF CreateInsert, RowsGrow, Lists
  <2>3. calls'[c].job = j /\ calls'[c].pc = IF j \in Previewed THEN "preview" ELSE "add"
    BY <1>1 DEF CreateInsert, Begin, Types, CallsOK
  <2>4. CallsFit
    BY <2>1, <2>3, <1>1 DEF CreateInsert, Begin, CallsFit, CallFits, Types, CallsOK
  <2>5. EntriesGrow
    BY <1>1 DEF CreateInsert, RowAndCall, EntriesGrow
  <2> QED BY <2>2, <2>4, <2>5, ApprovedKept
<1>2. ASSUME OnlyCalls, CallsFit PROVE Approved'
  BY <1>2, ApprovedKept DEF OnlyCalls, RowsGrow, EntriesGrow
<1>3. ASSUME NEW pc, NEW u, NEW list, pc \notin {"add", "mark"}, rows[j].status # "absent",
             Begin(c, pc, j, u, list), OnlyCalls
      PROVE CallsFit
  BY <1>3 DEF Begin, OnlyCalls, CallsFit, CallFits, Types, CallsOK
<1>4. CASE CancelRead(c, j)
  BY <1>4, <1>2, <1>3 DEF CancelRead
<1>5. ASSUME OnlyCalls, End(c) PROVE CallsFit
  BY <1>5 DEF End, Idle, OnlyCalls, CallsFit, CallFits, Types, CallsOK
<1>6. ASSUME NEW u \in Users,
             ApproveExpired(c, j, u) \/ ApproveFirst(c, j, u) \/ ApproveFinal(c, j, u)
      PROVE Approved'
  BY <1>6, <1>2, <1>3 DEF ApproveExpired, ApproveFirst, ApproveFinal
<1> QED BY <1>1, <1>2, <1>4, <1>5, <1>6 DEF CancelRefused, ApproveRefused

\* What a request's own steps do to the other rows, entries and requests
LEMMA CallStepApproved ==
  ASSUME Types, Lists, Approved, NEW c \in Calls, CallStep(c) \/ CallFails(c) PROVE Approved'
<1> DEFINE j == calls[c].job
<1>1. /\ calls[c].pc \notin {"idle", "done"}
      /\ j \in Jobs
      /\ rows[j].status # "absent"
  <2>1. calls[c].pc \notin {"idle", "done"}
    BY DEF CallStep, CallFails, SavePreview, AddToBull, MarkQueued, RefreshRead, SaveFirstApproval,
           FirstApprovalRejected, SaveApproved, AuditApproval, SaveCancel, At
  <2> QED BY <2>1 DEF Types, CallsOK, Approved, CallFits
<1>2. ASSUME End(c) PROVE CallsFit
  BY <1>2 DEF End, Idle, CallsFit, CallFits, Types, CallsOK
<1>3. ASSUME NEW pc, Go(c, pc), rows'[j].status # "absent",
             pc \in {"add", "mark"} /\ j \in Previewed => rows'[j].approvals # <<>>
      PROVE CallsFit
  BY <1>3 DEF Go, CallsFit, CallFits, Types, CallsOK, CallType
<1>4. CASE SavePreview(c)
  <2>1. PICK second \in PolicyAnswers :
           rows' = [rows EXCEPT ![j].expires = now + PreviewTtl, ![j].second = second]
    BY <1>4 DEF SavePreview
  <2>2. RowsGrow
    BY <2>1 DEF RowsGrow, Types, RowsOK, RowType
  <2> QED BY <2>2, <1>4, <1>2, ApprovedKept DEF SavePreview, RowAndCall, EntriesGrow
<1>5. CASE AddToBull(c)
  <2>1. CallsFit
    BY <1>1, <1>3, <1>5 DEF AddToBull, Approved, CallFits, At
  <2>2. EntriesGrow
    BY <1>1, <1>5 DEF AddToBull, EntriesGrow, Types, BullOK, EntryType
  <2> QED BY <2>1, <2>2, <1>5, ApprovedKept DEF AddToBull, RowsGrow
<1>6. CASE MarkQueued(c)
  <2>1. RowsGrow /\ rows'[j].status # "absent"
    BY <1>1, <1>6 DEF MarkQueued, RowsGrow, Types, RowsOK, RowType
  <2>2. CallsFit
    BY <2>1, <1>2, <1>3, <1>6 DEF MarkQueued
  <2> QED BY <2>1, <2>2, <1>6, ApprovedKept DEF MarkQueued, RowAndCall, EntriesGrow
<1>7. ASSUME OnlyCalls, CallsFit PROVE Approved'
  BY <1>7, ApprovedKept DEF OnlyCalls, RowsGrow, EntriesGrow
<1>8. CASE RefreshRead(c)
  <2>1. CallsFit
    BY <1>1, <1>2, <1>3, <1>8 DEF RefreshRead, OnlyCalls
  <2> QED BY <2>1, <1>7, <1>8 DEF RefreshRead
<1>9. CASE SaveFirstApproval(c)
  <2>1. calls[c].approvals # <<>>
    <3>1. Len(calls[c].approvals) = 1 /\ Len(<<>>) = 0
      BY <1>9 DEF SaveFirstApproval, At, Lists
    <3> QED BY <3>1
  <2>2. rows'[j].approvals = calls[c].approvals /\ rows'[j].status = "pending_second_approval"
    BY <1>1, <1>9 DEF SaveFirstApproval, Types, RowsOK, RowType
  <2>3. \A i \in Jobs : i # j => rows'[i] = rows[i]
    BY <1>9 DEF SaveFirstApproval, Types, RowsOK
  <2>4. RowsGrow
    BY <2>1, <2>2, <2>3 DEF RowsGrow
  <2>5. CallsFit
    BY <2>2, <1>3, <1>9 DEF SaveFirstApproval
  <2> QED BY <2>4, <2>5, <1>9, ApprovedKept DEF SaveFirstApproval, RowAndCall, EntriesGrow
<1>10. CASE SaveApproved(c)
  <2>1. calls[c].approvals # <<>>
    BY <1>10 DEF SaveApproved, At, Lists
  <2>2. rows'[j].approvals = calls[c].approvals /\ rows'[j].status = "queued"
    BY <1>1, <1>10 DEF SaveApproved, Types, RowsOK, RowType
  <2>3. \A i \in Jobs : i # j => rows'[i] = rows[i]
    BY <1>10 DEF SaveApproved, Types, RowsOK
  <2>4. RowsGrow
    BY <2>1, <2>2, <2>3 DEF RowsGrow
  <2>5. CallsFit
    BY <2>1, <2>2, <1>3, <1>10 DEF SaveApproved
  <2> QED BY <2>4, <2>5, <1>10, ApprovedKept DEF SaveApproved, RowAndCall, EntriesGrow
<1>11. CASE AuditApproval(c)
  BY <1>2, <1>11, ApprovedKept DEF AuditApproval, RowsGrow, EntriesGrow
<1>12. CASE SaveCancel(c)
  <2>1. RowsGrow
    BY <1>1, <1>12 DEF SaveCancel, RowsGrow, Types, RowsOK, RowType
  <2> QED BY <2>1, <1>2, <1>12, ApprovedKept DEF SaveCancel, RowAndCall, EntriesGrow
<1> QED BY <1>2, <1>4, <1>5, <1>6, <1>7, <1>8, <1>9, <1>10, <1>11, <1>12
        DEF CallStep, CallFails, FirstApprovalRejected

LEMMA WorkerApproved ==
  ASSUME Types, WorkInv, Approved, NEW s \in Slots,
         RunStep(s) \/ Handle(s) \/ RunFails(s) \/ \E j \in Jobs : Take(s, j)
  PROVE  Approved'
<1>1. CallsFit
  BY DEF RunStep, Start, Handle, SaveOutcome, AuditOutcome, Finish, RunFails, Take, CallsFit
<1>2. RowsGrow
  <2>1. CASE Start(s)
    BY <2>1, RunJob DEF Start, RowsGrow, Types, RowsOK, RowType
  <2>2. CASE SaveOutcome(s)
    BY <2>2, RunJob DEF SaveOutcome, RowsGrow, Types, RowsOK, RowType
  <2>3. CASE UNCHANGED rows
    BY <2>3 DEF RowsGrow
  <2> QED BY <2>1, <2>2, <2>3 DEF RunStep, Handle, AuditOutcome, Finish, RunFails, Take
<1>3. EntriesGrow
  <2>1. CASE UNCHANGED bull
    BY <2>1 DEF EntriesGrow
  <2>2. ASSUME NEW thrown \in BOOLEAN, Release(s, thrown), runs[s].pc # "idle" PROVE EntriesGrow
    <3>1. bull[runs[s].job].state = "active"
      BY <2>2 DEF WorkInv, Exclusive
    <3>2. \A j \in Jobs : j # runs[s].job => bull'[j] = bull[j]
      BY <2>2 DEF Release, Types, BullOK
    <3> QED BY <3>1, <3>2 DEF EntriesGrow
  <2>3. ASSUME NEW j \in Jobs, Take(s, j) PROVE EntriesGrow
    <3>1. bull[j].state = "waiting" /\ \A i \in Jobs : i # j => bull'[i] = bull[i]
      BY <2>3 DEF Take, Types, BullOK
    <3> QED BY <3>1 DEF EntriesGrow
  <2>4. Start(s) \/ SaveOutcome(s) \/ AuditOutcome(s) \/ Handle(s) => UNCHANGED bull
    BY DEF Start, SaveOutcome, AuditOutcome, Handle
  <2>5. Finish(s) => EntriesGrow
    BY <2>2 DEF Finish, RunAt
  <2>6. RunFails(s) => EntriesGrow
    BY <2>1, <2>2 DEF RunFails
  <2> QED BY <2>1, <2>3, <2>4, <2>5, <2>6 DEF RunStep
<1> QED BY <1>1, <1>2, <1>3, ApprovedKept

LEMMA EnvironmentApproved ==
  ASSUME Types, Approved,
         \/ \E j \in Jobs : Stalled(j)
         \/ Crash \/ SweepPending \/ SweepSecond \/ SweepActive \/ Tick
         \/ UNCHANGED vars
  PROVE  Approved'
<1>1. CallsFit
  <2>1. CASE Crash
    BY <2>1 DEF Crash, CallsFit, CallFits, Idle
  <2>2. CASE UNCHANGED calls
    BY <2>2 DEF CallsFit
  <2> QED BY <2>1, <2>2 DEF Stalled, SweepPending, SweepSecond, SweepActive, SweepStatus, Tick, vars
<1>2. RowsGrow
  <2>1. ASSUME NEW from, NEW ttl, NEW to, to # "absent", SweepStatus(from, ttl, to) PROVE RowsGrow
    BY <2>1 DEF SweepStatus, RowsGrow, Types, RowsOK, RowType
  <2>2. CASE UNCHANGED rows
    BY <2>2 DEF RowsGrow
  <2> QED BY <2>1, <2>2 DEF Stalled, Crash, SweepPending, SweepSecond, SweepActive, Tick, vars
<1>3. EntriesGrow
  <2>1. ASSUME NEW j \in Jobs, Stalled(j) PROVE EntriesGrow
    <3>1. bull[j].state = "active" /\ \A i \in Jobs : i # j => bull'[i] = bull[i]
      BY <2>1 DEF Stalled, Types, BullOK
    <3> QED BY <3>1 DEF EntriesGrow
  <2>2. CASE UNCHANGED bull
    BY <2>2 DEF EntriesGrow
  <2> QED BY <2>1, <2>2 DEF Crash, SweepPending, SweepSecond, SweepActive, SweepStatus, Tick, vars
<1> QED BY <1>1, <1>2, <1>3, ApprovedKept

LEMMA ApprovedStep == Types /\ Lists /\ WorkInv /\ Approved /\ [Next]_vars => Approved'
  BY RequestApproved, CallStepApproved, WorkerApproved, EnvironmentApproved DEF Next

LEMMA ApprovedAlways == Spec => []Approved
  BY ApprovedInit, ApprovedStep, TypesAlways, ListsAlways, WorkAlways, PTL DEF Spec

\* approveJob: no job whose type needs a preview reaches the worker without an
\* approval in its row, for any number of jobs, requests, slots and crashes.
THEOREM ApprovalPrecedesRun == Spec => []ApprovedBeforeRun
<1>1. Approved => ApprovedBeforeRun
  BY SetsAssumption DEF Approved, ApprovedBeforeRun
<1> QED BY <1>1, ApprovedAlways, PTL

-----------------------------------------------------------------------------
(* The queue implements the gate *)

Stage(entry) == CASE entry.state = "none" -> "open"
                  [] entry.state \in {"waiting", "active"} -> "accepted"
                  [] OTHER -> "closed"
Given(j) == rows[j].approvals # <<>>

GateStep == [Gate!Next]_(Gate!gateVars)

\* The five ways a step of the queue may look to the gate
LEMMA GateStutters ==
  ASSUME \A j \in Jobs : Given(j)' <=> Given(j),
         \A j \in Jobs : Stage(bull'[j]) = Stage(bull[j]),
         UNCHANGED effects
  PROVE  GateStep
<1>1. {j \in Jobs : rows[j].approvals # <<>>}' = {j \in Jobs : rows[j].approvals # <<>>}
  BY DEF Given
<1>2. [j \in Jobs |-> Stage(bull[j])]' = [j \in Jobs |-> Stage(bull[j])]
  OBVIOUS
<1> QED BY <1>1, <1>2 DEF GateStep, Gate!gateVars, Stage

LEMMA GateApproves ==
  ASSUME NEW j \in Jobs, Given(j)',
         \A i \in Jobs : i # j => (Given(i)' <=> Given(i)),
         UNCHANGED <<bull, effects>>
  PROVE  GateStep
<1>1. CASE Given(j)
  <2>1. \A i \in Jobs : Given(i)' <=> Given(i)
    BY <1>1
  <2> QED BY <2>1, GateStutters
<1>2. CASE ~Given(j)
  <2>1. /\ j \notin {i \in Jobs : rows[i].approvals # <<>>}
        /\ {i \in Jobs : rows[i].approvals # <<>>}' = {i \in Jobs : rows[i].approvals # <<>>} \cup {j}
    BY <1>2 DEF Given
  <2>2. Gate!Approve(j)
    BY <2>1 DEF Gate!Approve
  <2> QED BY <2>2 DEF GateStep, Gate!Next
<1> QED BY <1>1, <1>2

LEMMA GateAccepts ==
  ASSUME NEW j \in Jobs, bull \in [Jobs -> EntryType], bull[j].state = "none", j \in Previewed => Given(j),
         bull' \in [Jobs -> EntryType], bull'[j].state = "waiting",
         \A i \in Jobs : i # j => bull'[i] = bull[i],
         UNCHANGED <<rows, effects>>
  PROVE  GateStep
<1>1. /\ Stage(bull[j]) = "open" /\ Stage(bull'[j]) = "accepted"
      /\ \A i \in Jobs : i # j => Stage(bull'[i]) = Stage(bull[i])
  BY DEF Stage
<1>2. /\ [i \in Jobs |-> Stage(bull[i])]' = [[i \in Jobs |-> Stage(bull[i])] EXCEPT ![j] = "accepted"]
      /\ [i \in Jobs |-> Stage(bull[i])][j] = "open"
  BY <1>1
<1>3. Gate!Accept(j)
  BY <1>2 DEF Gate!Accept, Stage, Given
<1> QED BY <1>3 DEF GateStep, Gate!Next

LEMMA GateUses ==
  ASSUME NEW j \in Jobs, effects \in [Jobs -> Nat], bull[j].state = "active",
         effects[j] < Attempts + MaxStalled,
         effects' = [effects EXCEPT ![j] = @ + 1],
         UNCHANGED <<rows, bull>>
  PROVE  GateStep
<1>1. [i \in Jobs |-> Stage(bull[i])][j] = "accepted"
  BY DEF Stage
<1>2. Gate!Use(j)
  BY <1>1 DEF Gate!Use, Stage
<1> QED BY <1>2 DEF GateStep, Gate!Next

\* An entry that leaves the active state is closed, or waits for a retry
LEMMA GateCloses ==
  ASSUME NEW j \in Jobs, bull \in [Jobs -> EntryType], bull' \in [Jobs -> EntryType],
         bull[j].state = "active", bull'[j].state \in {"waiting", "completed", "failed"},
         \A i \in Jobs : i # j => bull'[i] = bull[i],
         UNCHANGED <<rows, effects>>
  PROVE  GateStep
<1>1. CASE bull'[j].state = "waiting"
  <2>1. \A i \in Jobs : Stage(bull'[i]) = Stage(bull[i])
    BY <1>1 DEF Stage
  <2> QED BY <2>1, GateStutters DEF Given
<1>2. CASE bull'[j].state # "waiting"
  <2>1. /\ Stage(bull[j]) = "accepted" /\ Stage(bull'[j]) = "closed"
        /\ \A i \in Jobs : i # j => Stage(bull'[i]) = Stage(bull[i])
    BY <1>2 DEF Stage
  <2>2. /\ [i \in Jobs |-> Stage(bull[i])]' = [[i \in Jobs |-> Stage(bull[i])] EXCEPT ![j] = "closed"]
        /\ [i \in Jobs |-> Stage(bull[i])][j] = "accepted"
    BY <2>1
  <2>3. Gate!Close(j)
    BY <2>2 DEF Gate!Close, Stage
  <2> QED BY <2>3 DEF GateStep, Gate!Next
<1> QED BY <1>1, <1>2

LEMMA RequestGate == ASSUME Types, Lists, NEW c \in Calls, Request(c) PROVE GateStep
<1> PICK j \in Jobs : \/ CreateInsert(c, j)
                      \/ CancelRead(c, j)
                      \/ CancelRefused(c, j)
                      \/ \E u \in Users : \/ ApproveRefused(c, j, u)
                                          \/ ApproveExpired(c, j, u)
                                          \/ ApproveFirst(c, j, u)
                                          \/ ApproveFinal(c, j, u)
  BY DEF Request
<1>1. CASE CreateInsert(c, j)
  <2>1. rows'[j].approvals = rows[j].approvals /\ \A i \in Jobs : i # j => rows'[i] = rows[i]
    BY <1>1 DEF CreateInsert, NoRow, Types, RowsOK, Lists
  <2>2. UNCHANGED <<bull, effects>>
    BY <1>1 DEF CreateInsert, RowAndCall, queueVars
  <2> QED BY <2>1, <2>2, GateStutters DEF Given
<1>2. CASE OnlyCalls
  BY <1>2, GateStutters DEF OnlyCalls, queueVars, Given
<1> QED BY <1>1, <1>2 DEF CancelRead, CancelRefused, ApproveRefused, ApproveExpired, ApproveFirst, ApproveFinal

LEMMA CallStepGate ==
  ASSUME Types, Types', Lists, Approved, NEW c \in Calls, CallStep(c) \/ CallFails(c) PROVE GateStep
<1> DEFINE j == calls[c].job
<1>0. j \in Jobs
  <2>1. calls[c].pc \notin {"idle", "done"}
    BY DEF CallStep, CallFails, SavePreview, AddToBull, MarkQueued, RefreshRead, SaveFirstApproval,
           FirstApprovalRejected, SaveApproved, AuditApproval, SaveCancel, At
  <2> QED BY <2>1 DEF Types, CallsOK
<1>1. ASSUME \A i \in Jobs : rows'[i].approvals = rows[i].approvals, UNCHANGED <<bull, effects>>
      PROVE GateStep
  BY <1>1, GateStutters DEF Given
<1>2. CASE OnlyCalls
  BY <1>2, <1>1 DEF OnlyCalls, queueVars
<1>3. CASE SavePreview(c) \/ MarkQueued(c) \/ SaveCancel(c)
  <2>1. \A i \in Jobs : rows'[i].approvals = rows[i].approvals
    <3>1. CASE SavePreview(c)
      BY <3>1 DEF SavePreview, Types, RowsOK, RowType
    <3>2. CASE MarkQueued(c)
      BY <3>2 DEF MarkQueued, Types, RowsOK, RowType
    <3>3. CASE SaveCancel(c)
      BY <3>3 DEF SaveCancel, Types, RowsOK, RowType
    <3> QED BY <1>3, <3>1, <3>2, <3>3
  <2> QED BY <2>1, <1>1, <1>3 DEF SavePreview, MarkQueued, SaveCancel, RowAndCall, queueVars
<1>4. CASE AddToBull(c)
  <2>1. UNCHANGED <<rows, effects>> /\ bull \in [Jobs -> EntryType] /\ bull' \in [Jobs -> EntryType]
    BY <1>4 DEF AddToBull, queueVars, Types, BullOK
  <2>2. CASE UNCHANGED bull
    BY <2>1, <2>2, <1>1
  <2>3. CASE bull[j].state = "none" /\ bull' = [bull EXCEPT ![j].state = "waiting"]
    <3>1. bull'[j].state = "waiting" /\ \A i \in Jobs : i # j => bull'[i] = bull[i]
      BY <1>0, <2>1, <2>3 DEF EntryType
    <3>2. j \in Previewed => Given(j)
      BY <1>4 DEF AddToBull, At, Approved, CallFits, Given
    <3> QED BY <1>0, <2>1, <2>3, <3>1, <3>2, GateAccepts
  <2> QED BY <1>4, <2>2, <2>3 DEF AddToBull
<1>5. CASE SaveFirstApproval(c) \/ SaveApproved(c)
  <2>1. calls[c].approvals # <<>>
    <3>1. CASE SaveFirstApproval(c)
      <4>1. Len(calls[c].approvals) = 1 /\ Len(<<>>) = 0
        BY <3>1 DEF SaveFirstApproval, At, Lists
      <4> QED BY <4>1
    <3>2. CASE SaveApproved(c)
      BY <3>2 DEF SaveApproved, At, Lists
    <3> QED BY <1>5, <3>1, <3>2
  <2>2. rows'[j].approvals = calls[c].approvals /\ \A i \in Jobs : i # j => rows'[i] = rows[i]
    <3>1. j \in Jobs /\ rows \in [Jobs -> RowType]
      BY <1>0 DEF Types, RowsOK
    <3>2. CASE SaveFirstApproval(c)
      BY <3>1, <3>2 DEF SaveFirstApproval, RowType
    <3>3. CASE SaveApproved(c)
      BY <3>1, <3>3 DEF SaveApproved, RowType
    <3> QED BY <1>5, <3>2, <3>3
  <2>3. UNCHANGED <<bull, effects>>
    BY <1>5 DEF SaveFirstApproval, SaveApproved, RowAndCall, queueVars
  <2> QED BY <1>0, <2>1, <2>2, <2>3, GateApproves DEF Given
<1>6. CASE AuditApproval(c)
  BY <1>6, <1>1 DEF AuditApproval, queueVars
<1> QED BY <1>2, <1>3, <1>4, <1>5, <1>6
        DEF CallStep, CallFails, RefreshRead, FirstApprovalRejected

LEMMA WorkerGate ==
  ASSUME Types, Types', WorkInv, NEW s \in Slots,
         RunStep(s) \/ Handle(s) \/ RunFails(s) \/ \E j \in Jobs : Take(s, j)
  PROVE  GateStep
<1>0. bull \in [Jobs -> EntryType] /\ bull' \in [Jobs -> EntryType]
  BY DEF Types, BullOK
<1>1. ASSUME \A i \in Jobs : rows'[i].approvals = rows[i].approvals, UNCHANGED <<bull, effects>>
      PROVE GateStep
  BY <1>1, GateStutters DEF Given
<1>2. CASE Start(s) \/ SaveOutcome(s)
  <2>1. \A i \in Jobs : rows'[i].approvals = rows[i].approvals
    <3>1. CASE Start(s)
      BY <3>1 DEF Start, Types, RowsOK, RowType
    <3>2. CASE SaveOutcome(s)
      BY <3>2 DEF SaveOutcome, Types, RowsOK, RowType
    <3> QED BY <1>2, <3>1, <3>2
  <2> QED BY <2>1, <1>1, <1>2 DEF Start, SaveOutcome
<1>3. CASE AuditOutcome(s)
  BY <1>3, <1>1 DEF AuditOutcome
<1>4. CASE Handle(s)
  <2> DEFINE j == runs[s].job
  <2>1. j \in Jobs /\ runs[s].pc = "handle" /\ bull[j].state = "active"
    BY <1>4, RunJob DEF Handle, RunAt, WorkInv, Exclusive
  <2>2. /\ bull[j].made \in Nat /\ bull[j].stalled \in Nat /\ effects[j] \in Nat
        /\ Attempts \in Nat /\ MaxStalled \in Nat
    BY <2>1, TimesAssumption DEF Types, CountersOK, BullOK, EntryType
  <2>3. effects[j] < Attempts + MaxStalled
    BY <2>1, <2>2 DEF WorkInv, Budget, Spent
  <2>4. CASE UNCHANGED effects
    BY <2>4, <1>1, <1>4 DEF Handle
  <2>5. CASE effects' = [effects EXCEPT ![j] = @ + 1]
    BY <2>1, <2>3, <2>5, <1>4, GateUses DEF Handle, Types, CountersOK
  <2> QED BY <1>4, <2>4, <2>5 DEF Handle
<1>5. ASSUME NEW thrown \in BOOLEAN, Release(s, thrown), runs[s].pc # "idle",
             UNCHANGED <<rows, effects>>
      PROVE GateStep
  <2> DEFINE j == runs[s].job
  <2>1. j \in Jobs /\ bull[j].state = "active" /\ bull[j].made < Attempts
    BY <1>5 DEF Types, RunsOK, WorkInv, Exclusive, Budget
  <2>2. bull'[j] = EntryAfter(bull[j], thrown) /\ \A i \in Jobs : i # j => bull'[i] = bull[i]
    BY <1>0, <1>5, <2>1 DEF Release
  <2>3. bull'[j].state \in {"waiting", "completed", "failed"}
    BY <1>0, <2>1, <2>2, EntryAfterFacts
  <2> QED BY <1>0, <1>5, <2>1, <2>2, <2>3, GateCloses
<1>6. CASE Finish(s)
  BY <1>6, <1>5 DEF Finish, RunAt
<1>7. CASE RunFails(s)
  BY <1>7, <1>1, <1>5 DEF RunFails
<1>8. ASSUME NEW j \in Jobs, Take(s, j) PROVE GateStep
  <2>1. /\ bull[j].state = "waiting" /\ bull'[j].state = "active"
        /\ \A i \in Jobs : i # j => bull'[i] = bull[i]
    BY <1>8 DEF Take, Types, BullOK, EntryType
  <2>2. \A i \in Jobs : Stage(bull'[i]) = Stage(bull[i])
    BY <2>1 DEF Stage
  <2> QED BY <2>2, <1>8, GateStutters DEF Take, Given
<1> QED BY <1>2, <1>3, <1>4, <1>6, <1>7, <1>8 DEF RunStep

LEMMA EnvironmentGate ==
  ASSUME Types, Types',
         \/ \E j \in Jobs : Stalled(j)
         \/ Crash \/ SweepPending \/ SweepSecond \/ SweepActive \/ Tick
         \/ UNCHANGED vars
  PROVE  GateStep
<1>1. ASSUME \A i \in Jobs : rows'[i].approvals = rows[i].approvals, UNCHANGED <<bull, effects>>
      PROVE GateStep
  BY <1>1, GateStutters DEF Given
<1>2. ASSUME NEW j \in Jobs, Stalled(j) PROVE GateStep
  <2>1. /\ bull[j].state = "active" /\ bull'[j].state \in {"waiting", "failed"}
        /\ \A i \in Jobs : i # j => bull'[i] = bull[i]
    BY <1>2 DEF Stalled, Types, BullOK, EntryType
  <2> QED BY <2>1, <1>2, GateCloses DEF Stalled, queueVars, Types, BullOK
<1>3. ASSUME NEW from, NEW ttl, NEW to, SweepStatus(from, ttl, to) PROVE GateStep
  <2>1. \A i \in Jobs : rows'[i].approvals = rows[i].approvals
    BY <1>3 DEF SweepStatus, Types, RowsOK, RowType
  <2> QED BY <2>1, <1>1, <1>3 DEF SweepStatus, queueVars
<1>4. CASE Crash \/ Tick \/ UNCHANGED vars
  BY <1>4, <1>1 DEF Crash, Tick, vars, queueVars
<1> QED BY <1>2, <1>3, <1>4 DEF SweepPending, SweepSecond, SweepActive

LEMMA GateInit == Init => Gate!Init
  BY DEF Init, Gate!Init, NoRow, NoEntry

\* JobGate: approved before accepted, accepted once, never reopened, a bounded
\* number of effects while accepted; every step of requests, worker, sweep,
\* stall check and crash is a step of the gate or invisible to it.
THEOREM QueueKeepsGate == Spec => GateKept
<1>1. Types /\ Types' /\ Lists /\ WorkInv /\ Approved /\ [Next]_vars => [Gate!Next]_(Gate!gateVars)
  BY RequestGate, CallStepGate, WorkerGate, EnvironmentGate DEF Next, GateStep
<1> QED BY <1>1, GateInit, TypesAlways, ListsAlways, WorkAlways, ApprovedAlways, PTL
        DEF Spec, GateKept, Gate!GateSpec

-----------------------------------------------------------------------------
(* A closed job that BullMQ has never seen stays closed *)

Writing == {"add", "mark", "save_first", "save_approved"}

LEMMA SettledKept ==
  ASSUME NEW j \in Jobs, Settled(j),
         rows'[j].status \in Terminal,
         bull'[j].state = "none",
         \A c \in Calls : calls'[c] = calls[c] \/ calls'[c].pc \notin Writing \/ calls'[c].job # j
  PROVE  Settled(j)'
  BY DEF Settled, Writing, Terminal

LEMMA SettledCallStep ==
  ASSUME Types, NEW j \in Jobs, Settled(j), NEW c \in Calls, Request(c) \/ CallStep(c) \/ CallFails(c)
  PROVE  Settled(j)'
<1>1. ASSUME NEW d \in Calls, d # c PROVE calls'[d] = calls[d]
  BY <1>1 DEF Request, CallStep, CallFails, CreateInsert, CancelRead, CancelRefused, ApproveRefused,
     ApproveExpired, ApproveFirst, ApproveFinal, SavePreview, AddToBull, MarkQueued, RefreshRead,
     SaveFirstApproval, FirstApprovalRejected, SaveApproved, AuditApproval, SaveCancel, Begin, Go, End,
     Types, CallsOK
<1>2. /\ rows[j].status \in Terminal
      /\ bull[j].state = "none"
      /\ calls[c].job = j => calls[c].pc \notin Writing
  BY DEF Settled, Writing
<1>3. CASE Request(c)
  <2>1. PICK i \in Jobs : \/ CreateInsert(c, i)
                          \/ CancelRead(c, i)
                          \/ CancelRefused(c, i)
                          \/ \E u \in Users : \/ ApproveRefused(c, i, u)
                                              \/ ApproveExpired(c, i, u)
                                              \/ ApproveFirst(c, i, u)
                                              \/ ApproveFinal(c, i, u)
    BY <1>3 DEF Request
  <2>2. CASE CreateInsert(c, i)
    <3>1. i # j /\ rows'[j] = rows[j] /\ UNCHANGED bull
      BY <1>2, <2>2 DEF CreateInsert, RowAndCall, Terminal, Types, RowsOK
    <3>2. calls'[c].job = i
      BY <2>2 DEF CreateInsert, Begin, Types, CallsOK
    <3> QED BY <1>1, <1>2, <3>1, <3>2, SettledKept
  <2>3. CASE CancelRead(c, i)
    <3>1. calls'[c].pc = "save_cancel"
      BY <2>3 DEF CancelRead, Begin, Types, CallsOK
    <3> QED BY <1>1, <1>2, <2>3, <3>1, SettledKept DEF CancelRead, OnlyCalls, Writing
  <2>4. ASSUME OnlyCalls, End(c) PROVE Settled(j)'
    <3>1. calls'[c].pc = "done"
      BY <2>4 DEF End, Idle, Types, CallsOK
    <3> QED BY <1>1, <1>2, <2>4, <3>1, SettledKept DEF OnlyCalls, Writing
  <2>5. ASSUME NEW u \in Users,
               ApproveExpired(c, i, u) \/ ApproveFirst(c, i, u) \/ ApproveFinal(c, i, u)
        PROVE Settled(j)'
    <3>1. i # j /\ OnlyCalls
      BY <1>2, <2>5 DEF ApproveExpired, ApproveFirst, ApproveFinal, Terminal
    <3>2. calls'[c].job = i
      BY <2>5 DEF ApproveExpired, ApproveFirst, ApproveFinal, Begin, Types, CallsOK
    <3> QED BY <1>1, <1>2, <3>1, <3>2, SettledKept DEF OnlyCalls
  <2> QED BY <2>1, <2>2, <2>3, <2>4, <2>5 DEF CancelRefused, ApproveRefused
<1>4. ASSUME calls'[c].pc \notin Writing, UNCHANGED <<rows, bull>> PROVE Settled(j)'
  BY <1>1, <1>2, <1>4, SettledKept
<1>5. CASE RefreshRead(c) \/ FirstApprovalRejected(c) \/ AuditApproval(c) \/ CallFails(c)
  <2>1. calls'[c].pc \in {"preview", "done"}
    BY <1>5 DEF RefreshRead, FirstApprovalRejected, AuditApproval, CallFails, Go, End, Idle, Types, CallsOK, CallType
  <2>2. UNCHANGED <<rows, bull>>
    BY <1>5 DEF RefreshRead, FirstApprovalRejected, AuditApproval, CallFails, OnlyCalls
  <2> QED BY <2>1, <2>2, <1>4 DEF Writing
<1>6. CASE SavePreview(c) \/ SaveCancel(c)
  <2>1. calls'[c].pc = "done"
    BY <1>6 DEF SavePreview, SaveCancel, End, Idle, Types, CallsOK
  <2>2. rows'[j].status \in Terminal
    <3>1. CASE SavePreview(c)
      BY <1>2, <3>1 DEF SavePreview, Types, RowsOK, RowType
    <3>2. CASE SaveCancel(c)
      BY <1>2, <3>2 DEF SaveCancel, Types, RowsOK, RowType, Terminal
    <3> QED BY <1>6, <3>1, <3>2
  <2>3. UNCHANGED bull
    BY <1>6 DEF SavePreview, SaveCancel, RowAndCall
  <2> QED BY <1>1, <1>2, <2>1, <2>2, <2>3, SettledKept DEF Writing
<1>7. CASE AddToBull(c) \/ MarkQueued(c) \/ SaveFirstApproval(c) \/ SaveApproved(c)
  <2>1. calls[c].pc \in Writing
    BY <1>7 DEF AddToBull, MarkQueued, SaveFirstApproval, SaveApproved, At, Writing
  <2>2. calls[c].job # j /\ calls'[c].job # j
    <3>1. calls[c].job # j
      BY <1>2, <2>1
    <3>2. calls'[c].job = calls[c].job \/ calls'[c].job = None
      BY <1>7 DEF AddToBull, MarkQueued, SaveFirstApproval, SaveApproved, Go, End, Idle, Types, CallsOK, CallType
    <3> QED BY <3>1, <3>2, SetsAssumption
  <2>3. rows'[j] = rows[j] /\ bull'[j] = bull[j]
    <3>1. CASE AddToBull(c)
      BY <2>2, <3>1 DEF AddToBull, Types, BullOK
    <3>2. CASE MarkQueued(c)
      BY <2>2, <3>2 DEF MarkQueued, RowAndCall, Types, RowsOK
    <3>3. CASE SaveFirstApproval(c)
      BY <2>2, <3>3 DEF SaveFirstApproval, RowAndCall, Types, RowsOK
    <3>4. CASE SaveApproved(c)
      BY <2>2, <3>4 DEF SaveApproved, RowAndCall, Types, RowsOK
    <3> QED BY <1>7, <3>1, <3>2, <3>3, <3>4
  <2> QED BY <1>1, <1>2, <2>2, <2>3, SettledKept
<1> QED BY <1>3, <1>5, <1>6, <1>7 DEF CallStep

LEMMA SettledWorkerStep ==
  ASSUME Types, WorkInv, NEW j \in Jobs, Settled(j), NEW s \in Slots,
         RunStep(s) \/ Handle(s) \/ RunFails(s) \/ \E i \in Jobs : Take(s, i)
  PROVE  Settled(j)'
<1>1. rows[j].status \in Terminal /\ bull[j].state = "none" /\ UNCHANGED calls
  BY DEF Settled, RunStep, Start, Handle, SaveOutcome, AuditOutcome, Finish, RunFails, Take
<1>2. ASSUME rows'[j] = rows[j], bull'[j] = bull[j] PROVE Settled(j)'
  BY <1>1, <1>2, SettledKept
<1>3. CASE runs[s].pc = "idle"
  <2>1. PICK i \in Jobs : Take(s, i)
    BY <1>3 DEF RunStep, Start, Handle, SaveOutcome, AuditOutcome, Finish, RunFails, RunAt
  <2> QED BY <2>1, <1>1, <1>2 DEF Take, Types, BullOK
<1>4. CASE runs[s].pc # "idle"
  <2>1. runs[s].job # j /\ runs[s].job \in Jobs
    BY <1>1, <1>4 DEF WorkInv, Exclusive, Types, RunsOK
  <2>2. rows'[j] = rows[j]
    <3>1. CASE Start(s)
      BY <2>1, <3>1 DEF Start, Types, RowsOK
    <3>2. CASE SaveOutcome(s)
      BY <2>1, <3>2 DEF SaveOutcome, Types, RowsOK
    <3> QED BY <3>1, <3>2 DEF RunStep, AuditOutcome, Finish, Handle, RunFails, Take
  <2>3. bull'[j] = bull[j]
    BY <1>4, <2>1 DEF RunStep, Start, Handle, SaveOutcome, AuditOutcome, Finish, RunFails, Take,
       Release, RunAt, Types, BullOK
  <2> QED BY <1>2, <2>2, <2>3
<1> QED BY <1>3, <1>4

LEMMA SettledOtherStep ==
  ASSUME Types, NEW j \in Jobs, Settled(j),
         \/ \E i \in Jobs : Stalled(i)
         \/ Crash \/ SweepPending \/ SweepSecond \/ SweepActive \/ Tick
  PROVE  Settled(j)'
<1>1. rows[j].status \in Terminal /\ bull[j].state = "none"
  BY DEF Settled
<1>2. ASSUME NEW i \in Jobs, Stalled(i) PROVE Settled(j)'
  <2>1. i # j /\ bull'[j] = bull[j]
    BY <1>1, <1>2 DEF Stalled, Types, BullOK
  <2> QED BY <1>1, <1>2, <2>1, SettledKept DEF Stalled
<1>3. CASE Crash
  <2>1. \A c \in Calls : calls'[c] = calls[c] \/ calls'[c].pc = "done"
    BY <1>3 DEF Crash, Idle
  <2> QED BY <1>1, <1>3, <2>1, SettledKept DEF Crash, Writing
<1>4. ASSUME NEW from, NEW ttl, NEW to \in Terminal, SweepStatus(from, ttl, to) PROVE Settled(j)'
  <2>1. rows'[j].status \in Terminal
    BY <1>1, <1>4 DEF SweepStatus, Types, RowsOK, RowType
  <2> QED BY <1>1, <1>4, <2>1, SettledKept DEF SweepStatus
<1>5. CASE Tick
  BY <1>1, <1>5, SettledKept DEF Tick
<1> QED BY <1>2, <1>3, <1>4, <1>5 DEF SweepPending, SweepSecond, SweepActive, Terminal

\* cancelJob and the sweep: once a job is closed, BullMQ has never seen it and
\* no approval of it is under way, no request, refresh, sweep or worker revives it.
THEOREM SettledForever == Spec => SettledStays
<1>1. Types /\ WorkInv /\ [Next]_vars => [\A j \in Jobs : Settled(j) => Settled(j)']_vars
  <2> SUFFICES ASSUME Types, WorkInv, Next, NEW j \in Jobs, Settled(j) PROVE Settled(j)'
    OBVIOUS
  <2> QED BY SettledCallStep, SettledWorkerStep, SettledOtherStep DEF Next
<1> QED BY <1>1, TypesAlways, WorkAlways, PTL DEF Spec, SettledStays

-----------------------------------------------------------------------------
(* The audit entry of an execution *)

\* An execution that is about to tell BullMQ has its audit entry
Audited ==
    /\ \A j \in Jobs : bull[j].state = "completed" => outcomeLog[j] # {}
    /\ \A s \in Slots : runs[s].pc = "finish" => outcomeLog[runs[s].job] # {}

LEMMA AuditedKept ==
  ASSUME Types, Audited, \A j \in Jobs : outcomeLog[j] \subseteq outcomeLog'[j],
         \A j \in Jobs : bull'[j].state = "completed" => bull[j].state = "completed" \/ outcomeLog[j] # {},
         \A s \in Slots : runs'[s].pc = "finish" =>
            (runs[s].pc = "finish" /\ runs'[s] = runs[s]) \/ outcomeLog'[runs'[s].job] # {}
  PROVE  Audited'
<1>1. ASSUME NEW j \in Jobs, outcomeLog[j] # {} PROVE outcomeLog'[j] # {}
  BY <1>1
<1>2. \A s \in Slots : runs[s].pc = "finish" => runs[s].job \in Jobs
  BY DEF Types, RunsOK
<1> QED BY <1>1, <1>2 DEF Audited

LEMMA WorkerAudits ==
  ASSUME Types, Audited, NEW s \in Slots, RunStep(s) \/ Handle(s) \/ RunFails(s) \/ \E j \in Jobs : Take(s, j)
  PROVE  Audited'
<1>1. runs \in [Slots -> RunType] /\ bull \in [Jobs -> EntryType] /\ outcomeLog \in [Jobs -> SUBSET {"success", "failure"}]
  BY DEF Types, RunsOK, BullOK, LogsOK
<1>2. ASSUME NEW thrown \in BOOLEAN, Release(s, thrown), thrown \/ outcomeLog[runs[s].job] # {}, UNCHANGED outcomeLog
      PROVE  Audited'
  <2>1. EntryAfter(bull[runs[s].job], TRUE).state # "completed"
    BY <1>1 DEF EntryAfter, EntryType, Release
  <2>2. \A j \in Jobs : bull'[j].state = "completed" => bull[j].state = "completed" \/ outcomeLog[j] # {}
    BY <1>1, <1>2, <2>1 DEF Release
  <2>3. \A t \in Slots : runs'[t].pc = "finish" => runs[t].pc = "finish" /\ runs'[t] = runs[t]
    BY <1>1, <1>2 DEF Release, NoRun
  <2> QED BY <1>2, <2>2, <2>3, AuditedKept
<1>3. CASE RunFails(s)
  <2>1. CASE Release(s, TRUE)
    BY <1>2, <1>3, <2>1 DEF RunFails
  <2>2. CASE Catch(s) /\ UNCHANGED bull
    <3>1. \A t \in Slots : runs'[t].pc = "finish" => runs[t].pc = "finish" /\ runs'[t] = runs[t]
      BY <1>1, <2>2 DEF Catch, RunType
    <3> QED BY <1>3, <2>2, <3>1, AuditedKept DEF RunFails
  <2> QED BY <1>3, <2>1, <2>2 DEF RunFails
<1>4. CASE Finish(s)
  <2>1. outcomeLog[runs[s].job] # {}
    BY <1>4 DEF Finish, RunAt, Audited
  <2>2. PICK thrown \in BOOLEAN : Release(s, thrown)
    BY <1>4 DEF Finish
  <2> QED BY <1>2, <1>4, <2>1, <2>2 DEF Finish
<1>5. CASE AuditOutcome(s)
  <2>1. runs[s].job \in Jobs
    BY <1>5, RunJob DEF AuditOutcome
  <2>2. outcomeLog'[runs[s].job] # {} /\ \A j \in Jobs : outcomeLog[j] \subseteq outcomeLog'[j]
    BY <1>1, <1>5, <2>1 DEF AuditOutcome
  <2>3. runs'[s].job = runs[s].job /\ \A t \in Slots : t # s => runs'[t] = runs[t]
    BY <1>1, <1>5 DEF AuditOutcome, RunGo, RunType
  <2> QED BY <1>5, <2>2, <2>3, AuditedKept DEF AuditOutcome
<1>6. CASE Start(s) \/ Handle(s) \/ SaveOutcome(s)
  <2>1. \A t \in Slots : runs'[t].pc = "finish" => runs[t].pc = "finish" /\ runs'[t] = runs[t]
    BY <1>1, <1>6 DEF Start, Handle, SaveOutcome, RunGo, RunType
  <2> QED BY <1>6, <2>1, AuditedKept DEF Start, Handle, SaveOutcome
<1>7. ASSUME NEW j \in Jobs, Take(s, j) PROVE Audited'
  <2>1. \A t \in Slots : runs'[t].pc = "finish" => runs[t].pc = "finish" /\ runs'[t] = runs[t]
    BY <1>1, <1>7 DEF Take, RunType
  <2>2. \A i \in Jobs : bull'[i].state = "completed" => bull[i].state = "completed"
    BY <1>1, <1>7 DEF Take, EntryType
  <2> QED BY <1>7, <2>1, <2>2, AuditedKept DEF Take
<1> QED BY <1>3, <1>4, <1>5, <1>6, <1>7 DEF RunStep

LEMMA AuditedStep == Types /\ Audited /\ [Next]_vars => Audited'
<1> SUFFICES ASSUME Types, Audited, [Next]_vars PROVE Audited'
  OBVIOUS
<1>1. bull \in [Jobs -> EntryType]
  BY DEF Types, BullOK
<1>2. CASE UNCHANGED <<runs, outcomeLog>> /\ \A j \in Jobs : bull'[j].state = "completed" => bull[j].state = "completed"
  BY <1>2, AuditedKept
<1>3. ASSUME NEW c \in Calls, Request(c) \/ CallStep(c) \/ CallFails(c) PROVE Audited'
  <2>1. UNCHANGED bull \/ AddToBull(c)
    BY <1>3 DEF Request, CreateInsert, CancelRead, CancelRefused, ApproveRefused, ApproveExpired, ApproveFirst,
       ApproveFinal, CallFails, CallStep, SavePreview, MarkQueued, RefreshRead, SaveFirstApproval,
       FirstApprovalRejected, SaveApproved, AuditApproval, SaveCancel, OnlyCalls, RowAndCall, queueVars
  <2>2. UNCHANGED <<runs, outcomeLog>>
    BY <1>3 DEF Request, CreateInsert, CancelRead, CancelRefused, ApproveRefused, ApproveExpired, ApproveFirst,
       ApproveFinal, CallFails, CallStep, AddToBull, SavePreview, MarkQueued, RefreshRead, SaveFirstApproval,
       FirstApprovalRejected, SaveApproved, AuditApproval, SaveCancel, OnlyCalls, RowAndCall, queueVars
  <2>3. \A j \in Jobs : bull'[j].state = "completed" => bull[j].state = "completed"
    BY <1>1, <2>1 DEF AddToBull, EntryType
  <2> QED BY <1>2, <2>2, <2>3
<1>4. ASSUME NEW j \in Jobs, Stalled(j) PROVE Audited'
  <2>1. \A i \in Jobs : bull'[i].state = "completed" => bull[i].state = "completed"
    BY <1>1, <1>4 DEF Stalled, EntryType
  <2> QED BY <1>2, <1>4, <2>1 DEF Stalled, queueVars
<1>5. CASE Crash
  BY <1>5, AuditedKept DEF Crash, NoRun
<1>6. CASE SweepPending \/ SweepSecond \/ SweepActive \/ Tick \/ UNCHANGED vars
  BY <1>2, <1>6 DEF SweepPending, SweepSecond, SweepActive, SweepStatus, Tick, vars, queueVars
<1> QED BY <1>3, <1>4, <1>5, <1>6, WorkerAudits DEF Next

\* The audit entry of an execution is written before BullMQ learns its result: whatever fails or crashes
\* on the way, a job that BullMQ counts as completed has one.
THEOREM CompletionAudited == Spec => []CompletedIsAudited
<1>1. Init => Audited
  BY DEF Init, Audited, NoEntry, NoRun
<1>2. Types /\ Audited /\ [Next]_vars => Audited'
  BY AuditedStep
<1>3. Audited => CompletedIsAudited
  BY DEF Audited, CompletedIsAudited
<1> QED BY <1>1, <1>2, <1>3, TypesAlways, PTL DEF Spec
=============================================================================
