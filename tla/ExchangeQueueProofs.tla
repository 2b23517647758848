------------------------- MODULE ExchangeQueueProofs -------------------------
(***************************************************************************)
(* Proofs about the Exchange queue.  "Types" is the shape of the state,    *)
(* "Own" ties every row to the one worker that was given it, "Once" to the *)
(* one time it is carried out, "Earned" a success to an effect, "Informed" *)
(* what a job knows of its row to the row and "Counted" rows to runs.      *)
(***************************************************************************)
EXTENDS ExchangeQueueProps, FiniteSetTheorems, TLAPS

JobType == [pc : {"waiting", "enqueue", "wait", "ended", "orphan"}, collect : BOOLEAN, runs : 0..2,
            row : Rows \cup {None},
            result : Closed \cup {None, "invalid", "enqueue_failed", "timeout", "stalled", "thrown"}]
RowType == [status : Held \cup Closed \cup {"absent", "queued"}, job : Jobs \cup {None},
            worker : Workers \cup {None}, silent : BOOLEAN]

\* A worker has a row while it works, and a success only to report
Working == {"domain", "log", "exec", "report", "facts", "close"}
Reporting == {"report", "facts", "close"}
WorkerShape == [pc : Working \cup {"idle", "claim"}, row : Rows \cup {None}, ok : BOOLEAN]
WorkerType == {x \in WorkerShape : (x.pc \in Working <=> x.row \in Rows) /\ (x.ok => x.pc \in Reporting)}

JobsOK == jobs \in [Jobs -> JobType]
RowsOK == rows \in [Rows -> RowType]
WorkersOK == workers \in [Workers -> WorkerType]
RestOK == facts \in Rows \cup {None} /\ effects \in [Rows -> Nat] /\ faults \in Nat

Types == JobsOK /\ RowsOK /\ WorkersOK /\ RestOK

LEMMA RowIds == Rows \subseteq Nat /\ IsFiniteSet(Rows) /\ None \notin Rows
<1>1. Cardinality(Jobs) \in Nat
  BY ExchangeAssumption, FS_CardinalityType
<1>2. 2 * Cardinality(Jobs) \in Nat
  BY <1>1
<1>3. IsFiniteSet(Rows)
  BY <1>2, FS_Interval DEF Rows
<1>4. Rows \subseteq Nat
  BY <1>2 DEF Rows
<1> QED BY <1>3, <1>4, ExchangeAssumption

\* A job's result is that of a row, or says that it has none
Runs == \A j \in Jobs :
    /\ jobs[j].pc = "waiting" => jobs[j].runs < 2
    /\ jobs[j].pc \in {"enqueue", "wait", "orphan"} => jobs[j].runs >= 1
    /\ jobs[j].result # None => jobs[j].pc = "ended"

\* Only a row that was claimed has a worker, and keeps it; no row is given to a second one
Own ==
    /\ \A i \in Rows : (rows[i].worker = None <=> rows[i].status \in {"absent", "queued"})
                       /\ (rows[i].job = None <=> rows[i].status = "absent")
    /\ \A w \in Workers : workers[w].pc \in Working => rows[workers[w].row].worker = w
    /\ \A w \in Workers : workers[w].pc = "domain" =>
          rows[workers[w].row].status = "claimed" /\ ~rows[workers[w].row].silent

Once ==
    /\ \A i \in Rows : effects[i] <= 1 /\ (rows[i].worker = None => effects[i] = 0)
    /\ \A w \in Workers : workers[w].pc \in {"domain", "log", "exec"} => effects[workers[w].row] = 0

Collects(i) == jobs[rows[i].job].collect
Earned ==
    /\ \A i \in Rows : rows[i].status = "succeeded" => effects[i] = 1 /\ (Collects(i) => facts # None)
    /\ \A w \in Workers : workers[w].ok =>
          effects[workers[w].row] = 1 /\ (workers[w].pc = "close" /\ Collects(workers[w].row) => facts # None)

\* A row a job waits for is not silent, and one that is closed without having been silent is in nobody's hands
Informed ==
    /\ \A j \in Jobs : jobs[j].pc = "wait" =>
          jobs[j].row \in Rows /\ rows[jobs[j].row].job = j /\ ~rows[jobs[j].row].silent
    /\ \A i \in Rows : rows[i].status \in Closed /\ ~rows[i].silent => \A w \in Workers : workers[w].row # i
    /\ \A j \in Jobs : jobs[j].result \in Closed =>
          /\ jobs[j].row \in Rows /\ rows[jobs[j].row].job = j /\ rows[jobs[j].row].status = jobs[j].result
          /\ \A w \in Workers : workers[w].row # jobs[j].row

\* Every run of a handler inserts at most one row
RowsOf(j) == {i \in Rows : rows[i].job = j}
Counted == \A j \in Jobs : Cardinality(RowsOf(j)) <= jobs[j].runs - IF jobs[j].pc = "enqueue" THEN 1 ELSE 0

Inv == Types /\ Runs /\ Own /\ Once /\ Earned /\ Informed /\ Counted

-----------------------------------------------------------------------------
(* The initial states *)

LEMMA InvInit == Init => Inv
<1> SUFFICES ASSUME Init PROVE Inv
  OBVIOUS
<1> USE ExchangeAssumption, RowIds DEF Init
<1>1. PICK c \in [Jobs -> BOOLEAN] : jobs = [j \in Jobs |-> NewJob(c[j])]
  OBVIOUS
<1>2. JobsOK
  <2>1. \A j \in Jobs : NewJob(c[j]) \in JobType
    BY DEF NewJob, JobType
  <2> QED BY <1>1, <2>1 DEF JobsOK
<1>3. NoRow \in RowType /\ IdleWorker \in WorkerType
  BY DEF NoRow, RowType, IdleWorker, WorkerType, WorkerShape, Working, Reporting
<1>4. RowsOK /\ WorkersOK /\ RestOK
  BY <1>3 DEF RowsOK, WorkersOK, RestOK
<1>5. Runs
  BY <1>1 DEF NewJob, Runs
<1>6. Own /\ Once
  BY DEF Own, Once, NoRow, IdleWorker, Working
<1>7. Earned
  BY DEF Earned, NoRow, IdleWorker
<1>8. Informed
  BY <1>1 DEF Informed, NewJob, NoRow, IdleWorker, Closed
<1>9. Counted
  <2>1. \A j \in Jobs : RowsOf(j) = {}
    BY DEF RowsOf, NoRow
  <2> QED BY <1>1, <2>1, FS_EmptySet DEF Counted, NewJob
<1> QED BY <1>2, <1>4, <1>5, <1>6, <1>7, <1>8, <1>9 DEF Inv, Types

-----------------------------------------------------------------------------
(* What the state says of one worker *)

LEMMA TypeOfWorker ==
  ASSUME Inv, NEW w \in Workers
  PROVE  /\ workers[w] \in WorkerType /\ workers[w] \in WorkerShape
         /\ workers[w].pc \in Working <=> workers[w].row \in Rows
         /\ workers[w].ok => workers[w].pc \in Reporting
  BY DEF Inv, Types, WorkersOK, WorkerType

LEMMA InHand ==
  ASSUME Inv, NEW w \in Workers, workers[w].pc \in Working
  PROVE  /\ workers[w].row \in Rows /\ rows[workers[w].row] \in RowType
         /\ rows[workers[w].row].worker = w /\ rows[workers[w].row].job \in Jobs
         /\ rows[workers[w].row].status \in Held \cup Closed
         /\ \A x \in Workers : x # w => workers[x].row # workers[w].row
<1>1. workers[w].row \in Rows /\ rows[workers[w].row] \in RowType /\ rows[workers[w].row].worker = w
  BY DEF Inv, Types, WorkersOK, WorkerType, Own, RowsOK
<1>2. rows[workers[w].row].status \notin {"absent", "queued"} /\ rows[workers[w].row].job # None
  BY <1>1, ExchangeAssumption DEF Inv, Own
<1>3. \A x \in Workers : workers[x].row \in Rows => rows[workers[x].row].worker = x
  BY DEF Inv, Own, Types, WorkersOK, WorkerType
<1> QED BY <1>1, <1>2, <1>3 DEF RowType

-----------------------------------------------------------------------------
(* Steps of the handler that leave the rows alone *)

\* The number of rows of a job is that of its runs only as long as no row changes its job
LEMMA SameRows ==
  ASSUME \A i \in Rows : rows'[i].job = rows[i].job PROVE \A j \in Jobs : RowsOf(j)' = RowsOf(j)
  BY DEF RowsOf

LEMMA RowCount == ASSUME NEW j \in Jobs PROVE IsFiniteSet(RowsOf(j)) /\ Cardinality(RowsOf(j)) \in Nat
  BY RowIds, FS_Subset, FS_CardinalityType DEF RowsOf

\* A handler's step that leads to "r" and does not begin to wait
Harmless(j, r) ==
    /\ r.collect = jobs[j].collect /\ r.pc # "wait"
    /\ r.pc = "waiting" => r.runs < 2
    /\ r.pc \in {"enqueue", "wait", "orphan"} => r.runs >= 1
    /\ r.result # None => r.pc = "ended"
    /\ r.runs - (IF r.pc = "enqueue" THEN 1 ELSE 0) >= jobs[j].runs - (IF jobs[j].pc = "enqueue" THEN 1 ELSE 0)
    /\ r.result \in Closed =>
          r.row \in Rows /\ rows[r.row].job = j /\ rows[r.row].status = r.result /\ \A w \in Workers : workers[w].row # r.row

LEMMA JobStep ==
  ASSUME Inv, NEW j \in Jobs, NEW r \in JobType, Harmless(j, r), jobs' = [jobs EXCEPT ![j] = r],
         UNCHANGED <<rows, facts, workers, effects>>, faults' \in Nat
  PROVE  Inv'
<1>1. jobs'[j] = r /\ \A x \in Jobs : x # j => jobs'[x] = jobs[x]
  BY DEF Inv, Types, JobsOK
<1>2. Types'
  BY DEF Inv, Types, JobsOK, RowsOK, WorkersOK, RestOK
<1>3. Runs'
  BY <1>1 DEF Inv, Runs, Harmless
<1>4. Own' /\ Once'
  BY DEF Inv, Own, Once
<1>5. \A x \in Jobs : jobs'[x].collect = jobs[x].collect
  BY <1>1 DEF Harmless
<1>6. Earned'
  <2>1. \A i \in Rows : rows[i].status = "succeeded" => rows[i].job \in Jobs
    BY DEF Inv, Own, Types, RowsOK, RowType
  <2>2. \A w \in Workers : workers[w].ok => rows[workers[w].row].job \in Jobs
    BY InHand, TypeOfWorker DEF Inv, Reporting, Working
  <2>3. UNCHANGED <<rows, workers, effects, facts>>
    OBVIOUS
  <2>4. \A i \in Rows : rows[i].job \in Jobs => (Collects(i)' <=> Collects(i))
    BY <1>5, <2>3 DEF Collects
  <2>5. Earned /\ \A w \in Workers : workers[w].ok => workers[w].row \in Rows
    BY DEF Inv, Types, WorkersOK, WorkerType, Working, Reporting
  <2> HIDE DEF Collects
  <2> QED BY <2>1, <2>2, <2>3, <2>4, <2>5 DEF Earned
<1>7. Informed'
  BY <1>1 DEF Inv, Informed, Harmless
<1>8. Counted'
  <2>1. \A x \in Jobs : RowsOf(x)' = RowsOf(x)
    BY SameRows
  <2>2. \A x \in Jobs : jobs[x].runs \in 0..2 /\ Cardinality(RowsOf(x)) \in Nat
    BY RowCount DEF Inv, Types, JobsOK, JobType
  <2>3. r.runs \in 0..2
    BY DEF JobType
  <2> QED BY <1>1, <2>1, <2>2, <2>3 DEF Inv, Counted, Harmless
<1> QED BY <1>2, <1>3, <1>4, <1>6, <1>7, <1>8 DEF Inv

LEMMA ReturnIs ==
  ASSUME JobsOK, NEW j \in Jobs, NEW res, Return(j, res)
  PROVE  jobs' = [jobs EXCEPT ![j] = [jobs[j] EXCEPT !.pc = "ended", !.result = res]]
  BY DEF Return, JobsOK

LEMMA HandlerKeeps ==
  ASSUME Inv, NEW j \in Jobs, Run(j) \/ Invalid(j) \/ Told(j) \/ GiveUp(j) \/ WaitThrows(j) \/ Stalled(j)
  PROVE  Inv'
<1> DEFINE ended(res) == [jobs[j] EXCEPT !.pc = "ended", !.result = res]
<1>0. jobs[j] \in JobType /\ JobsOK /\ faults \in Nat
  BY DEF Inv, Types, JobsOK, RestOK
<1>1. CASE Run(j)
  <2> DEFINE r == [jobs[j] EXCEPT !.pc = "enqueue", !.runs = @ + 1, !.row = None]
  <2>1. jobs[j].pc = "waiting" /\ jobs[j].runs < 2 /\ jobs[j].result = None
    BY <1>1 DEF Run, Inv, Runs
  <2>2. jobs[j].runs + 1 \in 0..2
    BY <1>0, <2>1 DEF JobType
  <2>3. r \in JobType
    BY <1>0, <2>2 DEF JobType
  <2>4. Harmless(j, r)
    BY <1>0, <2>1, ExchangeAssumption DEF Harmless, JobType, Closed
  <2>5. jobs' = [jobs EXCEPT ![j] = r]
    BY <1>0, <1>1 DEF Run, JobsOK
  <2> QED BY <1>0, <1>1, <2>3, <2>4, <2>5, JobStep DEF Run
<1>2. ASSUME NEW res \in {"invalid", "timeout", "stalled", "thrown"}
      PROVE  ended(res) \in JobType /\ Harmless(j, ended(res))
  <2>1. ended(res) \in JobType
    BY <1>0 DEF JobType
  <2>2. Harmless(j, ended(res))
    BY <1>0 DEF Harmless, JobType, Closed
  <2> QED BY <2>1, <2>2
<1>3. CASE Invalid(j) \/ GiveUp(j) \/ WaitThrows(j)
  <2>1. PICK res \in {"invalid", "timeout", "thrown"} : Return(j, res)
    BY <1>3 DEF Invalid, GiveUp, WaitThrows
  <2>2. faults' \in Nat /\ UNCHANGED <<rows, facts, workers, effects>>
    BY <1>0, <1>3 DEF Invalid, GiveUp, WaitThrows, Fault
  <2>3. jobs' = [jobs EXCEPT ![j] = ended(res)] /\ ended(res) \in JobType /\ Harmless(j, ended(res))
    BY <1>0, <1>2, <2>1, ReturnIs
  <2> HIDE DEF ended
  <2> QED BY <2>2, <2>3, JobStep
<1>4. CASE Told(j)
  <2> DEFINE res == rows[jobs[j].row].status
  <2>1. res \in Closed /\ jobs[j].row \in Rows /\ rows[jobs[j].row].job = j
        /\ \A w \in Workers : workers[w].row # jobs[j].row
    BY <1>4 DEF Told, Inv, Informed
  <2>2. ended(res) \in JobType
    BY <1>0, <2>1 DEF JobType
  <2>3. Harmless(j, ended(res))
    BY <1>0, <2>1 DEF Harmless, JobType
  <2> QED BY <1>0, <1>4, <2>2, <2>3, ReturnIs, JobStep DEF Told
<1>5. CASE Stalled(j)
  <2>1. CASE jobs[j].runs = 1
    <3> DEFINE r == [jobs[j] EXCEPT !.pc = "waiting"]
    <3>1. jobs[j].pc = "orphan" /\ jobs[j].result = None
      BY <1>5 DEF Stalled, Inv, Runs
    <3>2. r \in JobType
      BY <1>0 DEF JobType
    <3>3. Harmless(j, r)
      BY <1>0, <2>1, <3>1, ExchangeAssumption DEF Harmless, JobType, Closed
    <3>4. jobs' = [jobs EXCEPT ![j] = r]
      BY <1>0, <1>5, <2>1 DEF Stalled, JobsOK
    <3> QED BY <1>0, <1>5, <3>2, <3>3, <3>4, JobStep DEF Stalled
  <2>2. CASE jobs[j].runs # 1
    <3>1. Return(j, "stalled") /\ UNCHANGED <<rows, facts, workers, effects, faults>>
      BY <1>5, <2>2 DEF Stalled
    <3> QED BY <1>0, <1>2, <3>1, ReturnIs, JobStep
  <2> QED BY <2>1, <2>2
<1> QED BY <1>1, <1>3, <1>4, <1>5

-----------------------------------------------------------------------------
(* A row is inserted *)

LEMMA InsertStep ==
  ASSUME Inv, NEW j \in Jobs, NEW i \in Rows, Insert(j, i), jobs[j].pc = "enqueue",
         NEW r \in JobType, jobs' = [jobs EXCEPT ![j] = r],
         r.collect = jobs[j].collect, r.runs = jobs[j].runs,
         \/ r.pc = "wait" /\ r.row = i /\ r.result = None
         \/ r.pc = "ended" /\ r.result = "enqueue_failed",
         UNCHANGED <<facts, workers, effects>>, faults' \in Nat
  PROVE  Inv'
<1> DEFINE q == [NoRow EXCEPT !.status = "queued", !.job = j]
<1>1. jobs'[j] = r /\ \A x \in Jobs : x # j => jobs'[x] = jobs[x]
  BY DEF Inv, Types, JobsOK
<1>2. rows[i].status = "absent" /\ rows[i].job = None /\ rows[i].worker = None
  BY DEF Insert, First, Inv, Own
<1>3. rows' = [rows EXCEPT ![i] = q] /\ q \in RowType
  BY DEF Insert, NoRow, RowType
<1>4. /\ rows'[i] = q /\ \A x \in Rows : x # i => rows'[x] = rows[x]
      /\ q.status = "queued" /\ q.job = j /\ q.worker = None /\ ~q.silent
  BY <1>3 DEF Inv, Types, RowsOK, NoRow
<1> HIDE DEF q
<1>5. Types'
  BY <1>3 DEF Inv, Types, JobsOK, RowsOK, WorkersOK, RestOK
<1>6. Runs'
  BY <1>1, ExchangeAssumption DEF Inv, Runs
<1>7. \A w \in Workers : workers[w].row # i
  <2>1. \A w \in Workers : workers[w].pc \in Working => workers[w].row # i
    BY <1>2, InHand, ExchangeAssumption
  <2> QED BY <2>1, TypeOfWorker
<1>8. Own'
  <2>1. \A w \in Workers : workers[w].pc \in Working => rows'[workers[w].row] = rows[workers[w].row]
    BY <1>4, <1>7, InHand
  <2>2. \A x \in Rows : (rows'[x].worker = None <=> rows'[x].status \in {"absent", "queued"})
                         /\ (rows'[x].job = None <=> rows'[x].status = "absent")
    <3>1. \A x \in Rows : (rows[x].worker = None <=> rows[x].status \in {"absent", "queued"})
                          /\ (rows[x].job = None <=> rows[x].status = "absent")
      BY DEF Inv, Own
    <3> QED BY <1>4, <3>1, ExchangeAssumption
  <2> QED BY <2>1, <2>2 DEF Inv, Own, Working
<1>9. Once'
  BY <1>2, <1>4 DEF Inv, Once
<1>10. Earned'
  <2>1. \A x \in Jobs : jobs'[x].collect = jobs[x].collect
    BY <1>1
  <2>2. \A x \in Rows : x # i /\ rows[x].job \in Jobs => (Collects(x)' <=> Collects(x))
    BY <1>4, <2>1 DEF Collects
  <2>3. \A x \in Rows : rows'[x].status = "succeeded" => x # i /\ rows[x].status = "succeeded" /\ rows[x].job \in Jobs
    BY <1>4 DEF Inv, Own, Types, RowsOK, RowType
  <2>4. \A w \in Workers : workers[w].ok => workers[w].row \in Rows \ {i} /\ rows[workers[w].row].job \in Jobs
    BY <1>7, InHand, TypeOfWorker DEF Reporting, Working
  <2>5. Earned
    BY DEF Inv
  <2> HIDE DEF Collects
  <2> QED BY <2>2, <2>3, <2>4, <2>5 DEF Earned
<1>11. Informed'
  <2>1. \A x \in Jobs : jobs'[x].pc = "wait" =>
          jobs'[x].row \in Rows /\ rows'[jobs'[x].row].job = x /\ ~rows'[jobs'[x].row].silent
    <3>1. r.pc = "wait" => r.row = i
      OBVIOUS
    <3>2. \A x \in Jobs : jobs[x].pc = "wait" =>
            jobs[x].row \in Rows /\ rows[jobs[x].row].job = x /\ ~rows[jobs[x].row].silent
      BY DEF Inv, Informed
    <3>3. \A x \in Jobs : jobs[x].pc = "wait" => jobs[x].row # i
      BY <1>2, <3>2, ExchangeAssumption
    <3> QED BY <1>1, <1>4, <3>1, <3>2, <3>3
  <2>2. \A x \in Rows : rows'[x].status \in Closed /\ ~rows'[x].silent => \A w \in Workers : workers[w].row # x
    BY <1>4 DEF Inv, Informed, Closed
  <2>3. \A x \in Jobs : jobs'[x].result \in Closed => x # j /\ jobs[x].row # i
    BY <1>1, <1>2, ExchangeAssumption DEF Inv, Informed, Closed
  <2>4. \A x \in Jobs : jobs'[x].result \in Closed =>
          /\ jobs'[x].row \in Rows /\ rows'[jobs'[x].row].job = x /\ rows'[jobs'[x].row].status = jobs'[x].result
          /\ \A w \in Workers : workers[w].row # jobs'[x].row
    BY <1>1, <1>4, <2>3 DEF Inv, Informed
  <2> QED BY <2>1, <2>2, <2>4 DEF Informed
<1>12. Counted'
  <2>0. \A x \in Rows : rows'[x].job = IF x = i THEN j ELSE rows[x].job
    BY <1>4
  <2>1. RowsOf(j)' = RowsOf(j) \cup {i} /\ i \notin RowsOf(j)
    BY <1>2, <2>0, ExchangeAssumption DEF RowsOf
  <2>2. Cardinality(RowsOf(j)') = Cardinality(RowsOf(j)) + 1
    BY <2>1, RowCount, FS_AddElement
  <2>3. \A x \in Jobs : x # j => RowsOf(x)' = RowsOf(x)
    BY <1>2, <2>0, ExchangeAssumption DEF RowsOf
  <2>4. \A x \in Jobs : jobs[x].runs \in 0..2 /\ Cardinality(RowsOf(x)) \in Nat
    BY RowCount DEF Inv, Types, JobsOK, JobType
  <2> HIDE DEF RowsOf
  <2> QED BY <1>1, <2>2, <2>3, <2>4 DEF Inv, Counted
<1> QED BY <1>5, <1>6, <1>8, <1>9, <1>10, <1>11, <1>12 DEF Inv

LEMMA EnqueueKeeps == ASSUME Inv, NEW j \in Jobs, Enqueue(j) \/ EnqueueFails(j) PROVE Inv'
<1>0. jobs[j] \in JobType /\ JobsOK /\ faults \in Nat /\ jobs[j].pc = "enqueue" /\ jobs[j].result = None
  BY DEF Inv, Types, JobsOK, RestOK, Runs, Enqueue, EnqueueFails
<1>1. CASE Enqueue(j)
  <2>1. PICK i \in Rows : Insert(j, i) /\ jobs' = [jobs EXCEPT ![j].pc = "wait", ![j].row = i]
    BY <1>1 DEF Enqueue
  <2> DEFINE r == [jobs[j] EXCEPT !.pc = "wait", !.row = i]
  <2>2. r \in JobType
    BY <1>0 DEF JobType
  <2>3. jobs' = [jobs EXCEPT ![j] = r]
    BY <1>0, <2>1 DEF JobsOK
  <2>4. r.collect = jobs[j].collect /\ r.runs = jobs[j].runs /\ r.pc = "wait" /\ r.row = i /\ r.result = None
    BY <1>0 DEF JobType
  <2> HIDE DEF r
  <2>5. UNCHANGED <<facts, workers, effects>> /\ faults' \in Nat
    BY <1>0, <1>1 DEF Enqueue
  <2> QED BY <1>0, <2>1, <2>2, <2>3, <2>4, <2>5, InsertStep
<1>2. CASE EnqueueFails(j)
  <2> DEFINE r == [jobs[j] EXCEPT !.pc = "ended", !.result = "enqueue_failed"]
  <2>1. jobs' = [jobs EXCEPT ![j] = r]
    BY <1>0, <1>2, ReturnIs DEF EnqueueFails
  <2>2. r \in JobType
    BY <1>0 DEF JobType
  <2>3. r.collect = jobs[j].collect /\ r.runs = jobs[j].runs /\ r.pc = "ended" /\ r.result = "enqueue_failed"
    BY <1>0 DEF JobType
  <2>4. faults' \in Nat /\ UNCHANGED <<facts, workers, effects>>
    BY <1>0, <1>2 DEF EnqueueFails, Fault
  <2>5. CASE UNCHANGED rows
    <3>1. Harmless(j, r)
      BY <1>0, <2>3 DEF Harmless, JobType, Closed
    <3> QED BY <2>1, <2>2, <2>4, <2>5, <3>1, JobStep
  <2>6. ASSUME NEW i \in Rows, Insert(j, i) PROVE Inv'
    <3> HIDE DEF r
    <3> QED BY <1>0, <2>1, <2>2, <2>3, <2>4, <2>6, InsertStep
  <2> QED BY <1>2, <2>5, <2>6 DEF EnqueueFails
<1> QED BY <1>1, <1>2

-----------------------------------------------------------------------------
(* Workers that move on or stop; rows and effects stay *)

LEMMA Idle == IdleWorker \in WorkerType /\ ~IdleWorker.ok /\ IdleWorker.row = None /\ IdleWorker.pc = "idle"
  BY RowIds DEF IdleWorker, WorkerType, WorkerShape, Working, Reporting

\* A worker that keeps its row does not go back, and closes a collection with facts
Onward(old, new) ==
    /\ new \in WorkerType /\ new.row = old.row
    /\ new.pc # "domain" /\ (new.pc \in {"log", "exec"} => old.pc \in {"domain", "log", "exec"})
    /\ new.ok => old.ok /\ (new.pc = "close" /\ Collects(new.row) => facts' # None)

SomeCutOff ==
    /\ jobs' \in [Jobs -> JobType]
    /\ \A j \in Jobs :
          \/ jobs'[j] = jobs[j]
          \/ jobs[j].pc \in {"enqueue", "wait"} /\ jobs'[j] = [jobs[j] EXCEPT !.pc = "orphan"]

SomeMoveOn ==
    /\ workers' \in [Workers -> WorkerType]
    /\ \A w \in Workers : workers'[w] = workers[w] \/ workers'[w] = IdleWorker \/ Onward(workers[w], workers'[w])

LEMMA MoveOn ==
  ASSUME Inv, rows' = rows, effects' = effects, faults' \in Nat,
         facts' \in Rows \cup {None}, facts # None => facts' # None, SomeCutOff, SomeMoveOn
  PROVE  Inv'
<1>1. Types'
  BY DEF Inv, Types, JobsOK, RowsOK, WorkersOK, RestOK, SomeCutOff, SomeMoveOn
<1>2. \A j \in Jobs : jobs[j] \in JobType
  BY DEF Inv, Types, JobsOK
<1>3. \A j \in Jobs : /\ jobs'[j].collect = jobs[j].collect /\ jobs'[j].row = jobs[j].row
                        /\ jobs'[j].result = jobs[j].result /\ jobs'[j].runs = jobs[j].runs
                        /\ \/ jobs'[j].pc = jobs[j].pc
                           \/ jobs[j].pc \in {"enqueue", "wait"} /\ jobs'[j].pc = "orphan"
  BY <1>2 DEF JobType, SomeCutOff
<1>4. Runs'
  <2>1. Runs
    BY DEF Inv
  <2> QED BY <1>3, <2>1 DEF Runs
<1>5. \A w \in Workers : workers'[w] = workers[w] \/ workers'[w] = IdleWorker \/ Onward(workers[w], workers'[w])
  BY DEF SomeMoveOn
<1>6. Own'
  <2>1. \A w \in Workers : workers'[w].pc \in Working => workers[w].pc \in Working /\ workers'[w].row = workers[w].row
    BY <1>5, Idle, TypeOfWorker DEF Onward, Working, WorkerType
  <2>2. \A w \in Workers : workers'[w].pc = "domain" => workers[w].pc = "domain"
    BY <1>5, Idle DEF Onward
  <2> QED BY <2>1, <2>2 DEF Inv, Own, Working
<1>7. Once'
  <2>1. \A w \in Workers : workers'[w].pc \in {"domain", "log", "exec"} =>
          workers[w].pc \in {"domain", "log", "exec"} /\ workers'[w].row = workers[w].row
    BY <1>5, Idle DEF Onward
  <2> QED BY <2>1 DEF Inv, Once
<1>8. Earned'
  <2>1. \A i \in Rows : rows[i].job \in Jobs => (Collects(i)' <=> Collects(i))
    BY <1>3 DEF Collects
  <2>2. \A i \in Rows : rows[i].status = "succeeded" => rows[i].job \in Jobs
    BY DEF Inv, Own, Types, RowsOK, RowType
  <2>3. \A w \in Workers : workers'[w].ok => workers[w].ok /\ workers'[w].row = workers[w].row
    BY <1>5, Idle DEF Onward
  <2>4. \A w \in Workers : workers[w].ok => workers[w].row \in Rows /\ rows[workers[w].row].job \in Jobs
    BY InHand, TypeOfWorker DEF Reporting, Working
  <2>5. \A w \in Workers : workers'[w].ok /\ workers'[w].pc = "close" /\ Collects(workers'[w].row) => facts' # None
    BY <1>5, Idle DEF Onward, Inv, Earned
  <2>6. Earned
    BY DEF Inv
  <2> HIDE DEF Collects
  <2> QED BY <2>1, <2>2, <2>3, <2>4, <2>5, <2>6 DEF Earned
<1>9. Informed'
  <2>1. \A w \in Workers, i \in Rows : workers'[w].row = i => workers[w].row = i
    BY <1>5, Idle, RowIds DEF Onward
  <2>2. Informed
    BY DEF Inv
  <2> QED BY <1>3, <2>1, <2>2 DEF Informed
<1>10. Counted'
  <2>1. \A j \in Jobs : RowsOf(j)' = RowsOf(j) /\ Cardinality(RowsOf(j)) \in Nat /\ jobs[j].runs \in 0..2
    BY <1>2, SameRows, RowCount DEF JobType
  <2>2. Counted
    BY DEF Inv
  <2> HIDE DEF RowsOf
  <2> QED BY <1>3, <2>1, <2>2 DEF Counted
<1> QED BY <1>1, <1>4, <1>6, <1>7, <1>8, <1>9, <1>10 DEF Inv

LEMMA WorkerSet ==
  ASSUME Inv, NEW w \in Workers, NEW r \in WorkerType, workers' = [workers EXCEPT ![w] = r]
  PROVE  /\ workers' \in [Workers -> WorkerType] /\ workers'[w] = r
         /\ \A x \in Workers : x # w => workers'[x] = workers[x]
  BY DEF Inv, Types, WorkersOK

LEMMA GoIs ==
  ASSUME Inv, NEW w \in Workers, NEW pc, Go(w, pc)
  PROVE  workers' = [workers EXCEPT ![w] = [workers[w] EXCEPT !.pc = pc]]
  BY DEF Go, Inv, Types, WorkersOK

\* A step of one worker that leaves the rows alone
LEMMA WorkerMovesOn ==
  ASSUME Inv, jobs' = jobs, rows' = rows, effects' = effects, faults' \in Nat,
         facts' \in Rows \cup {None}, facts # None => facts' # None,
         NEW w \in Workers, NEW r \in WorkerType, workers' = [workers EXCEPT ![w] = r],
         r = IdleWorker \/ Onward(workers[w], r)
  PROVE  Inv'
<1>1. SomeCutOff
  BY DEF Inv, Types, JobsOK, SomeCutOff
<1>2. SomeMoveOn
  BY WorkerSet DEF SomeMoveOn
<1> QED BY <1>1, <1>2, MoveOn

LEMMA RequestKeeps ==
  ASSUME Inv, NEW w \in Workers,
         (Claim(w) /\ Rest(w) /\ UNCHANGED rows) \/ FinishRead(w) \/ FinishFacts(w) \/ RequestFails(w)
  PROVE  Inv'
<1> DEFINE new(pc, ok) == [workers[w] EXCEPT !.pc = pc, !.ok = ok]
<1>0. workers[w] \in WorkerType /\ faults \in Nat /\ facts \in Rows \cup {None}
  BY DEF Inv, Types, WorkersOK, RestOK
<1>1. ASSUME Rest(w), UNCHANGED <<jobs, rows, effects, facts>>, faults' \in Nat PROVE Inv'
  BY <1>0, <1>1, Idle, WorkerMovesOn DEF Rest
<1>2. CASE RequestFails(w)
  <2>1. Rest(w) /\ UNCHANGED <<jobs, rows, effects, facts>> /\ faults' \in Nat
    BY <1>0, <1>2 DEF RequestFails, Fault
  <2> QED BY <1>1, <2>1
<1>5. CASE Claim(w) /\ Rest(w) /\ UNCHANGED rows
  <2>1. Rest(w) /\ UNCHANGED <<jobs, rows, effects, facts>> /\ faults' \in Nat
    BY <1>0, <1>5 DEF Claim
  <2> QED BY <1>1, <2>1
<1>3. CASE FinishRead(w)
  <2>1. CASE Rest(w)
    BY <1>0, <1>1, <1>3, <2>1 DEF FinishRead
  <2>2. CASE Go(w, "facts")
    <3> DEFINE r == [workers[w] EXCEPT !.pc = "facts"]
    <3>1. r \in WorkerType /\ Onward(workers[w], r)
      BY <1>0, <1>3 DEF FinishRead, Onward, WorkerType, WorkerShape, Working, Reporting
    <3>2. workers' = [workers EXCEPT ![w] = r]
      BY <2>2, GoIs
    <3> HIDE DEF r
    <3> QED BY <1>0, <1>3, <3>1, <3>2, WorkerMovesOn DEF FinishRead
  <2> QED BY <1>3, <2>1, <2>2 DEF FinishRead
<1>4. CASE FinishFacts(w)
  <2>1. workers[w].pc = "facts" /\ workers[w].pc \in Working
    BY <1>4 DEF FinishFacts, Working
  <2>2. workers[w].row \in Rows /\ workers[w].row # None
    BY <2>1, InHand, RowIds
  <2>3. ASSUME NEW ok \in BOOLEAN PROVE new("close", ok) \in WorkerType
    BY <1>0, <2>1 DEF WorkerType, WorkerShape, Working, Reporting
  <2>4. CASE /\ workers[w].ok /\ Collects(workers[w].row)
             /\ facts' = workers[w].row /\ Go(w, "close")
    <3> DEFINE r == [workers[w] EXCEPT !.pc = "close"]
    <3>1. workers' = [workers EXCEPT ![w] = r]
      BY <2>4, GoIs
    <3>2. r \in WorkerType /\ Onward(workers[w], r)
      BY <1>0, <2>1, <2>2, <2>4 DEF Onward, WorkerType, WorkerShape, Working, Reporting
    <3> HIDE DEF r
    <3> QED BY <1>0, <1>4, <2>2, <2>4, <3>1, <3>2, WorkerMovesOn DEF FinishFacts
  <2>5. CASE UNCHANGED facts /\ workers' = [workers EXCEPT ![w].pc = "close", ![w].ok = FALSE]
    <3> DEFINE r == [workers[w] EXCEPT !.pc = "close", !.ok = FALSE]
    <3>1. workers' = [workers EXCEPT ![w] = r]
      BY <2>5 DEF Inv, Types, WorkersOK
    <3>2. r \in WorkerType /\ Onward(workers[w], r)
      BY <1>0, <2>1 DEF Onward, WorkerType, WorkerShape, Working, Reporting
    <3> HIDE DEF r
    <3> QED BY <1>0, <1>4, <2>5, <3>1, <3>2, WorkerMovesOn DEF FinishFacts
  <2>6. CASE /\ ~(workers[w].ok /\ Collects(workers[w].row))
             /\ UNCHANGED facts /\ Go(w, "close")
    <3> DEFINE r == [workers[w] EXCEPT !.pc = "close"]
    <3>1. workers' = [workers EXCEPT ![w] = r]
      BY <2>6, GoIs
    <3>2. r \in WorkerType /\ Onward(workers[w], r)
      BY <1>0, <2>1, <2>6 DEF Onward, WorkerType, WorkerShape, Working, Reporting
    <3> HIDE DEF r
    <3> QED BY <1>0, <1>4, <2>6, <3>1, <3>2, WorkerMovesOn DEF FinishFacts
  <2> QED BY <1>4, <2>4, <2>5, <2>6 DEF FinishFacts, Collects
<1> QED BY <1>2, <1>3, <1>4, <1>5

LEMMA CrashKeeps == ASSUME Inv, Crash PROVE Inv'
<1>1. SomeCutOff
  <2>1. \A j \in Jobs : jobs[j] \in JobType /\ [jobs[j] EXCEPT !.pc = "orphan"] \in JobType
    BY DEF Inv, Types, JobsOK, JobType
  <2> QED BY <2>1 DEF Crash, SomeCutOff
<1>2. SomeMoveOn
  BY Idle, TypeOfWorker DEF Crash, SomeMoveOn
<1>3. faults' \in Nat /\ facts' \in Rows \cup {None}
  BY DEF Crash, Fault, Inv, Types, RestOK
<1> QED BY <1>1, <1>2, <1>3, MoveOn DEF Crash

-----------------------------------------------------------------------------
(* Rows that change in the hands of their workers *)

LEMMA JobsStay ==
  ASSUME Inv, jobs' = jobs, \A i \in Rows : rows'[i].job = rows[i].job
  PROVE  JobsOK' /\ Runs' /\ Counted' /\ \A i \in Rows : Collects(i)' <=> Collects(i)
<1>1. JobsOK' /\ Runs'
  BY DEF Inv, Types, JobsOK, Runs
<1>2. Counted'
  BY SameRows DEF Inv, Counted
<1>3. \A i \in Rows : Collects(i)' <=> Collects(i)
  BY DEF Collects
<1> QED BY <1>1, <1>2, <1>3

\* What may happen to a row: its job and its worker stay; it falls silent when
\* nobody waits for it; a result comes from the worker that let go of it
RowKept(i) ==
    /\ rows'[i].job = rows[i].job /\ rows'[i].worker = rows[i].worker
    /\ rows'[i].status \in {"absent", "queued"} \/ rows[i].status \in {"absent", "queued"} =>
          rows'[i].status = rows[i].status
    /\ rows'[i].silent /\ ~rows[i].silent => /\ \A j \in Jobs : jobs[j].pc = "wait" => jobs[j].row # i
                                            /\ \A w \in Workers : workers'[w].pc = "domain" => workers'[w].row # i
    /\ rows'[i].status # rows[i].status =>
          /\ rows[i].status \in Held \/ \E w \in Workers : workers[w].row = i
          /\ \A w \in Workers : workers'[w].pc = "domain" => workers'[w].row # i
    /\ rows'[i].status \in Closed /\ ~rows'[i].silent =>
          (rows[i].status \in Closed /\ ~rows[i].silent) \/ \A w \in Workers : workers'[w].row # i
    /\ rows'[i].status = "succeeded" =>
          rows[i].status = "succeeded" \/ (effects[i] = 1 /\ (Collects(i) => facts # None))

\* A worker's next pc; it keeps its row and result, or rests
Further(w) ==
    \/ workers'[w] = IdleWorker
    \/ /\ workers'[w].row = workers[w].row /\ workers'[w].ok = workers[w].ok
       /\ workers'[w].pc = "domain" => workers[w].pc = "domain"
       /\ workers'[w].pc \in {"log", "exec"} => workers[w].pc \in {"domain", "log", "exec"}
       /\ workers'[w].pc = "close" => workers[w].pc = "close"

LEMMA RowStep ==
  ASSUME Inv, jobs' = jobs, effects' = effects, facts' = facts, faults' = faults,
         rows' \in [Rows -> RowType], workers' \in [Workers -> WorkerType],
         \A i \in Rows : RowKept(i), \A w \in Workers : Further(w)
  PROVE  Inv'
<1>1. \A i \in Rows : rows'[i].job = rows[i].job /\ rows'[i].worker = rows[i].worker
  BY DEF RowKept
<1>2. JobsOK' /\ Runs' /\ Counted' /\ \A i \in Rows : Collects(i)' <=> Collects(i)
  BY <1>1, JobsStay
<1>3. Types'
  BY <1>2 DEF Inv, Types, RowsOK, WorkersOK, RestOK
<1>4. Own'
  <2>1. \A i \in Rows : (rows'[i].worker = None <=> rows'[i].status \in {"absent", "queued"})
                        /\ (rows'[i].job = None <=> rows'[i].status = "absent")
    BY DEF RowKept, Inv, Own
  <2>2. \A w \in Workers : workers'[w].pc \in Working => workers[w].pc \in Working /\ workers'[w].row = workers[w].row
    BY TypeOfWorker, Idle DEF Further, Working, WorkerType
  <2>3. \A w \in Workers : workers'[w].pc = "domain" =>
          /\ workers[w].pc = "domain" /\ workers'[w].row = workers[w].row /\ workers[w].row \in Rows
          /\ rows[workers[w].row].status = "claimed" /\ ~rows[workers[w].row].silent
    BY Idle, InHand DEF Further, Working, Inv, Own
  <2>4. \A w \in Workers : workers'[w].pc = "domain" =>
          rows'[workers'[w].row].status = "claimed" /\ ~rows'[workers'[w].row].silent
    BY <2>3 DEF RowKept
  <2>5. \A w \in Workers : workers'[w].pc \in Working => rows'[workers'[w].row].worker = w
    BY <1>1, <2>2, InHand
  <2> QED BY <2>1, <2>4, <2>5 DEF Own
<1>5. Once'
  <2>1. \A w \in Workers : workers'[w].pc \in {"domain", "log", "exec"} =>
          workers[w].pc \in {"domain", "log", "exec"} /\ workers'[w].row = workers[w].row
    BY Idle DEF Further
  <2> QED BY <1>1, <2>1 DEF Inv, Once
<1>6. Earned'
  <2>1. \A i \in Rows : rows'[i].status = "succeeded" => effects[i] = 1 /\ (Collects(i) => facts # None)
    BY DEF RowKept, Inv, Earned
  <2>2. \A w \in Workers : workers'[w].ok => workers[w].ok /\ workers'[w].row = workers[w].row /\ workers[w].row \in Rows
                                            /\ (workers'[w].pc = "close" => workers[w].pc = "close")
    BY Idle, TypeOfWorker, InHand DEF Further, Reporting, Working
  <2>3. Earned
    BY DEF Inv
  <2> HIDE DEF Collects
  <2> QED BY <1>2, <2>1, <2>2, <2>3 DEF Earned
<1>7. Informed'
  <2>1. \A w \in Workers, i \in Rows : workers'[w].row = i => workers[w].row = i
    BY Idle, RowIds DEF Further
  <2>2. \A j \in Jobs : jobs[j].pc = "wait" =>
          jobs[j].row \in Rows /\ rows'[jobs[j].row].job = j /\ ~rows'[jobs[j].row].silent
    BY DEF RowKept, Inv, Informed
  <2>3. \A i \in Rows : rows'[i].status \in Closed /\ ~rows'[i].silent => \A w \in Workers : workers'[w].row # i
    BY <2>1 DEF RowKept, Inv, Informed
  <2>4. \A j \in Jobs : jobs[j].result \in Closed =>
          /\ jobs[j].row \in Rows /\ rows[jobs[j].row].job = j /\ rows[jobs[j].row].status = jobs[j].result
          /\ \A w \in Workers : workers[w].row # jobs[j].row
    BY DEF Inv, Informed
  <2>5. \A j \in Jobs : jobs[j].result \in Closed => rows'[jobs[j].row].status = rows[jobs[j].row].status
    BY <2>4 DEF RowKept, Held, Closed
  <2> QED BY <1>1, <2>1, <2>2, <2>3, <2>4, <2>5 DEF Informed
<1> QED BY <1>2, <1>3, <1>4, <1>5, <1>6, <1>7 DEF Inv

LEMMA SameRow == ASSUME Inv, NEW i \in Rows, rows'[i] = rows[i], \A w \in Workers : Further(w) PROVE RowKept(i)
<1>1. \A w \in Workers : workers'[w].row = i => workers[w].row = i
  BY Idle, RowIds DEF Further
<1> QED BY <1>1 DEF RowKept, Inv, Informed

\* A step of one worker on its own row
LEMMA OwnRowStep ==
  ASSUME Inv, NEW w \in Workers, workers[w].pc \in Working,
         NEW q \in RowType, rows' = [rows EXCEPT ![workers[w].row] = q],
         NEW r \in WorkerType, workers' = [workers EXCEPT ![w] = r], UNCHANGED <<jobs, facts, effects, faults>>,
         Further(w), rows'[workers[w].row] = q => RowKept(workers[w].row)
  PROVE  Inv'
<1>1. \A x \in Workers : Further(x)
  <2>1. \A x \in Workers : x # w => workers'[x] = workers[x]
    BY WorkerSet
  <2> QED BY <2>1 DEF Further
<1>2. rows' \in [Rows -> RowType] /\ rows'[workers[w].row] = q
      /\ \A i \in Rows : i # workers[w].row => rows'[i] = rows[i]
  BY InHand DEF Inv, Types, RowsOK
<1>3. \A i \in Rows : RowKept(i)
  BY <1>1, <1>2, SameRow
<1>4. workers' \in [Workers -> WorkerType]
  BY WorkerSet
<1> QED BY <1>1, <1>2, <1>3, <1>4, RowStep

LEMMA WorkKeeps == ASSUME Inv, NEW w \in Workers, SetRunning(w) \/ AppendLog(w) \/ FinishRow(w) PROVE Inv'
<1> DEFINE i == workers[w].row
           move(pc) == [workers[w] EXCEPT !.pc = pc]
<1>0. workers[w] \in WorkerType /\ workers[w].pc \in Working
  BY TypeOfWorker DEF Working, SetRunning, AppendLog, FinishRow
<1>1. i \in Rows /\ rows[i] \in RowType /\ rows[i].worker = w /\ rows[i].status \in Held \cup Closed
      /\ \A x \in Workers : x # w => workers[x].row # i
  BY <1>0, InHand
<1>2. CASE SetRunning(w)
  <2> DEFINE q == [rows[i] EXCEPT !.status = "running"]
             r == move("log")
  <2>1. q \in RowType /\ rows' = [rows EXCEPT ![i] = q]
    BY <1>1, <1>2 DEF SetRunning, RowType, Held, Inv, Types, RowsOK
  <2>2. r \in WorkerType /\ workers' = [workers EXCEPT ![w] = r]
    BY <1>0, <1>2, GoIs DEF SetRunning, WorkerType, WorkerShape, Working, Reporting
  <2>3. /\ workers'[w] = r /\ \A x \in Workers : x # w => workers'[x] = workers[x]
        /\ r.row = i /\ r.ok = workers[w].ok /\ r.pc = "log" /\ workers[w].pc = "domain"
    BY <1>0, <1>2, <2>2, WorkerSet DEF SetRunning, WorkerType, WorkerShape
  <2>4. rows[i].status = "claimed"
    BY <2>3 DEF Inv, Own
  <2>5. q.status = "running" /\ q.job = rows[i].job /\ q.worker = rows[i].worker /\ q.silent = rows[i].silent
    BY <1>1 DEF RowType
  <2> HIDE DEF r, q
  <2>6. Further(w)
    BY <2>3 DEF Further
  <2>7. rows'[i] = q => RowKept(i)
    BY <1>1, <2>3, <2>4, <2>5 DEF RowKept, Held, Closed
  <2> QED BY <1>0, <1>2, <2>1, <2>2, <2>6, <2>7, OwnRowStep DEF SetRunning
<1>3. CASE AppendLog(w)
  <2> DEFINE q(s) == [rows[i] EXCEPT !.silent = s]
             r == move("exec")
  <2>1. PICK s \in BOOLEAN : rows' = [rows EXCEPT ![i] = q(s)] /\ ((~s /\ rows[i].status \in Held) \/ s = rows[i].silent)
    <3>1. CASE UNCHANGED rows
      <4>1. rows[i].silent \in BOOLEAN /\ rows = [rows EXCEPT ![i] = q(rows[i].silent)]
        BY <1>1 DEF RowType, Inv, Types, RowsOK
      <4> QED BY <3>1, <4>1
    <3>2. CASE Owned(i, w) /\ rows' = [rows EXCEPT ![i].silent = FALSE]
      <4>1. rows' = [rows EXCEPT ![i] = q(FALSE)]
        BY <3>2 DEF Inv, Types, RowsOK
      <4> QED BY <3>2, <4>1 DEF Owned
    <3> QED BY <1>3, <3>1, <3>2 DEF AppendLog
  <2>2. r \in WorkerType /\ workers' = [workers EXCEPT ![w] = r]
    BY <1>0, <1>3, GoIs DEF AppendLog, WorkerType, WorkerShape, Working, Reporting
  <2>3. /\ workers'[w] = r /\ \A x \in Workers : x # w => workers'[x] = workers[x]
        /\ r.row = i /\ r.ok = workers[w].ok /\ r.pc = "exec" /\ workers[w].pc = "log"
    BY <1>0, <1>3, <2>2, WorkerSet DEF AppendLog, WorkerType, WorkerShape
  <2>4. /\ q(s) \in RowType /\ q(s).status = rows[i].status /\ q(s).job = rows[i].job
        /\ q(s).worker = rows[i].worker /\ q(s).silent = s
    BY <1>1 DEF RowType
  <2> HIDE DEF r, q
  <2>5. Further(w)
    BY <2>3 DEF Further
  <2>6. rows'[i] = q(s) => RowKept(i)
    BY <1>1, <2>1, <2>3, <2>4 DEF RowKept, Held, Closed
  <2> QED BY <1>0, <1>3, <2>1, <2>2, <2>4, <2>5, <2>6, OwnRowStep DEF AppendLog
<1>4. CASE FinishRow(w)
  <2> DEFINE q == [rows[i] EXCEPT !.status = IF workers[w].ok THEN "succeeded" ELSE "failed"]
  <2>1. q \in RowType /\ rows' = [rows EXCEPT ![i] = q]
    BY <1>1, <1>4 DEF FinishRow, RowType, Closed, Inv, Types, RowsOK
  <2>2. workers' = [workers EXCEPT ![w] = IdleWorker] /\ workers[w].pc = "close"
    BY <1>4 DEF FinishRow, Rest
  <2>3. workers'[w] = IdleWorker /\ \A x \in Workers : x # w => workers'[x] = workers[x]
    BY <2>2, Idle, WorkerSet
  <2>4. workers[w].ok => effects[i] = 1 /\ (Collects(i) => facts # None)
    BY <2>2 DEF Inv, Earned
  <2>5. /\ q.status = IF workers[w].ok THEN "succeeded" ELSE "failed"
        /\ q.job = rows[i].job /\ q.worker = rows[i].worker /\ q.silent = rows[i].silent
    BY <1>1 DEF RowType
  <2> HIDE DEF q
  <2>6. Further(w)
    BY <2>3 DEF Further
  <2>7. \A x \in Workers : workers'[x].row # i
    BY <1>1, <2>3, Idle, RowIds
  <2>8. rows'[i] = q => RowKept(i)
    BY <1>1, <2>4, <2>5, <2>7 DEF RowKept, Held, Closed
  <2> QED BY <1>0, <1>4, <2>1, <2>2, <2>6, <2>8, Idle, OwnRowStep DEF FinishRow
<1> QED BY <1>2, <1>3, <1>4

LEMMA TimeKeeps == ASSUME Inv, NEW i \in Rows, GrowSilent(i) PROVE Inv'
<1> DEFINE q == [rows[i] EXCEPT !.silent = TRUE]
<1>1. rows[i] \in RowType /\ q \in RowType /\ rows' = [rows EXCEPT ![i] = q]
  BY DEF GrowSilent, Inv, Types, RowsOK, RowType
<1>2. rows' \in [Rows -> RowType] /\ rows'[i] = q /\ \A x \in Rows : x # i => rows'[x] = rows[x]
  BY <1>1 DEF Inv, Types, RowsOK
<1>3. \A w \in Workers : Further(w)
  BY DEF GrowSilent, Further
<1>4. workers' \in [Workers -> WorkerType]
  BY DEF GrowSilent, Inv, Types, WorkersOK
<1>5. q.status = rows[i].status /\ q.job = rows[i].job /\ q.worker = rows[i].worker /\ q.silent
  BY <1>1 DEF RowType
<1> HIDE DEF q
<1>6. RowKept(i)
  BY <1>2, <1>5 DEF RowKept, GrowSilent
<1> QED BY <1>2, <1>3, <1>4, <1>6, SameRow, RowStep DEF GrowSilent

LEMMA PollKeeps == ASSUME Inv, NEW w \in Workers, Poll(w) PROVE Inv'
<1> DEFINE r == [workers[w] EXCEPT !.pc = "claim"]
<1>0. workers[w] \in WorkerType /\ workers[w].pc = "idle"
  BY TypeOfWorker DEF Poll
<1>1. r \in WorkerType /\ workers' = [workers EXCEPT ![w] = r] /\ r.pc = "claim" /\ r.row = workers[w].row /\ r.ok = workers[w].ok
  BY <1>0, GoIs DEF Poll, WorkerType, WorkerShape, Working, Reporting
<1> HIDE DEF r
<1>2. workers' \in [Workers -> WorkerType] /\ workers'[w] = r /\ \A x \in Workers : x # w => workers'[x] = workers[x]
  BY <1>1, WorkerSet
<1>3. \A x \in Workers : Further(x)
  BY <1>1, <1>2 DEF Further
<1>4. \A i \in Rows : rows[i] \in RowType /\ [rows[i] EXCEPT !.status = "failed"] \in RowType
  BY DEF Inv, Types, RowsOK, RowType, Closed
<1>5. rows' \in [Rows -> RowType]
  BY <1>4 DEF Poll, Expire
<1>6. \A i \in Rows : RowKept(i)
  <2>1. SUFFICES ASSUME NEW i \in Rows, Stale(i) PROVE RowKept(i)
    BY <1>3, SameRow DEF Poll, Expire
  <2>2. rows'[i] = [rows[i] EXCEPT !.status = "failed"]
    BY <2>1 DEF Poll, Expire
  <2>3. /\ rows'[i].status = "failed" /\ rows'[i].job = rows[i].job /\ rows'[i].worker = rows[i].worker
        /\ rows'[i].silent = rows[i].silent /\ rows[i].silent /\ rows[i].status \in Held
    <3>1. rows[i].silent /\ rows[i].status \in Held
      BY <2>1 DEF Stale
    <3>2. /\ [rows[i] EXCEPT !.status = "failed"].status = "failed"
          /\ [rows[i] EXCEPT !.status = "failed"].job = rows[i].job
          /\ [rows[i] EXCEPT !.status = "failed"].worker = rows[i].worker
          /\ [rows[i] EXCEPT !.status = "failed"].silent = rows[i].silent
      <4>1. rows[i] \in RowType
        BY <1>4
      <4> QED BY <4>1 DEF RowType
    <3> QED BY <2>2, <3>1, <3>2
  <2>4. \A x \in Workers : workers'[x].pc = "domain" => workers'[x].row # i
    BY <1>1, <1>2, <2>1 DEF Stale, Inv, Own
  <2> QED BY <2>3, <2>4 DEF RowKept, Held, Closed
<1> QED BY <1>2, <1>3, <1>5, <1>6, RowStep DEF Poll

\* A row gets its worker
LEMMA ClaimKeeps == ASSUME Inv, NEW w \in Workers, Claim(w) PROVE Inv'
<1> DEFINE waiting == {i \in Rows : rows[i].status = "queued"}
<1>0. workers[w] \in WorkerType /\ workers[w].pc = "claim" /\ workers[w].row \notin Rows /\ ~workers[w].ok
  BY TypeOfWorker DEF Claim, Working, Reporting
<1>1. CASE Rest(w) /\ UNCHANGED rows
  BY <1>1, RequestKeeps
<1>2. CASE \E i \in waiting :
              /\ rows' = [rows EXCEPT ![i].status = "claimed", ![i].worker = w, ![i].silent = FALSE]
              /\ workers' = [workers EXCEPT ![w].pc = "domain", ![w].row = i]
  <2>1. PICK i \in waiting :
              /\ rows' = [rows EXCEPT ![i].status = "claimed", ![i].worker = w, ![i].silent = FALSE]
              /\ workers' = [workers EXCEPT ![w].pc = "domain", ![w].row = i]
    BY <1>2
  <2> DEFINE q == [rows[i] EXCEPT !.status = "claimed", !.worker = w, !.silent = FALSE]
             r == [workers[w] EXCEPT !.pc = "domain", !.row = i]
  <2>2. rows[i] \in RowType /\ rows[i].status = "queued" /\ i \in Rows /\ rows[i].worker = None
    BY DEF Inv, Types, RowsOK, Own
  <2>3. q \in RowType /\ q.status = "claimed" /\ q.worker = w /\ ~q.silent /\ q.job = rows[i].job
    BY <2>2 DEF RowType, Held
  <2>4. r \in WorkerType /\ r.pc = "domain" /\ r.row = i /\ ~r.ok
    BY <1>0, <2>2 DEF WorkerType, WorkerShape, Working, Reporting
  <2>5. rows' = [rows EXCEPT ![i] = q] /\ workers' = [workers EXCEPT ![w] = r]
    BY <2>1 DEF Inv, Types, RowsOK, WorkersOK
  <2> HIDE DEF q, r
  <2>6. rows' \in [Rows -> RowType] /\ rows'[i] = q /\ \A x \in Rows : x # i => rows'[x] = rows[x]
    BY <2>2, <2>3, <2>5 DEF Inv, Types, RowsOK
  <2>7. workers' \in [Workers -> WorkerType] /\ workers'[w] = r /\ \A x \in Workers : x # w => workers'[x] = workers[x]
    BY <2>4, <2>5, WorkerSet
  <2>8. UNCHANGED <<jobs, facts, effects, faults>>
    BY DEF Claim
  <2>9. \A x \in Workers : workers[x].row # i
    <3>1. \A x \in Workers : workers[x].pc \in Working => workers[x].row # i
      BY <2>2, InHand, ExchangeAssumption
    <3> QED BY <2>2, <3>1, TypeOfWorker
  <2>10. JobsOK' /\ Runs' /\ Counted' /\ \A x \in Rows : Collects(x)' <=> Collects(x)
    <3>1. \A x \in Rows : rows'[x].job = rows[x].job
      BY <2>3, <2>6
    <3> QED BY <2>8, <3>1, JobsStay
  <2>11. Types'
    BY <2>6, <2>7, <2>8, <2>10 DEF Inv, Types, RowsOK, WorkersOK, RestOK
  <2>12. Own'
    <3>1. \A x \in Rows : (rows'[x].worker = None <=> rows'[x].status \in {"absent", "queued"})
                          /\ (rows'[x].job = None <=> rows'[x].status = "absent")
      <4>1. \A x \in Rows : (rows[x].worker = None <=> rows[x].status \in {"absent", "queued"})
                            /\ (rows[x].job = None <=> rows[x].status = "absent")
        BY DEF Inv, Own
      <4> QED BY <2>2, <2>3, <2>6, <4>1, ExchangeAssumption
    <3>2. \A x \in Workers : x # w /\ workers[x].pc \in Working => workers[x].row \in Rows /\ rows'[workers[x].row] = rows[workers[x].row]
      BY <2>6, <2>9, InHand
    <3>3. \A x \in Workers : workers'[x].pc \in Working => rows'[workers'[x].row].worker = x
      BY <2>2, <2>3, <2>4, <2>6, <2>7, <3>2, InHand
    <3>4. \A x \in Workers : workers'[x].pc = "domain" =>
            rows'[workers'[x].row].status = "claimed" /\ ~rows'[workers'[x].row].silent
      BY <2>2, <2>3, <2>4, <2>6, <2>7, <3>2 DEF Working, Inv, Own
    <3> QED BY <3>1, <3>3, <3>4 DEF Own
  <2>13. Once'
    BY <2>2, <2>3, <2>4, <2>6, <2>7, <2>8 DEF Inv, Once
  <2>14. Earned'
    <3>1. \A x \in Workers : workers'[x].ok => x # w /\ workers[x].row \in Rows
      BY <2>4, <2>7, TypeOfWorker DEF Reporting, Working
    <3>2. \A x \in Rows : rows'[x].status = "succeeded" => rows[x].status = "succeeded"
      BY <2>3, <2>6
    <3>3. Earned
      BY DEF Inv
    <3> HIDE DEF Collects
    <3> QED BY <2>7, <2>8, <2>10, <3>1, <3>2, <3>3 DEF Earned
  <2>15. Informed'
    <3>1. \A x \in Jobs : jobs[x].pc = "wait" => rows'[jobs[x].row].job = x /\ ~rows'[jobs[x].row].silent
      BY <2>3, <2>6 DEF Inv, Informed
    <3>2. \A x \in Rows : rows'[x].status \in Closed => x # i /\ rows'[x] = rows[x]
      BY <2>3, <2>6 DEF Closed
    <3>3. \A x \in Jobs : jobs[x].result \in Closed => jobs[x].row \in Rows /\ jobs[x].row # i
      BY <2>2 DEF Inv, Informed, Closed
    <3>4. \A x \in Workers : workers'[x].row = workers[x].row \/ workers'[x].row = i
      BY <2>4, <2>7
    <3>5. Informed
      BY DEF Inv
    <3> HIDE DEF waiting
    <3> QED BY <2>6, <2>8, <3>1, <3>2, <3>3, <3>4, <3>5 DEF Informed
  <2> QED BY <2>10, <2>11, <2>12, <2>13, <2>14, <2>15 DEF Inv
<1> QED BY <1>1, <1>2 DEF Claim

\* The effect
LEMMA OperateKeeps == ASSUME Inv, NEW w \in Workers, Operate(w) PROVE Inv'
<1> DEFINE i == workers[w].row
<1>1. workers[w] \in WorkerType /\ workers[w].pc = "exec" /\ workers[w].pc \in Working
  BY TypeOfWorker DEF Operate, Working
<1>2. i \in Rows /\ rows[i].worker = w /\ effects[i] = 0 /\ \A x \in Workers : x # w => workers[x].row # i
  BY <1>1, InHand DEF Inv, Once
<1>3. PICK n \in {0, 1}, ok \in BOOLEAN :
          /\ ok => n = 1
          /\ workers' = [workers EXCEPT ![w].pc = "report", ![w].ok = ok]
          /\ effects' = [effects EXCEPT ![i] = @ + n]
  BY DEF Operate
<1> DEFINE r == [workers[w] EXCEPT !.pc = "report", !.ok = ok]
<1>4. workers' = [workers EXCEPT ![w] = r]
  BY <1>3 DEF Inv, Types, WorkersOK
<1>5. r \in WorkerType /\ r.row = i /\ r.pc = "report" /\ r.ok = ok
  BY <1>1 DEF WorkerType, WorkerShape, Working, Reporting
<1> HIDE DEF r
<1>6. workers' \in [Workers -> WorkerType] /\ workers'[w] = r /\ \A x \in Workers : x # w => workers'[x] = workers[x]
  BY <1>4, <1>5, WorkerSet
<1>7. effects' \in [Rows -> Nat] /\ effects'[i] = n /\ \A x \in Rows : x # i => effects'[x] = effects[x]
  BY <1>2, <1>3 DEF Inv, Types, RestOK
<1>8. UNCHANGED <<jobs, rows, facts, faults>>
  BY DEF Operate
<1>9. JobsOK' /\ Runs' /\ Counted' /\ \A x \in Rows : Collects(x)' <=> Collects(x)
  BY <1>8, JobsStay
<1>10. Types'
  BY <1>6, <1>7, <1>8, <1>9 DEF Inv, Types, RowsOK, WorkersOK, RestOK
<1>11. Own'
  <2>1. \A x \in Workers : workers'[x].row = workers[x].row /\ (workers'[x].pc \in Working => workers[x].pc \in Working)
                           /\ (workers'[x].pc = "domain" => workers[x].pc = "domain")
    BY <1>1, <1>5, <1>6
  <2> QED BY <1>8, <2>1 DEF Inv, Own
<1>12. Once'
  <2>1. \A x \in Workers : workers'[x].pc \in {"domain", "log", "exec"} => x # w /\ workers[x].row \in Rows \ {i}
    BY <1>2, <1>5, <1>6, InHand DEF Working
  <2>2. \A x \in Rows : effects'[x] <= 1 /\ (rows[x].worker = None => effects'[x] = 0)
    BY <1>2, <1>3, <1>7, ExchangeAssumption DEF Inv, Once
  <2> QED BY <1>6, <1>7, <1>8, <2>1, <2>2 DEF Inv, Once
<1>13. Earned'
  <2>1. \A x \in Rows : rows[x].status = "succeeded" => x # i
    BY <1>2 DEF Inv, Earned
  <2>2. \A x \in Workers : x # w /\ workers[x].ok => workers[x].row \in Rows \ {i}
    BY <1>2, InHand, TypeOfWorker DEF Reporting, Working
  <2>3. ok => effects'[i] = 1
    BY <1>3, <1>7
  <2>4. Earned
    BY DEF Inv
  <2> HIDE DEF Collects
  <2> QED BY <1>5, <1>6, <1>7, <1>8, <1>9, <2>1, <2>2, <2>3, <2>4 DEF Earned
<1>14. Informed'
  <2>1. \A x \in Workers : workers'[x].row = workers[x].row
    BY <1>5, <1>6
  <2> QED BY <1>8, <2>1 DEF Inv, Informed
<1> QED BY <1>9, <1>10, <1>11, <1>12, <1>13, <1>14 DEF Inv

-----------------------------------------------------------------------------
(* The invariant always holds *)

LEMMA InvNext == Inv /\ [Next]_vars => Inv'
<1> SUFFICES ASSUME Inv, [Next]_vars PROVE Inv'
  OBVIOUS
<1>1. CASE UNCHANGED vars
  BY <1>1 DEF vars, Inv, Types, JobsOK, RowsOK, WorkersOK, RestOK, Runs, Own, Once, Earned, Collects, Informed, Counted, RowsOf
<1>2. ASSUME NEW j \in Jobs, HandlerStep(j) \/ EnqueueFails(j) \/ WaitThrows(j) \/ Stalled(j) PROVE Inv'
  BY <1>2, HandlerKeeps, EnqueueKeeps DEF HandlerStep
<1>3. ASSUME NEW w \in Workers, WorkerStep(w) \/ RequestFails(w) PROVE Inv'
  BY <1>3, PollKeeps, ClaimKeeps, WorkKeeps, OperateKeeps, RequestKeeps DEF WorkerStep, ApiStep
<1>4. ASSUME NEW i \in Rows, GrowSilent(i) PROVE Inv'
  BY <1>4, TimeKeeps
<1>5. CASE Crash
  BY <1>5, CrashKeeps
<1> QED BY <1>1, <1>2, <1>3, <1>4, <1>5 DEF Next

LEMMA InvAlways == Spec => []Inv
  BY InvInit, InvNext, PTL DEF Spec

\* exchange.ts:70-96, the columns of exchange_jobs: every row, every job's
\* state and every worker's have their shape, and a worker's row is a row.
THEOREM TypeCorrect == Spec => []Types
<1>1. Inv => Types
  BY DEF Inv
<1> QED BY <1>1, InvAlways, PTL

\* exchange.ts:80: a row is carried out at most once and only by the worker it
\* was given to, and every run of a handler inserts at most one row.
THEOREM CarriedOutOnce == Spec => []OnceForEachRun
<1>1. Inv => OnceForEachRun
  <2> SUFFICES ASSUME Inv PROVE OnceForEachRun
    OBVIOUS
  <2>1. \A i \in Rows : effects[i] <= 1 /\ (effects[i] = 1 => rows[i].worker # None)
    BY DEF Inv, Once
  <2>2. \A j \in Jobs : Cardinality(RowsOf(j)) <= jobs[j].runs /\ jobs[j].runs <= 2
    <3>1. \A j \in Jobs : jobs[j].runs \in 0..2 /\ Cardinality(RowsOf(j)) \in Nat
      BY RowCount DEF Inv, Types, JobsOK, JobType
    <3>2. Counted
      BY DEF Inv
    <3> HIDE DEF RowsOf
    <3> QED BY <3>1, <3>2 DEF Counted
  <2> QED BY <2>1, <2>2 DEF OnceForEachRun, RowsOf
<1> QED BY <1>1, InvAlways, PTL

\* exchange-job-handlers.ts:228: what a job reports as succeeded was carried
\* out in its own row, and a collection that succeeded left its facts.
THEOREM EarnedSuccess == Spec => []SuccessIsEarned
<1>1. Inv => SuccessIsEarned
  BY DEF Inv, Informed, Earned, Collects, Closed, SuccessIsEarned
<1> QED BY <1>1, InvAlways, PTL

\* exchange.ts:60-64: what a job was told of its row is never changed, and an
\* operation it was told to have failed is not carried out later.
THEOREM ToldForever == Spec => ToldIsFinal
<1> DEFINE Stays == \A j \in Jobs : jobs[j].result \in Closed =>
                       LET i == jobs[j].row
                       IN  rows[i].status = jobs[j].result /\ rows'[i].status = rows[i].status /\ effects'[i] = effects[i]
<1>1. Inv /\ [Next]_vars => [Stays]_vars
  <2> SUFFICES ASSUME Inv, Next, NEW j \in Jobs, jobs[j].result \in Closed
               PROVE  LET i == jobs[j].row
                      IN  rows[i].status = jobs[j].result /\ rows'[i].status = rows[i].status /\ effects'[i] = effects[i]
    OBVIOUS
  <2> DEFINE i == jobs[j].row
  <2>1. i \in Rows /\ rows[i].status = jobs[j].result /\ \A w \in Workers : workers[w].row # i
    BY DEF Inv, Informed
  <2>2. rows \in [Rows -> RowType] /\ effects \in [Rows -> Nat]
    BY DEF Inv, Types, RowsOK, RestOK
  <2>3. rows'[i].status = rows[i].status
    <3>1. ASSUME NEW x \in Jobs, HandlerStep(x) \/ EnqueueFails(x) \/ WaitThrows(x) \/ Stalled(x)
          PROVE  rows'[i].status = rows[i].status
      <4>1. UNCHANGED rows \/ \E y \in Rows : Insert(x, y)
        BY <3>1 DEF HandlerStep, Run, Invalid, Enqueue, Told, GiveUp, EnqueueFails, WaitThrows, Stalled
      <4> QED BY <2>1, <2>2, <4>1 DEF Insert, First, Closed
    <3>2. ASSUME NEW w \in Workers, WorkerStep(w) \/ RequestFails(w) PROVE rows'[i].status = rows[i].status
      <4>1. CASE Poll(w)
        BY <2>1, <4>1 DEF Poll, Expire, Stale, Held, Closed
      <4>2. CASE Claim(w)
        BY <2>1, <2>2, <4>2 DEF Claim, Closed
      <4>3. CASE SetRunning(w) \/ AppendLog(w) \/ FinishRow(w)
        BY <2>1, <2>2, <4>3 DEF SetRunning, AppendLog, FinishRow
      <4>4. CASE Operate(w) \/ FinishRead(w) \/ FinishFacts(w) \/ RequestFails(w)
        BY <4>4 DEF Operate, FinishRead, FinishFacts, RequestFails
      <4> QED BY <3>2, <4>1, <4>2, <4>3, <4>4 DEF WorkerStep, ApiStep
    <3>3. ASSUME NEW x \in Rows, GrowSilent(x) PROVE rows'[i].status = rows[i].status
      BY <2>1, <2>2, <3>3 DEF GrowSilent, RowType
    <3>4. CASE Crash
      BY <3>4 DEF Crash
    <3> QED BY <3>1, <3>2, <3>3, <3>4 DEF Next
  <2>4. effects'[i] = effects[i]
    <3>1. ASSUME NEW w \in Workers, Operate(w) PROVE effects'[i] = effects[i]
      BY <2>1, <2>2, <3>1 DEF Operate
    <3>2. (\E w \in Workers : Operate(w)) \/ UNCHANGED effects
      BY DEF Next, HandlerStep, Run, Invalid, Enqueue, Told, GiveUp, EnqueueFails, WaitThrows, Stalled, WorkerStep, ApiStep,
             Poll, Claim, SetRunning, AppendLog, FinishRead, FinishFacts, FinishRow, RequestFails, GrowSilent, Crash
    <3> QED BY <3>1, <3>2
  <2> QED BY <2>1, <2>3, <2>4
<1> QED BY <1>1, InvAlways, PTL DEF Spec, ToldIsFinal
=============================================================================
