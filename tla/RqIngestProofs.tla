--------------------------- MODULE RqIngestProofs ---------------------------
(* Theorems about RqIngest for every set of jobs, repositories, replicas, workers
   and deletes, and for every bound on failures, restarts, crashes and retries. *)
EXTENDS RqIngest, SequenceTheorems, TLAPS

-----------------------------------------------------------------------------
(* The table.  A row written by upsert_job is the given one; the other rows stay. *)
LEMMA UpsertRow ==
  ASSUME NEW t \in Table, NEW j \in Job, NEW s \in Status, NEW r \in Repo \cup {NoRepo}
  PROVE  /\ upsert_job(t, j, s, r) \in Table
         /\ upsert_job(t, j, s, r)[j] = [status |-> s, repo |-> r]
         /\ \A k \in Job \ {j} : upsert_job(t, j, s, r)[k] = t[k]
  BY DEF upsert_job, Table

(* The two rows a handler writes. *)
LEMMA HandlerRow ==
  ASSUME TableTypes, HandlerTypes, NEW j \in Job
  PROVE  /\ upsert_job(rows, j, "queued", repo[j]) \in Table
         /\ upsert_job(rows, j, "failed", repo[j]) \in Table
  <1>1. rows \in Table /\ repo[j] \in Repo \cup {NoRepo}
    BY DEF TableTypes, HandlerTypes
  <1>2. "queued" \in Status /\ "failed" \in Status
    BY DEF Status, Active, Terminal
  <1> QED BY <1>1, <1>2, UpsertRow

(* The row a worker writes. *)
LEMMA WorkerRow ==
  ASSUME TableTypes, WorkerTypes, NEW w \in Worker, wjob[w] \in Job, NEW s \in Status
  PROVE  upsert_job(rows, wjob[w], s, info[w].repo) \in Table
  <1>1. rows \in Table /\ info[w].repo \in Repo \cup {NoRepo}
    BY DEF TableTypes, WorkerTypes
  <1> QED BY <1>1, UpsertRow

(* Marking rows of active jobs as failed leaves a table. *)
LEMMA MarkedRows ==
  ASSUME NEW t \in Table, NEW S \in SUBSET {j \in Job : t[j].status \in Active}
  PROVE  [j \in Job |-> IF j \in S THEN [t[j] EXCEPT !.status = "failed"] ELSE t[j]] \in Table
  <1>1. \A j \in S : t[j] \in [status : Status, repo : Repo \cup {NoRepo}]
    BY DEF Table, Absent, Active
  <1>2. \A j \in S : [t[j] EXCEPT !.status = "failed"] \in [status : Status, repo : Repo \cup {NoRepo}]
    BY <1>1 DEF Status, Terminal
  <1> QED BY <1>2 DEF Table

(* So does the recovery. *)
LEMMA RecoveredTable ==
  ASSUME NEW t \in Table
  PROVE  recover_interrupted_jobs(t) \in Table
  <1>1. recover_interrupted_jobs(t)
          = [j \in Job |-> IF j \in {k \in Job : t[k].status \in Active}
                           THEN [t[j] EXCEPT !.status = "failed"] ELSE t[j]]
    BY DEF recover_interrupted_jobs
  <1> QED BY <1>1, MarkedRows

-----------------------------------------------------------------------------
(* Types: what each building block of the actions preserves. *)
LEMMA WriteType ==
  ASSUME TableTypes, NEW t \in Table, Committed(t) \/ Raised(t), UNCHANGED <<catalog, open>>
  PROVE  TableTypes'
  BY DEF TableTypes, Committed, Raised

(* A call that works, or one that fails within its bound. *)
LEMMA FaultType ==
  ASSUME BoundTypes, Ok \/ Fault, UNCHANGED OtherBounds
  PROVE  BoundTypes'
  BY RqAssumption DEF BoundTypes, Ok, Fault, OtherBounds

(* A handler answers its request. *)
LEMMA AnswerType ==
  ASSUME HandlerTypes, NEW j \in Job, NEW verdict \in HandlerPc, Answer(j, verdict)
  PROVE  HandlerTypes'
  BY DEF HandlerTypes, Answer

(* A handler goes on to another step. *)
LEMMA StepType ==
  ASSUME HandlerTypes, NEW j \in Job, NEW step \in HandlerPc, Step(j, step)
  PROVE  HandlerTypes'
  BY DEF HandlerTypes, Step, locks

(* A job is put in the queue of RQ. *)
LEMMA PushType ==
  ASSUME QueueTypes, NEW j \in Job, Push(j), UNCHANGED retries
  PROVE  QueueTypes'
  <1>1. Append(queue, j) \in Seq(Job)
    BY AppendProperties DEF QueueTypes
  <1> QED BY <1>1 DEF Push, QueueTypes, EntryStatus

(* A task raises: RQ retries it later or gives it up. *)
LEMMA RaiseType ==
  ASSUME QueueTypes, NEW j \in Job, Raise(j)
  PROVE  QueueTypes'
  <1>1. entry' \in [Job -> EntryStatus] /\ queue' \in Seq(Job)
    BY DEF Raise, QueueTypes, EntryStatus
  <1>2. retries' \in [Job -> 0..RetryMax]
    BY RqAssumption DEF Raise, QueueTypes
  <1> QED BY <1>1, <1>2 DEF QueueTypes

(* A worker lays its job down. *)
LEMMA LeaveType ==
  ASSUME WorkerTypes, Carrying, NEW w \in Worker, Leave(w)
  PROVE  WorkerTypes' /\ Carrying'
  BY DEF Leave, WorkerTypes, WorkerPc, NoInfo, JobInfo, Carrying

(* What a step does not touch keeps its type. *)
LEMMA KeptTypes ==
  /\ TableTypes /\ UNCHANGED <<tables, open>> => TableTypes'
  /\ HandlerTypes /\ UNCHANGED <<locks, handler>> => HandlerTypes'
  /\ QueueTypes /\ UNCHANGED rq => QueueTypes'
  /\ WorkerTypes /\ UNCHANGED worker => WorkerTypes'
  /\ Carrying /\ UNCHANGED worker => Carrying'
  /\ DeleteTypes /\ UNCHANGED deletes => DeleteTypes'
  /\ BoundTypes /\ UNCHANGED bounds => BoundTypes'
  BY DEF TableTypes, tables, HandlerTypes, locks, handler, QueueTypes, rq, WorkerTypes,
         worker, Carrying, DeleteTypes, deletes, BoundTypes, bounds

-----------------------------------------------------------------------------
(* Types: the initial state, and every action. *)
LEMMA InitType ==
  ASSUME Init
  PROVE  RqTypeOK /\ Carrying
  <1>1. TableTypes
    BY DEF Init, TableTypes, EmptyTable, Table
  <1>2. HandlerTypes /\ DeleteTypes /\ BoundTypes
    BY RqAssumption DEF Init, HandlerTypes, DeleteTypes, BoundTypes, HandlerPc
  <1>3. QueueTypes
    BY RqAssumption DEF Init, QueueTypes, EntryStatus
  <1>4. WorkerTypes /\ Carrying
    BY DEF Init, WorkerTypes, WorkerPc, NoInfo, JobInfo, Carrying
  <1> QED BY <1>1, <1>2, <1>3, <1>4 DEF RqTypeOK

(* A step of a handler. *)
LEMMA CreateType ==
  ASSUME RqTypeOK, Carrying, NEW j \in Job, CreateStep(j)
  PROVE  RqTypeOK' /\ Carrying'
  <1> USE DEF RqTypeOK
  <1>1. WorkerTypes' /\ Carrying' /\ DeleteTypes'
    <2>1. UNCHANGED worker /\ UNCHANGED deletes
      BY DEF CreateStep, TakeRedisLock, Check, Insert, Enqueue, Note, GiveUp
    <2> QED BY <2>1, KeptTypes
  <1>2. BoundTypes'
    <2>1. (Ok \/ Fault) /\ UNCHANGED OtherBounds
      BY DEF CreateStep, TakeRedisLock, Check, Insert, Enqueue, Note, GiveUp, Committed, Raised
    <2> QED BY <2>1, FaultType
  <1>3. TableTypes'
    <2>1. CASE TakeRedisLock(j) \/ Check(j) \/ Enqueue(j)
      BY <2>1, KeptTypes DEF TakeRedisLock, Check, Enqueue
    <2>2. CASE Insert(j) \/ Note(j) \/ GiveUp(j)
      BY <2>2, HandlerRow, WriteType DEF Insert, Note, GiveUp
    <2> QED BY <2>1, <2>2 DEF CreateStep
  <1>4. HandlerTypes'
    <2>0. {"check", "insert", "enqueue", "note", "unqueued", "accepted", "conflict", "error"}
            \subseteq HandlerPc
      BY DEF HandlerPc, HandlerBusy
    <2>1. CASE TakeRedisLock(j)
      <3>1. CASE redisLock' = [redisLock EXCEPT ![repo[j]] = j] /\ UNCHANGED <<apiLock, api, repo>>
                 /\ hpc' = [hpc EXCEPT ![j] = "check"]
        BY <2>0, <3>1 DEF HandlerTypes
      <3> QED BY <2>0, <2>1, <3>1, AnswerType DEF TakeRedisLock
    <2>2. CASE Check(j) \/ Insert(j) \/ Enqueue(j) \/ Note(j) \/ GiveUp(j)
      BY <2>0, <2>2, AnswerType, StepType DEF Check, Insert, Enqueue, Note, GiveUp
    <2> QED BY <2>1, <2>2 DEF CreateStep
  <1>5. QueueTypes'
    <2>1. CASE Enqueue(j)
      BY <2>1, PushType DEF Enqueue, QueueTypes
    <2>2. CASE TakeRedisLock(j) \/ Check(j) \/ Insert(j) \/ Note(j) \/ GiveUp(j)
      BY <2>2, KeptTypes DEF TakeRedisLock, Check, Insert, Note, GiveUp
    <2> QED BY <2>1, <2>2 DEF CreateStep
  <1> QED BY <1>1, <1>2, <1>3, <1>4, <1>5

(* A step of a worker: it saves what it carries, or leaves after an exception. *)
LEMMA DequeueType ==
  ASSUME RqTypeOK, Carrying, NEW w \in Worker, Dequeue(w)
  PROVE  RqTypeOK' /\ Carrying'
  <1> USE DEF RqTypeOK
  <1>1. Head(queue) \in Job /\ Tail(queue) \in Seq(Job)
    BY HeadTailProperties DEF Dequeue, QueueTypes
  <1>2. QueueTypes'
    BY <1>1 DEF Dequeue, QueueTypes, EntryStatus
  <1>3. WorkerTypes' /\ Carrying'
    BY <1>1 DEF Dequeue, WorkerTypes, WorkerPc, Carrying
  <1>4. TableTypes' /\ HandlerTypes' /\ DeleteTypes' /\ BoundTypes'
    BY KeptTypes DEF Dequeue
  <1> QED BY <1>2, <1>3, <1>4

(* The worker reads the row of its job, or makes one up. *)
LEMMA LoadType ==
  ASSUME RqTypeOK, Carrying, NEW w \in Worker, Load(w)
  PROVE  RqTypeOK' /\ Carrying'
  <1> USE DEF RqTypeOK
  <1> DEFINE found == IF rows[wjob[w]] = Absent
                      THEN upsert_job(rows, wjob[w], "queued", NoRepo) ELSE rows
  <1>1. wjob[w] \in Job /\ rows \in Table /\ "queued" \in Status
    BY DEF Load, Carrying, TableTypes, Status, Active
  <1>2. /\ found \in Table /\ found[wjob[w]].status \in Status
        /\ found[wjob[w]].repo \in Repo \cup {NoRepo}
    <2>1. CASE rows[wjob[w]] = Absent
      <3>1. found = upsert_job(rows, wjob[w], "queued", NoRepo)
        BY <2>1
      <3>2. found \in Table /\ found[wjob[w]] = [status |-> "queued", repo |-> NoRepo]
        BY <1>1, <3>1, UpsertRow
      <3> QED BY <1>1, <3>2
    <2>2. CASE rows[wjob[w]] # Absent
      BY <1>1, <2>2 DEF Table
    <2> QED BY <2>1, <2>2
  <1>3. TableTypes' /\ BoundTypes'
    BY <1>2, WriteType, FaultType DEF Load, Committed, Raised
  <1>4. HandlerTypes' /\ DeleteTypes'
    BY KeptTypes DEF Load
  <1>5. QueueTypes'
    BY <1>1, RaiseType, KeptTypes DEF Load
  <1>6. WorkerTypes' /\ Carrying'
    <2>1. CASE /\ WStep(w, "begin")
               /\ info' = [info EXCEPT ![w] =
                              JobInfo(found[wjob[w]].status, found[wjob[w]].repo, FALSE)]
      BY <1>1, <1>2, <2>1 DEF WStep, WorkerTypes, WorkerPc, JobInfo, Carrying
    <2>2. CASE Leave(w)
      BY <2>2, LeaveType
    <2> QED BY <2>1, <2>2 DEF Load
  <1> QED BY <1>3, <1>4, <1>5, <1>6

(* The worker marks its job as running. *)
LEMMA BeginType ==
  ASSUME RqTypeOK, Carrying, NEW w \in Worker, Begin(w)
  PROVE  RqTypeOK' /\ Carrying'
  <1> USE DEF RqTypeOK
  <1>1. wjob[w] \in Job /\ "running" \in Status
    BY DEF Begin, Carrying, Status, Active
  <1>2. upsert_job(rows, wjob[w], "running", info[w].repo) \in Table
    BY <1>1, WorkerRow
  <1>3. TableTypes' /\ BoundTypes'
    BY <1>2, WriteType, FaultType DEF Begin, Committed, Raised
  <1>4. HandlerTypes' /\ DeleteTypes'
    BY KeptTypes DEF Begin
  <1>5. QueueTypes'
    BY <1>1, RaiseType, KeptTypes DEF Begin
  <1>6. WorkerTypes' /\ Carrying'
    <2>1. CASE info' = [info EXCEPT ![w] = JobInfo("running", info[w].repo, FALSE)] /\ WStep(w, "work")
      BY <1>1, <2>1 DEF WStep, WorkerTypes, WorkerPc, JobInfo, Carrying
    <2>2. CASE Leave(w)
      BY <2>2, LeaveType
    <2> QED BY <2>1, <2>2 DEF Begin
  <1> QED BY <1>3, <1>4, <1>5, <1>6

(* The worker notes that its ingest has failed. *)
LEMMA FailsType ==
  ASSUME WorkerTypes, Carrying, NEW w \in Worker, wpc[w] = "work", Fails(w)
  PROVE  WorkerTypes' /\ Carrying'
  <1>1. "failed" \in Status
    BY DEF Status, Terminal
  <1> QED BY <1>1 DEF Fails, WStep, WorkerTypes, WorkerPc, JobInfo, Carrying

(* The worker writes a log line with the whole row. *)
LEMMA LogType ==
  ASSUME RqTypeOK, Carrying, NEW w \in Worker, Log(w)
  PROVE  RqTypeOK' /\ Carrying'
  <1> USE DEF RqTypeOK
  <1>1. wjob[w] \in Job /\ info[w].status \in Status
    BY DEF Log, Carrying
  <1>2. Saved(w) \in Table
    BY <1>1, WorkerRow DEF Saved
  <1>3. TableTypes' /\ BoundTypes'
    BY <1>2, WriteType, FaultType DEF Log, Committed, Raised
  <1>4. HandlerTypes' /\ DeleteTypes' /\ QueueTypes'
    BY KeptTypes DEF Log
  <1>5. WorkerTypes' /\ Carrying'
    BY FailsType, KeptTypes DEF Log
  <1> QED BY <1>3, <1>4, <1>5

(* The ingest is over, and the repository in the catalog or not. *)
LEMMA IngestEndsType ==
  ASSUME RqTypeOK, Carrying, Asked, NEW w \in Worker, IngestEnds(w)
  PROVE  RqTypeOK' /\ Carrying'
  <1> USE DEF RqTypeOK
  <1>1. repo[wjob[w]] \in Repo
    BY DEF IngestEnds, Carrying, Asked
  <1>2. TableTypes'
    BY <1>1 DEF IngestEnds, TableTypes
  <1>3. HandlerTypes' /\ DeleteTypes' /\ QueueTypes' /\ BoundTypes'
    BY KeptTypes DEF IngestEnds
  <1>4. WorkerTypes' /\ Carrying'
    <2>1. CASE Fails(w)
      BY <2>1, FailsType DEF IngestEnds
    <2>2. ASSUME NEW status \in Terminal, WStep(w, "final"),
                 info' = [info EXCEPT ![w] = JobInfo(status, repo[wjob[w]], FALSE)]
          PROVE  WorkerTypes' /\ Carrying'
      <3>1. status \in Status
        BY DEF Status
      <3> QED BY <1>1, <2>2, <3>1 DEF IngestEnds, WStep, WorkerTypes, WorkerPc, JobInfo, Carrying
    <2> QED BY <2>1, <2>2 DEF IngestEnds
  <1> QED BY <1>2, <1>3, <1>4

(* The worker publishes the end of its job. *)
LEMMA PublishType ==
  ASSUME RqTypeOK, Carrying, NEW w \in Worker, Publish(w)
  PROVE  RqTypeOK' /\ Carrying'
  <1> USE DEF RqTypeOK
  <1>1. wjob[w] \in Job /\ info[w].status \in Status
    BY DEF Publish, Carrying
  <1>2. Saved(w) \in Table
    BY <1>1, WorkerRow DEF Saved
  <1>3. TableTypes' /\ BoundTypes'
    BY <1>2, WriteType, FaultType DEF Publish, Committed, Raised
  <1>4. HandlerTypes' /\ DeleteTypes'
    BY KeptTypes DEF Publish
  <1>5. QueueTypes'
    BY <1>1, RaiseType, KeptTypes DEF Publish
  <1>6. WorkerTypes' /\ Carrying'
    <2>1. CASE WStep(w, IF wpc[w] = "final" THEN "final2" ELSE "return") /\ UNCHANGED info
      BY <1>1, <2>1 DEF WStep, WorkerTypes, WorkerPc, Carrying
    <2>2. CASE Leave(w)
      BY <2>2, LeaveType
    <2> QED BY <2>1, <2>2 DEF Publish
  <1> QED BY <1>3, <1>4, <1>5, <1>6

(* The task returns, or raises. *)
LEMMA ReturnType ==
  ASSUME RqTypeOK, Carrying, NEW w \in Worker, Return(w)
  PROVE  RqTypeOK' /\ Carrying'
  <1> USE DEF RqTypeOK
  <1>1. wjob[w] \in Job
    BY DEF Return, Carrying
  <1>2. QueueTypes'
    <2>1. CASE Raise(wjob[w])
      BY <1>1, <2>1, RaiseType
    <2>2. CASE entry' = [entry EXCEPT ![wjob[w]] = "finished"] /\ UNCHANGED <<queue, retries>>
      BY <1>1, <2>2 DEF QueueTypes, EntryStatus
    <2> QED BY <2>1, <2>2 DEF Return
  <1>3. WorkerTypes' /\ Carrying'
    BY LeaveType DEF Return
  <1>4. TableTypes' /\ HandlerTypes' /\ DeleteTypes' /\ BoundTypes'
    BY KeptTypes DEF Return
  <1> QED BY <1>2, <1>3, <1>4

(* A worker process that died is started again. *)
LEMMA WorkerRestartType ==
  ASSUME RqTypeOK, Carrying, NEW w \in Worker, WorkerRestart(w)
  PROVE  RqTypeOK' /\ Carrying'
  <1> USE DEF RqTypeOK
  <1>1. WorkerTypes' /\ Carrying'
    BY LeaveType DEF WorkerRestart
  <1>2. BoundTypes'
    BY RqAssumption DEF WorkerRestart, BoundTypes
  <1>3. TableTypes' /\ HandlerTypes' /\ DeleteTypes' /\ QueueTypes'
    BY KeptTypes DEF WorkerRestart
  <1> QED BY <1>1, <1>2, <1>3

(* The other steps: opening a store, taking a lock, a delete, a restart, a lock that
   expires, a job that nobody works on. *)
LEMMA OtherType ==
  ASSUME RqTypeOK, Carrying,
         \/ \E a \in Api : OpenStore(a) \/ ApiRestart(a)
         \/ \E j \in Job, a \in Api, r \in Repo : TakeApiLock(j, a, r)
         \/ \E j \in Job : Abandoned(j)
         \/ \E r \in Repo : Expire(r)
         \/ \E d \in Deleter : (\E r \in Repo : DeleteDecide(d, r)) \/ DeleteDrop(d)
  PROVE  RqTypeOK' /\ Carrying'
  <1> USE DEF RqTypeOK
  <1>1. ASSUME NEW a \in Api, OpenStore(a)
        PROVE  RqTypeOK' /\ Carrying'
    <2>1. TableTypes'
      BY <1>1, RecoveredTable DEF OpenStore, TableTypes
    <2> QED BY <1>1, <2>1, KeptTypes DEF OpenStore
  <1>2. ASSUME NEW a \in Api, ApiRestart(a)
        PROVE  RqTypeOK' /\ Carrying'
    <2>1. TableTypes' /\ HandlerTypes'
      BY <1>2 DEF ApiRestart, tables, TableTypes, HandlerTypes, HandlerPc
    <2>2. BoundTypes'
      BY <1>2, RqAssumption DEF ApiRestart, BoundTypes
    <2> QED BY <1>2, <2>1, <2>2, KeptTypes DEF ApiRestart
  <1>3. ASSUME NEW j \in Job, NEW a \in Api, NEW r \in Repo, TakeApiLock(j, a, r)
        PROVE  RqTypeOK' /\ Carrying'
    <2>1. HandlerTypes'
      BY <1>3 DEF TakeApiLock, HandlerTypes, HandlerPc, HandlerBusy
    <2> QED BY <1>3, <2>1, KeptTypes DEF TakeApiLock
  <1>4. ASSUME NEW j \in Job, Abandoned(j)
        PROVE  RqTypeOK' /\ Carrying'
    BY <1>4, RaiseType, KeptTypes DEF Abandoned
  <1>5. ASSUME NEW r \in Repo, Expire(r)
        PROVE  RqTypeOK' /\ Carrying'
    <2>1. HandlerTypes'
      BY <1>5 DEF Expire, handler, HandlerTypes
    <2>2. BoundTypes'
      BY <1>5, RqAssumption DEF Expire, BoundTypes
    <2> QED BY <1>5, <2>1, <2>2, KeptTypes DEF Expire
  <1>6. ASSUME NEW d \in Deleter, NEW r \in Repo, DeleteDecide(d, r)
        PROVE  RqTypeOK' /\ Carrying'
    <2> DEFINE dead == {j \in list_active_job_ids(rows, r) : ~IsRqJobActive(<<"job", j>>)}
    <2>1. TableTypes'
      <3>1. dead \in SUBSET {j \in Job : rows[j].status \in Active}
        BY DEF list_active_job_ids
      <3>2. [j \in Job |-> IF j \in dead THEN [rows[j] EXCEPT !.status = "failed"] ELSE rows[j]]
              \in Table
        BY <3>1, MarkedRows DEF TableTypes
      <3>3. rows' = rows
            \/ rows' = [j \in Job |-> IF j \in dead THEN [rows[j] EXCEPT !.status = "failed"]
                                                    ELSE rows[j]]
        BY <1>6 DEF DeleteDecide
      <3> QED BY <1>6, <3>2, <3>3 DEF DeleteDecide, TableTypes
    <2>2. DeleteTypes'
      BY <1>6 DEF DeleteDecide, DeleteTypes
    <2>3. BoundTypes'
      BY <1>6, FaultType DEF DeleteDecide
    <2> QED BY <1>6, <2>1, <2>2, <2>3, KeptTypes DEF DeleteDecide
  <1>7. ASSUME NEW d \in Deleter, DeleteDrop(d)
        PROVE  RqTypeOK' /\ Carrying'
    <2>1. TableTypes'
      BY <1>7 DEF DeleteDrop, delete_repo_jobs, Table, TableTypes
    <2>2. DeleteTypes'
      BY <1>7 DEF DeleteDrop, DeleteTypes
    <2> QED BY <1>7, <2>1, <2>2, KeptTypes DEF DeleteDrop
  <1> QED BY <1>1, <1>2, <1>3, <1>4, <1>5, <1>6, <1>7

(* So every step keeps the types, once the repository of a finished ingest is known. *)
LEMMA StepTypes ==
  ASSUME RqTypeOK, Carrying, Asked, [Next]_vars
  PROVE  RqTypeOK' /\ Carrying'
  <1>1. CASE UNCHANGED vars
    BY <1>1, KeptTypes DEF vars, tables, locks, handler, rq, worker, deletes, bounds, RqTypeOK
  <1>2. CASE \E j \in Job : CreateStep(j)
    BY <1>2, CreateType
  <1>3. ASSUME NEW w \in Worker, TaskStep(w) \/ Log(w) \/ WorkerRestart(w)
        PROVE  RqTypeOK' /\ Carrying'
    BY <1>3, DequeueType, LoadType, BeginType, IngestEndsType, PublishType, ReturnType,
       LogType, WorkerRestartType DEF TaskStep
  <1> QED BY <1>1, <1>2, <1>3, OtherType DEF Next

(* Workers, RQ and deletes do not touch the requests. *)
LEMMA HandlerKept ==
  ASSUME \/ \E k \in Job : Abandoned(k)
         \/ \E r \in Repo : Expire(r)
         \/ \E w \in Worker : TaskStep(w) \/ Log(w) \/ WorkerRestart(w)
         \/ \E d \in Deleter : (\E r \in Repo : DeleteDecide(d, r)) \/ DeleteDrop(d)
  PROVE  UNCHANGED handler
  <1>1. ASSUME NEW w \in Worker, TaskStep(w) \/ Log(w) \/ WorkerRestart(w)
        PROVE  UNCHANGED handler
    BY <1>1 DEF TaskStep, Dequeue, Load, Begin, IngestEnds, Publish, Return, Log, WorkerRestart
  <1> QED BY <1>1 DEF Abandoned, Expire, DeleteDecide, DeleteDrop

(* A repository once given to a job stays; so Asked outlives every step. *)
LEMMA RepoStays ==
  ASSUME HandlerTypes, [Next]_vars, NEW j \in Job, repo[j] \in Repo
  PROVE  repo'[j] \in Repo
  <1>1. ASSUME NEW k \in Job, NEW a \in Api, NEW r \in Repo, TakeApiLock(k, a, r)
        PROVE  repo'[j] \in Repo
    BY <1>1 DEF TakeApiLock, HandlerTypes
  <1>2. CASE \E k \in Job : CreateStep(k)
    BY <1>2 DEF CreateStep, TakeRedisLock, Check, Insert, Enqueue, Note, GiveUp, Answer, Step
  <1>3. CASE UNCHANGED vars
    BY <1>3 DEF vars
  <1>4. CASE \E a \in Api : OpenStore(a) \/ ApiRestart(a)
    BY <1>4 DEF OpenStore, ApiRestart, handler
  <1>5. CASE \/ \E k \in Job : Abandoned(k)
             \/ \E r \in Repo : Expire(r)
             \/ \E w \in Worker : TaskStep(w) \/ Log(w) \/ WorkerRestart(w)
             \/ \E d \in Deleter : (\E r \in Repo : DeleteDecide(d, r)) \/ DeleteDrop(d)
    <2>1. UNCHANGED handler
      BY <1>5, HandlerKept
    <2> QED BY <2>1 DEF handler
  <1> QED BY <1>1, <1>2, <1>3, <1>4, <1>5 DEF Next

(* A handler at work has a request, and with it a repository. *)
LEMMA HandlersAsked ==
  ASSUME HandlerTypes, Asked, [Next]_vars, NEW j \in Job, hpc'[j] # "idle"
  PROVE  repo'[j] \in Repo
  <1> DEFINE Taken == \E a \in Api, r \in Repo : TakeApiLock(j, a, r)
  <1>1. CASE Taken
    BY <1>1 DEF TakeApiLock, HandlerTypes
  <1>2. CASE ~Taken
    <2>1. hpc[j] # "idle"
      <3>1. CASE UNCHANGED vars
        BY <3>1 DEF vars
      <3>2. CASE \E a \in Api : OpenStore(a) \/ ApiRestart(a)
        BY <3>2 DEF OpenStore, ApiRestart, handler, HandlerTypes, HandlerBusy
      <3>3. ASSUME NEW k \in Job, CreateStep(k)
            PROVE  hpc[j] # "idle"
        BY <3>3 DEF CreateStep, TakeRedisLock, Check, Insert, Enqueue, Note, GiveUp,
                    Answer, Step, HandlerTypes
      <3>4. ASSUME NEW k \in Job, NEW a \in Api, NEW r \in Repo, TakeApiLock(k, a, r)
            PROVE  hpc[j] # "idle"
        BY <1>2, <3>4 DEF TakeApiLock, HandlerTypes
      <3>5. CASE UNCHANGED handler
        BY <3>5 DEF handler
      <3> QED BY <3>1, <3>2, <3>3, <3>4, <3>5, HandlerKept DEF Next
    <2> QED BY <2>1, RepoStays DEF Asked
  <1> QED BY <1>1, <1>2

(* The queue changes when a handler pushes and when a worker takes. *)
LEMMA QueueMoves ==
  ASSUME [Next]_vars
  PROVE  \/ \E j \in Job : CreateStep(j) /\ Push(j)
         \/ \E w \in Worker : Dequeue(w)
         \/ UNCHANGED queue
  <1>1. ASSUME NEW j \in Job, CreateStep(j)
        PROVE  Push(j) \/ UNCHANGED queue
    BY <1>1 DEF CreateStep, TakeRedisLock, Check, Insert, Enqueue, Note, GiveUp, rq
  <1>2. ASSUME NEW w \in Worker, TaskStep(w) \/ Log(w) \/ WorkerRestart(w)
        PROVE  Dequeue(w) \/ UNCHANGED queue
    BY <1>2 DEF TaskStep, Load, Begin, IngestEnds, Publish, Return, Log, WorkerRestart, Raise, rq
  <1>3. CASE UNCHANGED vars
    BY <1>3 DEF vars
  <1>4. CASE \/ \E a \in Api : OpenStore(a) \/ ApiRestart(a)
             \/ \E j \in Job, a \in Api, r \in Repo : TakeApiLock(j, a, r)
             \/ \E j \in Job : Abandoned(j)
             \/ \E r \in Repo : Expire(r)
             \/ \E d \in Deleter : (\E r \in Repo : DeleteDecide(d, r)) \/ DeleteDrop(d)
    BY <1>4 DEF OpenStore, ApiRestart, TakeApiLock, Abandoned, Raise, Expire, DeleteDecide,
                DeleteDrop, rq
  <1> QED BY <1>1, <1>2, <1>3, <1>4 DEF Next

(* A worker gets its job from the queue. *)
LEMMA JobsTaken ==
  ASSUME RqTypeOK, [Next]_vars, NEW v \in Worker, wjob'[v] \in Job
  PROVE  wjob'[v] = wjob[v] \/ Dequeue(v)
  <1>1. ASSUME NEW w \in Worker, Leave(w)
        PROVE  wjob'[v] = wjob[v]
    BY <1>1, RqAssumption DEF Leave, RqTypeOK, WorkerTypes
  <1>2. ASSUME NEW w \in Worker, Dequeue(w)
        PROVE  wjob'[v] = wjob[v] \/ Dequeue(v)
    BY <1>2 DEF Dequeue, RqTypeOK, WorkerTypes
  <1>3. ASSUME NEW w \in Worker, TaskStep(w) \/ Log(w) \/ WorkerRestart(w)
        PROVE  UNCHANGED wjob \/ Leave(w) \/ Dequeue(w)
    BY <1>3 DEF TaskStep, Load, Begin, IngestEnds, Publish, Return, Log, WorkerRestart,
                Fails, WStep, worker
  <1>4. CASE UNCHANGED vars
    BY <1>4 DEF vars
  <1>5. CASE \/ \E a \in Api : OpenStore(a) \/ ApiRestart(a)
             \/ \E j \in Job, a \in Api, r \in Repo : TakeApiLock(j, a, r)
             \/ \E j \in Job : CreateStep(j) \/ Abandoned(j)
             \/ \E r \in Repo : Expire(r)
             \/ \E d \in Deleter : (\E r \in Repo : DeleteDecide(d, r)) \/ DeleteDrop(d)
    <2>1. UNCHANGED worker
      BY <1>5 DEF OpenStore, ApiRestart, TakeApiLock, CreateStep, TakeRedisLock, Check, Insert,
         Enqueue, Note, GiveUp, Abandoned, Expire, DeleteDecide, DeleteDrop
    <2> QED BY <2>1 DEF worker
  <1> QED BY <1>1, <1>2, <1>3, <1>4, <1>5 DEF Next

(* Whoever is asked for a job still knows its repository. *)
LEMMA StepAsked ==
  ASSUME RqTypeOK, Carrying, Asked, [Next]_vars
  PROVE  Asked'
  <1> USE DEF RqTypeOK
  <1>1. \A j \in Job : repo[j] \in Repo => repo'[j] \in Repo
    BY RepoStays
  <1>2. \A i \in 1..Len(queue') : repo'[queue'[i]] \in Repo
    <2>1. ASSUME NEW j \in Job, CreateStep(j), Push(j)
          PROVE  \A i \in 1..Len(queue') : repo'[queue'[i]] \in Repo
      <3>1. hpc[j] # "idle"
        BY <2>1 DEF CreateStep, TakeRedisLock, Check, Insert, Enqueue, Note, GiveUp
      <3>2. \A i \in 1..Len(queue') : queue'[i] = j \/ (i \in 1..Len(queue) /\ queue'[i] = queue[i])
        BY <2>1, AppendProperties DEF Push, QueueTypes
      <3>3. \A i \in 1..Len(queue) : queue[i] \in Job
        BY ElementOfSeq DEF QueueTypes
      <3> QED BY <1>1, <3>1, <3>2, <3>3 DEF Asked
    <2>2. ASSUME NEW w \in Worker, Dequeue(w)
          PROVE  \A i \in 1..Len(queue') : repo'[queue'[i]] \in Repo
      <3>1. \A i \in 1..Len(queue') : i+1 \in 1..Len(queue) /\ queue'[i] = queue[i+1]
        BY <2>2, HeadTailProperties, LenProperties DEF Dequeue, QueueTypes
      <3>2. \A i \in 1..Len(queue) : queue[i] \in Job
        BY ElementOfSeq DEF QueueTypes
      <3> QED BY <1>1, <3>1, <3>2 DEF Asked
    <2>3. CASE UNCHANGED queue
      <3>1. \A i \in 1..Len(queue) : queue[i] \in Job
        BY ElementOfSeq DEF QueueTypes
      <3> QED BY <1>1, <2>3, <3>1 DEF Asked
    <2>4. \/ \E j \in Job : CreateStep(j) /\ Push(j)
          \/ \E w \in Worker : Dequeue(w)
          \/ UNCHANGED queue
      BY QueueMoves
    <2> QED BY <2>1, <2>2, <2>3, <2>4
  <1>3. ASSUME NEW v \in Worker, wjob'[v] \in Job
        PROVE  repo'[wjob'[v]] \in Repo
    <2>1. CASE wjob'[v] = wjob[v]
      BY <1>1, <1>3, <2>1 DEF Asked
    <2>2. CASE Dequeue(v)
      <3>1. wjob'[v] = queue[1] /\ 1 \in 1..Len(queue)
        BY <2>2, EmptySeq, LenProperties DEF Dequeue, QueueTypes, WorkerTypes
      <3>2. queue[1] \in Job
        BY <1>3, <3>1
      <3> QED BY <1>1, <3>1, <3>2 DEF Asked
    <2>3. wjob'[v] = wjob[v] \/ Dequeue(v)
      BY <1>3, JobsTaken
    <2> QED BY <2>1, <2>2, <2>3
  <1> QED BY <1>2, <1>3, HandlersAsked DEF Asked

-----------------------------------------------------------------------------
(* Types, of every reachable state. *)
LEMMA Typed == Spec => [](RqTypeOK /\ Carrying /\ Asked)
  <1>1. Init => RqTypeOK /\ Carrying /\ Asked
    BY InitType, RqAssumption DEF Init, Asked
  <1>2. RqTypeOK /\ Carrying /\ Asked /\ [Next]_vars => (RqTypeOK /\ Carrying /\ Asked)'
    BY StepTypes, StepAsked
  <1> QED BY <1>1, <1>2, PTL DEF Spec

(* Every variable keeps its type, whatever fails, restarts or expires, and however
   many jobs, replicas, workers and deletes there are (worker.py, rq_worker.py). *)
THEOREM RqTypes == Spec => []RqTypeOK
  BY Typed, PTL

-----------------------------------------------------------------------------
(* A behaviour is undisturbed from its start or not any more; and where it still is
   no call has failed. *)
LEMMA StepWarmOpen ==
  ASSUME RqTypeOK, WarmOpen, [Next]_vars
  PROVE  WarmOpen'
  <1> USE DEF RqTypeOK, TableTypes
  <1>1. ASSUME NEW a \in Api, OpenStore(a)
        PROVE  WarmOpen'
    BY <1>1 DEF OpenStore, bounds, WarmOpen
  <1>2. ASSUME NEW a \in Api, ApiRestart(a)
        PROVE  WarmOpen'
    BY <1>2 DEF ApiRestart, BoundTypes, WarmOpen
  <1>3. CASE UNCHANGED open /\ UNCHANGED restarts
    BY <1>3 DEF WarmOpen
  <1>4. \/ \E a \in Api : OpenStore(a) \/ ApiRestart(a)
        \/ UNCHANGED open /\ UNCHANGED restarts
    <2>1. ASSUME NEW j \in Job, CreateStep(j)
          PROVE  UNCHANGED open /\ UNCHANGED restarts
      BY <2>1 DEF CreateStep, TakeRedisLock, Check, Insert, Enqueue, Note, GiveUp, OtherBounds
    <2>2. ASSUME NEW w \in Worker, TaskStep(w) \/ Log(w) \/ WorkerRestart(w)
          PROVE  UNCHANGED open /\ UNCHANGED restarts
      BY <2>2 DEF TaskStep, Dequeue, Load, Begin, IngestEnds, Publish, Return, Log,
                  WorkerRestart, OtherBounds, bounds
    <2>3. CASE UNCHANGED vars
      BY <2>3 DEF vars
    <2>4. CASE \/ \E j \in Job, a \in Api, r \in Repo : TakeApiLock(j, a, r)
               \/ \E j \in Job : Abandoned(j)
               \/ \E r \in Repo : Expire(r)
               \/ \E d \in Deleter : (\E r \in Repo : DeleteDecide(d, r)) \/ DeleteDrop(d)
      BY <2>4 DEF TakeApiLock, Abandoned, Expire, DeleteDecide, DeleteDrop, OtherBounds, bounds
    <2> QED BY <2>1, <2>2, <2>3, <2>4 DEF Next
  <1> QED BY <1>1, <1>2, <1>3, <1>4

(* What can happen in an undisturbed behaviour. *)
QuietStep == \/ UNCHANGED vars
             \/ \E j \in Job, a \in Api, r \in Repo : TakeApiLock(j, a, r)
             \/ \E j \in Job : CreateStep(j) \/ Abandoned(j)
             \/ \E r \in Repo : Expire(r)
             \/ \E w \in Worker : TaskStep(w) \/ Log(w) \/ WorkerRestart(w)

(* While nothing has disturbed the repository, only the other steps were taken. *)
LEMMA OnlyQuietSteps ==
  ASSUME RqTypeOK, WarmOpen, [Next]_vars, Undisturbed'
  PROVE  QuietStep
  <1>1. ASSUME NEW a \in Api, OpenStore(a)
        PROVE  FALSE
    <2>1. restarts = 0 /\ ~open[a] /\ open'[a]
      BY <1>1 DEF OpenStore, bounds, Undisturbed, RqTypeOK, TableTypes
    <2>2. a \in WarmApis
      BY <2>1 DEF Undisturbed
    <2> QED BY <2>1, <2>2 DEF WarmOpen
  <1>2. ASSUME NEW a \in Api, ApiRestart(a)
        PROVE  FALSE
    BY <1>2 DEF ApiRestart, Undisturbed, RqTypeOK, BoundTypes
  <1>3. ASSUME NEW d \in Deleter, DeleteDrop(d) \/ \E r \in Repo : DeleteDecide(d, r)
        PROVE  FALSE
    BY <1>3 DEF DeleteDrop, DeleteDecide, Undisturbed, RqTypeOK, DeleteTypes
  <1> QED BY <1>1, <1>2, <1>3 DEF Next, QuietStep

(* No call of a quiet step failed, and no lock expired under its holder. *)
LEMMA NothingFailed ==
  ASSUME RqTypeOK, Undisturbed', QuietStep
  PROVE  Undisturbed /\ faults = 0 /\ UNCHANGED <<faults, expiries>> /\ ~Fault
  <1> USE DEF RqTypeOK
  <1>1. /\ UNCHANGED open /\ UNCHANGED dpc /\ UNCHANGED restarts
        /\ Ok \/ Fault
        /\ UNCHANGED expiries \/ expiries' = expiries + 1
    <2>1. ASSUME NEW j \in Job, CreateStep(j)
          PROVE  <1>1!1 /\ <1>1!2 /\ <1>1!3
      BY <2>1 DEF CreateStep, TakeRedisLock, Check, Insert, Enqueue, Note, GiveUp, Committed,
                  Raised, OtherBounds, deletes
    <2>2. ASSUME NEW w \in Worker, TaskStep(w) \/ Log(w) \/ WorkerRestart(w)
          PROVE  <1>1!1 /\ <1>1!2 /\ <1>1!3
      BY <2>2 DEF TaskStep, Dequeue, Load, Begin, IngestEnds, Publish, Return, Log,
                  WorkerRestart, Committed, Raised, Ok, OtherBounds, deletes, bounds
    <2>3. CASE \/ UNCHANGED vars
               \/ \E j \in Job, a \in Api, r \in Repo : TakeApiLock(j, a, r)
               \/ \E j \in Job : Abandoned(j)
               \/ \E r \in Repo : Expire(r)
      BY <2>3 DEF vars, TakeApiLock, Abandoned, Expire, Ok, deletes, bounds
    <2> QED BY <2>1, <2>2, <2>3 DEF QuietStep
  <1> QED BY <1>1 DEF Ok, Fault, BoundTypes, Undisturbed

-----------------------------------------------------------------------------
(* Serial, one action at a time. Each lemma is about an action none of whose calls
   fails, from a state of an undisturbed behaviour. *)
Calm == RqTypeOK /\ Carrying /\ Asked /\ Serial /\ ~Fault

(* A step keeps the parts of Serial whose variables it leaves alone. *)
LEMMA KeptParts ==
  ASSUME Serial
  PROVE  /\ UNCHANGED <<redisLock, hpc, repo>> => LockInRedis'
         /\ UNCHANGED <<hpc, repo, rows, entry>> => RowAndEntry'
         /\ UNCHANGED <<queue, entry, wpc, wjob>> => CarriedOnce'
         /\ UNCHANGED <<hpc, entry, rows, worker, repo>> => RowBehindWorker'
         /\ UNCHANGED <<hpc, repo, rows>> => AloneUnderLock'
         /\ UNCHANGED rows => OneActiveRow'
  BY DEF Serial, LockInRedis, RowAndEntry, CarriedOnce, RowBehindWorker, worker,
         AloneUnderLock, list_active_job_ids, OneActiveRow

(* A request that takes the lock of its replica has done nothing else. *)
LEMMA TakeApiLockSerial ==
  ASSUME Calm, NEW j \in Job, NEW a \in Api, NEW r \in Repo, TakeApiLock(j, a, r)
  PROVE  Serial'
  <1> USE DEF Calm, RqTypeOK, HandlerTypes
  <1>1. LockInRedis'
    BY DEF TakeApiLock, LockInRedis, Serial, Locking
  <1>2. RowAndEntry'
    BY DEF TakeApiLock, RowAndEntry, Serial, tables, rq, Locking
  <1>3. RowBehindWorker'
    <2>1. \A w \in Worker : wpc[w] # "idle" => wjob[w] # j
      BY DEF TakeApiLock, Serial, RowAndEntry, CarriedOnce, WorkerTypes
    <2>2. \A w \in Worker : wpc[w] # "idle" => wjob[w] \in Job
      BY DEF Carrying
    <2> QED BY <2>1, <2>2 DEF TakeApiLock, RowBehindWorker, Serial, tables, rq, worker, WorkerTypes
  <1>4. AloneUnderLock'
    BY DEF TakeApiLock, AloneUnderLock, Serial, tables, list_active_job_ids
  <1> QED BY <1>1, <1>2, <1>3, <1>4, KeptParts DEF TakeApiLock, tables, rq, worker, Serial

(* The lock of the repository is taken when nobody holds it, or the request ends in
   a conflict without a row. *)
LEMMA TakeRedisLockSerial ==
  ASSUME Calm, NEW j \in Job, TakeRedisLock(j)
  PROVE  Serial'
  <1> USE DEF Calm, RqTypeOK, HandlerTypes
  <1>1. LockInRedis'
    BY RqAssumption DEF TakeRedisLock, Answer, LockInRedis, Serial, Locking, RowAndEntry
  <1>2. RowAndEntry'
    BY DEF TakeRedisLock, Answer, RowAndEntry, Serial, tables, rq, Locking
  <1>3. AloneUnderLock'
    BY DEF TakeRedisLock, Answer, AloneUnderLock, Serial, tables, list_active_job_ids
  <1>4. UNCHANGED <<repo, rows, rq, worker>>
    BY DEF TakeRedisLock, Answer, tables
  <1>5. RowBehindWorker'
    BY <1>4 DEF TakeRedisLock, Answer, RowBehindWorker, Serial, rq, worker
  <1> QED BY <1>1, <1>2, <1>3, <1>4, <1>5, KeptParts DEF rq, worker, Serial

(* The holder of the lock finds the repository free of active rows, or leaves. *)
LEMMA CheckSerial ==
  ASSUME Calm, NEW j \in Job, Check(j)
  PROVE  Serial'
  <1> USE DEF Calm, RqTypeOK, HandlerTypes
  <1>1. LockInRedis'
    BY RqAssumption DEF Check, Step, Answer, LockInRedis, Serial, Locking, locks, RowAndEntry
  <1>2. RowAndEntry'
    BY DEF Check, Step, Answer, RowAndEntry, Serial, tables, rq, Locking
  <1>3. AloneUnderLock'
    BY DEF Check, Step, Answer, AloneUnderLock, Serial, tables, list_active_job_ids
  <1>4. UNCHANGED <<repo, rows, rq, worker>>
    BY DEF Check, Step, Answer, tables
  <1>5. RowBehindWorker'
    BY <1>4 DEF Check, Step, Answer, RowBehindWorker, Serial, rq, worker
  <1> QED BY <1>1, <1>2, <1>3, <1>4, <1>5, KeptParts DEF rq, worker, Serial

(* Two jobs between their check and their last write are of different repositories. *)
LEMMA HoldersDiffer ==
  ASSUME LockInRedis, NEW j \in Job, NEW k \in Job, hpc[j] \in Locking, hpc[k] \in Locking,
         repo[j] = repo[k], repo[j] \in Repo
  PROVE  j = k
  BY DEF LockInRedis

(* The inserted row is the only active one of its repository. *)
LEMMA InsertSerial ==
  ASSUME Calm, NEW j \in Job, Insert(j)
  PROVE  Serial'
  <1> USE DEF Calm, RqTypeOK, HandlerTypes
  <1>1. /\ hpc[j] = "insert" /\ repo[j] \in Repo /\ UNCHANGED <<redisLock, repo, rq, worker>>
        /\ hpc' = [hpc EXCEPT ![j] = "enqueue"]
    BY DEF Insert, Step, Raised, locks, Asked
  <1>2. /\ rows'[j] = [status |-> "queued", repo |-> repo[j]]
        /\ \A k \in Job \ {j} : rows'[k] = rows[k]
    <2>1. rows' = upsert_job(rows, j, "queued", repo[j])
      BY DEF Insert, Committed, Raised
    <2>2. rows \in Table /\ "queued" \in Status /\ repo[j] \in Repo \cup {NoRepo}
      BY <1>1 DEF TableTypes, Status, Active
    <2> QED BY <2>1, <2>2, UpsertRow
  <1>3. LockInRedis'
    BY <1>1 DEF LockInRedis, Serial, Locking
  <1>4. RowAndEntry'
    BY <1>1, <1>2 DEF RowAndEntry, Serial, rq, Locking, Status, Active
  <1>5. entry[j] = "none" /\ \A w \in Worker : wpc[w] # "idle" => wjob[w] \in Job \ {j}
    BY <1>1 DEF Serial, RowAndEntry, CarriedOnce, Carrying
  <1>6. RowBehindWorker'
    BY <1>1, <1>2, <1>5 DEF RowBehindWorker, Serial, rq, worker, WorkerTypes, WorkerPc
  <1>7. AloneUnderLock'
    <2>1. ASSUME NEW k \in Job, k # j, hpc[k] \in Locking
          PROVE  repo[k] # repo[j]
      BY <1>1, <2>1, HoldersDiffer DEF Serial, Locking
    <2> QED BY <1>1, <1>2, <2>1 DEF AloneUnderLock, Serial, list_active_job_ids, Locking
  <1>8. OneActiveRow'
    BY <1>1, <1>2 DEF OneActiveRow, AloneUnderLock, Serial, list_active_job_ids
  <1> QED BY <1>1, <1>3, <1>4, <1>6, <1>7, <1>8, KeptParts DEF rq, worker, Serial

(* A pushed job is new to RQ, and its row is queued. *)
LEMMA EnqueueSerial ==
  ASSUME Calm, NEW j \in Job, Enqueue(j)
  PROVE  Serial'
  <1> USE DEF Calm, RqTypeOK, HandlerTypes
  <1>1. /\ hpc[j] = "enqueue" /\ hpc' = [hpc EXCEPT ![j] = "note"] /\ Push(j)
        /\ UNCHANGED <<redisLock, repo, rows, worker>>
    BY DEF Enqueue, Step, locks, tables
  <1>2. entry[j] = "none" /\ entry' = [entry EXCEPT ![j] = "queued"]
    BY <1>1 DEF Push, Serial, RowAndEntry
  <1>3. LockInRedis'
    BY <1>1 DEF LockInRedis, Serial, Locking
  <1>4. RowAndEntry'
    BY <1>1, <1>2 DEF RowAndEntry, Serial, Locking, QueueTypes
  <1>5. CarriedOnce'
    <2>1. /\ Len(queue') = Len(queue) + 1 /\ Len(queue) \in Nat
          /\ \A i \in 1..Len(queue) : queue[i] \in Job \ {j} /\ queue'[i] = queue[i]
          /\ queue'[Len(queue) + 1] = j
      <3>1. \A i \in 1..Len(queue) : queue[i] \in Job \ {j}
        BY <1>2, ElementOfSeq DEF QueueTypes, Serial, CarriedOnce
      <3> QED BY <1>1, <3>1, AppendProperties, LenProperties DEF Push, QueueTypes
    <2>2. \A i \in 1..Len(queue') : i \in 1..Len(queue) \/ i = Len(queue) + 1
      BY <2>1
    <2>3. \A i \in 1..Len(queue') : entry'[queue'[i]] = "queued"
      BY <1>2, <2>1, <2>2 DEF QueueTypes, Serial, CarriedOnce
    <2>4. \A i, k \in 1..Len(queue') : queue'[i] = queue'[k] => i = k
      BY <2>1, <2>2 DEF Serial, CarriedOnce
    <2>5. \A w \in Worker : wpc[w] # "idle" => wjob[w] \in Job \ {j}
      BY <1>2 DEF Serial, CarriedOnce
    <2> QED BY <1>1, <1>2, <2>3, <2>4, <2>5 DEF worker, QueueTypes, Serial, CarriedOnce
  <1>6. RowBehindWorker'
    BY <1>1, <1>2 DEF RowBehindWorker, Serial, worker, QueueTypes
  <1>7. AloneUnderLock'
    BY <1>1 DEF AloneUnderLock, Serial, list_active_job_ids
  <1> QED BY <1>1, <1>3, <1>4, <1>5, <1>6, <1>7, KeptParts DEF Serial

(* The last write of the handler: the row may become active again after the worker
   ended it, while the lock still keeps others out. *)
LEMMA NoteSerial ==
  ASSUME Calm, NEW j \in Job, Note(j)
  PROVE  Serial'
  <1> USE DEF Calm, RqTypeOK, HandlerTypes
  <1>1. /\ hpc[j] = "note" /\ repo[j] \in Repo /\ UNCHANGED <<repo, rq, worker>>
        /\ Answer(j, "accepted")
    BY DEF Note, Answer, Raised, Asked
  <1>2. /\ rows'[j] = [status |-> "queued", repo |-> repo[j]]
        /\ \A k \in Job \ {j} : rows'[k] = rows[k]
    <2>1. rows' = upsert_job(rows, j, "queued", repo[j])
      BY DEF Note, Committed, Raised
    <2>2. rows \in Table /\ "queued" \in Status /\ repo[j] \in Repo \cup {NoRepo}
      BY <1>1 DEF TableTypes, Status, Active
    <2> QED BY <2>1, <2>2, UpsertRow
  <1>3. LockInRedis'
    BY <1>1, RqAssumption DEF Answer, LockInRedis, Serial, Locking
  <1>4. RowAndEntry'
    BY <1>1, <1>2 DEF Answer, RowAndEntry, Serial, rq, Locking, Status, Active
  <1>5. RowBehindWorker'
    BY <1>1, <1>2 DEF Answer, RowBehindWorker, Serial, rq, worker, Active, Carrying
  <1>6. AloneUnderLock'
    <2>1. ASSUME NEW k \in Job, k # j, hpc[k] \in Locking
          PROVE  repo[k] # repo[j]
      BY <1>1, <2>1, HoldersDiffer DEF Serial, Locking
    <2> QED BY <1>1, <1>2, <2>1 DEF Answer, AloneUnderLock, Serial, list_active_job_ids, Locking
  <1>7. OneActiveRow'
    BY <1>1, <1>2 DEF OneActiveRow, AloneUnderLock, Serial, list_active_job_ids
  <1> QED BY <1>1, <1>3, <1>4, <1>5, <1>6, <1>7, KeptParts DEF rq, worker, Serial

(* No enqueueing fails, and no lock is without a busy holder. *)
LEMMA NoGiveUpNoExpire ==
  ASSUME Calm
  PROVE  /\ \A j \in Job : ~GiveUp(j)
         /\ \A r \in Repo : Expire(r) => expiries' = expiries + 1
  <1>1. ASSUME NEW j \in Job, GiveUp(j)
        PROVE  FALSE
    BY <1>1 DEF Calm, Serial, RowAndEntry, GiveUp, Locking
  <1>2. ASSUME NEW r \in Repo, Expire(r)
        PROVE  expiries' = expiries + 1
    <2>1. redisLock[r] \in Job
      BY <1>2 DEF Calm, RqTypeOK, HandlerTypes, Expire
    <2>2. hpc[redisLock[r]] \in HandlerBusy
      BY <2>1 DEF Calm, Serial, LockInRedis, Locking, HandlerBusy
    <2> QED BY <1>2, <2>2 DEF Expire
  <1> QED BY <1>1, <1>2

-----------------------------------------------------------------------------
(* The workers. A worker's job is started, and no other worker has it. *)
LEMMA CarriedAlone ==
  ASSUME Calm, NEW w \in Worker, wpc[w] # "idle"
  PROVE  /\ wjob[w] \in Job /\ entry[wjob[w]] = "started" /\ repo[wjob[w]] \in Repo
         /\ \A v \in Worker \ {w} : wpc[v] # "idle" => wjob[v] # wjob[w]
         /\ hpc[wjob[w]] \in {"note", "accepted"}
         /\ \A i \in 1..Len(queue) : queue[i] # wjob[w]
  BY DEF Calm, Serial, CarriedOnce, RowAndEntry, Asked, Carrying

(* A worker takes the oldest job of the queue: it was carried by nobody. *)
LEMMA DequeueSerial ==
  ASSUME Calm, NEW w \in Worker, Dequeue(w)
  PROVE  Serial'
  <1> USE DEF Calm, RqTypeOK
  <1> DEFINE j == Head(queue)
  <1>1. /\ j \in Job /\ 1 \in 1..Len(queue) /\ queue[1] = j /\ Len(queue') = Len(queue) - 1
        /\ Len(queue) \in Nat
        /\ \A i \in 1..Len(queue') : i + 1 \in 1..Len(queue) /\ queue'[i] = queue[i + 1]
    BY HeadTailProperties, EmptySeq, LenProperties DEF Dequeue, QueueTypes
  <1>2. /\ entry' = [entry EXCEPT ![j] = "started"] /\ wjob' = [wjob EXCEPT ![w] = j]
        /\ wpc' = [wpc EXCEPT ![w] = "load"] /\ wpc[w] = "idle"
        /\ UNCHANGED <<rows, redisLock, hpc, repo, info>>
    BY DEF Dequeue, tables, locks, handler
  <1>3. entry[j] = "queued" /\ \A v \in Worker : wpc[v] # "idle" => wjob[v] # j
    BY <1>1 DEF Serial, CarriedOnce
  <1> HIDE DEF j
  <1>4. RowAndEntry'
    BY <1>1, <1>2, <1>3 DEF RowAndEntry, Serial, QueueTypes
  <1>5. CarriedOnce'
    <2>1. ASSUME NEW i \in 1..Len(queue')
          PROVE  entry'[queue'[i]] = "queued"
      <3>1. i + 1 \in 1..Len(queue) /\ queue'[i] = queue[i + 1] /\ i + 1 # 1
        BY <1>1
      <3>2. queue[i + 1] \in Job
        BY <3>1, ElementOfSeq DEF QueueTypes
      <3>3. queue[i + 1] # j /\ entry[queue[i + 1]] = "queued"
        BY <1>1, <3>1 DEF Serial, CarriedOnce
      <3> QED BY <1>2, <3>1, <3>2, <3>3 DEF QueueTypes
    <2>2. \A i, k \in 1..Len(queue') : queue'[i] = queue'[k] => i = k
      BY <1>1 DEF Serial, CarriedOnce
    <2>3. \A v \in Worker : IF wpc'[v] = "idle" THEN wjob'[v] = NoJob
                             ELSE wjob'[v] \in Job /\ entry'[wjob'[v]] = "started"
      BY <1>1, <1>2 DEF Serial, CarriedOnce, WorkerTypes, QueueTypes
    <2>4. \A u, v \in Worker : wjob'[u] = wjob'[v] => u = v \/ wpc'[u] = "idle"
      BY <1>1, <1>2, <1>3, RqAssumption DEF Serial, CarriedOnce, WorkerTypes
    <2> QED BY <2>1, <2>2, <2>3, <2>4 DEF CarriedOnce
  <1>6. RowBehindWorker'
    BY <1>1, <1>2, <1>3 DEF RowBehindWorker, Serial, WorkerTypes, QueueTypes
  <1> QED BY <1>2, <1>4, <1>5, <1>6, KeptParts DEF Serial

(* A worker reads the row, which is there. *)
LEMMA LoadSerial ==
  ASSUME Calm, NEW w \in Worker, Load(w)
  PROVE  Serial'
  <1> USE DEF Calm, RqTypeOK
  <1>1. rows[wjob[w]].status = "queued" /\ rows[wjob[w]].repo = repo[wjob[w]]
    <2>1. wpc[w] = "load"
      BY DEF Load
    <2>2. wjob[w] \in Job /\ hpc[wjob[w]] \in {"note", "accepted"}
      BY <2>1, CarriedAlone
    <2> QED BY <2>1, <2>2 DEF Serial, RowBehindWorker, RowAndEntry
  <1>2. /\ UNCHANGED <<rows, rq, redisLock, handler>> /\ wpc[w] = "load"
        /\ WStep(w, "begin") /\ info' = [info EXCEPT ![w] = JobInfo("queued", repo[wjob[w]], FALSE)]
    <2>1. rows[wjob[w]] # Absent
      BY <1>1 DEF Absent
    <2>2. /\ wpc[w] = "load" /\ Committed(rows) /\ UNCHANGED rq /\ WStep(w, "begin")
          /\ info' = [info EXCEPT ![w] = JobInfo(rows[wjob[w]].status, rows[wjob[w]].repo, FALSE)]
          /\ UNCHANGED <<locks, handler>>
      BY <2>1 DEF Load, Raised
    <2> QED BY <1>1, <2>2 DEF Committed, locks
  <1>3. CarriedOnce'
    BY <1>2 DEF WStep, CarriedOnce, Serial, rq, WorkerTypes
  <1>4. RowBehindWorker'
    BY <1>1, <1>2 DEF WStep, RowBehindWorker, Serial, rq, handler, WorkerTypes, JobInfo
  <1> QED BY <1>2, <1>3, <1>4, KeptParts DEF Serial, handler, rq

(* The row a worker writes, in the words of upsert_job. *)
LEMMA WorkerWrites ==
  ASSUME Calm, NEW w \in Worker, wpc[w] # "idle", NEW s \in Status, info[w].repo = repo[wjob[w]],
         rows' = upsert_job(rows, wjob[w], s, info[w].repo)
  PROVE  /\ rows'[wjob[w]] = [status |-> s, repo |-> repo[wjob[w]]]
         /\ \A k \in Job \ {wjob[w]} : rows'[k] = rows[k]
  <1>1. rows \in Table /\ wjob[w] \in Job /\ repo[wjob[w]] \in Repo
    BY CarriedAlone DEF Calm, RqTypeOK, TableTypes
  <1> QED BY <1>1, UpsertRow

(* A row that a worker writes keeps the table serial if the row was active, or ends. *)
LEMMA WorkerWriteSerial ==
  ASSUME Calm, NEW w \in Worker, wpc[w] # "idle", NEW s \in Status,
         rows'[wjob[w]] = [status |-> s, repo |-> repo[wjob[w]]],
         \A k \in Job \ {wjob[w]} : rows'[k] = rows[k],
         s \in Active => rows[wjob[w]].status \in Active,
         UNCHANGED <<hpc, repo, entry>>
  PROVE  RowAndEntry' /\ AloneUnderLock' /\ OneActiveRow'
  <1>1. /\ wjob[w] \in Job /\ hpc[wjob[w]] \in {"note", "accepted"}
        /\ rows[wjob[w]].repo = repo[wjob[w]]
    BY CarriedAlone DEF Calm, Serial, RowAndEntry
  <1>2. RowAndEntry'
    BY <1>1 DEF Calm, Serial, RowAndEntry
  <1>3. \A r \in Repo \cup {NoRepo} : list_active_job_ids(rows', r) \subseteq list_active_job_ids(rows, r)
    BY <1>1 DEF list_active_job_ids
  <1>4. AloneUnderLock'
    BY <1>3 DEF Calm, Serial, AloneUnderLock, RqTypeOK, HandlerTypes
  <1>5. OneActiveRow'
    BY <1>1 DEF Calm, Serial, OneActiveRow
  <1> QED BY <1>2, <1>4, <1>5

(* The row becomes running, with the repository it had. *)
LEMMA BeginSerial ==
  ASSUME Calm, NEW w \in Worker, Begin(w)
  PROVE  Serial'
  <1> USE DEF Calm, RqTypeOK
  <1>1. /\ wpc[w] = "begin" /\ rows' = upsert_job(rows, wjob[w], "running", info[w].repo)
        /\ info' = [info EXCEPT ![w] = JobInfo("running", info[w].repo, FALSE)]
        /\ WStep(w, "work") /\ UNCHANGED <<rq, redisLock, handler>>
    BY DEF Begin, Committed, Raised, locks
  <1>2. /\ info[w].repo = repo[wjob[w]] /\ rows[wjob[w]].status \in Active
        /\ "running" \in Active /\ "running" \in Status
    BY <1>1 DEF Serial, RowBehindWorker, Active, Status
  <1>3. /\ rows'[wjob[w]] = [status |-> "running", repo |-> repo[wjob[w]]]
        /\ \A k \in Job \ {wjob[w]} : rows'[k] = rows[k]
    BY <1>1, <1>2, WorkerWrites
  <1>4. RowAndEntry' /\ AloneUnderLock' /\ OneActiveRow'
    BY <1>1, <1>2, <1>3, WorkerWriteSerial DEF handler, rq
  <1>5. CarriedOnce'
    BY <1>1 DEF WStep, CarriedOnce, Serial, rq, WorkerTypes
  <1>6. RowBehindWorker'
    BY <1>1, <1>2, <1>3, CarriedAlone, SMTT(30)
       DEF WStep, RowBehindWorker, Serial, rq, handler, WorkerTypes, JobInfo
  <1> QED BY <1>1, <1>4, <1>5, <1>6, KeptParts DEF Serial, handler

(* A progress message writes the running row once more. *)
LEMMA LogSerial ==
  ASSUME Calm, NEW w \in Worker, Log(w)
  PROVE  Serial'
  <1> USE DEF Calm, RqTypeOK
  <1>1. /\ wpc[w] = "work" /\ rows' = upsert_job(rows, wjob[w], info[w].status, info[w].repo)
        /\ UNCHANGED <<rq, redisLock, handler, worker>>
    BY DEF Log, Saved, Committed, Raised, locks
  <1>2. /\ info[w].repo = repo[wjob[w]] /\ rows[wjob[w]].status \in Active
        /\ info[w].status = "running" /\ "running" \in Active /\ "running" \in Status
    BY <1>1 DEF Serial, RowBehindWorker, Active, Status
  <1>3. /\ rows'[wjob[w]] = [status |-> "running", repo |-> repo[wjob[w]]]
        /\ \A k \in Job \ {wjob[w]} : rows'[k] = rows[k]
    BY <1>1, <1>2, WorkerWrites
  <1>4. RowAndEntry' /\ AloneUnderLock' /\ OneActiveRow'
    BY <1>1, <1>2, <1>3, WorkerWriteSerial DEF handler, rq
  <1>5. RowBehindWorker'
    BY <1>1, <1>2, <1>3, CarriedAlone DEF RowBehindWorker, Serial, rq, handler, worker
  <1> QED BY <1>1, <1>4, <1>5, KeptParts DEF Serial, handler, rq, worker

(* The ingest ends in the worker's own copy of the job. *)
LEMMA IngestEndsSerial ==
  ASSUME Calm, NEW w \in Worker, IngestEnds(w)
  PROVE  Serial'
  <1> USE DEF Calm, RqTypeOK
  <1>1. PICK s \in Terminal, b \in BOOLEAN :
             info' = [info EXCEPT ![w] = JobInfo(s, repo[wjob[w]], b)]
    BY DEF IngestEnds, Fails, Serial, RowBehindWorker, Terminal
  <1>2. wpc[w] = "work" /\ WStep(w, "final") /\ UNCHANGED <<rows, rq, redisLock, handler>>
    BY DEF IngestEnds, Fails, locks
  <1>3. CarriedOnce'
    BY <1>2 DEF WStep, CarriedOnce, Serial, rq, WorkerTypes
  <1>4. RowBehindWorker'
    BY <1>1, <1>2 DEF WStep, RowBehindWorker, Serial, rq, handler, WorkerTypes, JobInfo
  <1> QED BY <1>2, <1>3, <1>4, KeptParts DEF Serial, handler, rq

(* The end is published: the row is active no more, until the handler may say so. *)
LEMMA PublishSerial ==
  ASSUME Calm, NEW w \in Worker, Publish(w)
  PROVE  Serial'
  <1> USE DEF Calm, RqTypeOK
  <1>1. /\ wpc[w] \in {"final", "final2"} /\ WStep(w, IF wpc[w] = "final" THEN "final2" ELSE "return")
        /\ rows' = upsert_job(rows, wjob[w], info[w].status, info[w].repo)
        /\ UNCHANGED <<rq, redisLock, handler, info>>
    BY DEF Publish, Saved, Committed, Raised, locks
  <1>2. /\ info[w].repo = repo[wjob[w]] /\ info[w].status \in Terminal
        /\ info[w].status \in Status /\ info[w].status \notin Active
    BY <1>1 DEF Serial, RowBehindWorker, Active, Terminal, Status
  <1>3. /\ rows'[wjob[w]] = [status |-> info[w].status, repo |-> repo[wjob[w]]]
        /\ \A k \in Job \ {wjob[w]} : rows'[k] = rows[k]
    BY <1>1, <1>2, WorkerWrites
  <1>4. RowAndEntry' /\ AloneUnderLock' /\ OneActiveRow'
    BY <1>1, <1>2, <1>3, WorkerWriteSerial DEF handler, rq
  <1>5. CarriedOnce'
    BY <1>1 DEF WStep, CarriedOnce, Serial, rq, WorkerTypes
  <1>6. RowBehindWorker'
    BY <1>1, <1>2, <1>3, CarriedAlone
       DEF WStep, RowBehindWorker, Serial, rq, handler, WorkerTypes
  <1> QED BY <1>1, <1>4, <1>5, <1>6, KeptParts DEF Serial, handler

(* Workers that leave, and started jobs that RQ takes from who left, disturb nobody. *)
LEMMA LetGo ==
  ASSUME Calm, UNCHANGED <<rows, redisLock, hpc, repo, queue>>,
         \A v \in Worker : \/ wpc'[v] = "idle" /\ wjob'[v] = NoJob
                           \/ wpc'[v] = wpc[v] /\ wjob'[v] = wjob[v] /\ info'[v] = info[v],
         \A k \in Job : \/ entry'[k] = entry[k]
                        \/ /\ entry[k] = "started" /\ entry'[k] \in {"scheduled", "failed", "finished"}
                           /\ \A v \in Worker : wjob'[v] # k
  PROVE  Serial'
  <1> USE DEF Calm, RqTypeOK
  <1>1. RowAndEntry'
    BY DEF Serial, RowAndEntry
  <1>2. CarriedOnce'
    <2>1. \A i \in 1..Len(queue) : queue[i] \in Job
      BY ElementOfSeq DEF QueueTypes
    <2>2. \A i \in 1..Len(queue) : entry'[queue[i]] = "queued"
      BY <2>1 DEF Serial, CarriedOnce
    <2>3. \A v \in Worker : IF wpc'[v] = "idle" THEN wjob'[v] = NoJob
                             ELSE wjob'[v] \in Job /\ entry'[wjob'[v]] = "started"
      BY DEF Serial, CarriedOnce
    <2>4. \A u, v \in Worker : wjob'[u] = wjob'[v] => u = v \/ wpc'[u] = "idle"
      BY RqAssumption DEF Serial, CarriedOnce
    <2> QED BY <2>2, <2>3, <2>4 DEF Serial, CarriedOnce
  <1>3. RowBehindWorker'
    BY DEF Serial, RowBehindWorker
  <1> QED BY <1>1, <1>2, <1>3, KeptParts DEF Serial

(* What Leave and Raise do, in the words of LetGo. *)
LEMMA LeaveLetsGo ==
  ASSUME Calm, NEW w \in Worker, Leave(w)
  PROVE  /\ wpc'[w] = "idle" /\ wjob'[w] = NoJob
         /\ \A v \in Worker \ {w} : wpc'[v] = wpc[v] /\ wjob'[v] = wjob[v] /\ info'[v] = info[v]
         /\ wpc[w] # "idle" => \A v \in Worker : wjob'[v] # wjob[w]
  <1>1. /\ wpc'[w] = "idle" /\ wjob'[w] = NoJob
        /\ \A v \in Worker \ {w} : wpc'[v] = wpc[v] /\ wjob'[v] = wjob[v] /\ info'[v] = info[v]
    BY DEF Calm, RqTypeOK, WorkerTypes, Leave
  <1>2. ASSUME wpc[w] # "idle", NEW v \in Worker
        PROVE  wjob'[v] # wjob[w]
    <2>1. wjob[w] # NoJob
      BY <1>2, CarriedAlone, RqAssumption
    <2> QED BY <1>1, <1>2, <2>1 DEF Calm, Serial, CarriedOnce
  <1> QED BY <1>1, <1>2

(* The end of a task frees its worker. *)
LEMMA ReturnSerial ==
  ASSUME Calm, NEW w \in Worker, Return(w)
  PROVE  Serial'
  <1> USE DEF Calm, RqTypeOK, QueueTypes
  <1>1. wpc[w] # "idle" /\ Leave(w) /\ UNCHANGED <<rows, redisLock, hpc, repo, queue>>
    BY DEF Return, Raise, tables, locks, handler
  <1>2. wjob[w] \in Job /\ entry[wjob[w]] = "started" /\ \A v \in Worker : wjob'[v] # wjob[w]
    BY <1>1, CarriedAlone, LeaveLetsGo
  <1>3. PICK x \in {"scheduled", "failed", "finished"} : entry' = [entry EXCEPT ![wjob[w]] = x]
    BY DEF Return, Raise
  <1>4. \A k \in Job : \/ entry'[k] = entry[k]
                       \/ /\ entry[k] = "started" /\ entry'[k] \in {"scheduled", "failed", "finished"}
                          /\ \A v \in Worker : wjob'[v] # k
    BY <1>2, <1>3
  <1> QED BY <1>1, <1>4, LeaveLetsGo, LetGo

(* A worker that starts carries nothing. *)
LEMMA WorkerRestartSerial ==
  ASSUME Calm, NEW w \in Worker, WorkerRestart(w)
  PROVE  Serial'
  <1>1. Leave(w) /\ UNCHANGED <<rows, redisLock, hpc, repo, queue, entry>>
    BY DEF WorkerRestart, tables, locks, handler, rq
  <1> QED BY <1>1, LeaveLetsGo, LetGo

(* RQ gives up a job whose worker is gone: nobody carries it. *)
LEMMA AbandonedSerial ==
  ASSUME Calm, NEW j \in Job, Abandoned(j)
  PROVE  Serial'
  <1> USE DEF Calm, RqTypeOK, QueueTypes
  <1>1. /\ entry[j] = "started" /\ UNCHANGED <<rows, redisLock, hpc, repo, queue, wpc, wjob, info>>
        /\ \A v \in Worker : wjob[v] # j
    BY DEF Abandoned, Raise, tables, locks, handler, worker
  <1>2. PICK x \in {"scheduled", "failed", "finished"} : entry' = [entry EXCEPT ![j] = x]
    BY DEF Abandoned, Raise
  <1>3. \A k \in Job : \/ entry'[k] = entry[k]
                       \/ /\ entry[k] = "started" /\ entry'[k] \in {"scheduled", "failed", "finished"}
                          /\ \A v \in Worker : wjob'[v] # k
    BY <1>1, <1>2
  <1> QED BY <1>1, <1>3, LetGo

-----------------------------------------------------------------------------
(* Serial is kept by every step of an undisturbed behaviour. *)
LEMMA SerialStep ==
  ASSUME Calm, QuietStep, UNCHANGED expiries
  PROVE  Serial'
  <1>1. CASE UNCHANGED vars
    BY <1>1, KeptParts DEF vars, worker, Calm, Serial
  <1>2. CASE \E j \in Job, a \in Api, r \in Repo : TakeApiLock(j, a, r)
    BY <1>2, TakeApiLockSerial
  <1>3. CASE \E j \in Job : CreateStep(j) \/ Abandoned(j)
    BY <1>3, TakeRedisLockSerial, CheckSerial, InsertSerial, EnqueueSerial, NoteSerial,
       NoGiveUpNoExpire, AbandonedSerial DEF CreateStep
  <1>4. CASE \E r \in Repo : Expire(r)
    <2>1. expiries' = expiries + 1 /\ expiries \in Nat
      BY <1>4, NoGiveUpNoExpire DEF Calm, RqTypeOK, BoundTypes
    <2> QED BY <2>1
  <1>5. CASE \E w \in Worker : TaskStep(w) \/ Log(w) \/ WorkerRestart(w)
    BY <1>5, DequeueSerial, LoadSerial, BeginSerial, IngestEndsSerial, PublishSerial,
       ReturnSerial, LogSerial, WorkerRestartSerial DEF TaskStep
  <1> QED BY <1>1, <1>2, <1>3, <1>4, <1>5 DEF QuietStep

(* Nothing runs at first. *)
LEMMA InitSerial ==
  ASSUME Init
  PROVE  Serial
  <1>1. \A j \in Job : rows[j] = Absent
    BY DEF Init, EmptyTable
  <1>2. LockInRedis /\ RowAndEntry
    BY <1>1, RqAssumption DEF Init, LockInRedis, RowAndEntry, Locking
  <1>3. CarriedOnce /\ RowBehindWorker
    BY DEF Init, CarriedOnce, RowBehindWorker
  <1>4. AloneUnderLock /\ OneActiveRow
    BY <1>1 DEF Init, AloneUnderLock, OneActiveRow, Absent, Active
  <1> QED BY <1>2, <1>3, <1>4 DEF Serial

(* The inductive invariant of the undisturbed behaviours. *)
LEMMA Inductive == Spec => []RqIInv
  <1>1. Init => RqIInv
    <2> SUFFICES ASSUME Init
                 PROVE  RqIInv
      OBVIOUS
    <2>1. Asked
      BY RqAssumption DEF Init, Asked
    <2>2. WarmOpen
      BY RqAssumption DEF Init, WarmOpen
    <2> QED BY <2>1, <2>2, InitType, InitSerial DEF RqIInv
  <1>2. RqIInv /\ [Next]_vars => RqIInv'
    <2> SUFFICES ASSUME RqIInv, [Next]_vars
                 PROVE  RqIInv'
      OBVIOUS
    <2>1. RqTypeOK' /\ Carrying' /\ Asked' /\ WarmOpen'
      BY StepTypes, StepAsked, StepWarmOpen DEF RqIInv
    <2>2. ASSUME Undisturbed'
          PROVE  Serial'
      <3>1. QuietStep
        BY <2>2, OnlyQuietSteps DEF RqIInv
      <3>2. Undisturbed /\ UNCHANGED expiries /\ ~Fault
        BY <2>2, <3>1, NothingFailed DEF RqIInv
      <3> QED BY <3>1, <3>2, SerialStep DEF RqIInv, Calm
    <2> QED BY <2>1, <2>2 DEF RqIInv
  <1> QED BY <1>1, <1>2, PTL DEF Spec

(* In an undisturbed behaviour a repository has one active row at most: the check, the
   insert and the last write of a handler are under the lock in Redis (worker.py). *)
THEOREM OneActive == Spec => [](Undisturbed => OneActiveRow)
  <1>1. RqIInv => (Undisturbed => OneActiveRow)
    BY DEF RqIInv, Serial
  <1> QED BY <1>1, Inductive, PTL

(* and one worker at most ingests it, however many workers crash, jobs are abandoned
   and retried: RQ hands a job to one worker, whose row is active while it works. *)
THEOREM OneIngest == Spec => [](Undisturbed => AtMostOneIngest)
  <1>1. RqIInv => (Undisturbed => AtMostOneIngest)
    <2> SUFFICES ASSUME RqIInv, Undisturbed, NEW v \in Worker, NEW w \in Worker,
                        wpc[v] = "work", wpc[w] = "work", repo[wjob[v]] = repo[wjob[w]]
                 PROVE  v = w
      BY DEF AtMostOneIngest
    <2>1. Serial /\ Carrying /\ Asked
      BY DEF RqIInv
    <2>2. wjob[v] \in Job /\ wjob[w] \in Job /\ repo[wjob[v]] \in Repo
      BY <2>1 DEF Carrying, Asked
    <2>3. /\ rows[wjob[v]].status \in Active /\ rows[wjob[w]].status \in Active
          /\ rows[wjob[v]].repo = repo[wjob[v]] /\ rows[wjob[w]].repo = repo[wjob[w]]
      BY <2>1, <2>2 DEF Serial, RowBehindWorker, CarriedOnce, RowAndEntry
    <2>4. wjob[v] = wjob[w]
      BY <2>1, <2>2, <2>3, JobTableAssumption DEF Serial, OneActiveRow
    <2> QED BY <2>1, <2>4 DEF Serial, CarriedOnce
  <1> QED BY <1>1, Inductive, PTL
=============================================================================
