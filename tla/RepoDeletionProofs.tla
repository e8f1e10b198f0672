------------------------- MODULE RepoDeletionProofs -------------------------
(* Theorems about JobManager, for every set of jobs and repositories and for every bound
   on failing store calls and restarts; and, in the second part, about RepoDeletion, which
   extends it, for every set of delete requests as well. *)
EXTENDS RepoDeletion, SequenceTheorems, TLAPS

-----------------------------------------------------------------------------
(* The job manager. *)

(* A row written by upsert_job is the given one; the other rows stay. *)
LEMMA UpsertRow ==
  ASSUME NEW t \in Table, NEW j \in Job, NEW s \in Status, NEW r \in Repo
  PROVE  /\ upsert_job(t, j, s, r) \in Table
         /\ upsert_job(t, j, s, r)[j] = [status |-> s, repo |-> r]
         /\ \A k \in Job \ {j} : upsert_job(t, j, s, r)[k] = t[k]
  BY DEF upsert_job, Table

(* Recovery ends the active rows as failed and touches no other row. *)
LEMMA RecoveredRows ==
  ASSUME NEW t \in Table
  PROVE  /\ recover_interrupted_jobs(t) \in Table
         /\ \A k \in Job :
              /\ t[k].status \in Active => recover_interrupted_jobs(t)[k].status = "failed"
              /\ t[k].status \notin Active => recover_interrupted_jobs(t)[k] = t[k]
  <1> DEFINE u == recover_interrupted_jobs(t)
  <1>1. \A k \in Job : t[k].status \in Active => t[k] \in [status : Status, repo : Repo \cup {NoRepo}]
    BY DEF Table, Absent, Active
  <1>2. \A k \in Job : /\ t[k].status \in Active => u[k] = [t[k] EXCEPT !.status = "failed"]
                       /\ t[k].status \notin Active => u[k] = t[k]
    BY DEF recover_interrupted_jobs
  <1>3. \A k \in Job : t[k].status \in Active =>
           /\ u[k].status = "failed"
           /\ u[k] \in [status : Status, repo : Repo \cup {NoRepo}]
    BY <1>1, <1>2, ZenonT(60) DEF Status, Terminal
  <1>4. u \in Table
    BY <1>2, <1>3 DEF recover_interrupted_jobs, Table
  <1> QED BY <1>2, <1>3, <1>4

(* The initial state satisfies the inductive invariant. *)
LEMMA InitInv ==
  ASSUME Init
  PROVE  IInv
  <1> USE JobManagerAssumption, JobTableAssumption DEF Init
  <1>1. TypeOK
    BY DEF TypeOK, EmptyTable, Absent, Table, HandlerPc, ThreadPc
  <1>2. LockHeld /\ ThreadAfterAccept /\ FinalStatus
    BY DEF LockHeld, ThreadAfterAccept, FinalStatus, HandlerBusy, ThreadAlive,
           Ingesting, EmptyTable
  <1>3. RowBehindWork /\ OneActiveRow
    BY DEF RowBehindWork, OneActiveRow, Ingesting, EmptyTable, Absent, Active
  <1>4. RecordedFirst /\ SuccessIsRecorded
    BY DEF RecordedFirst, SuccessIsRecorded, EmptyTable, Absent
  <1> QED BY <1>1, <1>2, <1>3, <1>4 DEF IInv

USE JobTableAssumption, JobManagerAssumption

(* The recovery leaves no active row: nothing runs yet in a process that opens
   its store, so no thread loses the row behind it. *)
LEMMA OpenStoreInv ==
  ASSUME IInv, OpenStore
  PROVE  IInv'
  <1>u. /\ rows' \in Table
        /\ \A k \in Job :
             /\ rows'[k].status \notin Active
             /\ rows[k] = Absent => rows'[k] = Absent
             /\ rows'[k].status # "failed" => rows'[k] = rows[k]
    BY RecoveredRows DEF IInv, TypeOK, OpenStore, Absent, Active
  <1>1. TypeOK'
    BY <1>u DEF IInv, TypeOK, OpenStore, memoryVars, handlerVars, bounds
  <1>2. LockHeld'
    BY <1>u DEF IInv, LockHeld, OpenStore, memoryVars, handlerVars, bounds
  <1>3. RowBehindWork'
    BY <1>u DEF IInv, RowBehindWork, ThreadAfterAccept, HandlerBusy, ThreadAlive,
       OpenStore, memoryVars, handlerVars, bounds
  <1>t. \A k \in Job : rows[k] = Absent => rows'[k] = Absent
    BY <1>u
  <1>a. \A k \in Job : tpc[k] \notin ThreadAlive
    BY DEF IInv, ThreadAfterAccept, OpenStore
  <1>4. ThreadAfterAccept'
    BY <1>t, <1>a DEF IInv, ThreadAfterAccept, OpenStore, handlerVars
  <1>5. OneActiveRow'
    BY <1>u DEF OneActiveRow
  <1>6. FinalStatus'
    BY <1>u DEF IInv, ThreadAfterAccept, FinalStatus, ThreadAlive, OpenStore,
       memoryVars, handlerVars, bounds
  <1>7. RecordedFirst'
    BY <1>u DEF IInv, RecordedFirst, OpenStore, memoryVars, handlerVars, bounds
  <1>8. SuccessIsRecorded'
    BY <1>u DEF IInv, SuccessIsRecorded, OpenStore
  <1> QED BY <1>1, <1>2, <1>3, <1>4, <1>5, <1>6, <1>7, <1>8 DEF IInv

(* Taking the lock: it was free, so no other handler is under way. *)
LEMMA AcquireInv ==
  ASSUME IInv, NEW j \in Job, NEW r \in Repo, Acquire(j, r)
  PROVE  IInv'
  <1> USE DEF Acquire, storeVars, memoryVars, bounds
  <1>1. TypeOK'
    BY DEF IInv, TypeOK, HandlerPc, HandlerBusy
  <1>2. LockHeld'
    BY DEF IInv, TypeOK, LockHeld, HandlerBusy
  <1>3. RowBehindWork'
    BY DEF IInv, RowBehindWork, ThreadAfterAccept, Ingesting, NoActiveJob
  <1>4. ThreadAfterAccept'
    BY DEF IInv, TypeOK, ThreadAfterAccept
  <1>5. OneActiveRow'
    BY DEF IInv, OneActiveRow
  <1>6. FinalStatus'
    BY DEF IInv, FinalStatus
  <1>7. RecordedFirst'
    BY DEF IInv, ThreadAfterAccept, RecordedFirst
  <1>8. SuccessIsRecorded'
    BY DEF IInv, SuccessIsRecorded
  <1> QED BY <1>1, <1>2, <1>3, <1>4, <1>5, <1>6, <1>7, <1>8 DEF IInv

(* The test under the lock: whoever goes on to insert saw no active row. *)
LEMMA CheckInv ==
  ASSUME IInv, NEW j \in Job, Check(j)
  PROVE  IInv'
  <1> USE DEF Check, HandlerTo, Answer, StoreOk, StoreFault, storeVars, memoryVars
  <1>1. TypeOK'
    BY DEF IInv, TypeOK, HandlerPc, HandlerBusy
  <1>2. LockHeld'
    BY DEF IInv, TypeOK, LockHeld, HandlerBusy
  <1>3. RowBehindWork'
    BY DEF IInv, TypeOK, RowBehindWork, NoActiveJob
  <1>4. ThreadAfterAccept'
    BY DEF IInv, TypeOK, ThreadAfterAccept, HandlerBusy
  <1>5. OneActiveRow'
    BY DEF IInv, OneActiveRow
  <1>6. FinalStatus'
    BY DEF IInv, FinalStatus
  <1>7. RecordedFirst'
    BY DEF IInv, RecordedFirst
  <1>8. SuccessIsRecorded'
    BY DEF IInv, SuccessIsRecorded
  <1> QED BY <1>1, <1>2, <1>3, <1>4, <1>5, <1>6, <1>7, <1>8 DEF IInv

(* The new row is the only active one of its repository. *)
LEMMA InsertInv ==
  ASSUME IInv, NEW j \in Job, Insert(j)
  PROVE  IInv'
  <1> USE DEF Insert, HandlerTo, Answer, Committed, Raised, StoreOk, StoreFault
  <1>r. "queued" \in Status /\ repo[j] \in Repo
    BY DEF IInv, ThreadAfterAccept, FinalStatus, HandlerBusy, ThreadAlive,
       Ingesting, Status, Active, Terminal
  <1>u. /\ upsert_job(rows, j, "queued", repo[j]) \in Table
        /\ upsert_job(rows, j, "queued", repo[j])[j] = [status |-> "queued", repo |-> repo[j]]
        /\ \A k \in Job \ {j} : upsert_job(rows, j, "queued", repo[j])[k] = rows[k]
    BY <1>r, UpsertRow DEF IInv, TypeOK
  <1>1. TypeOK'
    BY <1>u DEF IInv, TypeOK, Status, Active, HandlerPc, HandlerBusy
  <1>2. LockHeld'
    BY <1>u DEF IInv, TypeOK, LockHeld, HandlerBusy
  <1>3. RowBehindWork'
    BY <1>u DEF IInv, TypeOK, LockHeld, RowBehindWork, Active, HandlerBusy
  <1>4. ThreadAfterAccept'
    BY <1>u DEF IInv, TypeOK, ThreadAfterAccept, HandlerBusy
  <1>5. OneActiveRow'
    BY <1>u DEF IInv, RowBehindWork, ThreadAfterAccept, OneActiveRow, HandlerBusy,
       NoActiveJob, list_active_job_ids
  <1>6. FinalStatus'
    BY <1>u DEF IInv, ThreadAfterAccept, FinalStatus, HandlerBusy, Ingesting
  <1>7. RecordedFirst'
    BY <1>u DEF IInv, ThreadAfterAccept, RecordedFirst, HandlerBusy
  <1>8. SuccessIsRecorded'
    BY <1>u DEF IInv, SuccessIsRecorded
  <1> QED BY <1>1, <1>2, <1>3, <1>4, <1>5, <1>6, <1>7, <1>8 DEF IInv

(* The thread is registered; nothing else moves. *)
LEMMA RegisterInv ==
  ASSUME IInv, NEW j \in Job, Register(j)
  PROVE  IInv'
  <1> USE DEF Register, HandlerTo, storeVars, bounds
  <1>1. TypeOK'
    BY DEF IInv, TypeOK, HandlerPc, HandlerBusy
  <1>2. LockHeld'
    BY DEF IInv, LockHeld, HandlerBusy
  <1>3. RowBehindWork'
    BY DEF IInv, RowBehindWork, NoActiveJob
  <1>4. ThreadAfterAccept'
    BY DEF IInv, ThreadAfterAccept, HandlerBusy
  <1>5. OneActiveRow'
    BY DEF IInv, OneActiveRow
  <1>6. FinalStatus'
    BY DEF IInv, FinalStatus
  <1>7. RecordedFirst'
    BY DEF IInv, RecordedFirst
  <1>8. SuccessIsRecorded'
    BY DEF IInv, SuccessIsRecorded
  <1> QED BY <1>1, <1>2, <1>3, <1>4, <1>5, <1>6, <1>7, <1>8 DEF IInv

(* The thread starts behind the queued row of its job, and the lock is free. *)
LEMMA StartInv ==
  ASSUME IInv, NEW j \in Job, Start(j)
  PROVE  IInv'
  <1> USE DEF Start, Answer, storeVars, memoryVars, bounds
  <1>1. TypeOK'
    BY DEF IInv, TypeOK, HandlerPc, ThreadPc, Ingesting, ThreadAlive
  <1>2. LockHeld'
    BY DEF IInv, TypeOK, LockHeld, HandlerBusy
  <1>3. RowBehindWork'
    BY DEF IInv, RowBehindWork, Active, HandlerBusy, Ingesting, NoActiveJob,
       list_active_job_ids
  <1>4. ThreadAfterAccept'
    BY DEF IInv, TypeOK, ThreadAfterAccept, HandlerBusy
  <1>5. OneActiveRow'
    BY DEF IInv, OneActiveRow
  <1>6. FinalStatus'
    BY DEF IInv, FinalStatus
  <1>7. RecordedFirst'
    BY DEF IInv, RecordedFirst
  <1>8. SuccessIsRecorded'
    BY DEF IInv, SuccessIsRecorded
  <1> QED BY <1>1, <1>2, <1>3, <1>4, <1>5, <1>6, <1>7, <1>8 DEF IInv

(* The thread finds its JobInfo. *)
LEMMA FetchInv ==
  ASSUME IInv, NEW j \in Job, Fetch(j)
  PROVE  IInv'
  <1> USE DEF Fetch, ThreadTo, SetStatus, storeVars, handlerVars, bounds
  <1>1. TypeOK'
    BY DEF IInv, TypeOK, Status, Terminal, ThreadPc, Ingesting, ThreadAlive
  <1>2. LockHeld'
    BY DEF IInv, LockHeld
  <1>3. RowBehindWork'
    BY DEF IInv, TypeOK, RowBehindWork, Ingesting, NoActiveJob
  <1>4. ThreadAfterAccept'
    BY DEF IInv, TypeOK, ThreadAfterAccept, Ingesting, ThreadAlive
  <1>5. OneActiveRow'
    BY DEF IInv, OneActiveRow
  <1>6. FinalStatus'
    BY DEF IInv, TypeOK, FinalStatus, Ingesting
  <1>7. RecordedFirst'
    BY DEF IInv, TypeOK, RecordedFirst
  <1>8. SuccessIsRecorded'
    BY DEF IInv, SuccessIsRecorded
  <1> QED BY <1>1, <1>2, <1>3, <1>4, <1>5, <1>6, <1>7, <1>8 DEF IInv

(* The row of the thread goes from queued to running. *)
LEMMA BeginInv ==
  ASSUME IInv, NEW j \in Job, Begin(j)
  PROVE  IInv'
  <1> USE DEF Begin, Committed, Raised, StoreOk, StoreFault, ThreadTo, SetStatus,
     handlerVars
  <1>r. "running" \in Status /\ repo[j] \in Repo
    BY DEF IInv, ThreadAfterAccept, FinalStatus, HandlerBusy, ThreadAlive,
       Ingesting, Status, Active, Terminal
  <1>u. /\ upsert_job(rows, j, "running", repo[j]) \in Table
        /\ upsert_job(rows, j, "running", repo[j])[j] = [status |-> "running", repo |-> repo[j]]
        /\ \A k \in Job \ {j} : upsert_job(rows, j, "running", repo[j])[k] = rows[k]
    BY <1>r, UpsertRow DEF IInv, TypeOK
  <1>1. TypeOK'
    BY <1>u DEF IInv, TypeOK, Status, Active, ThreadPc, Ingesting, ThreadAlive
  <1>2. LockHeld'
    BY <1>u DEF IInv, LockHeld
  <1>3. RowBehindWork'
    BY <1>u DEF IInv, TypeOK, RowBehindWork, Active, Ingesting, NoActiveJob,
       list_active_job_ids
  <1>4. ThreadAfterAccept'
    BY <1>u DEF IInv, TypeOK, ThreadAfterAccept, HandlerBusy, Ingesting, ThreadAlive
  <1>5. OneActiveRow'
    BY <1>u DEF IInv, RowBehindWork, OneActiveRow, Ingesting
  <1>6. FinalStatus'
    BY <1>u DEF IInv, TypeOK, FinalStatus, Ingesting
  <1>7. RecordedFirst'
    BY <1>u DEF IInv, TypeOK, RecordedFirst
  <1>8. SuccessIsRecorded'
    BY <1>u DEF IInv, SuccessIsRecorded
  <1> QED BY <1>1, <1>2, <1>3, <1>4, <1>5, <1>6, <1>7, <1>8 DEF IInv

(* A progress message rewrites a running row as running. *)
LEMMA LogInv ==
  ASSUME IInv, NEW j \in Job, Log(j)
  PROVE  IInv'
  <1> USE DEF Log, Committed, Raised, StoreOk, StoreFault, ThreadTo, SetStatus,
     handlerVars
  <1>r. obj[j] \in Status /\ repo[j] \in Repo
    BY DEF IInv, ThreadAfterAccept, FinalStatus, HandlerBusy, ThreadAlive,
       Ingesting, Status, Active, Terminal
  <1>u. /\ upsert_job(rows, j, obj[j], repo[j]) \in Table
        /\ upsert_job(rows, j, obj[j], repo[j])[j] = [status |-> obj[j], repo |-> repo[j]]
        /\ \A k \in Job \ {j} : upsert_job(rows, j, obj[j], repo[j])[k] = rows[k]
    BY <1>r, UpsertRow DEF IInv, TypeOK
  <1>1. TypeOK'
    BY <1>u DEF IInv, TypeOK, Status, Terminal, ThreadPc, Ingesting, ThreadAlive
  <1>2. LockHeld'
    BY <1>u DEF IInv, LockHeld
  <1>3. RowBehindWork'
    BY <1>u DEF IInv, TypeOK, RowBehindWork, FinalStatus, Active, Ingesting,
       NoActiveJob, list_active_job_ids
  <1>4. ThreadAfterAccept'
    BY <1>u DEF IInv, TypeOK, ThreadAfterAccept, HandlerBusy, Ingesting, ThreadAlive
  <1>5. OneActiveRow'
    BY <1>u DEF IInv, RowBehindWork, OneActiveRow, Ingesting
  <1>6. FinalStatus'
    BY <1>u DEF IInv, TypeOK, FinalStatus, Terminal, Ingesting
  <1>7. RecordedFirst'
    BY <1>u DEF IInv, TypeOK, RecordedFirst
  <1>8. SuccessIsRecorded'
    BY <1>u DEF IInv, FinalStatus, SuccessIsRecorded
  <1> QED BY <1>1, <1>2, <1>3, <1>4, <1>5, <1>6, <1>7, <1>8 DEF IInv

(* The ingest raises: the object is failed, the row still running. *)
LEMMA IngestFailsInv ==
  ASSUME IInv, NEW j \in Job, IngestFails(j)
  PROVE  IInv'
  <1> USE DEF IngestFails, ThreadTo, SetStatus, storeVars, handlerVars, bounds
  <1>1. TypeOK'
    BY DEF IInv, TypeOK, Status, Terminal, ThreadPc, Ingesting, ThreadAlive
  <1>2. LockHeld'
    BY DEF IInv, LockHeld
  <1>3. RowBehindWork'
    BY DEF IInv, RowBehindWork, Ingesting, NoActiveJob
  <1>4. ThreadAfterAccept'
    BY DEF IInv, ThreadAfterAccept, Ingesting, ThreadAlive
  <1>5. OneActiveRow'
    BY DEF IInv, OneActiveRow
  <1>6. FinalStatus'
    BY DEF IInv, TypeOK, FinalStatus, Terminal, Ingesting
  <1>7. RecordedFirst'
    BY DEF IInv, TypeOK, RecordedFirst
  <1>8. SuccessIsRecorded'
    BY DEF IInv, SuccessIsRecorded
  <1> QED BY <1>1, <1>2, <1>3, <1>4, <1>5, <1>6, <1>7, <1>8 DEF IInv

(* The ingest returns. *)
LEMMA IngestSucceedsInv ==
  ASSUME IInv, NEW j \in Job, IngestSucceeds(j)
  PROVE  IInv'
  <1> USE DEF IngestSucceeds, ThreadTo, storeVars, memoryVars, handlerVars, bounds
  <1>1. TypeOK'
    BY DEF IInv, TypeOK, ThreadPc, Ingesting, ThreadAlive
  <1>2. LockHeld'
    BY DEF IInv, LockHeld
  <1>3. RowBehindWork'
    BY DEF IInv, RowBehindWork, Ingesting, NoActiveJob
  <1>4. ThreadAfterAccept'
    BY DEF IInv, ThreadAfterAccept, Ingesting, ThreadAlive
  <1>5. OneActiveRow'
    BY DEF IInv, OneActiveRow
  <1>6. FinalStatus'
    BY DEF IInv, FinalStatus, Ingesting
  <1>7. RecordedFirst'
    BY DEF IInv, RecordedFirst
  <1>8. SuccessIsRecorded'
    BY DEF IInv, SuccessIsRecorded
  <1> QED BY <1>1, <1>2, <1>3, <1>4, <1>5, <1>6, <1>7, <1>8 DEF IInv

(* The repository enters the catalog before anything is called a success. *)
LEMMA RecordRuntimeInv ==
  ASSUME IInv, NEW j \in Job, RecordRuntime(j)
  PROVE  IInv'
  <1> USE DEF RecordRuntime, StoreOk, StoreFault, ThreadTo, SetStatus, handlerVars
  <1>1. TypeOK'
    BY DEF IInv, TypeOK, ThreadAfterAccept, Status, Terminal, ThreadPc, Ingesting,
       ThreadAlive
  <1>2. LockHeld'
    BY DEF IInv, LockHeld
  <1>3. RowBehindWork'
    BY DEF IInv, TypeOK, RowBehindWork, Ingesting, NoActiveJob
  <1>4. ThreadAfterAccept'
    BY DEF IInv, TypeOK, ThreadAfterAccept, Ingesting, ThreadAlive
  <1>5. OneActiveRow'
    BY DEF IInv, OneActiveRow
  <1>6. FinalStatus'
    BY DEF IInv, TypeOK, FinalStatus, Terminal, Ingesting
  <1>7. RecordedFirst'
    BY DEF IInv, TypeOK, RecordedFirst
  <1>8. SuccessIsRecorded'
    BY DEF IInv, SuccessIsRecorded
  <1> QED BY <1>1, <1>2, <1>3, <1>4, <1>5, <1>6, <1>7, <1>8 DEF IInv

(* The readiness check picks the terminal status of the object. *)
LEMMA ReadinessInv ==
  ASSUME IInv, NEW j \in Job, Readiness(j)
  PROVE  IInv'
  <1> USE DEF Readiness, ThreadTo, SetStatus, storeVars, handlerVars, bounds
  <1>1. TypeOK'
    BY DEF IInv, TypeOK, Status, ThreadPc, Ingesting, ThreadAlive
  <1>2. LockHeld'
    BY DEF IInv, LockHeld
  <1>3. RowBehindWork'
    BY DEF IInv, RowBehindWork, RecordedFirst, Ingesting, NoActiveJob
  <1>4. ThreadAfterAccept'
    BY DEF IInv, ThreadAfterAccept, Ingesting, ThreadAlive
  <1>5. OneActiveRow'
    BY DEF IInv, OneActiveRow
  <1>6. FinalStatus'
    BY DEF IInv, TypeOK, FinalStatus, Ingesting
  <1>7. RecordedFirst'
    BY DEF IInv, RecordedFirst
  <1>8. SuccessIsRecorded'
    BY DEF IInv, SuccessIsRecorded
  <1> QED BY <1>1, <1>2, <1>3, <1>4, <1>5, <1>6, <1>7, <1>8 DEF IInv

(* The snapshot says what the final row is going to say. *)
LEMMA RecordSnapshotInv ==
  ASSUME IInv, NEW j \in Job, RecordSnapshot(j)
  PROVE  IInv'
  <1> USE DEF RecordSnapshot, StoreOk, StoreFault, ThreadTo, memoryVars, handlerVars
  <1>1. TypeOK'
    BY DEF IInv, TypeOK, FinalStatus, ThreadPc, Ingesting, ThreadAlive
  <1>2. LockHeld'
    BY DEF IInv, LockHeld
  <1>3. RowBehindWork'
    BY DEF IInv, TypeOK, RowBehindWork, Ingesting, NoActiveJob
  <1>4. ThreadAfterAccept'
    BY DEF IInv, TypeOK, ThreadAfterAccept, Ingesting, ThreadAlive
  <1>5. OneActiveRow'
    BY DEF IInv, OneActiveRow
  <1>6. FinalStatus'
    BY DEF IInv, TypeOK, FinalStatus, Ingesting
  <1>7. RecordedFirst'
    BY DEF IInv, TypeOK, RecordedFirst
  <1>8. SuccessIsRecorded'
    BY DEF IInv, TypeOK, FinalStatus, SuccessIsRecorded, Ingesting
  <1> QED BY <1>1, <1>2, <1>3, <1>4, <1>5, <1>6, <1>7, <1>8 DEF IInv

(* The final row: terminal, recorded, and the same when written twice. *)
LEMMA PublishInv ==
  ASSUME IInv, NEW j \in Job, Publish(j)
  PROVE  IInv'
  <1> USE DEF Publish, Committed, Raised, StoreOk, StoreFault, ThreadTo, memoryVars,
     handlerVars
  <1>r. obj[j] \in Status /\ repo[j] \in Repo
    BY DEF IInv, ThreadAfterAccept, FinalStatus, HandlerBusy, ThreadAlive,
       Ingesting, Status, Active, Terminal
  <1>u. /\ upsert_job(rows, j, obj[j], repo[j]) \in Table
        /\ upsert_job(rows, j, obj[j], repo[j])[j] = [status |-> obj[j], repo |-> repo[j]]
        /\ \A k \in Job \ {j} : upsert_job(rows, j, obj[j], repo[j])[k] = rows[k]
    BY <1>r, UpsertRow DEF IInv, TypeOK
  <1>1. TypeOK'
    BY <1>u DEF IInv, TypeOK, ThreadPc, ThreadAlive
  <1>2. LockHeld'
    BY <1>u DEF IInv, LockHeld
  <1>3. RowBehindWork'
    BY <1>u DEF IInv, TypeOK, RowBehindWork, ThreadAfterAccept, FinalStatus,
       Terminal, Active, HandlerBusy, Ingesting, NoActiveJob, list_active_job_ids
  <1>4. ThreadAfterAccept'
    BY <1>u DEF IInv, TypeOK, ThreadAfterAccept, HandlerBusy, Ingesting, ThreadAlive
  <1>5. OneActiveRow'
    BY <1>u DEF IInv, OneActiveRow, FinalStatus, Terminal, Active
  <1>6. FinalStatus'
    BY <1>u DEF IInv, TypeOK, FinalStatus, Ingesting
  <1>7. RecordedFirst'
    BY <1>u DEF IInv, TypeOK, RecordedFirst
  <1>8. SuccessIsRecorded'
    BY <1>u DEF IInv, RecordedFirst, SuccessIsRecorded
  <1> QED BY <1>1, <1>2, <1>3, <1>4, <1>5, <1>6, <1>7, <1>8 DEF IInv

(* The thread leaves the registry. *)
LEMMA PopInv ==
  ASSUME IInv, NEW j \in Job, Pop(j)
  PROVE  IInv'
  <1> USE DEF Pop, ThreadTo, storeVars, handlerVars, bounds
  <1>1. TypeOK'
    BY DEF IInv, TypeOK, ThreadPc
  <1>2. LockHeld'
    BY DEF IInv, LockHeld
  <1>3. RowBehindWork'
    BY DEF IInv, RowBehindWork, Ingesting, NoActiveJob
  <1>4. ThreadAfterAccept'
    BY DEF IInv, ThreadAfterAccept, ThreadAlive
  <1>5. OneActiveRow'
    BY DEF IInv, OneActiveRow
  <1>6. FinalStatus'
    BY DEF IInv, FinalStatus, Ingesting
  <1>7. RecordedFirst'
    BY DEF IInv, RecordedFirst
  <1>8. SuccessIsRecorded'
    BY DEF IInv, SuccessIsRecorded
  <1> QED BY <1>1, <1>2, <1>3, <1>4, <1>5, <1>6, <1>7, <1>8 DEF IInv

(* A restart keeps the tables and empties the memory: no handler and no thread
   is left to need a row. *)
LEMMA RestartInv ==
  ASSUME IInv, Restart
  PROVE  IInv'
  <1> USE DEF Restart, storeVars
  <1>h. hpc' \in [Job -> HandlerPc]
    BY DEF IInv, TypeOK, HandlerPc, HandlerBusy
  <1>t. tpc' \in [Job -> ThreadPc]
    BY DEF IInv, TypeOK, ThreadPc, ThreadAlive, Ingesting
  <1>m. /\ jobs' \in [Job -> {"none", "own", "copy"}]
        /\ obj' \in [Job -> Status \cup {"none"}]
        /\ storeOpen' \in BOOLEAN /\ lock' \in Job \cup {NoJob} /\ threads' \subseteq Job
    OBVIOUS
  <1>s. /\ rows' \in Table /\ catalog' \subseteq Repo
        /\ snap' \in [Job -> Terminal \cup {"none"}]
        /\ repo' \in [Job -> Repo \cup {NoRepo}] /\ faults' \in Nat /\ crashes' \in Nat
    BY DEF IInv, TypeOK
  <1>1. TypeOK'
    BY <1>h, <1>t, <1>m, <1>s DEF TypeOK
  <1>2. LockHeld'
    BY DEF IInv, LockHeld, HandlerBusy
  <1>3. RowBehindWork'
    BY DEF IInv, RowBehindWork, Ingesting, NoActiveJob
  <1>4. ThreadAfterAccept'
    BY DEF IInv, ThreadAfterAccept, HandlerBusy, Ingesting, ThreadAlive
  <1>5. OneActiveRow'
    BY DEF IInv, OneActiveRow
  <1>6. FinalStatus'
    BY DEF IInv, FinalStatus, Ingesting, ThreadAlive
  <1>7. RecordedFirst'
    BY DEF IInv, RecordedFirst, Ingesting, ThreadAlive
  <1>8. SuccessIsRecorded'
    BY DEF IInv, SuccessIsRecorded
  <1> QED BY <1>1, <1>2, <1>3, <1>4, <1>5, <1>6, <1>7, <1>8 DEF IInv

(* Nothing moves. *)
LEMMA StutterInv ==
  ASSUME IInv, UNCHANGED vars
  PROVE  IInv'
  <1> USE DEF vars
  <1>1. TypeOK'
    BY DEF IInv, TypeOK
  <1>2. LockHeld'
    BY DEF IInv, LockHeld
  <1>3. RowBehindWork'
    BY DEF IInv, RowBehindWork, NoActiveJob
  <1>4. ThreadAfterAccept'
    BY DEF IInv, ThreadAfterAccept
  <1>5. OneActiveRow'
    BY DEF IInv, OneActiveRow
  <1>6. FinalStatus'
    BY DEF IInv, FinalStatus
  <1>7. RecordedFirst'
    BY DEF IInv, RecordedFirst
  <1>8. SuccessIsRecorded'
    BY DEF IInv, SuccessIsRecorded
  <1> QED BY <1>1, <1>2, <1>3, <1>4, <1>5, <1>6, <1>7, <1>8 DEF IInv

-----------------------------------------------------------------------------
(* Every step of the manager keeps the inductive invariant. *)
LEMMA StepInv ==
  ASSUME IInv, [Next]_vars
  PROVE  IInv'
  <1>1. CASE OpenStore
    BY <1>1, OpenStoreInv
  <1>2. CASE Restart
    BY <1>2, RestartInv
  <1>3. ASSUME NEW j \in Job, Create(j)
        PROVE  IInv'
    BY <1>3, AcquireInv, CheckInv, InsertInv, RegisterInv, StartInv DEF Create
  <1>4. ASSUME NEW j \in Job, RunStep(j)
        PROVE  IInv'
    <2>1. CASE Fetch(j) \/ Begin(j) \/ EndIngest(j) \/ RecordRuntime(j)
      BY <2>1, FetchInv, BeginInv, IngestFailsInv, IngestSucceedsInv, RecordRuntimeInv
         DEF EndIngest
    <2>2. CASE Readiness(j) \/ RecordSnapshot(j) \/ Publish(j) \/ Pop(j)
      BY <2>2, ReadinessInv, RecordSnapshotInv, PublishInv, PopInv
    <2> QED BY <1>4, <2>1, <2>2 DEF RunStep
  <1>5. ASSUME NEW j \in Job, Log(j)
        PROVE  IInv'
    BY <1>5, LogInv
  <1>6. CASE UNCHANGED vars
    BY <1>6, StutterInv
  <1> QED BY <1>1, <1>2, <1>3, <1>4, <1>5, <1>6 DEF Next

(* The inductive invariant holds in every behaviour. *)
THEOREM Invariance == Spec => []IInv
  <1>1. Init => IInv
    BY InitInv
  <1>2. IInv /\ [Next]_vars => IInv'
    BY StepInv
  <1> QED BY <1>1, <1>2, PTL DEF Spec

(* The variables of the manager keep their types. *)
THEOREM TypeCorrectness == Spec => []TypeOK
  <1>1. IInv => TypeOK
    BY DEF IInv
  <1> QED BY <1>1, Invariance, PTL

(* Two threads never ingest one repository at the same time: both would stand
   behind an active row of it, and there is at most one. *)
THEOREM MutualExclusion == Spec => []AtMostOneIngest
  <1>1. IInv => AtMostOneIngest
    BY DEF IInv, AtMostOneIngest, RowBehindWork, OneActiveRow
  <1> QED BY <1>1, Invariance, PTL

(* A row that reports success is preceded by its snapshot and catalog entry. *)
THEOREM SuccessIsOnRecord == Spec => []SuccessIsRecorded
  <1>1. IInv => SuccessIsRecorded
    BY DEF IInv
  <1> QED BY <1>1, Invariance, PTL

-----------------------------------------------------------------------------
(* The statuses of the rows of ended jobs, over one step. *)
EndsStay == \A k \in Job : rows[k].status \in Terminal
                            => rows'[k].status = rows[k].status

(* Whoever writes a row while it may be active, or writes what it says, keeps
   the ends. *)
LEMMA WriteKeepsEnds ==
  ASSUME IInv, NEW j \in Job, NEW s \in Status,
         rows' \in {rows, upsert_job(rows, j, s, repo[j])},
         repo[j] \in Repo,
         rows[j].status \in Terminal => rows[j].status = s
  PROVE  EndsStay
  <1>1. rows \in Table
    BY DEF IInv, TypeOK
  <1>2. /\ upsert_job(rows, j, s, repo[j])[j] = [status |-> s, repo |-> repo[j]]
        /\ \A k \in Job \ {j} : upsert_job(rows, j, s, repo[j])[k] = rows[k]
    BY <1>1, UpsertRow
  <1>3. CASE rows' = upsert_job(rows, j, s, repo[j])
    BY <1>2, <1>3 DEF EndsStay
  <1> QED BY <1>3 DEF EndsStay

(* A row that reached a terminal status keeps it over every step. *)
LEMMA StepKeepsEnds ==
  ASSUME IInv, [Next]_vars
  PROVE  EndsStay
  <1>0. rows' = rows => EndsStay
    BY DEF EndsStay
  <1>1. CASE OpenStore
    BY <1>1, RecoveredRows DEF IInv, TypeOK, OpenStore, EndsStay, Active, Terminal
  <1>2. CASE Restart
    BY <1>0, <1>2 DEF Restart, storeVars
  <1>3. ASSUME NEW j \in Job, Create(j)
        PROVE  EndsStay
    <2>1. CASE Insert(j)
      <3>1. repo[j] \in Repo /\ rows[j].status \notin Terminal
        BY <2>1 DEF IInv, ThreadAfterAccept, Insert, HandlerBusy, Absent, Terminal
      <3>2. rows' \in {rows, upsert_job(rows, j, "queued", repo[j])}
        BY <2>1 DEF Insert, Committed, Raised
      <3> QED BY <3>1, <3>2, WriteKeepsEnds DEF Status, Active
    <2>2. CASE ~Insert(j)
      BY <1>0, <1>3, <2>2 DEF Create, Acquire, Check, Register, Start, storeVars
    <2> QED BY <2>1, <2>2
  <1>4. ASSUME NEW j \in Job, Begin(j) \/ Log(j) \/ Publish(j)
        PROVE  EndsStay
    <2>1. /\ tpc[j] \in Ingesting \cup {"final2"}
          /\ rows' \in {rows, upsert_job(rows, j, IF tpc[j] = "begin" THEN "running" ELSE obj[j], repo[j])}
      BY <1>4 DEF Begin, Log, Publish, Committed, Raised, Ingesting
    <2>2. repo[j] \in Repo
      BY <2>1 DEF IInv, ThreadAfterAccept, ThreadAlive
    <2>3. CASE tpc[j] \in Ingesting
      <3>1. rows[j].status \notin Terminal
        BY <2>3 DEF IInv, RowBehindWork, Active, Terminal
      <3>2. tpc[j] # "begin" => obj[j] \in Status
        BY <1>4, <2>3 DEF IInv, FinalStatus, Log, Publish, Begin, Status, Active,
           Terminal
      <3> QED BY <2>1, <2>2, <3>1, <3>2, WriteKeepsEnds DEF Status, Active
    <2>4. CASE tpc[j] = "final2"
      <3>1. obj[j] \in Status /\ rows[j].status = obj[j]
        BY <2>4 DEF IInv, FinalStatus, Status
      <3> QED BY <2>1, <2>2, <2>4, <3>1, WriteKeepsEnds
    <2> QED BY <2>1, <2>3, <2>4
  <1>5. ASSUME NEW j \in Job, RunStep(j), ~Begin(j), ~Publish(j)
        PROVE  EndsStay
    BY <1>0, <1>5 DEF RunStep, EndIngest, Fetch, IngestFails, IngestSucceeds,
                      RecordRuntime, Readiness, RecordSnapshot, Pop, storeVars
  <1>6. CASE UNCHANGED vars
    BY <1>0, <1>6 DEF vars
  <1> QED BY <1>1, <1>2, <1>3, <1>4, <1>5, <1>6 DEF Next

(* The status of an ended job is final. *)
THEOREM FinalRows == Spec => TerminalRowIsFinal
  <1>1. IInv /\ [Next]_vars => EndsStay
    BY StepKeepsEnds
  <1>2. EndsStay <=> \A j \in Job : rows[j].status \in Terminal
                                     => rows'[j].status = rows[j].status
    BY DEF EndsStay
  <1> QED BY <1>1, <1>2, Invariance, PTL DEF Spec, TerminalRowIsFinal

-----------------------------------------------------------------------------
(* What GET /jobs/{id} has reported as the end of a job stays reported.  The
   inductive invariant speaks of rows; reports are read from memory first, so that
   the JobInfo objects need an invariant of their own. *)

(* A JobInfo is tracked from the insertion on, is always the object the thread
   shares, and says queued until the thread sets it running. *)
Tracked ==
  \A j \in Job :
    /\ jobs[j] # "copy"
    /\ hpc[j] \in {"idle", "check", "insert"} => jobs[j] = "none"
    /\ hpc[j] \in {"register", "start"} => obj[j] = "queued"
    /\ tpc[j] \in {"fetch", "begin"} => obj[j] = "queued"

(* The initial state tracks nothing. *)
LEMMA InitTracked ==
  ASSUME Init
  PROVE  Tracked
  BY DEF Init, Tracked

(* The handlers track the job they insert and leave the others alone. *)
LEMMA CreateTracked ==
  ASSUME IInv, Tracked, NEW j \in Job, Create(j)
  PROVE  Tracked'
  <1>0. hpc \in [Job -> HandlerPc] /\ tpc \in [Job -> ThreadPc]
        /\ jobs \in [Job -> {"none", "own", "copy"}]
        /\ obj \in [Job -> Status \cup {"none"}]
    BY DEF IInv, TypeOK
  <1>1. ASSUME NEW r \in Repo, Acquire(j, r)
        PROVE  Tracked'
    BY <1>0, <1>1 DEF Tracked, Acquire, memoryVars
  <1>2. CASE Check(j)
    BY <1>0, <1>2 DEF Tracked, Check, HandlerTo, Answer, memoryVars
  <1>3. CASE Insert(j)
    <2>1. tpc[j] = "none"
      BY <1>3 DEF IInv, ThreadAfterAccept, Insert, HandlerBusy
    <2>2. /\ tpc' = tpc
          /\ jobs' = [jobs EXCEPT ![j] = "own"]
          /\ obj' = [obj EXCEPT ![j] = "queued"]
          /\ \/ hpc' = [hpc EXCEPT ![j] = "register"]
             \/ hpc' = [hpc EXCEPT ![j] = "error"]
      BY <1>3 DEF Insert, HandlerTo, Answer
    <2> QED BY <1>0, <2>1, <2>2 DEF Tracked
  <1>4. CASE Register(j)
    BY <1>0, <1>4 DEF Tracked, Register, HandlerTo
  <1>5. CASE Start(j)
    BY <1>0, <1>5 DEF Tracked, Start, Answer, memoryVars
  <1> QED BY <1>1, <1>2, <1>3, <1>4, <1>5 DEF Create

(* A thread changes its object only after it has left the first two steps. *)
LEMMA RunTracked ==
  ASSUME IInv, Tracked, NEW j \in Job, RunStep(j) \/ Log(j)
  PROVE  Tracked'
  <1>0. tpc \in [Job -> ThreadPc] /\ jobs \in [Job -> {"none", "own", "copy"}]
        /\ obj \in [Job -> Status \cup {"none"}]
    BY DEF IInv, TypeOK
  <1>1. /\ hpc' = hpc
        /\ hpc[j] \notin {"idle", "check", "insert", "register", "start"}
    <2>1. hpc' = hpc /\ tpc[j] # "none"
      BY DEF RunStep, EndIngest, Fetch, Begin, Log, IngestFails, IngestSucceeds,
             RecordRuntime, Readiness, RecordSnapshot, Publish, Pop, handlerVars
    <2> QED BY <2>1 DEF IInv, ThreadAfterAccept, HandlerBusy
  <1>2. CASE Fetch(j)
    <2>1. \/ tpc' = [tpc EXCEPT ![j] = "done"] /\ jobs' = jobs /\ obj' = obj
          \/ /\ tpc' = [tpc EXCEPT ![j] = "begin"]
             /\ jobs' = [jobs EXCEPT ![j] = "own"]
             /\ obj' = [obj EXCEPT ![j] = obj[j]]
      BY <1>2 DEF Tracked, Fetch, ThreadTo, SetStatus
    <2>2. obj[j] = "queued"
      BY <1>2 DEF Tracked, Fetch
    <2> QED BY <1>0, <1>1, <2>1, <2>2 DEF Tracked
  <1>3. ASSUME ~Fetch(j)
        PROVE  Tracked'
    <2>1. jobs' = jobs
      BY <1>3 DEF RunStep, EndIngest, Begin, Log, IngestFails, IngestSucceeds,
         RecordRuntime, Readiness, RecordSnapshot, Publish, Pop, memoryVars
    <2>2. \A k \in Job \ {j} : tpc'[k] = tpc[k] /\ obj'[k] = obj[k]
      BY <1>0, <1>3 DEF RunStep, EndIngest, Begin, Log, IngestFails, IngestSucceeds,
         RecordRuntime, Readiness, RecordSnapshot, Publish, Pop, memoryVars,
         ThreadTo, SetStatus
    <2>3. tpc'[j] \notin {"fetch", "begin"}
      BY <1>0, <1>3 DEF RunStep, EndIngest, Begin, Log, IngestFails, IngestSucceeds,
         RecordRuntime, Readiness, RecordSnapshot, Publish, Pop, ThreadTo
    <2> QED BY <1>1, <2>1, <2>2, <2>3 DEF Tracked
  <1> QED BY <1>2, <1>3

(* A restart forgets every JobInfo together with its handler and its thread. *)
LEMMA RestartTracked ==
  ASSUME IInv, Tracked, Restart
  PROVE  Tracked'
  BY DEF IInv, TypeOK, Tracked, Restart, HandlerBusy, ThreadAlive, Ingesting

(* The two invariants together are inductive. *)
LEMMA StepTracked ==
  ASSUME IInv, Tracked, [Next]_vars
  PROVE  Tracked'
  <1>1. CASE OpenStore
    BY <1>1 DEF Tracked, OpenStore, memoryVars, handlerVars
  <1>2. CASE Restart
    BY <1>2, RestartTracked
  <1>3. ASSUME NEW j \in Job, Create(j) \/ RunStep(j) \/ Log(j)
        PROVE  Tracked'
    BY <1>3, CreateTracked, RunTracked
  <1>4. CASE UNCHANGED vars
    BY <1>4 DEF Tracked, vars
  <1> QED BY <1>1, <1>2, <1>3, <1>4 DEF Next

(* Every JobInfo of the running process is the object its thread shares. *)
THEOREM Tracking == Spec => []Tracked
  <1>1. Init => Tracked
    BY InitTracked
  <1>2. IInv /\ Tracked /\ [Next]_vars => Tracked'
    BY StepTracked
  <1> QED BY <1>1, <1>2, Invariance, PTL DEF Spec

-----------------------------------------------------------------------------
(* An end in memory: no step of the process sets the object again. *)
LEMMA ObjectKeepsEnd ==
  ASSUME IInv, Tracked, [Next]_vars, crashes' = crashes,
         NEW j \in Job, jobs[j] = "own", obj[j] \in Terminal
  PROVE  jobs'[j] = "own" /\ obj'[j] = obj[j]
  <1>0. /\ jobs \in [Job -> {"none", "own", "copy"}]
        /\ obj \in [Job -> Status \cup {"none"}]
        /\ crashes \in Nat
    BY DEF IInv, TypeOK
  <1>1. ~Restart
    BY <1>0 DEF Restart
  <1>2. ASSUME NEW k \in Job, Create(k)
        PROVE  jobs'[j] = "own" /\ obj'[j] = obj[j]
    <2>1. CASE Insert(k)
      <3>1. jobs[k] = "none"
        BY <2>1 DEF Tracked, Insert
      <3>2. k # j
        BY <3>1
      <3> QED BY <1>0, <2>1, <3>2 DEF Insert
    <2>2. CASE ~Insert(k)
      BY <1>2, <2>2 DEF Create, Acquire, Check, Register, Start, memoryVars
    <2> QED BY <2>1, <2>2
  <1>3. ASSUME NEW k \in Job, RunStep(k) \/ Log(k)
        PROVE  jobs'[j] = "own" /\ obj'[j] = obj[j]
    <2>1. CASE Fetch(k)
      <3>1. obj[k] = "queued"
        BY <2>1 DEF Tracked, Fetch
      <3>2. k # j
        BY <3>1 DEF Terminal
      <3> QED BY <1>0, <2>1, <3>2 DEF Fetch, SetStatus
    <2>2. CASE ~Fetch(k) /\ obj' # obj
      <3>1. tpc[k] \in {"begin", "work", "runtime", "ready"}
        BY <1>3, <2>2 DEF RunStep, EndIngest, Begin, Log, IngestFails, IngestSucceeds,
           RecordRuntime, Readiness, RecordSnapshot, Publish, Pop, memoryVars
      <3>2. obj[k] \in {"queued", "running"}
        BY <3>1 DEF Tracked, IInv, FinalStatus
      <3>3. k # j
        BY <3>2 DEF Terminal
      <3>4. jobs' = jobs /\ \E s \in Status : obj' = [obj EXCEPT ![k] = s]
        BY <1>3, <2>2 DEF RunStep, EndIngest, Begin, Log, IngestFails, IngestSucceeds,
           RecordRuntime, Readiness, RecordSnapshot, Publish, Pop, memoryVars,
           SetStatus, Status, Active, Terminal
      <3> QED BY <1>0, <3>3, <3>4
    <2>3. CASE ~Fetch(k) /\ obj' = obj
      BY <1>3, <2>3 DEF RunStep, EndIngest, Begin, Log, IngestFails, IngestSucceeds,
         RecordRuntime, Readiness, RecordSnapshot, Publish, Pop, memoryVars
    <2> QED BY <2>1, <2>2, <2>3
  <1>4. CASE OpenStore \/ UNCHANGED vars
    BY <1>4 DEF OpenStore, memoryVars, vars
  <1> QED BY <1>1, <1>2, <1>3, <1>4 DEF Next

(* A job that ended before the process started is tracked by nobody. *)
LEMMA EndedStaysUntracked ==
  ASSUME IInv, Tracked, [Next]_vars,
         NEW j \in Job, jobs[j] = "none", rows[j].status \in Terminal
  PROVE  jobs'[j] = "none"
  <1>0. jobs \in [Job -> {"none", "own", "copy"}]
    BY DEF IInv, TypeOK
  <1>1. CASE OpenStore \/ Restart \/ UNCHANGED vars
    BY <1>1 DEF OpenStore, Restart, memoryVars, vars
  <1>2. ASSUME NEW k \in Job, Create(k)
        PROVE  jobs'[j] = "none"
    <2>1. CASE Insert(k)
      <3>1. rows[k] = Absent
        BY <2>1 DEF IInv, ThreadAfterAccept, Insert
      <3>2. k # j
        BY <3>1 DEF Absent, Terminal
      <3> QED BY <1>0, <2>1, <3>2 DEF Insert
    <2>2. CASE ~Insert(k)
      BY <1>2, <2>2 DEF Create, Acquire, Check, Register, Start, memoryVars
    <2> QED BY <2>1, <2>2
  <1>3. ASSUME NEW k \in Job, RunStep(k) \/ Log(k)
        PROVE  jobs'[j] = "none"
    <2>1. CASE Fetch(k)
      BY <1>0, <2>1 DEF Fetch
    <2>2. CASE ~Fetch(k)
      BY <1>3, <2>2 DEF RunStep, EndIngest, Begin, Log, IngestFails, IngestSucceeds,
         RecordRuntime, Readiness, RecordSnapshot, Publish, Pop, memoryVars
    <2> QED BY <2>1, <2>2
  <1> QED BY <1>1, <1>2, <1>3 DEF Next

(* What one step does to the reported ends. *)
ReportsStay == \A j \in Job : get_job(j) \in Terminal
                               => get_job(j)' = get_job(j) \/ crashes' # crashes

(* No step but a restart changes a reported end: an end in memory is kept by
   the object, an end in the table by the row. *)
LEMMA StepKeepsReports ==
  ASSUME IInv, Tracked, Tracked', [Next]_vars
  PROVE  ReportsStay
  <1> SUFFICES ASSUME NEW j \in Job, get_job(j) \in Terminal, crashes' = crashes
               PROVE  get_job(j)' = get_job(j)
    BY DEF ReportsStay
  <1>0. jobs[j] \in {"none", "own"}
    BY DEF IInv, TypeOK, Tracked
  <1>1. get_job(j) = IF jobs[j] = "own" THEN obj[j] ELSE rows[j].status
    BY DEF Tracked, get_job
  <1>2. get_job(j)' = IF jobs'[j] = "own" THEN obj'[j] ELSE rows'[j].status
    BY DEF Tracked, get_job
  <1>3. CASE jobs[j] = "own"
    BY <1>1, <1>2, <1>3, ObjectKeepsEnd
  <1>4. CASE jobs[j] = "none"
    <2>1. rows[j].status \in Terminal
      BY <1>1, <1>4
    <2>2. rows'[j].status = rows[j].status
      BY <2>1, StepKeepsEnds DEF EndsStay
    <2>3. jobs'[j] = "none"
      BY <1>4, <2>1, EndedStaysUntracked
    <2> QED BY <1>1, <1>2, <1>4, <2>2, <2>3
  <1> QED BY <1>0, <1>3, <1>4

(* A reported end is final as long as the process lives. *)
THEOREM FinalReports == Spec => ReportedEndIsFinal
  <1>1. IInv /\ Tracked /\ Tracked' /\ [Next]_vars => ReportsStay
    BY StepKeepsReports
  <1>2. ReportsStay <=> \A j \in Job : get_job(j) \in Terminal
                          => get_job(j)' = get_job(j) \/ crashes' # crashes
    BY DEF ReportsStay
  <1> QED BY <1>1, <1>2, Invariance, Tracking, PTL DEF Spec, ReportedEndIsFinal

-----------------------------------------------------------------------------
(* JobManager implements IngestSlots: the proof, step by step, that what a
   client sees of the locks, threads and rows is one slot per repository. *)

(* The holder of a slot is the active row of the repository. *)
LEMMA HolderOf ==
  ASSUME NEW t, NEW r \in Repo, NEW j \in Job,
         j \in list_active_job_ids(t, r),
         \A k \in list_active_job_ids(t, r) : k = j
  PROVE  SlotOf(t, r) = j
  BY DEF SlotOf, list_active_job_ids

(* A repository without active rows has no holder. *)
LEMMA NoHolder ==
  ASSUME NEW t, NEW r \in Repo, list_active_job_ids(t, r) = {}
  PROVE  SlotOf(t, r) = NoJob
  BY DEF SlotOf

(* Tables with the same active rows of a repository have the same holder. *)
LEMMA SameHolder ==
  ASSUME NEW t, NEW u, NEW r \in Repo,
         list_active_job_ids(t, r) = list_active_job_ids(u, r)
  PROVE  SlotOf(t, r) = SlotOf(u, r)
  BY DEF SlotOf

(* Steps that do not write the jobs table are invisible. *)
LEMMA SameRows ==
  ASSUME rows' = rows
  PROVE  UNCHANGED Slots!slotVars
  BY DEF Slots!slotVars, SlotOf, list_active_job_ids

(* A written row changes the status of its job only. *)
LEMMA StatusOfWrite ==
  ASSUME NEW t \in Table, NEW j \in Job, NEW status \in Status, NEW r \in Repo
  PROVE  /\ upsert_job(t, j, status, r)[j].status = status
         /\ \A k \in Job \ {j} : upsert_job(t, j, status, r)[k].status = t[k].status
  <1> DEFINE u == upsert_job(t, j, status, r)
  <1>1. /\ u[j] = [status |-> status, repo |-> r]
        /\ \A k \in Job \ {j} : u[k] = t[k]
    BY UpsertRow
  <1> QED BY <1>1

(* A row written for the only job that may hold a slot decides who holds it. *)
LEMMA SlotsOfWrite ==
  ASSUME NEW t \in Table, NEW j \in Job, NEW status \in Status, NEW r \in Repo,
         t[j] = Absent \/ t[j].repo = r,
         list_active_job_ids(t, r) \subseteq {j}
  PROVE  [s \in Repo |-> SlotOf(upsert_job(t, j, status, r), s)]
           = [[s \in Repo |-> SlotOf(t, s)] EXCEPT
                ![r] = IF status \in Active THEN j ELSE NoJob]
  <1> DEFINE u == upsert_job(t, j, status, r)
  <1>1. /\ u[j] = [status |-> status, repo |-> r]
        /\ \A k \in Job \ {j} : u[k] = t[k]
    BY UpsertRow
  <1>2. list_active_job_ids(u, r) = IF status \in Active THEN {j} ELSE {}
    BY <1>1 DEF list_active_job_ids
  <1>3. \A s \in Repo \ {r} : list_active_job_ids(u, s) = list_active_job_ids(t, s)
    BY <1>1 DEF list_active_job_ids, Absent, Active
  <1>4. SlotOf(u, r) = IF status \in Active THEN j ELSE NoJob
    <2>1. CASE status \in Active
      BY <1>2, <2>1, HolderOf
    <2>2. CASE status \notin Active
      BY <1>2, <2>2, NoHolder
    <2> QED BY <2>1, <2>2
  <1>5. \A s \in Repo \ {r} : SlotOf(u, s) = SlotOf(t, s)
    BY <1>3, SameHolder
  <1> QED BY <1>4, <1>5

(* The first row of a job takes the free slot of its repository. *)
LEMMA InsertAccepts ==
  ASSUME IInv, NEW j \in Job, Insert(j)
  PROVE  (\E r \in Repo : Slots!Accept(j, r)) \/ rows' = rows
  <1>0. PICK r \in Repo : r = repo[j]
    BY DEF IInv, ThreadAfterAccept, Insert, HandlerBusy
  <1> DEFINE u == upsert_job(rows, j, "queued", r)
  <1>1. /\ r \in Repo /\ rows[j] = Absent /\ rows \in Table
        /\ list_active_job_ids(rows, r) = {}
    BY <1>0 DEF IInv, TypeOK, Insert, ThreadAfterAccept, RowBehindWork, NoActiveJob
  <1>2. rows' \in {rows, u}
    BY <1>0 DEF Insert, Committed, Raised
  <1>3. SUFFICES ASSUME rows' = u
                 PROVE  Slots!Accept(j, r)
    BY <1>2
  <1>4. [s \in Repo |-> SlotOf(u, s)] = [[s \in Repo |-> SlotOf(rows, s)] EXCEPT ![r] = j]
    BY <1>1, SlotsOfWrite DEF Status, Active
  <1>5. [k \in Job |-> u[k].status] = [[k \in Job |-> rows[k].status] EXCEPT ![j] = "queued"]
    <2>1. "queued" \in Status
      BY DEF Status, Active
    <2>2. u[j].status = "queued" /\ \A k \in Job \ {j} : u[k].status = rows[k].status
      BY <1>1, <2>1, StatusOfWrite
    <2> QED BY <2>2
  <1>6. SlotOf(rows, r) = NoJob /\ rows[j].status = "absent"
    BY <1>1, NoHolder DEF Absent
  <1> QED BY <1>1, <1>3, <1>4, <1>5, <1>6 DEF Slots!Accept

(* An ingesting thread holds the slot of its repository. *)
LEMMA IngestHoldsSlot ==
  ASSUME IInv, NEW j \in Job, tpc[j] \in Ingesting
  PROVE  /\ rows \in Table /\ repo[j] \in Repo
         /\ rows[j].status \in Active /\ rows[j].repo = repo[j]
         /\ list_active_job_ids(rows, repo[j]) = {j}
         /\ SlotOf(rows, repo[j]) = j
  <1>1. /\ rows \in Table /\ repo[j] \in Repo
        /\ rows[j].status \in Active /\ rows[j].repo = repo[j]
    BY DEF IInv, TypeOK, RowBehindWork, ThreadAfterAccept, ThreadAlive
  <1>2. list_active_job_ids(rows, repo[j]) = {j}
    BY <1>1 DEF IInv, OneActiveRow, list_active_job_ids
  <1> QED BY <1>1, <1>2, HolderOf

(* A running row written over an active one is the start of the run, or no
   news. *)
LEMMA WriteRuns ==
  ASSUME IInv, NEW j \in Job, tpc[j] \in Ingesting,
         rows' \in {rows, upsert_job(rows, j, "running", repo[j])}
  PROVE  Slots!Run(j) \/ UNCHANGED Slots!slotVars
  <1> DEFINE r == repo[j]
             u == upsert_job(rows, j, "running", r)
  <1>1. CASE rows' = rows
    BY <1>1, SameRows
  <1>2. CASE rows' = u
    <2>1. [s \in Repo |-> SlotOf(u, s)] = [[s \in Repo |-> SlotOf(rows, s)] EXCEPT ![r] = j]
      BY IngestHoldsSlot, SlotsOfWrite DEF Status, Active
    <2>2. [s \in Repo |-> SlotOf(u, s)] = [s \in Repo |-> SlotOf(rows, s)]
      <3>1. SlotOf(rows, r) = j /\ r \in Repo
        BY IngestHoldsSlot
      <3> QED BY <2>1, <3>1
    <2>3. [k \in Job |-> u[k].status] = [[k \in Job |-> rows[k].status] EXCEPT ![j] = "running"]
      <3>1. u[j].status = "running" /\ \A k \in Job \ {j} : u[k].status = rows[k].status
        BY IngestHoldsSlot, StatusOfWrite DEF Status, Active
      <3> QED BY <3>1
    <2>4. CASE rows[j].status = "queued"
      BY <1>2, <2>2, <2>3, <2>4 DEF Slots!Run
    <2>5. CASE rows[j].status = "running"
      BY <1>2, <2>2, <2>3, <2>5 DEF Slots!slotVars
    <2> QED BY <2>4, <2>5, IngestHoldsSlot DEF Active
  <1> QED BY <1>1, <1>2

(* The first final upsert ends the job and frees the slot; the second one
   writes what is already there. *)
LEMMA PublishFinishes ==
  ASSUME IInv, NEW j \in Job, Publish(j)
  PROVE  \/ \E r \in Repo, result \in Slots!Ended : Slots!Finish(r, result)
         \/ UNCHANGED Slots!slotVars
  <1>0. /\ repo[j] \in Repo /\ obj[j] \in Terminal
        /\ tpc[j] \in {"final", "final2"} /\ rows \in Table
    BY DEF Publish, IInv, FinalStatus, TypeOK, ThreadAfterAccept, ThreadAlive, Ingesting
  <1>p. PICK r \in Repo, result \in Terminal : r = repo[j] /\ result = obj[j]
    BY <1>0
  <1> DEFINE u == upsert_job(rows, j, result, r)
  <1>1. rows' \in {rows, u}
    BY <1>p DEF Publish, Committed, Raised
  <1>2. [k \in Job |-> u[k].status] = [[k \in Job |-> rows[k].status] EXCEPT ![j] = result]
    <2>1. u[j].status = result /\ \A k \in Job \ {j} : u[k].status = rows[k].status
      BY <1>0, StatusOfWrite DEF Status
    <2> QED BY <2>1
  <1>3. CASE rows' = rows
    BY <1>3, SameRows
  <1>4. CASE rows' = u /\ tpc[j] = "final"
    <2>1. rows[j].status = "running" /\ tpc[j] \in Ingesting
      BY <1>4 DEF IInv, FinalStatus, Ingesting
    <2>2. [s \in Repo |-> SlotOf(u, s)] = [[s \in Repo |-> SlotOf(rows, s)] EXCEPT ![r] = NoJob]
      <3>1. result \in Status /\ result \notin Active
        BY DEF Status, Active, Terminal
      <3>2. rows[j].repo = r /\ list_active_job_ids(rows, r) \subseteq {j}
        BY <1>p, <2>1, IngestHoldsSlot
      <3> QED BY <1>0, <3>1, <3>2, SlotsOfWrite
    <2>3. SlotOf(rows, r) = j /\ j # NoJob
      BY <1>p, <2>1, IngestHoldsSlot, JobManagerAssumption
    <2>4. Slots!Finish(r, result)
      <3>1. [s \in Repo |-> SlotOf(rows, s)][r] = j
        BY <2>3
      <3>2. [k \in Job |-> rows[k].status][j] = "running"
        BY <2>1
      <3> QED BY <1>2, <1>4, <2>2, <2>3, <3>1, <3>2 DEF Slots!Finish
    <2>5. result \in Slots!Ended
      BY DEF Slots!Ended, Terminal
    <2> QED BY <2>4, <2>5
  <1>5. CASE rows' = u /\ tpc[j] = "final2"
    <2>1. rows[j].status = result
      BY <1>p, <1>5 DEF IInv, FinalStatus
    <2>2. [k \in Job |-> u[k].status] = [k \in Job |-> rows[k].status]
      BY <1>2, <2>1
    <2>3. u[j] = [status |-> result, repo |-> r] /\ \A k \in Job \ {j} : u[k] = rows[k]
      BY <1>0, UpsertRow DEF Status
    <2>4. \A s \in Repo : list_active_job_ids(u, s) = list_active_job_ids(rows, s)
      BY <2>1, <2>3 DEF list_active_job_ids, Active, Terminal
    <2>5. [s \in Repo |-> SlotOf(u, s)] = [s \in Repo |-> SlotOf(rows, s)]
      BY <2>4, SameHolder
    <2> QED BY <1>5, <2>2, <2>5 DEF Slots!slotVars
  <1> QED BY <1>0, <1>1, <1>3, <1>4, <1>5

(* The recovery ends every job that holds a slot, and frees all slots. *)
LEMMA OpenStoreAborts ==
  ASSUME IInv, OpenStore
  PROVE  Slots!AbortAll
  <1> DEFINE held == {[s \in Repo |-> SlotOf(rows, s)][r] : r \in Repo} \ {NoJob}
  <1>1. rows \in Table /\ rows' = recover_interrupted_jobs(rows)
    BY DEF IInv, TypeOK, OpenStore
  <1>2. \A j \in Job : /\ rows[j].status \in Active => rows'[j].status = "failed"
                       /\ rows[j].status \notin Active => rows'[j].status = rows[j].status
    BY <1>1, RecoveredRows
  <1>3. \A r \in Repo : SlotOf(rows', r) = NoJob
    <2>1. \A r \in Repo : list_active_job_ids(rows', r) = {}
      BY <1>2 DEF list_active_job_ids, Active
    <2> QED BY <2>1, NoHolder
  <1>4. \A j \in Job : rows[j].status \in Active <=> j \in held
    <2>1. ASSUME NEW j \in Job, rows[j].status \in Active
          PROVE  j \in held
      <3>1. rows[j].repo \in Repo /\ j \in list_active_job_ids(rows, rows[j].repo)
        BY <2>1 DEF IInv, OneActiveRow, list_active_job_ids
      <3>2. SlotOf(rows, rows[j].repo) = j
        BY <2>1, <3>1, HolderOf DEF IInv, OneActiveRow, list_active_job_ids
      <3> QED BY <3>1, <3>2, JobManagerAssumption
    <2>2. ASSUME NEW r \in Repo, SlotOf(rows, r) # NoJob
          PROVE  SlotOf(rows, r) \in list_active_job_ids(rows, r)
      BY <2>2 DEF SlotOf, list_active_job_ids
    <2> QED BY <2>1, <2>2 DEF list_active_job_ids
  <1>5. [j \in Job |-> rows'[j].status]
          = [j \in Job |-> IF j \in held THEN "failed" ELSE [k \in Job |-> rows[k].status][j]]
    BY <1>2, <1>4
  <1>6. [r \in Repo |-> SlotOf(rows', r)] = [r \in Repo |-> NoJob]
    BY <1>3
  <1> QED BY <1>5, <1>6 DEF Slots!AbortAll

(* Every step of the manager is a step of the slots, or none. *)
LEMMA StepRefines ==
  ASSUME IInv, [Next]_vars
  PROVE  [Slots!SlotNext]_Slots!slotVars
  <1>1. CASE OpenStore
    BY <1>1, OpenStoreAborts DEF Slots!SlotNext
  <1>2. CASE Restart \/ UNCHANGED vars
    BY <1>2, SameRows DEF Restart, storeVars, vars
  <1>3. ASSUME NEW j \in Job, Insert(j)
        PROVE  [Slots!SlotNext]_Slots!slotVars
    <2>1. (\E r \in Repo : Slots!Accept(j, r)) \/ UNCHANGED Slots!slotVars
      BY <1>3, InsertAccepts, SameRows
    <2> QED BY <2>1 DEF Slots!SlotNext
  <1>4. ASSUME NEW j \in Job, Begin(j) \/ Log(j)
        PROVE  [Slots!SlotNext]_Slots!slotVars
    <2>1. /\ tpc[j] \in Ingesting
          /\ rows' \in {rows, upsert_job(rows, j, "running", repo[j])}
      BY <1>4 DEF Begin, Log, Committed, Raised, Ingesting, IInv, FinalStatus
    <2>2. Slots!Run(j) \/ UNCHANGED Slots!slotVars
      BY <2>1, WriteRuns
    <2> QED BY <2>2 DEF Slots!SlotNext
  <1>5. ASSUME NEW j \in Job, Publish(j)
        PROVE  [Slots!SlotNext]_Slots!slotVars
    <2>1. \/ \E r \in Repo, result \in Slots!Ended : Slots!Finish(r, result)
          \/ UNCHANGED Slots!slotVars
      BY <1>5, PublishFinishes
    <2> QED BY <2>1 DEF Slots!SlotNext
  <1>6. ASSUME NEW j \in Job, Create(j) \/ RunStep(j), ~Insert(j), ~Begin(j), ~Publish(j)
        PROVE  [Slots!SlotNext]_Slots!slotVars
    <2>1. rows' = rows
      BY <1>6 DEF Create, RunStep, EndIngest, Acquire, Check, Register, Start, Fetch,
                  IngestFails, IngestSucceeds, RecordRuntime, Readiness, RecordSnapshot,
                  Pop, storeVars
    <2>2. UNCHANGED Slots!slotVars
      BY <2>1, SameRows
    <2> QED BY <2>2
  <1> QED BY <1>1, <1>2, <1>3, <1>4, <1>5, <1>6 DEF Next

(* The job manager keeps the promise of the slots. *)
THEOREM Refinement == Spec => ImplementsSlots
  <1>1. Init => Slots!SlotInit
    <2> SUFFICES ASSUME Init
                 PROVE  Slots!SlotInit
      OBVIOUS
    <2>1. \A j \in Job : rows[j] = Absent
      BY DEF Init, EmptyTable
    <2>2. \A r \in Repo : SlotOf(rows, r) = NoJob
      <3>1. \A r \in Repo : list_active_job_ids(rows, r) = {}
        BY <2>1 DEF list_active_job_ids, Absent, Active
      <3> QED BY <3>1, NoHolder
    <2> QED BY <2>1, <2>2 DEF Slots!SlotInit, Absent
  <1>2. IInv /\ [Next]_vars => [Slots!SlotNext]_Slots!slotVars
    BY StepRefines
  <1> QED BY <1>1, <1>2, Invariance, PTL DEF Spec, ImplementsSlots, Slots!SlotSpec

-----------------------------------------------------------------------------
(* A 409 answer is given for an ingest that is under way.  Active rows outlive their
   threads when a store call fails; while none has failed, they do not. *)

(* The handlers: a new active row has its handler, then its thread. *)
LEMMA CreateMeansWork ==
  ASSUME IInv, ActiveMeansWork, NEW j \in Job, Create(j)
  PROVE  ActiveMeansWork'
  <1>0. /\ hpc \in [Job -> HandlerPc] /\ tpc \in [Job -> ThreadPc] /\ rows \in Table
        /\ jobs \in [Job -> {"none", "own", "copy"}] /\ faults \in Nat
        /\ storeOpen' = storeOpen
    BY DEF IInv, TypeOK, Create, Acquire, Check, Insert, Register, Start
  <1> SUFFICES ASSUME faults' = 0
               PROVE  ActiveMeansWork'
    BY DEF ActiveMeansWork
  <1>f. faults = 0
    BY <1>0 DEF Create, Acquire, Check, Insert, Register, Start, StoreOk, StoreFault,
       Committed, Raised, bounds
  <1>1. ASSUME NEW r \in Repo, Acquire(j, r)
        PROVE  ActiveMeansWork'
    <2>1. rows[j].status \notin Active
      BY <1>1 DEF IInv, ThreadAfterAccept, Acquire, Absent, Active
    <2> QED BY <1>0, <1>1, <1>f, <2>1 DEF ActiveMeansWork, Acquire, storeVars, memoryVars
  <1>2. CASE Check(j)
    BY <1>0, <1>2, <1>f DEF ActiveMeansWork, Check, HandlerTo, Answer, storeVars, memoryVars
  <1>3. CASE Insert(j)
    <2>1. /\ hpc' = [hpc EXCEPT ![j] = "register"] /\ tpc' = tpc
          /\ jobs' = [jobs EXCEPT ![j] = "own"]
          /\ rows' = upsert_job(rows, j, "queued", repo[j])
      BY <1>0, <1>3, <1>f DEF Insert, HandlerTo, Committed, Raised, StoreFault
    <2>2. \A k \in Job \ {j} : rows'[k] = rows[k]
      BY <1>0, <2>1 DEF upsert_job, Table
    <2> QED BY <1>0, <1>f, <2>1, <2>2 DEF ActiveMeansWork
  <1>4. CASE Register(j)
    BY <1>0, <1>4, <1>f DEF ActiveMeansWork, Register, HandlerTo, storeVars
  <1>5. CASE Start(j)
    BY <1>0, <1>5, <1>f DEF ActiveMeansWork, Start, Answer, storeVars, memoryVars, Ingesting
  <1> QED BY <1>1, <1>2, <1>3, <1>4, <1>5 DEF Create

(* The thread: it finds its JobInfo, and leaves the ingest with a terminal row. *)
LEMMA RunMeansWork ==
  ASSUME IInv, ActiveMeansWork, NEW j \in Job, RunStep(j) \/ Log(j)
  PROVE  ActiveMeansWork'
  <1>0. /\ tpc \in [Job -> ThreadPc] /\ rows \in Table /\ faults \in Nat
        /\ jobs \in [Job -> {"none", "own", "copy"}]
        /\ UNCHANGED <<storeOpen, hpc>>
    BY DEF IInv, TypeOK, RunStep, EndIngest, Fetch, Begin, Log, IngestFails, IngestSucceeds,
           RecordRuntime, Readiness, RecordSnapshot, Publish, Pop, handlerVars
  <1> SUFFICES ASSUME faults' = 0
               PROVE  ActiveMeansWork'
    BY DEF ActiveMeansWork
  <1>f. faults = 0
    BY <1>0 DEF RunStep, EndIngest, Fetch, Begin, Log, IngestFails, IngestSucceeds,
       RecordRuntime, Readiness, RecordSnapshot, Publish, Pop, StoreOk, StoreFault,
       Committed, Raised, bounds
  <1>g. ~StoreFault
    BY <1>f DEF StoreFault
  <1>1. CASE Fetch(j)
    BY <1>0, <1>1, <1>f DEF ActiveMeansWork, Fetch, ThreadTo, storeVars, Ingesting
  <1>2. ASSUME NEW s, rows' = upsert_job(rows, j, s, repo[j]), jobs' = jobs,
               NEW next, tpc' = [tpc EXCEPT ![j] = next], next # "fetch",
               s \in Active => next \in Ingesting
        PROVE  ActiveMeansWork'
    <2>1. /\ \A k \in Job \ {j} : rows'[k] = rows[k] /\ tpc'[k] = tpc[k]
          /\ rows'[j].status = s /\ tpc'[j] = next
      BY <1>0, <1>2 DEF upsert_job, Table
    <2> QED BY <1>0, <1>2, <1>f, <2>1 DEF ActiveMeansWork
  <1>3. CASE Begin(j)
    BY <1>2, <1>3, <1>g DEF Begin, Committed, Raised, ThreadTo, Ingesting
  <1>4. CASE Log(j)
    <2>1. tpc' = [tpc EXCEPT ![j] = "work"]
      BY <1>0, <1>4, <1>g DEF Log, Committed, Raised
    <2> QED BY <1>2, <1>4, <1>g, <2>1 DEF Log, Committed, Raised, Ingesting
  <1>5. CASE Publish(j)
    <2>1. obj[j] \notin Active
      BY <1>5 DEF IInv, FinalStatus, Publish, Active, Terminal
    <2>2. \E next \in {"final2", "pop"} : tpc' = [tpc EXCEPT ![j] = next]
      BY <1>5 DEF Publish, ThreadTo
    <2> QED BY <1>2, <1>5, <1>g, <2>1, <2>2 DEF Publish, Committed, Raised, memoryVars
  <1>6. CASE RunStep(j) /\ ~Fetch(j) /\ ~Begin(j) /\ ~Publish(j)
    <2>1. /\ rows' = rows /\ jobs' = jobs
          /\ \/ tpc[j] = "pop" /\ tpc' = [tpc EXCEPT ![j] = "done"]
             \/ \E next \in Ingesting \ {"fetch"} : tpc' = [tpc EXCEPT ![j] = next]
      BY <1>6, <1>g DEF RunStep, EndIngest, IngestFails, IngestSucceeds, RecordRuntime,
         Readiness, RecordSnapshot, Pop, storeVars, memoryVars, ThreadTo, Ingesting
    <2> QED BY <1>0, <1>f, <2>1 DEF ActiveMeansWork, Ingesting
  <1> QED BY <1>1, <1>3, <1>4, <1>5, <1>6

(* The two invariants together are inductive. *)
LEMMA StepMeansWork ==
  ASSUME IInv, ActiveMeansWork, [Next]_vars
  PROVE  ActiveMeansWork'
  <1>1. CASE OpenStore
    BY <1>1, RecoveredRows
    DEF ActiveMeansWork, IInv, TypeOK, OpenStore, memoryVars, handlerVars, bounds, Active
  <1>2. CASE Restart
    BY <1>2 DEF ActiveMeansWork, IInv, TypeOK, Restart, HandlerBusy, ThreadAlive, Ingesting
  <1>3. CASE UNCHANGED vars
    BY <1>3 DEF ActiveMeansWork, vars
  <1> QED BY <1>1, <1>2, <1>3, CreateMeansWork, RunMeansWork DEF Next

(* A handler that answers 409 has read an active row, and behind it somebody is at work. *)
LEMMA ConflictIsEarned ==
  ASSUME IInv, ActiveMeansWork, [Next]_vars, faults = 0,
         NEW j \in Job, hpc[j] = "check", hpc'[j] = "conflict"
  PROVE  AtWork(repo[j])
  <1>1. Check(j) /\ ~NoActiveJob(repo[j])
    <2>1. hpc \in [Job -> HandlerPc]
      BY DEF IInv, TypeOK
    <2>2. ~OpenStore /\ ~Restart /\ ~UNCHANGED vars
      BY <2>1 DEF OpenStore, Restart, vars, handlerVars, HandlerBusy
    <2>3. \A k \in Job : ~RunStep(k) /\ ~Log(k)
      BY DEF RunStep, EndIngest, Fetch, Begin, Log, IngestFails, IngestSucceeds,
         RecordRuntime, Readiness, RecordSnapshot, Publish, Pop, handlerVars
    <2>4. PICK k \in Job : Create(k)
      BY <2>2, <2>3 DEF Next
    <2>5. k = j /\ Check(j)
      BY <2>1, <2>4 DEF Create, Acquire, Check, Insert, Register, Start, HandlerTo, Answer
    <2> QED BY <2>1, <2>5 DEF Check, HandlerTo, Answer
  <1>2. PICK k \in Job : rows[k].status \in Active /\ rows[k].repo = repo[j]
    BY <1>1 DEF NoActiveJob, list_active_job_ids
  <1>3. hpc[k] \in {"register", "start"} \/ tpc[k] \in Ingesting
    BY <1>1, <1>2 DEF ActiveMeansWork, Check
  <1>4. repo[k] = repo[j]
    BY <1>2, <1>3 DEF IInv, RowBehindWork
  <1> QED BY <1>3, <1>4 DEF AtWork

(* The step that ConflictMeansIngest is about. *)
ConflictsHaveIngests ==
  \A j \in Job : hpc[j] = "check" /\ hpc'[j] = "conflict" => AtWork(repo[j])

(* While no call of the store has failed, a 409 means an ingest under way: the row that
   list_active_job_ids returns was not left behind by a thread that is gone. *)
THEOREM ConflictsAreEarned == Spec => [][faults = 0 => ConflictsHaveIngests]_vars
  <1>1. Init => ActiveMeansWork
    BY DEF Init, ActiveMeansWork, EmptyTable, Absent, Active, Ingesting
  <1>2. IInv /\ ActiveMeansWork /\ [Next]_vars => ActiveMeansWork'
    BY StepMeansWork
  <1>3. IInv /\ ActiveMeansWork /\ [Next]_vars /\ faults = 0 => ConflictsHaveIngests
    BY ConflictIsEarned DEF ConflictsHaveIngests
  <1> QED BY <1>1, <1>2, <1>3, Invariance, PTL DEF Spec

(* In the behaviours without a failing call the property of the run holds. *)
THEOREM ConflictsMeanIngests == Spec /\ [](faults = 0) => ConflictMeansIngest
  <1>1. ConflictsHaveIngests
          <=> \A j \in Job : hpc[j] = "check" /\ hpc'[j] = "conflict" => AtWork(repo[j])
    BY DEF ConflictsHaveIngests
  <1> QED BY <1>1, ConflictsAreEarned, PTL DEF ConflictMeansIngest

-----------------------------------------------------------------------------
(* The deletions beside it. *)

(* How a step of a handler, a thread or the store moves the jobs: a request
   keeps its repository, a thread ingests once, and only its own end
   unregisters it. *)
Moves ==
  \A k \in Job :
    /\ hpc[k] # "idle" => repo'[k] = repo[k]
    /\ hpc[k] \notin {"idle", "check", "insert"} => hpc'[k] \notin {"idle", "check", "insert"}
    /\ tpc[k] # "none" => tpc'[k] # "none" /\ repo'[k] = repo[k]
    /\ tpc'[k] \in Ingesting => tpc[k] \in Ingesting \cup {"none"}
    /\ k \in threads /\ tpc'[k] \in Ingesting => k \in threads'

(* A step that leaves nothing new of a repository. *)
Spares(r) ==
  /\ index'[r] \subseteq index[r]
  /\ r \in catalog' => r \in catalog
  /\ \A k \in Job :
       /\ rows'[k].repo = r => rows[k].repo = r
       /\ repo'[k] = r /\ snap'[k] # "none" => repo[k] = r /\ snap[k] # "none"

(* A step of a job leaves nothing new of a repository no ingest works on. *)
Sparing ==
  \A r \in Repo : ~IngestUnderWay(r) /\ ~IngestUnderWay(r)' => Spares(r)

-----------------------------------------------------------------------------
(* The recovery keeps the repository of every row, and adds none. *)
LEMMA RecoveredKeepsRepo ==
  ASSUME NEW t \in Table
  PROVE  /\ recover_interrupted_jobs(t) \in Table
         /\ \A k \in Job :
              /\ recover_interrupted_jobs(t)[k].repo = t[k].repo
              /\ t[k] = Absent <=> recover_interrupted_jobs(t)[k] = Absent
  <1> DEFINE u == recover_interrupted_jobs(t)
  <1>1. u \in Table
    BY RecoveredRows
  <1>2. ASSUME NEW k \in Job, t[k].status \in Active
        PROVE  u[k].repo = t[k].repo /\ t[k] # Absent /\ u[k] # Absent
    <2>1. t[k] \in [status : Status, repo : Repo \cup {NoRepo}] /\ t[k] # Absent
      BY <1>2 DEF Table, Absent, Active
    <2>2. u[k] = [t[k] EXCEPT !.status = "failed"]
      BY <1>2 DEF recover_interrupted_jobs
    <2>3. u[k].repo = t[k].repo /\ u[k].status = "failed"
      BY <2>1, <2>2
    <2> QED BY <2>1, <2>3 DEF Absent
  <1>3. ASSUME NEW k \in Job, t[k].status \notin Active
        PROVE  u[k] = t[k]
    BY <1>3 DEF recover_interrupted_jobs
  <1> QED BY <1>1, <1>2, <1>3

(* Taking the lock: the request gets its repository before it has a row. *)
LEMMA AcquireSide ==
  ASSUME JobSide, NEW j \in Job, NEW r \in Repo, Acquire(j, r), UNCHANGED <<index, del>>
  PROVE  JobSide' /\ Moves /\ Sparing
  <1> USE DEF Acquire, storeVars, memoryVars, bounds
  <1>t. TypeOK /\ ThreadAfterAccept /\ JobsKnown /\ ThreadBehindRow
    BY DEF JobSide
  <1>w. IngestUnderWay(r)'
    BY <1>t DEF TypeOK, IngestUnderWay, HandlerBusy
  <1>1. TypeOK'
    BY <1>t DEF TypeOK, HandlerPc, HandlerBusy, Status, Active, Terminal
  <1>2. ThreadAfterAccept'
    BY <1>t DEF TypeOK, ThreadAfterAccept, HandlerBusy, ThreadAlive, Ingesting
  <1>3. JobsKnown'
    BY <1>t DEF TypeOK, JobsKnown, ThreadAfterAccept, HandlerBusy, ThreadAlive, Ingesting, Terminal
  <1>4. ThreadBehindRow'
    BY <1>t DEF TypeOK, ThreadBehindRow, ThreadAfterAccept, Untouched, HandlerBusy,
       ThreadAlive, Ingesting, Active
  <1>5. Moves
    BY <1>t DEF TypeOK, Moves, ThreadAfterAccept, HandlerBusy, ThreadAlive, Ingesting
  <1>6. Sparing
    BY <1>t, <1>w DEF TypeOK, Sparing, Spares
  <1> QED BY <1>1, <1>2, <1>3, <1>4, <1>5, <1>6 DEF JobSide

(* The test under the lock writes nothing. *)
LEMMA CheckSide ==
  ASSUME JobSide, NEW j \in Job, Check(j), UNCHANGED <<index, del>>
  PROVE  JobSide' /\ Moves /\ Sparing
  <1> USE DEF Check, HandlerTo, Answer, StoreOk, StoreFault, storeVars, memoryVars
  <1>t. TypeOK /\ ThreadAfterAccept /\ JobsKnown /\ ThreadBehindRow
    BY DEF JobSide
  <1>w. IngestUnderWay(repo[j])
    BY DEF IngestUnderWay, HandlerBusy, ThreadAlive, Ingesting
  <1>1. TypeOK'
    BY <1>t DEF TypeOK, HandlerPc, HandlerBusy, Status, Active, Terminal
  <1>2. ThreadAfterAccept'
    BY <1>t DEF TypeOK, ThreadAfterAccept, HandlerBusy, ThreadAlive, Ingesting
  <1>3. JobsKnown'
    BY <1>t DEF TypeOK, JobsKnown, ThreadAfterAccept, HandlerBusy, ThreadAlive, Ingesting, Terminal
  <1>4. ThreadBehindRow'
    BY <1>t DEF TypeOK, ThreadBehindRow, ThreadAfterAccept, Untouched, HandlerBusy,
       ThreadAlive, Ingesting, Active
  <1>5. Moves
    BY <1>t DEF TypeOK, Moves, ThreadAfterAccept, HandlerBusy, ThreadAlive, Ingesting
  <1>6. Sparing
    BY <1>t, <1>w DEF TypeOK, Sparing, Spares
  <1> QED BY <1>1, <1>2, <1>3, <1>4, <1>5, <1>6 DEF JobSide

(* The first row of the job is active. *)
LEMMA InsertSide ==
  ASSUME JobSide, NEW j \in Job, Insert(j), UNCHANGED <<index, del>>
  PROVE  JobSide' /\ Moves /\ Sparing
  <1> USE DEF Insert, HandlerTo, Answer, Committed, Raised, StoreOk, StoreFault
  <1>t. TypeOK /\ ThreadAfterAccept /\ JobsKnown /\ ThreadBehindRow
    BY DEF JobSide
  <1>r. "queued" \in Status /\ repo[j] \in Repo
    BY <1>t DEF TypeOK, ThreadAfterAccept, JobsKnown, HandlerBusy, ThreadAlive, Ingesting,
       Status, Active, Terminal
  <1>u. LET t == upsert_job(rows, j, "queued", repo[j])
        IN  /\ t \in Table
            /\ t[j] = [status |-> "queued", repo |-> repo[j]]
            /\ \A k \in Job \ {j} : t[k] = rows[k]
    BY <1>r, <1>t, UpsertRow DEF TypeOK
  <1>w. IngestUnderWay(repo[j])
    BY DEF IngestUnderWay, HandlerBusy, ThreadAlive, Ingesting
  <1>1. TypeOK'
    BY <1>u, <1>r, <1>t DEF TypeOK, HandlerPc, HandlerBusy, Status, Active, Terminal
  <1>2. ThreadAfterAccept'
    BY <1>u, <1>r, <1>t DEF TypeOK, ThreadAfterAccept, HandlerBusy, ThreadAlive, Ingesting
  <1>3. JobsKnown'
    BY <1>u, <1>r, <1>t DEF TypeOK, JobsKnown, ThreadAfterAccept, HandlerBusy, ThreadAlive,
                            Ingesting, Terminal
  <1>4. ThreadBehindRow'
    BY <1>u, <1>r, <1>t DEF TypeOK, ThreadBehindRow, ThreadAfterAccept, Untouched, HandlerBusy,
       ThreadAlive, Ingesting, Active
  <1>5. Moves
    BY <1>u, <1>r, <1>t DEF TypeOK, Moves, ThreadAfterAccept, HandlerBusy, ThreadAlive, Ingesting
  <1>6. Sparing
    BY <1>u, <1>r, <1>t, <1>w DEF TypeOK, Sparing, Spares
  <1> QED BY <1>1, <1>2, <1>3, <1>4, <1>5, <1>6 DEF JobSide

(* The thread is registered before it starts. *)
LEMMA RegisterSide ==
  ASSUME JobSide, NEW j \in Job, Register(j), UNCHANGED <<index, del>>
  PROVE  JobSide' /\ Moves /\ Sparing
  <1> USE DEF Register, HandlerTo, storeVars, bounds
  <1>t. TypeOK /\ ThreadAfterAccept /\ JobsKnown /\ ThreadBehindRow
    BY DEF JobSide
  <1>w. IngestUnderWay(repo[j])
    BY DEF IngestUnderWay, HandlerBusy, ThreadAlive, Ingesting
  <1>1. TypeOK'
    BY <1>t DEF TypeOK, HandlerPc, HandlerBusy, Status, Active, Terminal
  <1>2. ThreadAfterAccept'
    BY <1>t DEF TypeOK, ThreadAfterAccept, HandlerBusy, ThreadAlive, Ingesting
  <1>3. JobsKnown'
    BY <1>t DEF TypeOK, JobsKnown, ThreadAfterAccept, HandlerBusy, ThreadAlive, Ingesting, Terminal
  <1>4. ThreadBehindRow'
    BY <1>t DEF TypeOK, ThreadBehindRow, ThreadAfterAccept, Untouched, HandlerBusy,
       ThreadAlive, Ingesting, Active
  <1>5. Moves
    BY <1>t DEF TypeOK, Moves, ThreadAfterAccept, HandlerBusy, ThreadAlive, Ingesting
  <1>6. Sparing
    BY <1>t, <1>w DEF TypeOK, Sparing, Spares
  <1> QED BY <1>1, <1>2, <1>3, <1>4, <1>5, <1>6 DEF JobSide

(* The thread starts registered and behind a queued row. *)
LEMMA StartSide ==
  ASSUME JobSide, NEW j \in Job, Start(j), UNCHANGED <<index, del>>
  PROVE  JobSide' /\ Moves /\ Sparing
  <1> USE DEF Start, Answer, storeVars, memoryVars, bounds
  <1>t. TypeOK /\ ThreadAfterAccept /\ JobsKnown /\ ThreadBehindRow
    BY DEF JobSide
  <1>w. IngestUnderWay(repo[j])
    BY DEF IngestUnderWay, HandlerBusy, ThreadAlive, Ingesting
  <1>1. TypeOK'
    BY <1>t DEF TypeOK, HandlerPc, HandlerBusy, ThreadPc, ThreadAlive, Ingesting, Status, Active,
                Terminal
  <1>2. ThreadAfterAccept'
    BY <1>t DEF TypeOK, ThreadAfterAccept, HandlerBusy, ThreadAlive, Ingesting
  <1>3. JobsKnown'
    BY <1>t DEF TypeOK, JobsKnown, ThreadAfterAccept, HandlerBusy, ThreadAlive, Ingesting, Terminal
  <1>4. ThreadBehindRow'
    BY <1>t DEF TypeOK, ThreadBehindRow, ThreadAfterAccept, Untouched, HandlerBusy,
       ThreadAlive, Ingesting, Active
  <1>5. Moves
    BY <1>t DEF TypeOK, Moves, ThreadAfterAccept, HandlerBusy, ThreadAlive, Ingesting
  <1>6. Sparing
    BY <1>t, <1>w DEF TypeOK, Sparing, Spares
  <1> QED BY <1>1, <1>2, <1>3, <1>4, <1>5, <1>6 DEF JobSide

(* The thread finds its JobInfo, or its rewritten copy. *)
LEMMA FetchSide ==
  ASSUME JobSide, NEW j \in Job, Fetch(j), UNCHANGED <<index, del>>
  PROVE  JobSide' /\ Moves /\ Sparing
  <1> USE DEF Fetch, ThreadTo, SetStatus, storeVars, handlerVars, bounds
  <1>t. TypeOK /\ ThreadAfterAccept /\ JobsKnown /\ ThreadBehindRow
    BY DEF JobSide
  <1>w. IngestUnderWay(repo[j])
    BY DEF IngestUnderWay, HandlerBusy, ThreadAlive, Ingesting
  <1>1. TypeOK'
    BY <1>t DEF TypeOK, ThreadPc, ThreadAlive, Ingesting, Status, Active, Terminal
  <1>2. ThreadAfterAccept'
    BY <1>t DEF TypeOK, ThreadAfterAccept, HandlerBusy, ThreadAlive, Ingesting
  <1>3. JobsKnown'
    BY <1>t DEF TypeOK, JobsKnown, ThreadAfterAccept, HandlerBusy, ThreadAlive, Ingesting, Terminal
  <1>4. ThreadBehindRow'
    BY <1>t DEF TypeOK, ThreadBehindRow, ThreadAfterAccept, Untouched, HandlerBusy,
       ThreadAlive, Ingesting, Active
  <1>5. Moves
    BY <1>t DEF TypeOK, Moves, ThreadAfterAccept, HandlerBusy, ThreadAlive, Ingesting
  <1>6. Sparing
    BY <1>t, <1>w DEF TypeOK, Sparing, Spares
  <1> QED BY <1>1, <1>2, <1>3, <1>4, <1>5, <1>6 DEF JobSide

(* The row of the thread becomes running. *)
LEMMA BeginSide ==
  ASSUME JobSide, NEW j \in Job, Begin(j), UNCHANGED <<index, del>>
  PROVE  JobSide' /\ Moves /\ Sparing
  <1> USE DEF Begin, Committed, Raised, StoreOk, StoreFault, ThreadTo, SetStatus, handlerVars
  <1>t. TypeOK /\ ThreadAfterAccept /\ JobsKnown /\ ThreadBehindRow
    BY DEF JobSide
  <1>r. "running" \in Status /\ repo[j] \in Repo
    BY <1>t DEF TypeOK, ThreadAfterAccept, JobsKnown, HandlerBusy, ThreadAlive, Ingesting,
       Status, Active, Terminal
  <1>u. LET t == upsert_job(rows, j, "running", repo[j])
        IN  /\ t \in Table
            /\ t[j] = [status |-> "running", repo |-> repo[j]]
            /\ \A k \in Job \ {j} : t[k] = rows[k]
    BY <1>r, <1>t, UpsertRow DEF TypeOK
  <1>w. IngestUnderWay(repo[j])
    BY DEF IngestUnderWay, HandlerBusy, ThreadAlive, Ingesting
  <1>1. TypeOK'
    BY <1>u, <1>r, <1>t DEF TypeOK, ThreadPc, ThreadAlive, Ingesting, Status, Active, Terminal
  <1>2. ThreadAfterAccept'
    BY <1>u, <1>r, <1>t DEF TypeOK, ThreadAfterAccept, HandlerBusy, ThreadAlive, Ingesting
  <1>3. JobsKnown'
    BY <1>u, <1>r, <1>t DEF TypeOK, JobsKnown, ThreadAfterAccept, HandlerBusy, ThreadAlive,
                            Ingesting, Terminal
  <1>4. ThreadBehindRow'
    BY <1>u, <1>r, <1>t DEF TypeOK, ThreadBehindRow, ThreadAfterAccept, Untouched, HandlerBusy,
       ThreadAlive, Ingesting, Active
  <1>5. Moves
    BY <1>u, <1>r, <1>t DEF TypeOK, Moves, ThreadAfterAccept, HandlerBusy, ThreadAlive, Ingesting
  <1>6. Sparing
    BY <1>u, <1>r, <1>t, <1>w DEF TypeOK, Sparing, Spares
  <1> QED BY <1>1, <1>2, <1>3, <1>4, <1>5, <1>6 DEF JobSide

(* A progress message rewrites the row with the status of the JobInfo. *)
LEMMA LogSide ==
  ASSUME JobSide, NEW j \in Job, Log(j), UNCHANGED <<index, del>>
  PROVE  JobSide' /\ Moves /\ Sparing
  <1> USE DEF Log, Committed, Raised, StoreOk, StoreFault, ThreadTo, SetStatus, handlerVars
  <1>t. TypeOK /\ ThreadAfterAccept /\ JobsKnown /\ ThreadBehindRow
    BY DEF JobSide
  <1>r. obj[j] \in Status /\ repo[j] \in Repo
    BY <1>t DEF TypeOK, ThreadAfterAccept, JobsKnown, HandlerBusy, ThreadAlive, Ingesting,
       Status, Active, Terminal
  <1>u. LET t == upsert_job(rows, j, obj[j], repo[j])
        IN  /\ t \in Table
            /\ t[j] = [status |-> obj[j], repo |-> repo[j]]
            /\ \A k \in Job \ {j} : t[k] = rows[k]
    BY <1>r, <1>t, UpsertRow DEF TypeOK
  <1>w. IngestUnderWay(repo[j])
    BY DEF IngestUnderWay, HandlerBusy, ThreadAlive, Ingesting
  <1>1. TypeOK'
    BY <1>u, <1>r, <1>t DEF TypeOK, ThreadPc, ThreadAlive, Ingesting, Status, Active, Terminal
  <1>2. ThreadAfterAccept'
    BY <1>u, <1>r, <1>t DEF TypeOK, ThreadAfterAccept, HandlerBusy, ThreadAlive, Ingesting
  <1>3. JobsKnown'
    BY <1>u, <1>r, <1>t DEF TypeOK, JobsKnown, ThreadAfterAccept, HandlerBusy, ThreadAlive,
                            Ingesting, Terminal
  <1>4. ThreadBehindRow'
    BY <1>u, <1>r, <1>t DEF TypeOK, ThreadBehindRow, ThreadAfterAccept, Untouched, HandlerBusy,
       ThreadAlive, Ingesting, Active
  <1>5. Moves
    BY <1>u, <1>r, <1>t DEF TypeOK, Moves, ThreadAfterAccept, HandlerBusy, ThreadAlive, Ingesting
  <1>6. Sparing
    BY <1>u, <1>r, <1>t, <1>w DEF TypeOK, Sparing, Spares
  <1> QED BY <1>1, <1>2, <1>3, <1>4, <1>5, <1>6 DEF JobSide

(* The ingest raises. *)
LEMMA IngestFailsSide ==
  ASSUME JobSide, NEW j \in Job, IngestFails(j), UNCHANGED <<index, del>>
  PROVE  JobSide' /\ Moves /\ Sparing
  <1> USE DEF IngestFails, ThreadTo, SetStatus, storeVars, handlerVars, bounds
  <1>t. TypeOK /\ ThreadAfterAccept /\ JobsKnown /\ ThreadBehindRow
    BY DEF JobSide
  <1>w. IngestUnderWay(repo[j])
    BY DEF IngestUnderWay, HandlerBusy, ThreadAlive, Ingesting
  <1>1. TypeOK'
    BY <1>t DEF TypeOK, ThreadPc, ThreadAlive, Ingesting, Status, Active, Terminal
  <1>2. ThreadAfterAccept'
    BY <1>t DEF TypeOK, ThreadAfterAccept, HandlerBusy, ThreadAlive, Ingesting
  <1>3. JobsKnown'
    BY <1>t DEF TypeOK, JobsKnown, ThreadAfterAccept, HandlerBusy, ThreadAlive, Ingesting, Terminal
  <1>4. ThreadBehindRow'
    BY <1>t DEF TypeOK, ThreadBehindRow, ThreadAfterAccept, Untouched, HandlerBusy,
       ThreadAlive, Ingesting, Active
  <1>5. Moves
    BY <1>t DEF TypeOK, Moves, ThreadAfterAccept, HandlerBusy, ThreadAlive, Ingesting
  <1>6. Sparing
    BY <1>t, <1>w DEF TypeOK, Sparing, Spares
  <1> QED BY <1>1, <1>2, <1>3, <1>4, <1>5, <1>6 DEF JobSide

(* The ingest returns. *)
LEMMA IngestSucceedsSide ==
  ASSUME JobSide, NEW j \in Job, IngestSucceeds(j), UNCHANGED <<index, del>>
  PROVE  JobSide' /\ Moves /\ Sparing
  <1> USE DEF IngestSucceeds, ThreadTo, storeVars, memoryVars, handlerVars, bounds
  <1>t. TypeOK /\ ThreadAfterAccept /\ JobsKnown /\ ThreadBehindRow
    BY DEF JobSide
  <1>w. IngestUnderWay(repo[j])
    BY DEF IngestUnderWay, HandlerBusy, ThreadAlive, Ingesting
  <1>1. TypeOK'
    BY <1>t DEF TypeOK, ThreadPc, ThreadAlive, Ingesting, Status, Active, Terminal
  <1>2. ThreadAfterAccept'
    BY <1>t DEF TypeOK, ThreadAfterAccept, HandlerBusy, ThreadAlive, Ingesting
  <1>3. JobsKnown'
    BY <1>t DEF TypeOK, JobsKnown, ThreadAfterAccept, HandlerBusy, ThreadAlive, Ingesting, Terminal
  <1>4. ThreadBehindRow'
    BY <1>t DEF TypeOK, ThreadBehindRow, ThreadAfterAccept, Untouched, HandlerBusy,
       ThreadAlive, Ingesting, Active
  <1>5. Moves
    BY <1>t DEF TypeOK, Moves, ThreadAfterAccept, HandlerBusy, ThreadAlive, Ingesting
  <1>6. Sparing
    BY <1>t, <1>w DEF TypeOK, Sparing, Spares
  <1> QED BY <1>1, <1>2, <1>3, <1>4, <1>5, <1>6 DEF JobSide

(* The repository of the thread enters the catalog. *)
LEMMA RecordRuntimeSide ==
  ASSUME JobSide, NEW j \in Job, RecordRuntime(j), UNCHANGED <<index, del>>
  PROVE  JobSide' /\ Moves /\ Sparing
  <1> USE DEF RecordRuntime, StoreOk, StoreFault, ThreadTo, SetStatus, handlerVars
  <1>t. TypeOK /\ ThreadAfterAccept /\ JobsKnown /\ ThreadBehindRow
    BY DEF JobSide
  <1>r. repo[j] \in Repo
    BY <1>t DEF ThreadAfterAccept, ThreadAlive, Ingesting
  <1>w. IngestUnderWay(repo[j])
    BY DEF IngestUnderWay, HandlerBusy, ThreadAlive, Ingesting
  <1>1. TypeOK'
    BY <1>r, <1>t DEF TypeOK, ThreadPc, ThreadAlive, Ingesting, Status, Active, Terminal
  <1>2. ThreadAfterAccept'
    BY <1>t DEF TypeOK, ThreadAfterAccept, HandlerBusy, ThreadAlive, Ingesting
  <1>3. JobsKnown'
    BY <1>t DEF TypeOK, JobsKnown, ThreadAfterAccept, HandlerBusy, ThreadAlive, Ingesting, Terminal
  <1>4. ThreadBehindRow'
    BY <1>t DEF TypeOK, ThreadBehindRow, ThreadAfterAccept, Untouched, HandlerBusy,
       ThreadAlive, Ingesting, Active
  <1>5. Moves
    BY <1>t DEF TypeOK, Moves, ThreadAfterAccept, HandlerBusy, ThreadAlive, Ingesting
  <1>6. Sparing
    BY <1>t, <1>w DEF TypeOK, Sparing, Spares
  <1> QED BY <1>1, <1>2, <1>3, <1>4, <1>5, <1>6 DEF JobSide

(* The JobInfo gets its terminal status. *)
LEMMA ReadinessSide ==
  ASSUME JobSide, NEW j \in Job, Readiness(j), UNCHANGED <<index, del>>
  PROVE  JobSide' /\ Moves /\ Sparing
  <1> USE DEF Readiness, ThreadTo, SetStatus, storeVars, handlerVars, bounds
  <1>t. TypeOK /\ ThreadAfterAccept /\ JobsKnown /\ ThreadBehindRow
    BY DEF JobSide
  <1>w. IngestUnderWay(repo[j])
    BY DEF IngestUnderWay, HandlerBusy, ThreadAlive, Ingesting
  <1>1. TypeOK'
    BY <1>t DEF TypeOK, ThreadPc, ThreadAlive, Ingesting, Status, Active, Terminal
  <1>2. ThreadAfterAccept'
    BY <1>t DEF TypeOK, ThreadAfterAccept, HandlerBusy, ThreadAlive, Ingesting
  <1>3. JobsKnown'
    BY <1>t DEF TypeOK, JobsKnown, ThreadAfterAccept, HandlerBusy, ThreadAlive, Ingesting, Terminal
  <1>4. ThreadBehindRow'
    BY <1>t DEF TypeOK, ThreadBehindRow, ThreadAfterAccept, Untouched, HandlerBusy,
       ThreadAlive, Ingesting, Active
  <1>5. Moves
    BY <1>t DEF TypeOK, Moves, ThreadAfterAccept, HandlerBusy, ThreadAlive, Ingesting
  <1>6. Sparing
    BY <1>t, <1>w DEF TypeOK, Sparing, Spares
  <1> QED BY <1>1, <1>2, <1>3, <1>4, <1>5, <1>6 DEF JobSide

(* The snapshot of the thread. *)
LEMMA RecordSnapshotSide ==
  ASSUME JobSide, NEW j \in Job, RecordSnapshot(j), UNCHANGED <<index, del>>
  PROVE  JobSide' /\ Moves /\ Sparing
  <1> USE DEF RecordSnapshot, StoreOk, StoreFault, ThreadTo, memoryVars, handlerVars
  <1>t. TypeOK /\ ThreadAfterAccept /\ JobsKnown /\ ThreadBehindRow
    BY DEF JobSide
  <1>r. obj[j] \in Terminal
    BY <1>t DEF JobsKnown
  <1>w. IngestUnderWay(repo[j])
    BY DEF IngestUnderWay, HandlerBusy, ThreadAlive, Ingesting
  <1>1. TypeOK'
    BY <1>r, <1>t DEF TypeOK, ThreadPc, ThreadAlive, Ingesting, Status, Active, Terminal
  <1>2. ThreadAfterAccept'
    BY <1>t DEF TypeOK, ThreadAfterAccept, HandlerBusy, ThreadAlive, Ingesting
  <1>3. JobsKnown'
    BY <1>t DEF TypeOK, JobsKnown, ThreadAfterAccept, HandlerBusy, ThreadAlive, Ingesting, Terminal
  <1>4. ThreadBehindRow'
    BY <1>t DEF TypeOK, ThreadBehindRow, ThreadAfterAccept, Untouched, HandlerBusy,
       ThreadAlive, Ingesting, Active
  <1>5. Moves
    BY <1>t DEF TypeOK, Moves, ThreadAfterAccept, HandlerBusy, ThreadAlive, Ingesting
  <1>6. Sparing
    BY <1>t, <1>w DEF TypeOK, Sparing, Spares
  <1> QED BY <1>1, <1>2, <1>3, <1>4, <1>5, <1>6 DEF JobSide

(* The final row, written twice. *)
LEMMA PublishSide ==
  ASSUME JobSide, NEW j \in Job, Publish(j), UNCHANGED <<index, del>>
  PROVE  JobSide' /\ Moves /\ Sparing
  <1> USE DEF Publish, Committed, Raised, StoreOk, StoreFault, ThreadTo, memoryVars, handlerVars
  <1>t. TypeOK /\ ThreadAfterAccept /\ JobsKnown /\ ThreadBehindRow
    BY DEF JobSide
  <1>r. obj[j] \in Status /\ repo[j] \in Repo
    BY <1>t DEF TypeOK, ThreadAfterAccept, JobsKnown, HandlerBusy, ThreadAlive, Ingesting,
       Status, Active, Terminal
  <1>u. LET t == upsert_job(rows, j, obj[j], repo[j])
        IN  /\ t \in Table
            /\ t[j] = [status |-> obj[j], repo |-> repo[j]]
            /\ \A k \in Job \ {j} : t[k] = rows[k]
    BY <1>r, <1>t, UpsertRow DEF TypeOK
  <1>w. IngestUnderWay(repo[j])
    BY DEF IngestUnderWay, HandlerBusy, ThreadAlive, Ingesting
  <1>1. TypeOK'
    BY <1>u, <1>r, <1>t DEF TypeOK, ThreadPc, ThreadAlive, Ingesting, Status, Active, Terminal
  <1>2. ThreadAfterAccept'
    BY <1>u, <1>r, <1>t DEF TypeOK, ThreadAfterAccept, HandlerBusy, ThreadAlive, Ingesting
  <1>3. JobsKnown'
    BY <1>u, <1>r, <1>t DEF TypeOK, JobsKnown, ThreadAfterAccept, HandlerBusy, ThreadAlive,
                            Ingesting, Terminal
  <1>4. ThreadBehindRow'
    BY <1>u, <1>r, <1>t DEF TypeOK, ThreadBehindRow, ThreadAfterAccept, Untouched, HandlerBusy,
       ThreadAlive, Ingesting, Active
  <1>5. Moves
    BY <1>u, <1>r, <1>t DEF TypeOK, Moves, ThreadAfterAccept, HandlerBusy, ThreadAlive, Ingesting
  <1>6. Sparing
    BY <1>u, <1>r, <1>t, <1>w DEF TypeOK, Sparing, Spares
  <1> QED BY <1>1, <1>2, <1>3, <1>4, <1>5, <1>6 DEF JobSide

(* The thread is over and unregistered. *)
LEMMA PopSide ==
  ASSUME JobSide, NEW j \in Job, Pop(j), UNCHANGED <<index, del>>
  PROVE  JobSide' /\ Moves /\ Sparing
  <1> USE DEF Pop, ThreadTo, storeVars, handlerVars, bounds
  <1>t. TypeOK /\ ThreadAfterAccept /\ JobsKnown /\ ThreadBehindRow
    BY DEF JobSide
  <1>w. IngestUnderWay(repo[j])
    BY DEF IngestUnderWay, HandlerBusy, ThreadAlive, Ingesting
  <1>1. TypeOK'
    BY <1>t DEF TypeOK, ThreadPc, ThreadAlive, Ingesting, Status, Active, Terminal
  <1>2. ThreadAfterAccept'
    BY <1>t DEF TypeOK, ThreadAfterAccept, HandlerBusy, ThreadAlive, Ingesting
  <1>3. JobsKnown'
    BY <1>t DEF TypeOK, JobsKnown, ThreadAfterAccept, HandlerBusy, ThreadAlive, Ingesting, Terminal
  <1>4. ThreadBehindRow'
    BY <1>t DEF TypeOK, ThreadBehindRow, ThreadAfterAccept, Untouched, HandlerBusy,
       ThreadAlive, Ingesting, Active
  <1>5. Moves
    BY <1>t DEF TypeOK, Moves, ThreadAfterAccept, HandlerBusy, ThreadAlive, Ingesting
  <1>6. Sparing
    BY <1>t, <1>w DEF TypeOK, Sparing, Spares
  <1> QED BY <1>1, <1>2, <1>3, <1>4, <1>5, <1>6 DEF JobSide

(* The recovery: nothing runs yet in a process that opens its store. *)
LEMMA OpenStoreSide ==
  ASSUME JobSide, OpenStore, UNCHANGED <<index, del>>
  PROVE  JobSide' /\ Moves /\ Sparing
  <1> USE DEF OpenStore, memoryVars, handlerVars, bounds
  <1>t. TypeOK /\ ThreadAfterAccept /\ JobsKnown /\ ThreadBehindRow
    BY DEF JobSide
  <1>u. /\ rows' \in Table
        /\ \A k \in Job : rows'[k].repo = rows[k].repo /\ (rows[k] = Absent <=> rows'[k] = Absent)
    BY <1>t, RecoveredKeepsRepo DEF TypeOK
  <1>a. \A k \in Job : tpc[k] \notin ThreadAlive /\ hpc[k] \notin {"register", "start"}
    BY <1>t DEF ThreadAfterAccept, HandlerBusy
  <1>1. TypeOK'
    BY <1>u, <1>t DEF TypeOK
  <1>2. ThreadAfterAccept'
    BY <1>u, <1>a, <1>t DEF ThreadAfterAccept
  <1>3. JobsKnown'
    BY <1>u, <1>t DEF JobsKnown
  <1>4. ThreadBehindRow'
    BY <1>a, <1>t DEF ThreadBehindRow, ThreadAlive, Ingesting
  <1>5. Moves
    BY DEF Moves
  <1>6. Sparing
    BY <1>u DEF Sparing, Spares
  <1> QED BY <1>1, <1>2, <1>3, <1>4, <1>5, <1>6 DEF JobSide

(* A restart: every handler and thread is gone, the tables stay. *)
LEMMA RestartSide ==
  ASSUME JobSide, Restart, UNCHANGED index
  PROVE  JobSide' /\ Moves /\ Sparing
  <1> USE DEF Restart, storeVars
  <1>t. TypeOK /\ ThreadAfterAccept /\ JobsKnown
    BY DEF JobSide
  <1>a. \A k \in Job : hpc'[k] \notin HandlerBusy /\ tpc'[k] \notin ThreadAlive
    BY DEF HandlerBusy, ThreadAlive, Ingesting
  <1>h. hpc' \in [Job -> HandlerPc]
    BY <1>t DEF TypeOK, HandlerPc, HandlerBusy
  <1>p. tpc' \in [Job -> ThreadPc]
    BY <1>t DEF TypeOK, ThreadPc, ThreadAlive, Ingesting
  <1>m. /\ jobs' \in [Job -> {"none", "own", "copy"}]
        /\ obj' \in [Job -> Status \cup {"none"}]
        /\ storeOpen' \in BOOLEAN /\ lock' \in Job \cup {NoJob} /\ threads' \subseteq Job
    OBVIOUS
  <1>s. /\ rows' \in Table /\ catalog' \subseteq Repo
        /\ snap' \in [Job -> Terminal \cup {"none"}]
        /\ repo' \in [Job -> Repo \cup {NoRepo}] /\ faults' \in Nat /\ crashes' \in Nat
    BY <1>t DEF TypeOK
  <1>1. TypeOK'
    BY <1>h, <1>p, <1>m, <1>s DEF TypeOK
  <1>2. ThreadAfterAccept'
    BY <1>a, <1>t DEF ThreadAfterAccept, HandlerBusy, ThreadAlive, Ingesting
  <1>3. JobsKnown'
    BY <1>a, <1>t DEF JobsKnown, ThreadAlive, Ingesting
  <1>4. ThreadBehindRow'
    BY <1>a DEF ThreadBehindRow, HandlerBusy, ThreadAlive, Ingesting
  <1>5. Moves
    BY <1>a DEF Moves, HandlerBusy, ThreadAlive, Ingesting
  <1>6. Sparing
    BY DEF Sparing, Spares
  <1> QED BY <1>1, <1>2, <1>3, <1>4, <1>5, <1>6 DEF JobSide

-----------------------------------------------------------------------------
(* A delete that stands where it stood, or is lost. *)
Stands(d) ==
  /\ del'[d].target = del[d].target /\ del'[d].pending = del[d].pending
  /\ del'[d].victim = del[d].victim /\ del'[d].busy = del[d].busy
  /\ del'[d].warned = del[d].warned
  /\ del'[d].pc = del[d].pc \/ (del[d].pc \in DeleteBusy /\ del'[d].pc = "lost")
  /\ seen'[d] = seen[d]
  /\ quiet'[d] => quiet[d] /\ ~Disturbed(d)'

(* A cleared stage stays cleared while nothing new of the repository appears. *)
LEMMA SparedStaysEmptied ==
  ASSUME NEW r, Spares(r), NEW stage \in DOMAIN StageAfter, Emptied(stage, r)
  PROVE  Emptied(stage, r)'
  <1>1. stage \in Layers \cup {"snapshots", "jobs", "repos"}
    BY DEF StageAfter, Layers
  <1>2. CASE stage \in Layers
    BY <1>2 DEF Emptied, Spares, Layers
  <1>3. CASE stage = "snapshots"
    BY <1>3 DEF Emptied, Spares, Layers
  <1>4. CASE stage = "jobs"
    BY <1>4 DEF Emptied, Spares, Layers
  <1>5. CASE stage = "repos"
    BY <1>5 DEF Emptied, Spares, Layers
  <1> QED BY <1>1, <1>2, <1>3, <1>4, <1>5

(* The invariant of a delete that does not move itself. *)
LEMMA Bystander ==
  ASSUME NEW d \in Deleter, RequestSide(d), Stands(d),
         \A j \in seen[d] : tpc[j] \in Ingesting => repo[j] \in Repo,
         del[d].target \in Repo /\ OnlyDelete(d)' => OnlyDelete(d),
         \A k \in Job :
           /\ hpc[k] \notin {"idle", "check", "insert"}
                => hpc'[k] \notin {"idle", "check", "insert"} /\ repo'[k] = repo[k]
           /\ tpc[k] # "none" => tpc'[k] # "none" /\ repo'[k] = repo[k]
           /\ tpc'[k] \in Ingesting => tpc[k] \in Ingesting \cup {"none"}
           /\ k \in threads /\ tpc'[k] \in Ingesting /\ repo[k] = del[d].target /\ OnlyDelete(d)
                => k \in threads',
         seen[d] \subseteq Job,
         del[d].target \in Repo /\ quiet'[d] => Spares(del[d].target)
  PROVE  RequestSide(d)'
  <1>1. RequestKnown(d)'
    BY DEF RequestSide, RequestKnown, Stands, DeleteBusy, Clearing, StageAfter
  <1>2. SeenFound(d)'
    <2> SUFFICES ASSUME OnlyDelete(d)', NEW j \in seen[d], tpc'[j] \in Ingesting
                 PROVE  /\ del'[d].pc \notin Clearing
                        /\ del'[d].pc \in Reconciling
                             => j \in threads' /\ (del'[d].busy \/ j \in del'[d].pending)
                        /\ ~(del'[d].pc = "orphan" /\ del'[d].victim = j)
      BY DEF SeenFound, Stands
    <2>1. tpc[j] \in Ingesting /\ repo[j] = del[d].target
      BY DEF RequestSide, RequestKnown
    <2>2. OnlyDelete(d)
      BY <2>1
    <2>3. j \in threads => j \in threads'
      BY <2>1, <2>2
    <2>4. del'[d].pc = del[d].pc \/ del'[d].pc = "lost"
      BY DEF Stands
    <2>5. "lost" \notin Clearing \cup Reconciling
      BY DEF Clearing, StageAfter, Reconciling
    <2> QED BY <2>1, <2>2, <2>3, <2>4, <2>5 DEF RequestSide, SeenFound, Stands, Reconciling
  <1>3. PassedEmptied(d)'
    <2> SUFFICES ASSUME NEW q, q = del[d].target, quiet'[d], ~del'[d].warned,
                        del'[d].pc \in DOMAIN Position, NEW stage \in DOMAIN StageAfter,
                        Position[stage] < Position[del'[d].pc]
                 PROVE  Emptied(stage, q)'
      BY DEF PassedEmptied, Stands, Emptied
    <2>1. del'[d].pc = del[d].pc /\ q \in Repo
      BY DEF Stands, Position, RequestSide, RequestKnown
    <2>2. Emptied(stage, q)
      BY <2>1 DEF RequestSide, PassedEmptied, Stands
    <2>3. Spares(q)
      BY <2>1 DEF Stands
    <2> QED BY <2>2, <2>3, SparedStaysEmptied
  <1> QED BY <1>1, <1>2, <1>3 DEF RequestSide

(* What the history records of a delete that began before this step. *)
LEMMA HistoryKept ==
  ASSUME DeleteTypes, KeepHistory
  PROVE  /\ quiet' \in [Deleter -> BOOLEAN] /\ seen' = seen
         /\ \A d \in Deleter : quiet'[d] => quiet[d] /\ ~Disturbed(d)'
  <1>1. \A d \in Deleter : quiet'[d] = (quiet[d] /\ ~Disturbed(d)')
    BY DEF KeepHistory
  <1>2. quiet' = [d \in Deleter |-> quiet[d] /\ ~Disturbed(d)'] /\ seen' = seen
    BY DEF KeepHistory
  <1> QED BY <1>1, <1>2 DEF DeleteTypes

(* A step of the jobs leaves every delete where it stood. *)
LEMMA JobStepRequests ==
  ASSUME DeletionIInv, Moves, Sparing, KeepHistory,
         \A d \in Deleter :
           \/ del'[d] = del[d]
           \/ del[d].pc \in DeleteBusy /\ del'[d] = [del[d] EXCEPT !.pc = "lost"]
  PROVE  \A d \in Deleter : RequestSide(d)'
  <1> SUFFICES ASSUME NEW d \in Deleter PROVE RequestSide(d)'
    OBVIOUS
  <1>t. DeleteTypes /\ TypeOK /\ ThreadAfterAccept /\ RequestSide(d)
    BY DEF DeletionIInv, JobSide
  <1>1. \A e \in Deleter : del'[e].target = del[e].target
    <2> TAKE e \in Deleter
    <2>1. del[e] \in DeleteRequest
      BY <1>t DEF DeleteTypes
    <2> QED BY <2>1 DEF DeleteRequest
  <1>2. Stands(d)
    <2>1. del[d] \in DeleteRequest
      BY <1>t DEF DeleteTypes
    <2>2. seen'[d] = seen[d] /\ (quiet'[d] => quiet[d] /\ ~Disturbed(d)')
      BY <1>t, HistoryKept
    <2> QED BY <2>1, <2>2 DEF Stands, DeleteRequest
  <1>3. \A j \in seen[d] : tpc[j] \in Ingesting => repo[j] \in Repo
    BY <1>t DEF DeleteTypes, ThreadAfterAccept, ThreadAlive
  <1>4. OnlyDelete(d)' => OnlyDelete(d)
    BY <1>1 DEF OnlyDelete
  <1>5. del[d].target \in Repo /\ quiet'[d] => Spares(del[d].target)
    <2> SUFFICES ASSUME del[d].target \in Repo, quiet'[d]
                 PROVE  Spares(del[d].target)
      OBVIOUS
    <2>1. ~Disturbed(d) /\ ~Disturbed(d)'
      BY <1>2, <1>t DEF Stands, RequestSide, RequestKnown
    <2>2. ~IngestUnderWay(del[d].target)
      BY <2>1 DEF Disturbed
    <2>3. ~IngestUnderWay(del[d].target)'
      BY <2>1 DEF Disturbed
    <2>4. ~(\E k \in Job : repo'[k] = del[d].target /\ (hpc'[k] \in HandlerBusy \/ tpc'[k] \in ThreadAlive))
      BY <2>3, <1>1 DEF IngestUnderWay
    <2> QED BY <2>2, <2>4 DEF Sparing, IngestUnderWay
  <1>6. seen[d] \subseteq Job
    BY <1>t DEF DeleteTypes
  <1> QED BY <1>t, <1>2, <1>3, <1>4, <1>5, <1>6, Bystander DEF Moves

-----------------------------------------------------------------------------
(* A step of one delete.  It can only write for its own target, and only while
   it reconciles. *)
DeleteMoves(e) ==
  /\ UNCHANGED <<hpc, tpc, repo>>
  /\ del'[e].target = del[e].target \/ del[e].target = NoRepo
  /\ \A d \in Deleter \ {e} : /\ del'[d] = del[d] /\ seen'[d] = seen[d]
                              /\ quiet'[d] => quiet[d] /\ ~Disturbed(d)'
  /\ \A k \in threads : repo[k] # del[e].target => k \in threads'
  /\ \A r \in Repo : (del[e].target = r /\ del[e].pc \in Reconciling) \/ Spares(r)

(* The other deletes stand by. *)
LEMMA OtherDeletes ==
  ASSUME DeletionIInv, NEW e \in Deleter, DeleteMoves(e)
  PROVE  \A d \in Deleter \ {e} : RequestSide(d)'
  <1> SUFFICES ASSUME NEW d \in Deleter \ {e} PROVE RequestSide(d)'
    OBVIOUS
  <1> USE DEF DeleteMoves
  <1>t. DeleteTypes /\ ThreadAfterAccept /\ RequestSide(d)
    BY DEF DeletionIInv, JobSide
  <1>1. Stands(d)
    BY DEF Stands
  <1>2. \A j \in seen[d] : tpc[j] \in Ingesting => repo[j] \in Repo
    BY <1>t DEF DeleteTypes, ThreadAfterAccept, ThreadAlive
  <1>3. del[d].target \in Repo /\ OnlyDelete(d)' => OnlyDelete(d)
    <2> SUFFICES ASSUME del[d].target \in Repo, OnlyDelete(d)' PROVE OnlyDelete(d)
      OBVIOUS
    <2>1. \A f \in Deleter \ {d} : del'[f].target # del[d].target
      BY <1>1 DEF OnlyDelete, Stands
    <2>2. \A f \in Deleter \ {d} : del'[f].target = del[f].target \/ del[f].target = NoRepo
      OBVIOUS
    <2> QED BY JobTableAssumption, <2>1, <2>2 DEF OnlyDelete
  <1>4. del[d].target \in Repo /\ quiet'[d] => Spares(del[d].target)
    BY <1>t DEF RequestSide, RequestKnown, Disturbed
  <1>5. \A k \in threads : repo[k] = del[d].target /\ OnlyDelete(d) => k \in threads'
    BY DEF OnlyDelete
  <1>6. seen[d] \subseteq Job
    BY <1>t DEF DeleteTypes
  <1> QED BY <1>t, <1>1, <1>2, <1>3, <1>4, <1>5, <1>6, Bystander

(* What the jobs are told by a delete that writes nothing. *)
LEMMA JobsUntouched ==
  ASSUME JobSide, faults' \in Nat,
         UNCHANGED <<rows, catalog, snap, storeOpen, lock, jobs, threads, obj, hpc, tpc,
                     repo, crashes>>,
         \A d \in Deleter : del'[d].target = del[d].target \/ del[d].target = NoRepo
  PROVE  JobSide'
  <1>t. TypeOK /\ ThreadAfterAccept /\ JobsKnown /\ ThreadBehindRow
    BY DEF JobSide
  <1>1. TypeOK' /\ ThreadAfterAccept' /\ JobsKnown'
    BY <1>t DEF TypeOK, ThreadAfterAccept, JobsKnown
  <1>2. ASSUME NEW j \in Job, repo[j] \in Repo, Untouched(repo[j])'
        PROVE  Untouched(repo[j])
    BY JobTableAssumption, <1>2 DEF Untouched
  <1>3. ThreadBehindRow'
    <2> SUFFICES ASSUME NEW j \in Job, Untouched(repo[j])'
                 PROVE  /\ hpc[j] \in {"register", "start"} \/ tpc[j] \in Ingesting
                             => rows[j].status \in Active
                        /\ tpc[j] = "work" => obj[j] = "running"
                        /\ hpc[j] = "start" \/ tpc[j] \in ThreadAlive => j \in threads
      BY DEF ThreadBehindRow, Untouched
    <2>1. CASE repo[j] \in Repo
      BY <1>t, <1>2, <2>1 DEF ThreadBehindRow
    <2>2. CASE repo[j] \notin Repo
      BY <1>t, <2>2 DEF ThreadAfterAccept, HandlerBusy, ThreadAlive, Ingesting
    <2> QED BY <2>1, <2>2
  <1> QED BY <1>1, <1>3, <1>t DEF JobSide

(* The request of d after a step of its own that only moves it on. *)
LEMMA StageRequest ==
  ASSUME DeleteTypes, NEW d \in Deleter, NEW stage \in DeletePc, Stage(d, stage)
  PROVE  /\ del' \in [Deleter -> DeleteRequest]
         /\ del'[d] = [del[d] EXCEPT !.pc = stage]
         /\ del'[d].pc = stage /\ del'[d].target = del[d].target
         /\ del'[d].pending = del[d].pending /\ del'[d].busy = del[d].busy
         /\ del'[d].victim = del[d].victim /\ del'[d].warned = del[d].warned
         /\ \A e \in Deleter \ {d} : del'[e] = del[e]
  <1>1. del[d] \in DeleteRequest /\ del \in [Deleter -> DeleteRequest]
    BY DEF DeleteTypes
  <1> QED BY <1>1 DEF Stage, DeleteRequest

(* A request that answered or failed claims nothing any more, except what its
   target and its history are. *)
LEMMA OverRequest ==
  ASSUME NEW d \in Deleter, RequestSide(d), UNCHANGED <<hpc, tpc, repo>>,
         del'[d].pc \in {"refused", "missing", "error"},
         del[d].pc = "idle" => del'[d].pc = "error",
         del[d].pc # "error",
         del'[d].target = del[d].target, del'[d].pending = del[d].pending,
         seen'[d] = seen[d], quiet'[d] => ~Disturbed(d)'
  PROVE  RequestSide(d)'
  <1>1. RequestKnown(d)'
    BY DEF RequestSide, RequestKnown
  <1>2. SeenFound(d)'
    BY DEF SeenFound, Clearing, StageAfter, Reconciling
  <1>3. PassedEmptied(d)'
    BY DEF PassedEmptied, Position
  <1> QED BY <1>1, <1>2, <1>3 DEF RequestSide

(* The list of the active jobs: the only delete of a repository lists every job
   it sees ingesting, for each of them has an active row and a thread. *)
LEMMA ListActiveInv ==
  ASSUME DeletionIInv, NEW d \in Deleter, NEW r \in Repo, ListActive(d, r)
  PROVE  DeletionIInv'
  <1>t. JobSide /\ TypeOK /\ ThreadAfterAccept /\ JobsKnown /\ ThreadBehindRow
        /\ DeleteTypes /\ RequestSide(d)
    BY DEF DeletionIInv, JobSide
  <1>u. /\ UNCHANGED <<rows, catalog, snap, storeOpen, lock, jobs, threads, obj, hpc, tpc,
                       repo, crashes, index, written>>
        /\ faults' \in Nat /\ del[d].pc = "idle" /\ del[d].target = NoRepo
    BY <1>t DEF ListActive, storeVars, memoryVars, handlerVars, StoreOk, StoreFault, TypeOK,
       RequestSide, RequestKnown
  <1>s. \A q \in Repo : Spares(q)
    BY <1>u DEF Spares
  <1>1. CASE StoreFault /\ Stage(d, "error") /\ KeepHistory
    <2>1. /\ del' \in [Deleter -> DeleteRequest] /\ del'[d].pc = "error"
          /\ del'[d].target = del[d].target /\ del'[d].pending = del[d].pending
          /\ \A e \in Deleter \ {d} : del'[e] = del[e]
      BY <1>t, <1>1, StageRequest DEF DeletePc
    <2>2. /\ quiet' \in [Deleter -> BOOLEAN] /\ seen' = seen
          /\ \A e \in Deleter : quiet'[e] => quiet[e] /\ ~Disturbed(e)'
      BY <1>t, <1>1, HistoryKept
    <2>3. DeleteMoves(d)
      BY <1>u, <1>s, <2>1, <2>2 DEF DeleteMoves
    <2>4. DeleteTypes'
      BY <1>t, <1>u, <2>1, <2>2 DEF DeleteTypes
    <2>5. RequestSide(d)'
      BY <1>t, <1>u, <2>1, <2>2, OverRequest
    <2>6. JobSide'
      BY <1>t, <1>u, <2>1, JobsUntouched
    <2> QED BY <2>3, <2>4, <2>5, <2>6, OtherDeletes DEF DeletionIInv
  <1>2. CASE /\ del' = [del EXCEPT ![d] = [NoDelete EXCEPT !.target = r, !.pc = "reconcile",
                                     !.pending = list_active_job_ids(rows, r)]]
             /\ quiet' = [e \in Deleter |-> (e = d \/ quiet[e]) /\ ~Disturbed(e)']
             /\ seen' = [seen EXCEPT ![d] = {j \in Job : repo[j] = r /\ tpc[j] \in Ingesting}]
    <2>1. /\ del'[d] = [pc |-> "reconcile", target |-> r,
                        pending |-> list_active_job_ids(rows, r), victim |-> NoJob,
                        busy |-> FALSE, warned |-> FALSE]
          /\ \A e \in Deleter \ {d} : del'[e] = del[e]
      BY <1>2, <1>t DEF DeleteTypes, NoDelete
    <2>2. del' \in [Deleter -> DeleteRequest]
      <3>1. del'[d] \in DeleteRequest
        BY <2>1 DEF DeleteRequest, DeletePc, DeleteBusy, list_active_job_ids
      <3>2. del' \in [Deleter -> DeleteRequest \cup {del'[d]}]
        BY <1>2, <1>t DEF DeleteTypes
      <3> QED BY <3>1, <3>2
    <2>3. /\ quiet' \in [Deleter -> BOOLEAN]
          /\ \A e \in Deleter : quiet'[e] => (e = d \/ quiet[e]) /\ ~Disturbed(e)'
      <3>1. \A e \in Deleter : quiet'[e] = ((e = d \/ quiet[e]) /\ ~Disturbed(e)')
        BY <1>2
      <3> QED BY <3>1, <1>2
    <2>4. /\ seen' \in [Deleter -> SUBSET Job]
          /\ seen'[d] = {j \in Job : repo[j] = r /\ tpc[j] \in Ingesting}
          /\ \A e \in Deleter \ {d} : seen'[e] = seen[e]
      BY <1>2, <1>t DEF DeleteTypes
    <2>5. DeleteMoves(d)
      BY <1>u, <1>s, <2>1, <2>3, <2>4 DEF DeleteMoves
    <2>6. DeleteTypes'
      BY <1>t, <1>u, <2>2, <2>3, <2>4 DEF DeleteTypes
    <2>7. JobSide'
      BY <1>t, <1>u, <2>1, JobsUntouched
    <2>8. RequestKnown(d)'
      <3>1. \A j \in list_active_job_ids(rows, r) :
               j \in Job /\ rows[j] # Absent /\ rows[j].repo = r
        BY DEF list_active_job_ids, Absent, Active
      <3>2. \A j \in list_active_job_ids(rows, r) :
               repo[j] = r /\ hpc[j] \notin {"idle", "check", "insert"}
        BY <3>1, <1>t DEF JobsKnown, ThreadAfterAccept
      <3>3. \A j \in Job : tpc[j] \in Ingesting => tpc[j] # "none"
        BY DEF Ingesting
      <3> QED BY <1>u, <2>1, <2>3, <2>4, <3>2, <3>3 DEF RequestKnown
    <2>9. SeenFound(d)'
      <3> SUFFICES ASSUME OnlyDelete(d)', NEW j \in seen'[d], tpc[j] \in Ingesting
                   PROVE  j \in threads /\ j \in list_active_job_ids(rows, r)
        BY <1>u, <2>1 DEF SeenFound, Clearing, StageAfter
      <3>1. j \in Job /\ repo[j] = r
        BY <2>4
      <3>2. Untouched(r)
        BY JobTableAssumption, <1>u, <2>1 DEF OnlyDelete, Untouched
      <3>3. rows[j].status \in Active /\ j \in threads
        BY <1>t, <3>1, <3>2 DEF ThreadBehindRow, ThreadAlive
      <3>4. rows[j].repo = r
        BY <1>t, <3>1, <3>3 DEF JobsKnown, Absent, Active
      <3> QED BY <3>1, <3>3, <3>4 DEF list_active_job_ids
    <2>10. PassedEmptied(d)'
      BY <2>1 DEF PassedEmptied, Position
    <2> QED BY <2>5, <2>6, <2>7, <2>8, <2>9, <2>10, OtherDeletes DEF DeletionIInv, RequestSide
  <1> QED BY <1>1, <1>2 DEF ListActive

(* The question about one listed job: a job seen ingesting is registered and
   alive, so that it is found busy and never chosen as an orphan. *)
LEMMA ReconcileInv ==
  ASSUME DeletionIInv, NEW d \in Deleter, NEW j \in Job, Reconcile(d, j)
  PROVE  DeletionIInv'
  <1>t. JobSide /\ TypeOK /\ DeleteTypes /\ RequestSide(d) /\ RequestKnown(d) /\ SeenFound(d)
    BY DEF DeletionIInv, JobSide, RequestSide
  <1>u. /\ UNCHANGED <<rows, catalog, snap, storeOpen, lock, jobs, threads, obj, hpc, tpc,
                       repo, faults, crashes, index, written>>
        /\ del[d].pc = "reconcile" /\ j \in del[d].pending /\ KeepHistory
    BY DEF Reconcile, vars
  <1>h. /\ quiet' \in [Deleter -> BOOLEAN] /\ seen' = seen
        /\ \A e \in Deleter : quiet'[e] => quiet[e] /\ ~Disturbed(e)'
    BY <1>t, <1>u, HistoryKept
  <1>d. /\ del' \in [Deleter -> DeleteRequest]
        /\ \A e \in Deleter \ {d} : del'[e] = del[e]
        /\ del'[d].target = del[d].target /\ del'[d].pending = del[d].pending \ {j}
        /\ \/ IsLocalJobActive(j) /\ del'[d].pc = "reconcile" /\ del'[d].busy = TRUE
           \/ ~IsLocalJobActive(j) /\ del'[d].pc = "orphan" /\ del'[d].victim = j
              /\ del'[d].busy = del[d].busy
    <2>1. del[d] \in DeleteRequest /\ del \in [Deleter -> DeleteRequest]
      BY <1>t DEF DeleteTypes
    <2>2. CASE IsLocalJobActive(j) /\ del' = [del EXCEPT ![d].pending = @ \ {j}, ![d].busy = TRUE]
      <3>1. del'[d] = [del[d] EXCEPT !.pending = @ \ {j}, !.busy = TRUE]
        BY <2>1, <2>2
      <3>2. del'[d] \in DeleteRequest /\ del'[d].pc = "reconcile"
            /\ del'[d].target = del[d].target /\ del'[d].busy = TRUE
            /\ del'[d].pending = del[d].pending \ {j}
        BY <2>1, <3>1, <1>u, ZenonT(60) DEF DeleteRequest
      <3> QED BY <2>1, <2>2, <3>2
    <2>3. CASE ~IsLocalJobActive(j)
               /\ del' = [del EXCEPT ![d].pending = @ \ {j}, ![d].victim = j, ![d].pc = "orphan"]
      <3>1. del'[d] = [del[d] EXCEPT !.pending = @ \ {j}, !.victim = j, !.pc = "orphan"]
        BY <2>1, <2>3
      <3>2. del'[d] \in DeleteRequest /\ del'[d].pc = "orphan" /\ del'[d].victim = j
            /\ del'[d].target = del[d].target /\ del'[d].busy = del[d].busy
            /\ del'[d].pending = del[d].pending \ {j}
        <4>1. del'[d] = [pc |-> "orphan", target |-> del[d].target,
                         pending |-> del[d].pending \ {j}, victim |-> j,
                         busy |-> del[d].busy, warned |-> del[d].warned]
          BY <2>1, <3>1 DEF DeleteRequest
        <4>2. "orphan" \in DeletePc
          BY DEF DeletePc, DeleteBusy
        <4> QED BY <2>1, <4>1, <4>2 DEF DeleteRequest
      <3> QED BY <2>1, <2>3, <3>2
    <2> QED BY <2>2, <2>3 DEF Reconcile
  <1>1. DeleteMoves(d)
    BY <1>u, <1>h, <1>d DEF DeleteMoves, Spares
  <1>2. DeleteTypes'
    BY <1>t, <1>u, <1>h, <1>d DEF DeleteTypes
  <1>3. JobSide'
    BY <1>t, <1>u, <1>d, JobsUntouched DEF TypeOK
  <1>4. RequestKnown(d)'
    BY <1>t, <1>u, <1>h, <1>d DEF RequestKnown
  <1>5. SeenFound(d)'
    <2> SUFFICES ASSUME OnlyDelete(d)', NEW k \in seen[d], tpc[k] \in Ingesting
                 PROVE  /\ k \in threads /\ (del'[d].busy \/ k \in del'[d].pending)
                        /\ ~(del'[d].pc = "orphan" /\ del'[d].victim = k)
      BY <1>u, <1>h, <1>d DEF SeenFound, Clearing, StageAfter
    <2>1. OnlyDelete(d)
      BY <1>d DEF OnlyDelete
    <2>2. k \in threads /\ (del[d].busy \/ k \in del[d].pending)
      BY <1>t, <1>u, <2>1 DEF SeenFound, Reconciling
    <2>3. IsLocalJobActive(k)
      BY <2>2 DEF IsLocalJobActive, ThreadAlive
    <2> QED BY <1>d, <2>2, <2>3
  <1>6. PassedEmptied(d)'
    BY <1>d DEF PassedEmptied, Position
  <1> QED BY <1>1, <1>2, <1>3, <1>4, <1>5, <1>6, OtherDeletes DEF DeletionIInv, RequestSide

(* The 409, the 404, or the first layer: with no busy job and nothing left to
   ask about, no job seen ingesting still ingests. *)
LEMMA DecideInv ==
  ASSUME DeletionIInv, NEW d \in Deleter, Decide(d)
  PROVE  DeletionIInv'
  <1>t. JobSide /\ TypeOK /\ DeleteTypes /\ RequestSide(d) /\ RequestKnown(d) /\ SeenFound(d)
    BY DEF DeletionIInv, JobSide, RequestSide
  <1>u. /\ UNCHANGED <<rows, catalog, snap, storeOpen, lock, jobs, threads, obj, hpc, tpc,
                       repo, crashes, index, written>>
        /\ faults' \in Nat /\ del[d].pc = "reconcile" /\ del[d].pending = {} /\ KeepHistory
    BY <1>t DEF Decide, storeVars, memoryVars, handlerVars, StoreOk, StoreFault, TypeOK
  <1>h. /\ quiet' \in [Deleter -> BOOLEAN] /\ seen' = seen
        /\ \A e \in Deleter : quiet'[e] => quiet[e] /\ ~Disturbed(e)'
    BY <1>t, <1>u, HistoryKept
  <1>p. PICK stage \in {"refused", "error", "chroma", "missing"} :
           Stage(d, stage) /\ (stage = "chroma" => ~del[d].busy)
    BY DEF Decide
  <1>d. /\ del' \in [Deleter -> DeleteRequest]
        /\ del'[d].pc = stage /\ del'[d].target = del[d].target
        /\ del'[d].pending = del[d].pending
        /\ \A e \in Deleter \ {d} : del'[e] = del[e]
    BY <1>t, <1>p, StageRequest DEF DeletePc, DeleteBusy, Clearing, StageAfter
  <1>1. DeleteMoves(d)
    BY <1>u, <1>h, <1>d DEF DeleteMoves, Spares
  <1>2. DeleteTypes'
    BY <1>t, <1>u, <1>h, <1>d DEF DeleteTypes
  <1>3. JobSide'
    BY <1>t, <1>u, <1>d, JobsUntouched
  <1>4. RequestSide(d)'
    <2>1. CASE stage # "chroma"
      BY <1>t, <1>u, <1>h, <1>d, <2>1, OverRequest
    <2>2. CASE stage = "chroma"
      <3>1. RequestKnown(d)'
        BY <1>t, <1>u, <1>h, <1>d, <2>2 DEF RequestKnown
      <3>2. SeenFound(d)'
        <4>1. OnlyDelete(d)' => OnlyDelete(d)
          BY <1>d DEF OnlyDelete
        <4>2. \A k \in seen[d] : ~(OnlyDelete(d)' /\ tpc[k] \in Ingesting)
          BY <1>t, <1>u, <1>p, <2>2, <4>1 DEF SeenFound, Reconciling
        <4> QED BY <1>u, <1>h, <4>2 DEF SeenFound
      <3>3. PassedEmptied(d)'
        BY <1>d, <2>2 DEF PassedEmptied, Position, StageAfter
      <3> QED BY <3>1, <3>2, <3>3 DEF RequestSide
    <2> QED BY <2>1, <2>2
  <1> QED BY <1>1, <1>2, <1>3, <1>4, OtherDeletes DEF DeletionIInv

(* The orphan mark: it takes the row and the registration of a job of the
   target only. *)
LEMMA MarkOrphanInv ==
  ASSUME DeletionIInv, NEW d \in Deleter, MarkOrphan(d)
  PROVE  DeletionIInv'
  <1> DEFINE j == del[d].victim
             failed == upsert_job(rows, j, "failed", repo[j])
  <1>t. /\ JobSide /\ TypeOK /\ ThreadAfterAccept /\ JobsKnown /\ ThreadBehindRow
        /\ DeleteTypes /\ RequestSide(d) /\ RequestKnown(d) /\ SeenFound(d)
    BY DEF DeletionIInv, JobSide, RequestSide
  <1>v. /\ del[d].pc = "orphan" /\ j \in Job /\ repo[j] = del[d].target /\ repo[j] \in Repo
        /\ hpc[j] \notin {"idle", "check", "insert"}
    BY <1>t DEF MarkOrphan, RequestKnown
  <1>u. /\ UNCHANGED <<catalog, snap, storeOpen, lock, hpc, tpc, repo, crashes, index, written>>
        /\ faults' \in Nat /\ KeepHistory
    BY <1>t DEF MarkOrphan, handlerVars, StoreOk, StoreFault, Committed, Raised, TypeOK
  <1>h. /\ quiet' \in [Deleter -> BOOLEAN] /\ seen' = seen
        /\ \A e \in Deleter : quiet'[e] => quiet[e] /\ ~Disturbed(e)'
    BY <1>t, <1>u, HistoryKept
  <1>f. /\ failed \in Table /\ failed[j] = [status |-> "failed", repo |-> repo[j]]
        /\ \A k \in Job \ {j} : failed[k] = rows[k]
    <2>1. rows \in Table /\ "failed" \in Status
      BY <1>t DEF TypeOK, Status, Terminal
    <2> QED BY <1>v, <2>1, UpsertRow
  <1>r. rows' \in {rows, failed}
    BY DEF MarkOrphan, Committed, Raised
  <1>m. /\ obj' \in [Job -> Status \cup {"none"}]
        /\ jobs' \in [Job -> {"none", "own", "copy"}]
        /\ threads' \subseteq Job
        /\ \A k \in Job \ {j} : obj'[k] = obj[k] /\ jobs'[k] = jobs[k]
                                /\ (k \in threads => k \in threads')
        /\ obj'[j] = obj[j] \/ obj'[j] = "failed"
        /\ jobs'[j] = "own" => jobs[j] = "own"
    BY <1>t, <1>v DEF MarkOrphan, TypeOK, Status, Terminal
  <1>p. PICK stage \in {"reconcile", "error"} : Stage(d, stage)
    BY DEF MarkOrphan
  <1>d. /\ del' \in [Deleter -> DeleteRequest]
        /\ del'[d].pc = stage /\ del'[d].target = del[d].target
        /\ del'[d].pending = del[d].pending /\ del'[d].busy = del[d].busy
        /\ \A e \in Deleter \ {d} : del'[e] = del[e]
    BY <1>t, <1>p, StageRequest DEF DeletePc, DeleteBusy
  <1>1. TypeOK'
    BY <1>t, <1>u, <1>f, <1>r, <1>m DEF TypeOK
  <1>2. ThreadAfterAccept'
    BY <1>t, <1>u, <1>v, <1>f, <1>r DEF ThreadAfterAccept
  <1>3. JobsKnown'
    <2>1. \A k \in Job : rows'[k] # Absent => rows'[k].repo = repo[k]
      BY <1>t, <1>f, <1>r DEF JobsKnown
    <2>2. \A k \in Job : obj'[k] = obj[k] \/ obj'[k] = "failed"
      BY <1>m
    <2>3. \A k \in Job : jobs'[k] = "own" => jobs[k] = "own"
      BY <1>m
    <2> QED BY <1>t, <1>u, <2>1, <2>2, <2>3 DEF JobsKnown, Terminal
  <1>4. ThreadBehindRow'
    <2> SUFFICES ASSUME NEW k \in Job, Untouched(repo[k])'
                 PROVE  /\ hpc[k] \in {"register", "start"} \/ tpc[k] \in Ingesting
                             => rows'[k].status \in Active
                        /\ tpc[k] = "work" => obj'[k] = "running"
                        /\ hpc[k] = "start" \/ tpc[k] \in ThreadAlive => k \in threads'
      BY <1>u DEF ThreadBehindRow, Untouched
    <2>1. Untouched(repo[k])
      BY <1>u, <1>d DEF Untouched
    <2>2. k # j
      BY <1>v, <2>1 DEF Untouched
    <2> QED BY <1>t, <1>f, <1>r, <1>m, <2>1, <2>2 DEF ThreadBehindRow
  <1>5. DeleteTypes'
    BY <1>t, <1>u, <1>h, <1>d DEF DeleteTypes
  <1>6. DeleteMoves(d)
    <2>1. \A k \in threads : repo[k] # del[d].target => k \in threads'
      BY <1>t, <1>v, <1>m DEF TypeOK
    <2>2. \A r \in Repo : del[d].target = r \/ Spares(r)
      BY <1>u, <1>v, <1>f, <1>r DEF Spares
    <2> QED BY <1>u, <1>v, <1>h, <1>d, <2>1, <2>2 DEF DeleteMoves, Reconciling
  <1>7. RequestSide(d)'
    <2>1. CASE stage = "error"
      BY <1>t, <1>u, <1>v, <1>h, <1>d, <2>1, OverRequest
    <2>2. CASE stage = "reconcile"
      <3>1. RequestKnown(d)'
        BY <1>t, <1>u, <1>v, <1>h, <1>d, <2>2 DEF RequestKnown
      <3>2. SeenFound(d)'
        <4> SUFFICES ASSUME OnlyDelete(d)', NEW k \in seen[d], tpc[k] \in Ingesting
                     PROVE  k \in threads' /\ (del[d].busy \/ k \in del[d].pending)
          BY <1>u, <1>h, <1>d, <2>2 DEF SeenFound, Clearing, StageAfter
        <4>1. OnlyDelete(d)
          BY <1>d DEF OnlyDelete
        <4>2. k \in threads /\ (del[d].busy \/ k \in del[d].pending) /\ k # j
          BY <1>t, <1>v, <4>1 DEF SeenFound, Reconciling
        <4> QED BY <1>t, <1>m, <4>2 DEF DeleteTypes
      <3>3. PassedEmptied(d)'
        BY <1>d, <2>2 DEF PassedEmptied, Position
      <3> QED BY <3>1, <3>2, <3>3 DEF RequestSide
    <2> QED BY <2>1, <2>2
  <1> QED BY <1>1, <1>2, <1>3, <1>4, <1>5, <1>6, <1>7, OtherDeletes DEF DeletionIInv, JobSide

(* Each step of delete_repo_storage but the last has the place after its own. *)
LEMMA NextPosition ==
  ASSUME NEW s \in DOMAIN StageAfter, NEW t \in DOMAIN StageAfter,
         Position[t] < Position[StageAfter[s]]
  PROVE  t = s \/ Position[t] < Position[s]
  <1>1. /\ s \in {"chroma", "lexical", "graph", "workspace", "snapshots", "jobs", "repos"}
        /\ t \in {"chroma", "lexical", "graph", "workspace", "snapshots", "jobs", "repos"}
    BY DEF StageAfter
  <1>2. CASE s = "chroma"
    BY <1>1, <1>2 DEF StageAfter, Position
  <1>3. CASE s = "lexical"
    BY <1>1, <1>3 DEF StageAfter, Position
  <1>4. CASE s = "graph"
    BY <1>1, <1>4 DEF StageAfter, Position
  <1>5. CASE s = "workspace"
    BY <1>1, <1>5 DEF StageAfter, Position
  <1>6. CASE s = "snapshots"
    BY <1>1, <1>6 DEF StageAfter, Position
  <1>7. CASE s = "jobs"
    BY <1>1, <1>7 DEF StageAfter, Position
  <1>8. CASE s = "repos"
    BY <1>1, <1>8 DEF StageAfter, Position
  <1> QED BY <1>1, <1>2, <1>3, <1>4, <1>5, <1>6, <1>7, <1>8

(* The rows left after the job rows of one repository are gone. *)
LEMMA DeletedRows ==
  ASSUME NEW t \in Table, NEW r \in Repo
  PROVE  /\ delete_repo_jobs(t, r) \in Table
         /\ \A k \in Job :
              /\ delete_repo_jobs(t, r)[k] \in {Absent, t[k]}
              /\ delete_repo_jobs(t, r)[k].repo # r
              /\ t[k].repo # r => delete_repo_jobs(t, r)[k] = t[k]
  BY JobTableAssumption DEF delete_repo_jobs, Table, Absent

(* What one stage removes, it removes from its target; nothing appears. *)
LEMMA ClearedStage ==
  ASSUME TypeOK, DeleteTypes, NEW stage \in DOMAIN StageAfter, NEW r \in Repo,
         Cleared(stage, r), UNCHANGED repo
  PROVE  /\ rows' \in Table /\ catalog' \subseteq Repo
         /\ snap' \in [Job -> Terminal \cup {"none"}] /\ index' \in [Repo -> SUBSET Layers]
         /\ \A k \in Job : rows'[k] \in {Absent, rows[k]}
                           /\ (rows[k].repo # r => rows'[k] = rows[k])
         /\ \A q \in Repo : Spares(q)
         /\ Emptied(stage, r)'
  <1>1. rows' \in Table /\ \A k \in Job : rows'[k] \in {Absent, rows[k]}
                                          /\ (rows[k].repo # r => rows'[k] = rows[k])
    BY DeletedRows DEF Cleared, TypeOK
  <1>2. snap' \in [Job -> Terminal \cup {"none"}]
        /\ \A k \in Job : snap'[k] # "none" => snap[k] # "none"
    <2>1. CASE stage = "snapshots"
      <3>1. snap' = [j \in Job |-> IF repo[j] = r THEN "none" ELSE snap[j]]
        BY <2>1 DEF Cleared
      <3> QED BY <3>1 DEF TypeOK
    <2>2. CASE stage # "snapshots"
      BY <2>2 DEF Cleared, TypeOK
    <2> QED BY <2>1, <2>2
  <1>3. index' \in [Repo -> SUBSET Layers] /\ \A q \in Repo : index'[q] \subseteq index[q]
    <2>1. \A q \in Repo : index'[q] \in {index[q], index[q] \ {stage}}
      BY DEF Cleared
    <2>2. DOMAIN index' = Repo /\ index' = [q \in Repo |-> index'[q]]
      BY DEF Cleared
    <2> QED BY <2>1, <2>2 DEF DeleteTypes
  <1>4. catalog' \subseteq catalog
    BY DEF Cleared
  <1>5. \A q \in Repo : Spares(q)
    <2>1. \A k \in Job, q \in Repo : rows'[k].repo = q => rows[k].repo = q
      BY <1>1, JobTableAssumption DEF Absent
    <2> QED BY <1>2, <1>3, <1>4, <2>1 DEF Spares
  <1>6. Emptied(stage, r)'
    <2>0. stage \in Layers \cup {"snapshots", "jobs", "repos"}
      BY DEF StageAfter, Layers
    <2>1. CASE stage \in Layers
      <3>1. r \in (IF stage = "workspace" THEN WorkspaceOf(r) ELSE {r})
        BY DEF WorkspaceOf
      <3>2. index'[r] = index[r] \ {stage}
        BY <2>1, <3>1 DEF Cleared
      <3> QED BY <2>1, <3>2 DEF Emptied, Layers
    <2>2. CASE stage = "snapshots"
      BY <2>2 DEF Cleared, Emptied, Layers
    <2>3. CASE stage = "jobs"
      <3>1. rows' = delete_repo_jobs(rows, r)
        BY <2>3 DEF Cleared
      <3>2. \A k \in Job : rows'[k].repo # r
        BY <3>1, DeletedRows DEF TypeOK
      <3> QED BY <2>3, <3>2 DEF Emptied, Layers
    <2>4. CASE stage = "repos"
      BY <2>4 DEF Cleared, Emptied, Layers
    <2> QED BY <2>0, <2>1, <2>2, <2>3, <2>4
  <1>7. catalog' \subseteq Repo
    BY <1>4 DEF TypeOK
  <1> QED BY <1>1, <1>2, <1>3, <1>5, <1>6, <1>7

(* One stage of delete_repo_storage: done, the stage is emptied and so stay the
   ones before it; failed, the delete carries a warning from now on. *)
LEMMA ClearStageInv ==
  ASSUME DeletionIInv, NEW d \in Deleter, ClearStage(d)
  PROVE  DeletionIInv'
  <1> DEFINE stage == del[d].pc
             r == del[d].target
  <1>t. /\ JobSide /\ TypeOK /\ ThreadAfterAccept /\ JobsKnown /\ ThreadBehindRow
        /\ DeleteTypes /\ RequestSide(d) /\ RequestKnown(d) /\ SeenFound(d) /\ PassedEmptied(d)
    BY DEF DeletionIInv, JobSide, RequestSide
  <1>v. /\ stage \in DOMAIN StageAfter
        /\ stage \in {"chroma", "lexical", "graph", "workspace", "snapshots", "jobs", "repos"}
    BY DEF ClearStage, StageAfter
  <1>c. stage \in Clearing /\ r \in Repo
    BY <1>v, <1>t DEF Clearing, RequestKnown
  <1>u. /\ UNCHANGED <<storeOpen, lock, jobs, threads, obj, hpc, tpc, repo, crashes, written>>
        /\ faults' \in Nat /\ KeepHistory
    BY <1>t DEF ClearStage, memoryVars, handlerVars, StoreOk, StoreFault, TypeOK
  <1>h. /\ quiet' \in [Deleter -> BOOLEAN] /\ seen' = seen
        /\ \A e \in Deleter : quiet'[e] => quiet[e] /\ ~Disturbed(e)'
    BY <1>t, <1>u, HistoryKept
  <1>k. /\ rows' \in Table /\ catalog' \subseteq Repo
        /\ snap' \in [Job -> Terminal \cup {"none"}] /\ index' \in [Repo -> SUBSET Layers]
        /\ \A k \in Job : rows'[k] \in {Absent, rows[k]}
                          /\ (rows[k].repo # r => rows'[k] = rows[k])
        /\ \A q \in Repo : Spares(q)
    <2>1. CASE Cleared(stage, r)
      BY <1>t, <1>v, <1>c, <1>u, <2>1, ClearedStage
    <2>2. CASE UNCHANGED <<index, snap, rows, catalog>>
      BY <1>t, <1>u, <2>2 DEF TypeOK, DeleteTypes, Spares
    <2> QED BY <2>1, <2>2 DEF ClearStage
  <1>d. /\ del' \in [Deleter -> DeleteRequest]
        /\ \A e \in Deleter \ {d} : del'[e] = del[e]
        /\ del'[d].target = r /\ del'[d].pending = del[d].pending
        /\ del'[d].pc \in {"lexical", "graph", "workspace", "snapshots", "jobs", "repos", "untrack"}
        /\ \/ Cleared(stage, r) /\ del'[d].pc = StageAfter[stage]
              /\ del'[d].warned = del[d].warned
           \/ del'[d].warned = TRUE
    <2>0. StageAfter[stage] \in {"lexical", "graph", "workspace", "snapshots", "jobs", "repos",
                                 "untrack"}
      BY <1>v DEF StageAfter
    <2>p. \A s \in {"lexical", "graph", "workspace", "snapshots", "jobs", "repos", "untrack"} :
             s \in DeletePc
      BY DEF DeletePc, DeleteBusy, Clearing, StageAfter
    <2>1. CASE Cleared(stage, r) /\ Stage(d, StageAfter[stage])
      BY <1>t, <2>0, <2>p, <2>1, StageRequest
    <2>2. CASE \E s \in {StageAfter[stage], "untrack"} :
                 del' = [del EXCEPT ![d].warned = TRUE, ![d].pc = s]
      <3>0. PICK s \in {StageAfter[stage], "untrack"} :
                 del' = [del EXCEPT ![d].warned = TRUE, ![d].pc = s]
        BY <2>2
      <3>1. del[d] \in DeleteRequest /\ del \in [Deleter -> DeleteRequest]
        BY <1>t DEF DeleteTypes
      <3>2. del'[d] = [del[d] EXCEPT !.warned = TRUE, !.pc = s]
        BY <3>0, <3>1
      <3>3. del'[d] = [pc |-> s, target |-> r, pending |-> del[d].pending,
                       victim |-> del[d].victim, busy |-> del[d].busy, warned |-> TRUE]
        BY <3>1, <3>2 DEF DeleteRequest
      <3>4. s \in DeletePc
        BY <2>0, <2>p
      <3>5. del'[d] \in DeleteRequest
        BY <3>1, <3>3, <3>4 DEF DeleteRequest
      <3>6. del' \in [Deleter -> DeleteRequest] /\ \A e \in Deleter \ {d} : del'[e] = del[e]
        BY <3>0, <3>1, <3>5
      <3> QED BY <2>0, <3>3, <3>6
    <2> QED BY <2>1, <2>2 DEF ClearStage
  <1>1. TypeOK'
    BY <1>t, <1>u, <1>k DEF TypeOK
  <1>2. ThreadAfterAccept' /\ JobsKnown'
    BY <1>t, <1>u, <1>k DEF ThreadAfterAccept, JobsKnown
  <1>3. ThreadBehindRow'
    <2> SUFFICES ASSUME NEW k \in Job, Untouched(repo[k])'
                 PROVE  /\ hpc[k] \in {"register", "start"} \/ tpc[k] \in Ingesting
                             => rows'[k].status \in Active
                        /\ tpc[k] = "work" => obj[k] = "running"
                        /\ hpc[k] = "start" \/ tpc[k] \in ThreadAlive => k \in threads
      BY <1>u DEF ThreadBehindRow, Untouched
    <2>1. Untouched(repo[k]) /\ repo[k] # r
      BY <1>u, <1>d DEF Untouched
    <2>2. rows[k].status \in Active => rows[k].repo = repo[k]
      BY <1>t DEF JobsKnown, Absent, Active
    <2> QED BY <1>t, <1>k, <2>1, <2>2 DEF ThreadBehindRow
  <1>4. DeleteTypes'
    BY <1>t, <1>u, <1>h, <1>k, <1>d DEF DeleteTypes
  <1>5. DeleteMoves(d)
    BY <1>u, <1>h, <1>k, <1>d DEF DeleteMoves
  <1>6. RequestKnown(d)'
    BY <1>t, <1>u, <1>c, <1>h, <1>d DEF RequestKnown
  <1>7. SeenFound(d)'
    <2>1. OnlyDelete(d)' => OnlyDelete(d)
      BY <1>d DEF OnlyDelete
    <2>2. \A k \in seen[d] : ~(OnlyDelete(d)' /\ tpc[k] \in Ingesting)
      BY <1>t, <1>c, <2>1 DEF SeenFound
    <2> QED BY <1>u, <1>h, <2>2 DEF SeenFound
  <1>8. PassedEmptied(d)'
    <2> SUFFICES ASSUME NEW q \in Repo, q = r, quiet'[d], ~del'[d].warned,
                        NEW s \in DOMAIN StageAfter, Position[s] < Position[del'[d].pc]
                 PROVE  Emptied(s, q)'
      BY <1>c, <1>d DEF PassedEmptied, Emptied
    <2>1. Cleared(stage, q) /\ del'[d].pc = StageAfter[stage] /\ ~del[d].warned /\ quiet[d]
      BY <1>d, <1>h DEF Cleared
    <2>2. CASE s = stage
      <3>1. Cleared(s, q)
        BY <2>1, <2>2
      <3> QED BY <1>t, <1>u, <3>1, ClearedStage
    <2>3. CASE s # stage
      <3>1. Position[s] < Position[stage]
        BY <1>v, <2>1, <2>3, NextPosition
      <3>2. stage \in DOMAIN Position
        BY <1>v DEF Position
      <3>3. Emptied(s, q)
        BY <1>t, <2>1, <3>1, <3>2 DEF PassedEmptied
      <3>4. Spares(q)
        BY <1>k
      <3> QED BY <3>3, <3>4, SparedStaysEmptied
    <2> QED BY <2>2, <2>3
  <1> QED BY <1>1, <1>2, <1>3, <1>4, <1>5, <1>6, <1>7, <1>8, OtherDeletes
          DEF DeletionIInv, JobSide, RequestSide

(* The end: the tracked jobs of the target are forgotten. *)
LEMMA UntrackInv ==
  ASSUME DeletionIInv, NEW d \in Deleter, Untrack(d)
  PROVE  DeletionIInv'
  <1> DEFINE r == del[d].target
             mine == {j \in Job : jobs[j] # "none" /\ repo[j] = r}
  <1>t. /\ JobSide /\ TypeOK /\ ThreadAfterAccept /\ JobsKnown /\ ThreadBehindRow
        /\ DeleteTypes /\ RequestSide(d) /\ RequestKnown(d) /\ SeenFound(d) /\ PassedEmptied(d)
    BY DEF DeletionIInv, JobSide, RequestSide
  <1>u. /\ UNCHANGED <<rows, catalog, snap, storeOpen, lock, obj, hpc, tpc, repo, faults,
                       crashes, index, written>>
        /\ del[d].pc = "untrack" /\ KeepHistory /\ Stage(d, "deleted")
        /\ jobs' = [j \in Job |-> IF j \in mine THEN "none" ELSE jobs[j]]
        /\ threads' = threads \ mine
    BY DEF Untrack, storeVars, handlerVars, bounds
  <1>h. /\ quiet' \in [Deleter -> BOOLEAN] /\ seen' = seen
        /\ \A e \in Deleter : quiet'[e] => quiet[e] /\ ~Disturbed(e)'
    BY <1>t, <1>u, HistoryKept
  <1>d. /\ del' \in [Deleter -> DeleteRequest]
        /\ \A e \in Deleter \ {d} : del'[e] = del[e]
        /\ del'[d].target = r /\ del'[d].pending = del[d].pending
        /\ del'[d].pc = "deleted" /\ del'[d].warned = del[d].warned
    BY <1>t, <1>u, StageRequest DEF DeletePc
  <1>m. /\ jobs' \in [Job -> {"none", "own", "copy"}]
        /\ \A k \in Job : jobs'[k] = "own" => jobs[k] = "own"
        /\ threads' \subseteq Job
        /\ \A k \in threads : repo[k] # r => k \in threads'
    BY <1>t, <1>u DEF TypeOK
  <1>1. TypeOK'
    BY <1>t, <1>u, <1>m DEF TypeOK
  <1>2. ThreadAfterAccept' /\ JobsKnown'
    BY <1>t, <1>u, <1>m DEF ThreadAfterAccept, JobsKnown
  <1>3. ThreadBehindRow'
    <2> SUFFICES ASSUME NEW k \in Job, Untouched(repo[k])'
                 PROVE  /\ hpc[k] \in {"register", "start"} \/ tpc[k] \in Ingesting
                             => rows[k].status \in Active
                        /\ tpc[k] = "work" => obj[k] = "running"
                        /\ hpc[k] = "start" \/ tpc[k] \in ThreadAlive => k \in threads'
      BY <1>u DEF ThreadBehindRow, Untouched
    <2>1. Untouched(repo[k]) /\ repo[k] # r
      BY <1>u, <1>d DEF Untouched
    <2> QED BY <1>t, <1>m, <2>1 DEF ThreadBehindRow
  <1>4. DeleteTypes'
    BY <1>t, <1>u, <1>h, <1>d DEF DeleteTypes
  <1>s. \A q \in Repo : Spares(q)
    BY <1>u DEF Spares
  <1>5. DeleteMoves(d)
    BY <1>u, <1>h, <1>d, <1>m, <1>s DEF DeleteMoves
  <1>6. RequestKnown(d)'
    BY <1>t, <1>u, <1>h, <1>d DEF RequestKnown
  <1>7. SeenFound(d)'
    BY <1>d DEF SeenFound, Clearing, StageAfter, Reconciling
  <1>8. PassedEmptied(d)'
    <2> SUFFICES ASSUME NEW q \in Repo, q = r, quiet'[d], ~del'[d].warned,
                        NEW s \in DOMAIN StageAfter
                 PROVE  Emptied(s, q)'
      <3>1. r \in Repo
        BY <1>t, <1>u DEF RequestKnown
      <3> QED BY <1>d, <3>1 DEF PassedEmptied, Emptied
    <2>1. Position[s] < Position["untrack"] /\ "untrack" \in DOMAIN Position
      BY DEF StageAfter, Position
    <2>2. Emptied(s, q)
      BY <1>t, <1>u, <1>h, <1>d, <2>1 DEF PassedEmptied
    <2>3. Spares(q)
      BY <1>s
    <2> QED BY <2>2, <2>3, SparedStaysEmptied
  <1> QED BY <1>1, <1>2, <1>3, <1>4, <1>5, <1>6, <1>7, <1>8, OtherDeletes
          DEF DeletionIInv, JobSide, RequestSide

-----------------------------------------------------------------------------
(* One layer written by an ingest: its repository is under way. *)
LEMMA WriteLayerInv ==
  ASSUME DeletionIInv, NEW j \in Job, WriteLayer(j)
  PROVE  DeletionIInv'
  <1>t. JobSide /\ TypeOK /\ ThreadAfterAccept /\ DeleteTypes
    BY DEF DeletionIInv, JobSide
  <1>u. /\ UNCHANGED <<rows, catalog, snap, storeOpen, lock, jobs, threads, obj, hpc, tpc,
                       repo, faults, crashes, del>>
        /\ KeepHistory /\ tpc[j] = "work" /\ written[j] < Len(IngestOrder)
        /\ written' = [written EXCEPT ![j] = @ + 1]
        /\ index' = [index EXCEPT ![repo[j]] = @ \cup {IngestOrder[written[j] + 1]}]
    BY DEF WriteLayer, vars
  <1>h. quiet' \in [Deleter -> BOOLEAN] /\ seen' = seen
    BY <1>t, <1>u, HistoryKept
  <1>1. JobSide'
    BY <1>t, <1>u, JobsUntouched DEF TypeOK
  <1>2. written' \in [Job -> 0..Len(IngestOrder)]
        /\ index' \in [Repo -> SUBSET Layers]
    <2>1. Len(IngestOrder) \in Nat /\ \A n \in 1..Len(IngestOrder) : IngestOrder[n] \in Layers
      BY DeletionAssumption
    <2>2. written[j] \in 0..Len(IngestOrder) /\ written[j] + 1 \in 1..Len(IngestOrder)
      BY <1>t, <1>u, <2>1 DEF DeleteTypes
    <2>3. IngestOrder[written[j] + 1] \in Layers
      BY <2>1, <2>2
    <2>4. written' \in [Job -> 0..Len(IngestOrder)]
      BY <1>t, <1>u, <2>1, <2>2 DEF DeleteTypes
    <2>5. index' \in [Repo -> SUBSET Layers]
      BY <1>t, <1>u, <2>3 DEF DeleteTypes
    <2> QED BY <2>4, <2>5
  <1>3. DeleteTypes'
    BY <1>t, <1>u, <1>h, <1>2 DEF DeleteTypes
  <1>4. Moves
    BY <1>u DEF Moves
  <1>5. Sparing
    <2> SUFFICES ASSUME NEW r \in Repo, ~IngestUnderWay(r) PROVE Spares(r)
      BY DEF Sparing
    <2>1. r # repo[j]
      BY <1>u DEF IngestUnderWay, ThreadAlive, Ingesting
    <2>2. index'[r] = index[r]
      BY <1>t, <1>u, <2>1 DEF DeleteTypes
    <2> QED BY <1>u, <2>2 DEF Spares
  <1>6. \A d \in Deleter : RequestSide(d)'
    BY <1>u, <1>4, <1>5, JobStepRequests
  <1> QED BY <1>1, <1>3, <1>6 DEF DeletionIInv

(* Every other step of a job, and the first use of the store. *)
LEMMA JobStepInv ==
  ASSUME DeletionIInv, UNCHANGED <<index, written, del>>, KeepHistory,
         JobSide' /\ Moves /\ Sparing
  PROVE  DeletionIInv'
  <1>1. DeleteTypes'
    BY HistoryKept DEF DeletionIInv, DeleteTypes
  <1>2. \A d \in Deleter : RequestSide(d)'
    BY JobStepRequests
  <1> QED BY <1>1, <1>2 DEF DeletionIInv

(* A restart loses the deletes that are under way. *)
LEMMA RestartAllInv ==
  ASSUME DeletionIInv, RestartAll
  PROVE  DeletionIInv'
  <1>t. JobSide /\ DeleteTypes
    BY DEF DeletionIInv
  <1>u. /\ Restart /\ UNCHANGED <<index, written>> /\ KeepHistory
        /\ del' = [d \in Deleter |-> IF del[d].pc \in DeleteBusy
                                     THEN [del[d] EXCEPT !.pc = "lost"] ELSE del[d]]
    BY DEF RestartAll
  <1>1. JobSide' /\ Moves /\ Sparing
    BY <1>t, <1>u, RestartSide
  <1>2. \A d \in Deleter : \/ del'[d] = del[d]
                           \/ del[d].pc \in DeleteBusy /\ del'[d] = [del[d] EXCEPT !.pc = "lost"]
    BY <1>u
  <1>3. \A d \in Deleter : RequestSide(d)'
    BY <1>1, <1>2, <1>u, JobStepRequests
  <1>4. \A d \in Deleter : del'[d] \in DeleteRequest
    <2> TAKE d \in Deleter
    <2>1. del[d] \in DeleteRequest /\ "lost" \in DeletePc
      BY <1>t DEF DeleteTypes, DeletePc
    <2>2. [del[d] EXCEPT !.pc = "lost"] \in DeleteRequest
      BY <2>1 DEF DeleteRequest
    <2> QED BY <1>2, <2>1, <2>2
  <1>5. DeleteTypes'
    BY <1>t, <1>u, <1>4, HistoryKept DEF DeleteTypes
  <1> QED BY <1>1, <1>3, <1>5 DEF DeletionIInv

(* Every step of DeletionNext preserves the invariant. *)
LEMMA DeletionStep ==
  ASSUME DeletionIInv, [DeletionNext]_allVars
  PROVE  DeletionIInv'
  <1>s. JobSide
    BY DEF DeletionIInv
  <1>1. CASE OpenStoreHere
    BY <1>1, <1>s, OpenStoreSide, JobStepInv DEF OpenStoreHere
  <1>2. CASE RestartAll
    BY <1>2, RestartAllInv
  <1>3. ASSUME NEW j \in Job, JobStep(j)
        PROVE  DeletionIInv'
    <2>1. CASE WriteLayer(j)
      BY <2>1, WriteLayerInv
    <2>2. CASE IngestDone(j)
      BY <2>2, <1>s, IngestSucceedsSide, JobStepInv DEF IngestDone
    <2>3. CASE ReadinessOfIndex(j)
      BY <2>3, <1>s, ReadinessSide, JobStepInv DEF ReadinessOfIndex
    <2>4. CASE OtherJobStep(j)
      <3>1. UNCHANGED <<index, written, del>> /\ KeepHistory
        BY <2>4 DEF OtherJobStep
      <3>2. CASE Create(j)
        BY <3>1, <3>2, <1>s, AcquireSide, CheckSide, InsertSide, RegisterSide, StartSide,
           JobStepInv DEF Create
      <3>3. CASE Fetch(j) \/ Begin(j) \/ Log(j) \/ IngestFails(j)
        BY <3>1, <3>3, <1>s, FetchSide, BeginSide, LogSide, IngestFailsSide, JobStepInv
      <3>4. CASE RecordRuntime(j) \/ RecordSnapshot(j) \/ Publish(j) \/ Pop(j)
        BY <3>1, <3>4, <1>s, RecordRuntimeSide, RecordSnapshotSide, PublishSide, PopSide,
           JobStepInv
      <3> QED BY <2>4, <3>2, <3>3, <3>4 DEF OtherJobStep
    <2> QED BY <1>3, <2>1, <2>2, <2>3, <2>4 DEF JobStep
  <1>4. ASSUME NEW d \in Deleter, NEW r \in Repo, ListActive(d, r)
        PROVE  DeletionIInv'
    BY <1>4, ListActiveInv
  <1>5. ASSUME NEW d \in Deleter, DeleteStep(d)
        PROVE  DeletionIInv'
    BY <1>5, ReconcileInv, MarkOrphanInv, DecideInv, ClearStageInv, UntrackInv DEF DeleteStep
  <1>6. CASE UNCHANGED allVars
    <2>1. UNCHANGED <<rows, catalog, snap, storeOpen, lock, jobs, threads, obj, hpc, tpc,
                      repo, faults, crashes, index, written, del, quiet, seen>>
      BY <1>6 DEF allVars, vars
    <2>2. JobSide'
      BY <1>s, <2>1, JobsUntouched DEF JobSide, TypeOK
    <2>3. DeleteTypes'
      BY <2>1 DEF DeletionIInv, DeleteTypes
    <2>4. ASSUME NEW d \in Deleter
          PROVE  RequestSide(d)'
      <3>1. RequestSide(d)
        BY DEF DeletionIInv
      <3>2. RequestKnown(d)'
        BY <2>1, <3>1 DEF RequestSide, RequestKnown, Disturbed, IngestUnderWay
      <3>3. SeenFound(d)'
        BY <2>1, <3>1 DEF RequestSide, SeenFound, OnlyDelete
      <3>4. PassedEmptied(d)'
        BY <2>1, <3>1 DEF RequestSide, PassedEmptied, Emptied
      <3> QED BY <3>2, <3>3, <3>4 DEF RequestSide
    <2> QED BY <2>2, <2>3, <2>4 DEF DeletionIInv
  <1> QED BY <1>1, <1>2, <1>3, <1>4, <1>5, <1>6 DEF DeletionNext

(* The initial state: no job, no data, no delete. *)
LEMMA DeletionInitInv ==
  ASSUME DeletionInit
  PROVE  DeletionIInv
  <1>1. TypeOK /\ ThreadAfterAccept
    <2>1. IInv
      BY InitInv DEF DeletionInit
    <2> QED BY <2>1 DEF IInv
  <1>2. JobsKnown /\ ThreadBehindRow
    BY DEF DeletionInit, Init, JobsKnown, ThreadBehindRow, EmptyTable, ThreadAlive, Ingesting
  <1>3. DeleteTypes
    <2>1. NoDelete \in DeleteRequest
      BY DEF NoDelete, DeleteRequest, DeletePc
    <2>2. Len(IngestOrder) \in Nat
      BY DeletionAssumption
    <2> QED BY <2>1, <2>2 DEF DeletionInit, DeleteTypes
  <1>4. ASSUME NEW d \in Deleter
        PROVE  RequestSide(d)
    <2>1. /\ del[d].pc = "idle" /\ del[d].target = NoRepo /\ del[d].pending = {}
          /\ quiet[d] = FALSE /\ seen[d] = {}
      BY DEF DeletionInit, NoDelete
    <2>2. RequestKnown(d)
      BY <2>1 DEF RequestKnown
    <2>3. SeenFound(d) /\ PassedEmptied(d)
      BY <2>1 DEF SeenFound, PassedEmptied
    <2> QED BY <2>2, <2>3 DEF RequestSide
  <1> QED BY <1>1, <1>2, <1>3, <1>4 DEF DeletionIInv, JobSide

(* The invariant holds throughout, whatever jobs, deletes and failures do. *)
THEOREM DeletionInvariance == DeletionSpec => []DeletionIInv
  <1>1. DeletionInit => DeletionIInv
    BY DeletionInitInv
  <1>2. DeletionIInv /\ [DeletionNext]_allVars => DeletionIInv'
    BY DeletionStep
  <1> QED BY <1>1, <1>2, PTL DEF DeletionSpec

(* Every variable of the jobs and of the deletes keeps its type. *)
THEOREM DeletionTypes == DeletionSpec => []DeletionTypeOK
  <1>1. DeletionIInv => DeletionTypeOK
    BY DEF DeletionIInv, JobSide, DeletionTypeOK
  <1> QED BY <1>1, DeletionInvariance, PTL

(* The only delete of a repository clears nothing while an ingest it found
   running goes on. *)
THEOREM OngoingIngestsAreSafe == DeletionSpec => []OngoingIngestBlocksDelete
  <1>1. DeletionIInv => OngoingIngestBlocksDelete
    BY DEF DeletionIInv, RequestSide, SeenFound, OngoingIngestBlocksDelete
  <1> QED BY <1>1, DeletionInvariance, PTL

(* An undisturbed delete that answers without warnings has left nothing. *)
THEOREM NothingIsLeft == DeletionSpec => []DeletedMeansGone
  <1>1. DeletionIInv => DeletedMeansGone
    <2> SUFFICES ASSUME DeletionIInv, NEW d \in Deleter, del[d].pc = "deleted",
                        ~del[d].warned, quiet[d]
                 PROVE  /\ index[del[d].target] = {}
                        /\ del[d].target \notin list_repo_ids(rows, catalog)
                        /\ \A j \in Job : repo[j] = del[d].target => snap[j] = "none"
      BY DEF DeletedMeansGone
    <2>1. DeleteTypes /\ PassedEmptied(d) /\ del[d].target \in Repo
      BY DEF DeletionIInv, RequestSide, RequestKnown
    <2>2. \A s \in DOMAIN StageAfter : Position[s] < Position["deleted"]
      BY DEF StageAfter, Position
    <2>3. \A s \in DOMAIN StageAfter : Emptied(s, del[d].target)
      BY <2>1, <2>2 DEF PassedEmptied, Position
    <2>4. \A s \in Layers \cup {"snapshots", "jobs", "repos"} : s \in DOMAIN StageAfter
      BY DEF Layers, StageAfter
    <2>5. \A s \in Layers : s \notin index[del[d].target]
      BY <2>3, <2>4 DEF Emptied, Layers
    <2>6. \A j \in Job : repo[j] = del[d].target => snap[j] = "none"
      BY <2>3, <2>4 DEF Emptied, Layers
    <2>7. (\A j \in Job : rows[j].repo # del[d].target) /\ del[d].target \notin catalog
      BY <2>3, <2>4 DEF Emptied, Layers
    <2>8. index[del[d].target] \subseteq Layers
      BY <2>1 DEF DeleteTypes
    <2> QED BY <2>5, <2>6, <2>7, <2>8 DEF list_repo_ids
  <1> QED BY <1>1, DeletionInvariance, PTL
=============================================================================
