------------------------------ MODULE RqIngest ------------------------------
(***************************************************************************)
(* Ingest jobs in rq mode (jobs/worker.py with INGESTION_EXECUTION_MODE=rq *)
(* and jobs/rq_worker.py): several API replicas create jobs under a Redis  *)
(* lock and push them to a Redis queue; worker processes take them from    *)
(* the queue.  The jobs table is the only thing replicas and workers share *)
(* besides Redis.  Redis and the RQ library are external: their behaviour  *)
(* here is what this code relies on (rq 1.16, no scheduler).               *)
(*                                                                         *)
(* The steps of an ingest are told apart only where another process can    *)
(* see the difference; JobManager has them all.                            *)
(***************************************************************************)
EXTENDS JobTable, Naturals, Sequences

CONSTANTS Api, Worker,        \* API replicas and worker processes
          Deleter,            \* delete requests
          NoJob, NoApi,
          WarmApis,           \* replicas that have used their store at the start
          RetryMax,           \* INGESTION_RETRY_MAX, with the default intervals
          RetryTransientOnly, \* INGESTION_RETRY_TRANSIENT_ONLY
          MaxFault,           \* bound: failing calls to the store or to Redis
          MaxRestart,         \* bound: restarts of API replicas
          MaxCrash,           \* bound: restarts of workers
          MaxExpiry           \* bound: Redis locks that expire under their holder

ASSUME RqAssumption ==
  /\ NoJob \notin Job /\ NoApi \notin Api
  /\ WarmApis \subseteq Api
  /\ RetryMax \in Nat /\ RetryTransientOnly \in BOOLEAN
  /\ {MaxFault, MaxRestart, MaxCrash, MaxExpiry} \subseteq Nat

VARIABLES
  rows, catalog,        \* jobs and repos tables
  open,                 \* replica -> its store is built (and has recovered jobs)
  apiLock,              \* replica -> job holding its _create_job_lock
  redisLock,            \* repo -> job holding the enqueue lock
  hpc, api, repo,       \* handler of a job: step or answer, replica, repo_id
  queue,                \* the RQ queue
  entry,                \* status of the RQ job that carries a job
  retries,              \* times RQ has retried it
  wpc, wjob, info,      \* worker: step, job, its JobInfo object
  dpc, target,          \* delete request: step or answer, repo_id
  faults, restarts, crashes, expiries

tables  == <<rows, catalog>>
locks   == <<apiLock, redisLock>>
handler == <<hpc, api, repo>>
rq      == <<queue, entry, retries>>
worker  == <<wpc, wjob, info>>
deletes == <<dpc, target>>
bounds  == <<faults, restarts, crashes, expiries>>
vars    == <<rows, catalog, open, apiLock, redisLock, hpc, api, repo, queue, entry,
             retries, wpc, wjob, info, dpc, target, faults, restarts, crashes, expiries>>

HandlerBusy == {"redis", "check", "insert", "enqueue", "note", "unqueued"}
HandlerPc   == HandlerBusy \cup {"idle", "accepted", "conflict", "error", "lost"}
EntryStatus == {"none", "queued", "started", "scheduled", "finished", "failed"}
Runnable    == {"queued", "started", "deferred", "scheduled"}
WorkerPc    == {"idle", "load", "begin", "work", "final", "final2", "return"}

JobInfo(status, r, retryable) == [status |-> status, repo |-> r, retryable |-> retryable]
NoInfo == JobInfo("none", NoRepo, FALSE)

TableTypes   == rows \in Table /\ catalog \subseteq Repo /\ open \in [Api -> BOOLEAN]
HandlerTypes == /\ apiLock \in [Api -> Job \cup {NoJob}]
                /\ redisLock \in [Repo -> Job \cup {NoJob}]
                /\ hpc \in [Job -> HandlerPc]
                /\ api \in [Job -> Api \cup {NoApi}]
                /\ repo \in [Job -> Repo \cup {NoRepo}]
QueueTypes   == /\ queue \in Seq(Job)
                /\ entry \in [Job -> EntryStatus]
                /\ retries \in [Job -> 0..RetryMax]
WorkerTypes  == /\ wpc \in [Worker -> WorkerPc]
                /\ wjob \in [Worker -> Job \cup {NoJob}]
                /\ info \in [Worker -> [status : Status \cup {"none"},
                                        repo : Repo \cup {NoRepo}, retryable : BOOLEAN]]
DeleteTypes  == /\ dpc \in [Deleter -> {"idle", "drop", "deleted", "refused", "missing"}]
                /\ target \in [Deleter -> Repo \cup {NoRepo}]
BoundTypes   == /\ faults \in 0..MaxFault /\ restarts \in 0..MaxRestart
                /\ crashes \in 0..MaxCrash /\ expiries \in 0..MaxExpiry

RqTypeOK == /\ TableTypes /\ HandlerTypes /\ QueueTypes
            /\ WorkerTypes /\ DeleteTypes /\ BoundTypes

Init ==
  /\ rows = EmptyTable
  /\ catalog = {}
  /\ open = [a \in Api |-> a \in WarmApis]
  /\ apiLock = [a \in Api |-> NoJob]
  /\ redisLock = [r \in Repo |-> NoJob]
  /\ hpc = [j \in Job |-> "idle"]
  /\ api = [j \in Job |-> NoApi]
  /\ repo = [j \in Job |-> NoRepo]
  /\ queue = <<>>
  /\ entry = [j \in Job |-> "none"]
  /\ retries = [j \in Job |-> 0]
  /\ wpc = [w \in Worker |-> "idle"]
  /\ wjob = [w \in Worker |-> NoJob]
  /\ info = [w \in Worker |-> NoInfo]
  /\ dpc = [d \in Deleter |-> "idle"]
  /\ target = [d \in Deleter |-> NoRepo]
  /\ faults = 0 /\ restarts = 0 /\ crashes = 0 /\ expiries = 0

-----------------------------------------------------------------------------
(* A call to Postgres or to Redis succeeds, or raises with its effect lost or
   already done. *)
Ok    == UNCHANGED faults
OtherBounds == <<restarts, crashes, expiries>>
Fault == faults < MaxFault /\ faults' = faults + 1

Committed(table) == Ok /\ rows' = table
Raised(table)    == Fault /\ rows' \in {rows, table}

(* The first use of the store in a replica recovers interrupted jobs: every
   active row, whichever process works on it. *)
OpenStore(a) ==
  /\ ~open[a]
  /\ open' = [open EXCEPT ![a] = TRUE]
  /\ rows' = recover_interrupted_jobs(rows)
  /\ UNCHANGED <<catalog, locks, handler, rq, worker, deletes, bounds>>

-----------------------------------------------------------------------------
(* create_ingest_job: the lock of the process, then the lock in Redis. *)
TakeApiLock(j, a, r) ==
  /\ hpc[j] = "idle"
  /\ apiLock[a] = NoJob
  /\ apiLock' = [apiLock EXCEPT ![a] = j]
  /\ hpc' = [hpc EXCEPT ![j] = "redis"]
  /\ api' = [api EXCEPT ![j] = a]
  /\ repo' = [repo EXCEPT ![j] = r]
  /\ UNCHANGED <<tables, open, redisLock, rq, worker, deletes, bounds>>

Step(j, step) == hpc' = [hpc EXCEPT ![j] = step] /\ UNCHANGED <<locks, api, repo>>

(* Leave both locks with an answer.  Redis deletes the lock only if the token
   is still ours; the error of an expired lock is swallowed. *)
Answer(j, verdict) ==
  /\ hpc' = [hpc EXCEPT ![j] = verdict]
  /\ apiLock' = [apiLock EXCEPT ![api[j]] = NoJob]
  /\ redisLock' = [r \in Repo |-> IF redisLock[r] = j THEN NoJob ELSE redisLock[r]]
  /\ UNCHANGED <<api, repo>>

(* Mutants: the lock is taken whoever holds it; it is waited for without end. *)
TakeRedisLockAnyway(j) ==
  /\ hpc[j] = "redis"
  /\ \/ /\ Ok
        /\ redisLock' = [redisLock EXCEPT ![repo[j]] = j]
        /\ hpc' = [hpc EXCEPT ![j] = "check"]
        /\ UNCHANGED <<apiLock, api, repo>>
     \/ Fault /\ Answer(j, "error")
  /\ UNCHANGED <<tables, open, rq, worker, deletes, OtherBounds>>

TakeRedisLockWaiting(j) ==
  /\ hpc[j] = "redis"
  /\ redisLock[repo[j]] = NoJob
  /\ TakeRedisLockAnyway(j)

(* lock.acquire(blocking=True): taken, or given up after the waiting time, or
   Redis is down (the exception is not a conflict). *)
TakeRedisLock(j) ==
  /\ hpc[j] = "redis"
  /\ \/ /\ Ok /\ redisLock[repo[j]] = NoJob
        /\ redisLock' = [redisLock EXCEPT ![repo[j]] = j]
        /\ hpc' = [hpc EXCEPT ![j] = "check"]
        /\ UNCHANGED <<apiLock, api, repo>>
     \/ Ok /\ redisLock[repo[j]] # NoJob /\ Answer(j, "conflict")
     \/ Fault /\ Answer(j, "error")
  /\ UNCHANGED <<tables, open, rq, worker, deletes, OtherBounds>>

Check(j) ==
  /\ hpc[j] = "check"
  /\ open[api[j]]
  /\ \/ Ok /\ list_active_job_ids(rows, repo[j]) = {} /\ Step(j, "insert")
     \/ Ok /\ list_active_job_ids(rows, repo[j]) # {} /\ Answer(j, "conflict")
     \/ Fault /\ Answer(j, "error")
  /\ UNCHANGED <<tables, open, rq, worker, deletes, OtherBounds>>

Insert(j) ==
  LET queued == upsert_job(rows, j, "queued", repo[j])
  IN  /\ hpc[j] = "insert"
      /\ \/ Committed(queued) /\ Step(j, "enqueue")
         \/ Raised(queued) /\ Answer(j, "error")
      /\ UNCHANGED <<catalog, open, rq, worker, deletes, OtherBounds>>

Push(j) == queue' = Append(queue, j) /\ entry' = [entry EXCEPT ![j] = "queued"]

(* Mutant: the Redis lock is released as soon as the job is in the queue. *)
EnqueueUnlocking(j) ==
  /\ hpc[j] = "enqueue"
  /\ Ok
  /\ Push(j)
  /\ hpc' = [hpc EXCEPT ![j] = "note"]
  /\ redisLock' = [redisLock EXCEPT ![repo[j]] = NoJob]
  /\ UNCHANGED <<tables, open, apiLock, api, repo, retries, worker, deletes, OtherBounds>>

(* queue.enqueue: RQ gives its job an identifier of its own. *)
Enqueue(j) ==
  /\ hpc[j] = "enqueue"
  /\ \/ Ok /\ Push(j) /\ Step(j, "note")
     \/ Fault /\ (Push(j) \/ UNCHANGED <<queue, entry>>) /\ Step(j, "unqueued")
  /\ UNCHANGED <<tables, open, retries, worker, deletes, OtherBounds>>

(* The line of log about the RQ identifier is written with the whole row, as
   the handler still sees it: queued. *)
Note(j) ==
  LET queued == upsert_job(rows, j, "queued", repo[j])
  IN  /\ hpc[j] = "note"
      /\ \/ Committed(queued) /\ Answer(j, "accepted")
         \/ Raised(queued) /\ Step(j, "unqueued")
      /\ UNCHANGED <<catalog, open, rq, worker, deletes, OtherBounds>>

(* Any exception of the enqueueing marks the row failed and answers 503. *)
GiveUp(j) ==
  LET failed == upsert_job(rows, j, "failed", repo[j])
  IN  /\ hpc[j] = "unqueued"
      /\ Committed(failed) \/ Raised(failed)
      /\ Answer(j, "error")
      /\ UNCHANGED <<catalog, open, rq, worker, deletes, OtherBounds>>

(* The Redis lock lives INGESTION_ENQUEUE_LOCK_SECONDS: it outlives a dead
   holder, and may expire under a slow one. *)
Expire(r) ==
  LET j == redisLock[r]
  IN  /\ j # NoJob
      /\ IF hpc[j] \in HandlerBusy
         THEN expiries < MaxExpiry /\ expiries' = expiries + 1
         ELSE UNCHANGED expiries
      /\ redisLock' = [redisLock EXCEPT ![r] = NoJob]
      /\ UNCHANGED <<tables, open, apiLock, handler, rq, worker, deletes, faults, restarts, crashes>>

-----------------------------------------------------------------------------
WStep(w, step) == wpc' = [wpc EXCEPT ![w] = step] /\ UNCHANGED wjob

(* RQ hands the oldest queued job to an idle worker. *)
Dequeue(w) ==
  /\ wpc[w] = "idle"
  /\ queue # <<>>
  /\ queue' = Tail(queue)
  /\ entry' = [entry EXCEPT ![Head(queue)] = "started"]
  /\ wjob' = [wjob EXCEPT ![w] = Head(queue)]
  /\ wpc' = [wpc EXCEPT ![w] = "load"]
  /\ UNCHANGED <<tables, open, locks, handler, retries, info, deletes, bounds>>

(* Mutant: one retry too many. *)
RaiseOnceMore(j) ==
  /\ retries[j] <= RetryMax
  /\ retries' = [retries EXCEPT ![j] = @ + 1]
  /\ entry' = [entry EXCEPT ![j] = "scheduled"]
  /\ UNCHANGED queue

(* An exception that leaves the task: while the job has retries left RQ moves
   it to the scheduled registry for its interval.  Only a scheduler empties
   that registry, and the worker runs with_scheduler=False. *)
Raise(j) ==
  /\ \/ /\ retries[j] < RetryMax
        /\ retries' = [retries EXCEPT ![j] = @ + 1]
        /\ entry' = [entry EXCEPT ![j] = "scheduled"]
     \/ /\ retries[j] = RetryMax
        /\ entry' = [entry EXCEPT ![j] = "failed"]
        /\ UNCHANGED retries
  /\ UNCHANGED queue

Leave(w) == /\ wpc' = [wpc EXCEPT ![w] = "idle"]
            /\ wjob' = [wjob EXCEPT ![w] = NoJob]
            /\ info' = [info EXCEPT ![w] = NoInfo]

(* Mutant: a job without a row is skipped. *)
LoadExisting(w) ==
  /\ wpc[w] = "load"
  /\ rows[wjob[w]] # Absent
  /\ Ok
  /\ info' = [info EXCEPT ![w] = JobInfo(rows[wjob[w]].status, rows[wjob[w]].repo, FALSE)]
  /\ WStep(w, "begin")
  /\ UNCHANGED <<tables, open, locks, handler, rq, deletes, OtherBounds>>

(* run_ingest_job_task: the row of the job, or a new one without repo_id. *)
Load(w) ==
  LET j == wjob[w]
      found == IF rows[j] = Absent THEN upsert_job(rows, j, "queued", NoRepo) ELSE rows
  IN  /\ wpc[w] = "load"
      /\ \/ /\ Committed(found)
            /\ info' = [info EXCEPT ![w] = JobInfo(found[j].status, found[j].repo, FALSE)]
            /\ WStep(w, "begin")
            /\ UNCHANGED rq
         \/ Raised(found) /\ Raise(j) /\ Leave(w)
      /\ UNCHANGED <<catalog, open, locks, handler, deletes, OtherBounds>>

Saved(w) == upsert_job(rows, wjob[w], info[w].status, info[w].repo)

Begin(w) ==
  LET running == upsert_job(rows, wjob[w], "running", info[w].repo)
  IN  /\ wpc[w] = "begin"
      /\ \/ /\ Committed(running)
            /\ info' = [info EXCEPT ![w] = JobInfo("running", info[w].repo, FALSE)]
            /\ WStep(w, "work")
            /\ UNCHANGED rq
         \/ Raised(running) /\ Raise(wjob[w]) /\ Leave(w)
      /\ UNCHANGED <<catalog, open, locks, handler, deletes, OtherBounds>>

Fails(w) == /\ \E retryable \in BOOLEAN :
                 info' = [info EXCEPT ![w] = JobInfo("failed", info[w].repo, retryable)]
            /\ WStep(w, "final")

(* A progress message saves the row; an exception of the store fails the job. *)
Log(w) ==
  /\ wpc[w] = "work"
  /\ \/ Committed(Saved(w)) /\ UNCHANGED worker
     \/ Raised(Saved(w)) /\ Fails(w)
  /\ UNCHANGED <<catalog, open, locks, handler, rq, deletes, OtherBounds>>

(* The ingest ends.  Success fills in the repo_id and the catalog; so may a
   failure, when it is the readiness check that raises. *)
IngestEnds(w) ==
  LET r == repo[wjob[w]]
      Indexed(status) == /\ info' = [info EXCEPT ![w] = JobInfo(status, r, FALSE)]
                         /\ catalog' = catalog \cup {r}
                         /\ WStep(w, "final")
  IN  /\ wpc[w] = "work"
      /\ \/ Fails(w) /\ UNCHANGED catalog
         \/ \E status \in Terminal : Indexed(status)
      /\ UNCHANGED <<rows, open, locks, handler, rq, deletes, bounds>>

Publish(w) ==
  /\ wpc[w] \in {"final", "final2"}
  /\ \/ /\ Committed(Saved(w))
        /\ WStep(w, IF wpc[w] = "final" THEN "final2" ELSE "return")
        /\ UNCHANGED <<info, rq>>
     \/ Raised(Saved(w)) /\ Raise(wjob[w]) /\ Leave(w)
  /\ UNCHANGED <<catalog, open, locks, handler, deletes, OtherBounds>>

should_retry_failed_ingest_job(retryable) == retryable \/ ~RetryTransientOnly

Return(w) ==
  LET j == wjob[w]
  IN  /\ wpc[w] = "return"
      /\ IF info[w].status = "failed" /\ should_retry_failed_ingest_job(info[w].retryable)
         THEN Raise(j)
         ELSE entry' = [entry EXCEPT ![j] = "finished"] /\ UNCHANGED <<queue, retries>>
      /\ Leave(w)
      /\ UNCHANGED <<tables, open, locks, handler, deletes, bounds>>

-----------------------------------------------------------------------------
(* The reconciliation of delete_repo asks RQ for a job with the identifier of
   the row.  RQ knows its jobs by the identifiers it gave them itself. *)
RqId(j) == <<"rq", j>>
RqStatus(id) == IF \E j \in Job : RqId(j) = id /\ entry[j] # "none"
                THEN entry[CHOOSE j \in Job : RqId(j) = id] ELSE "unknown"
IsRqJobActive(id) == RqStatus(id) \in Runnable

(* Reconcile and decide; RepoDeletion has the steps between.  When Redis does
   not answer the jobs count as active. *)
DeleteDecide(d, r) ==
  LET active == list_active_job_ids(rows, r)
      alive  == {j \in active : IsRqJobActive(<<"job", j>>)}
  IN  /\ dpc[d] = "idle"
      /\ \E a \in Api : open[a]
      /\ target' = [target EXCEPT ![d] = r]
      /\ \/ /\ Ok
            /\ rows' = [j \in Job |-> IF j \in active \ alive
                                      THEN [rows[j] EXCEPT !.status = "failed"] ELSE rows[j]]
            /\ dpc' = [dpc EXCEPT ![d] = IF alive # {} THEN "refused"
                                         ELSE IF r \in list_repo_ids(rows, catalog)
                                              THEN "drop" ELSE "missing"]
         \/ /\ Fault /\ active # {}
            /\ dpc' = [dpc EXCEPT ![d] = "refused"]
            /\ UNCHANGED rows
      /\ UNCHANGED <<catalog, open, locks, handler, rq, worker, OtherBounds>>

DeleteDrop(d) ==
  /\ dpc[d] = "drop"
  /\ rows' = delete_repo_jobs(rows, target[d])
  /\ catalog' = catalog \ {target[d]}
  /\ dpc' = [dpc EXCEPT ![d] = "deleted"]
  /\ UNCHANGED <<open, locks, handler, rq, worker, target, bounds>>

-----------------------------------------------------------------------------
ApiRestart(a) ==
  /\ restarts < MaxRestart
  /\ restarts' = restarts + 1
  /\ open' = [open EXCEPT ![a] = FALSE]
  /\ apiLock' = [apiLock EXCEPT ![a] = NoJob]
  /\ hpc' = [j \in Job |-> IF api[j] = a /\ hpc[j] \in HandlerBusy THEN "lost" ELSE hpc[j]]
  /\ UNCHANGED <<tables, redisLock, api, repo, rq, worker, deletes, faults, crashes, expiries>>

WorkerRestart(w) ==
  /\ crashes < MaxCrash
  /\ wpc[w] # "idle"
  /\ crashes' = crashes + 1
  /\ Leave(w)
  /\ UNCHANGED <<tables, open, locks, handler, rq, deletes, faults, restarts, expiries>>

(* RQ notices that nobody works on a started job any more. *)
Abandoned(j) ==
  /\ entry[j] = "started"
  /\ \A w \in Worker : wjob[w] # j
  /\ Raise(j)
  /\ UNCHANGED <<tables, open, locks, handler, worker, deletes, bounds>>

CreateStep(j) == \/ TakeRedisLock(j) \/ Check(j) \/ Insert(j) \/ Enqueue(j)
                 \/ Note(j) \/ GiveUp(j)

TaskStep(w) == \/ Dequeue(w) \/ Load(w) \/ Begin(w) \/ IngestEnds(w)
               \/ Publish(w) \/ Return(w)

Next == \/ \E a \in Api : OpenStore(a) \/ ApiRestart(a)
        \/ \E j \in Job, a \in Api, r \in Repo : TakeApiLock(j, a, r)
        \/ \E j \in Job : CreateStep(j) \/ Abandoned(j)
        \/ \E r \in Repo : Expire(r)
        \/ \E w \in Worker : TaskStep(w) \/ Log(w) \/ WorkerRestart(w)
        \/ \E d \in Deleter : (\E r \in Repo : DeleteDecide(d, r)) \/ DeleteDrop(d)

Spec == Init /\ [][Next]_vars

(* Replicas, workers and RQ keep running; a restarted replica is used again. *)
Fairness == /\ \A a \in Api : WF_vars(OpenStore(a))
            /\ \A j \in Job : WF_vars(CreateStep(j)) /\ WF_vars(Abandoned(j))
            /\ \A w \in Worker : WF_vars(TaskStep(w))

FairSpec == Spec /\ Fairness

-----------------------------------------------------------------------------
(* Two workers never run the ingest of one repository at the same time. *)
AtMostOneIngest ==
  \A v, w \in Worker : wpc[v] = "work" /\ wpc[w] = "work"
                       /\ repo[wjob[v]] = repo[wjob[w]] => v = w

(* The jobs table never holds two active rows of one repository, although the
   handler writes its row once more after the worker may have ended it: the
   Redis lock is held until that write. *)
OneActiveRow ==
  \A j, k \in Job : rows[j].status \in Active /\ rows[k].status \in Active
                    /\ rows[j].repo = rows[k].repo /\ rows[j].repo # NoRepo => j = k

-----------------------------------------------------------------------------
(* A worker has a job in every step but the first, and a status to save while it runs. *)
Carrying == \A w \in Worker :
  /\ wpc[w] # "idle" => wjob[w] \in Job
  /\ wpc[w] \in {"work", "final", "final2"} => info[w].status \in Status

(* Whoever is asked for a job knows the repository of the request. *)
Asked == /\ \A j \in Job : hpc[j] # "idle" => repo[j] \in Repo
         /\ \A i \in 1..Len(queue) : repo[queue[i]] \in Repo
         /\ \A w \in Worker : wjob[w] \in Job => repo[wjob[w]] \in Repo

(* A store once built is there until its replica restarts. *)
WarmOpen == restarts = 0 => \A a \in WarmApis : open[a]

(* What the two rest on. Until a call fails, a replica restarts or opens its store
   among workers, a lock expires under its holder, or a delete is asked for: *)
Undisturbed == /\ faults = 0 /\ restarts = 0 /\ expiries = 0
               /\ \A a \in Api : open[a] => a \in WarmApis
               /\ \A d \in Deleter : dpc[d] = "idle"

(* the lock of a repository is held by the handler between its check and its last
   write, and by nobody else; *)
Locking   == {"check", "insert", "enqueue", "note"}
LockInRedis == \A j \in Job, r \in Repo :
  redisLock[r] = j <=> hpc[j] \in Locking /\ repo[j] = r

(* a job has a row once it is inserted, and a place in RQ once it is pushed; *)
RowAndEntry == \A j \in Job :
  /\ hpc[j] \in {"idle", "redis", "conflict"} \cup Locking \cup {"accepted"}
  /\ hpc[j] # "idle" => repo[j] \in Repo
  /\ IF hpc[j] \in {"enqueue", "note", "accepted"}
     THEN rows[j].status \in Status /\ rows[j].repo = repo[j]
     ELSE rows[j] = Absent
  /\ entry[j] # "none" => hpc[j] \in {"note", "accepted"}

(* RQ hands a job out once; *)
CarriedOnce ==
  /\ \A i \in 1..Len(queue) : entry[queue[i]] = "queued"
  /\ \A i, k \in 1..Len(queue) : queue[i] = queue[k] => i = k
  /\ \A w \in Worker : IF wpc[w] = "idle" THEN wjob[w] = NoJob
                        ELSE wjob[w] \in Job /\ entry[wjob[w]] = "started"
  /\ \A v, w \in Worker : wjob[v] = wjob[w] => v = w \/ wpc[v] = "idle"

(* until the worker publishes an end the row is active, and only the handler writes
   it as queued after that; *)
RowBehindWorker ==
  /\ \A j \in Job : hpc[j] = "enqueue" \/ entry[j] = "queued" => rows[j].status = "queued"
  /\ \A w \in Worker :
       /\ wpc[w] \in {"load", "begin"} => rows[wjob[w]].status = "queued"
       /\ wpc[w] = "work" => rows[wjob[w]].status \in Active /\ info[w].status = "running"
       /\ wpc[w] \in {"final", "final2", "return"} => info[w].status \in Terminal
       /\ wpc[w] \notin {"idle", "load"} => info[w].repo = repo[wjob[w]]

(* and who is about to insert, or to write once more, is alone. *)
AloneUnderLock == \A j \in Job :
  /\ hpc[j] = "insert" => list_active_job_ids(rows, repo[j]) = {}
  /\ hpc[j] \in {"enqueue", "note"} => list_active_job_ids(rows, repo[j]) \subseteq {j}

Serial == /\ LockInRedis /\ RowAndEntry /\ CarriedOnce
          /\ RowBehindWorker /\ AloneUnderLock /\ OneActiveRow

RqIInv == RqTypeOK /\ Carrying /\ Asked /\ WarmOpen /\ (Undisturbed => Serial)

-----------------------------------------------------------------------------
(* Every job that reached the queue is carried to an end by RQ, or waits for a
   retry: no worker step, crash or abandoned job loses it. *)
QueuedJobsEnd ==
  \A j \in Job : (entry[j] \in {"queued", "started"})
                 ~> (entry[j] \in {"finished", "failed", "scheduled"})

(* Every request to ingest is answered, or lost with its replica: the two
   locks are taken in one order, and neither is waited for without end. *)
HandlersAnswer == \A j \in Job : (hpc[j] \in HandlerBusy) ~> (hpc[j] \notin HandlerBusy)

(* A 409 means an ingest of the repository that is being created, queued, run
   or retried. *)
AtWork(r) == \E k \in Job : repo[k] = r
                            /\ (hpc[k] \in HandlerBusy \ {"redis", "check"} \/ entry[k] \in Runnable)
ConflictMeansIngest ==
  [][\A j \in Job : hpc[j] = "check" /\ hpc'[j] = "conflict" => AtWork(repo[j])]_vars

(* A job answered with 503 was not put in the queue. *)
RejectedMeansNotQueued == \A j \in Job : hpc[j] = "error" => entry[j] = "none"

(* A job scheduled for a retry is run again. *)
RetriesRun == \A j \in Job : (entry[j] = "scheduled") ~> (entry[j] # "scheduled")

(* A repository is not deleted while a worker ingests it. *)
DeleteRefusedWhileActive ==
  \A d \in Deleter : dpc[d] = "drop" =>
    ~ \E w \in Worker : wpc[w] = "work" /\ repo[wjob[w]] = target[d]

=============================================================================
