----------------------------- MODULE JobManager -----------------------------
(***************************************************************************)
(* The JobManager of jobs/worker.py in thread mode: the handler that       *)
(* creates an ingest job, the daemon thread that runs it, the lazy store   *)
(* whose first use recovers interrupted jobs, and the restart of the API   *)
(* process.  A job identifier stands for one POST /repos/ingest (or one    *)
(* webhook delivery), so each job has at most one handler and one thread.  *)
(*                                                                         *)
(* Durable: rows (jobs table), catalog (repos table), snap (snapshots).    *)
(* Volatile, lost by a restart: everything else.                           *)
(***************************************************************************)
EXTENDS JobTable, Naturals

CONSTANTS NoJob,      \* nobody holds _create_job_lock
          MaxFault,   \* bound: failing calls to the metadata store
          MaxCrash    \* bound: restarts of the API process

ASSUME JobManagerAssumption ==
  NoJob \notin Job /\ MaxFault \in Nat /\ MaxCrash \in Nat

VARIABLES
  rows,       \* jobs table
  catalog,    \* repos with a row in the repos table
  snap,       \* job -> status of the ingest snapshot recorded for it
  storeOpen,  \* _store is built (and recovery has run)
  lock,       \* holder of _create_job_lock
  jobs,       \* _jobs: is the JobInfo tracked, and is it the thread's object
  threads,    \* keys of _job_threads
  obj,        \* status of the JobInfo object the handler and the thread share
  hpc,        \* handler of the job: where it is, or how it answered
  tpc,        \* thread of the job: the next step of _run_ingest_job
  repo,       \* repo_id the request resolves to
  faults, crashes

storeVars   == <<rows, catalog, snap>>
memoryVars  == <<jobs, threads, obj>>
handlerVars == <<lock, hpc, repo>>
bounds      == <<faults, crashes>>
vars == <<rows, catalog, snap, storeOpen, lock, jobs, threads, obj,
          hpc, tpc, repo, faults, crashes>>

HandlerBusy == {"check", "insert", "register", "start"}
HandlerPc   == {"idle", "accepted", "conflict", "error", "lost"} \cup HandlerBusy

(* Thread steps: fetch the JobInfo; set it running; ingest; record the repo;
   compute readiness; record the snapshot; publish the final row twice; drop
   the thread from _job_threads. *)
Ingesting   == {"fetch", "begin", "work", "runtime", "ready", "snapshot", "final"}
ThreadAlive == Ingesting \cup {"final2", "pop"}
ThreadPc    == ThreadAlive \cup {"none", "done"}

TypeOK ==
  /\ rows \in Table
  /\ catalog \subseteq Repo
  /\ snap \in [Job -> Terminal \cup {"none"}]
  /\ storeOpen \in BOOLEAN
  /\ lock \in Job \cup {NoJob}
  /\ jobs \in [Job -> {"none", "own", "copy"}]
  /\ threads \subseteq Job
  /\ obj \in [Job -> Status \cup {"none"}]
  /\ hpc \in [Job -> HandlerPc]
  /\ tpc \in [Job -> ThreadPc]
  /\ repo \in [Job -> Repo \cup {NoRepo}]
  /\ faults \in Nat
  /\ crashes \in Nat

Init ==
  /\ rows = EmptyTable
  /\ catalog = {}
  /\ snap = [j \in Job |-> "none"]
  /\ storeOpen = FALSE
  /\ lock = NoJob
  /\ jobs = [j \in Job |-> "none"]
  /\ threads = {}
  /\ obj = [j \in Job |-> "none"]
  /\ hpc = [j \in Job |-> "idle"]
  /\ tpc = [j \in Job |-> "none"]
  /\ repo = [j \in Job |-> NoRepo]
  /\ faults = 0
  /\ crashes = 0

-----------------------------------------------------------------------------
(* A call to the store either commits, or raises: the caller then sees an
   exception and the transaction may or may not have reached the server. *)
StoreOk   == UNCHANGED faults
StoreFault == faults < MaxFault /\ faults' = faults + 1

Committed(table) == StoreOk /\ rows' = table
Raised(table)    == StoreFault /\ rows' \in {rows, table}

(* Mutants of the first use: the check inside the lock is dropped, so that two
   first users both recover; the recovery is forgotten. *)
OpenStoreTwice ==
  /\ storeOpen' = TRUE
  /\ rows' = recover_interrupted_jobs(rows)
  /\ UNCHANGED <<catalog, snap, tpc, memoryVars, handlerVars, bounds>>

OpenStoreOnly ==
  /\ ~storeOpen
  /\ storeOpen' = TRUE
  /\ UNCHANGED <<storeVars, tpc, memoryVars, handlerVars, bounds>>

(* First use of the `store` property in a process: build it and mark every
   queued or running row as failed. *)
OpenStore ==
  /\ ~storeOpen
  /\ storeOpen' = TRUE
  /\ rows' = recover_interrupted_jobs(rows)
  /\ UNCHANGED <<catalog, snap, tpc, memoryVars, handlerVars, bounds>>

-----------------------------------------------------------------------------
(* Mutant: no lock around the test and the insertion. *)
AcquireUnlocked(j, r) ==
  /\ hpc[j] = "idle"
  /\ lock' = j
  /\ hpc' = [hpc EXCEPT ![j] = "check"]
  /\ repo' = [repo EXCEPT ![j] = r]
  /\ UNCHANGED <<storeVars, storeOpen, memoryVars, tpc, bounds>>

(* create_ingest_job: take the in-process lock. *)
Acquire(j, r) ==
  /\ hpc[j] = "idle"
  /\ lock = NoJob
  /\ lock' = j
  /\ hpc' = [hpc EXCEPT ![j] = "check"]
  /\ repo' = [repo EXCEPT ![j] = r]
  /\ UNCHANGED <<storeVars, storeOpen, memoryVars, tpc, bounds>>

(* Mutant: an exit that does not release the lock. *)
AnswerLocked(j, verdict) ==
  /\ hpc' = [hpc EXCEPT ![j] = verdict]
  /\ UNCHANGED <<lock, repo>>

(* Leaving the `with` block, normally or by an exception. *)
Answer(j, verdict) ==
  /\ hpc' = [hpc EXCEPT ![j] = verdict]
  /\ lock' = NoJob
  /\ UNCHANGED repo

HandlerTo(j, step) == hpc' = [hpc EXCEPT ![j] = step] /\ UNCHANGED <<lock, repo>>

NoActiveJob(r) == list_active_job_ids(rows, r) = {}

(* _create_ingest_job_unlocked, first part: reject a repo with an active row. *)
Check(j) ==
  /\ hpc[j] = "check"
  /\ storeOpen
  /\ \/ StoreOk /\ NoActiveJob(repo[j]) /\ HandlerTo(j, "insert")
     \/ StoreOk /\ ~NoActiveJob(repo[j]) /\ Answer(j, "conflict")
     \/ StoreFault /\ Answer(j, "error")
  /\ UNCHANGED <<storeVars, storeOpen, memoryVars, tpc, crashes>>

(* Track the JobInfo in _jobs and persist it as queued. *)
Insert(j) ==
  LET queued == upsert_job(rows, j, "queued", repo[j])
  IN  /\ hpc[j] = "insert"
      /\ jobs' = [jobs EXCEPT ![j] = "own"]
      /\ obj' = [obj EXCEPT ![j] = "queued"]
      /\ \/ Committed(queued) /\ HandlerTo(j, "register")
         \/ Raised(queued) /\ Answer(j, "error")
      /\ UNCHANGED <<catalog, snap, storeOpen, threads, tpc, crashes>>

(* _job_threads[job_id] = thread, before the thread is alive. *)
Register(j) ==
  /\ hpc[j] = "register"
  /\ threads' = threads \cup {j}
  /\ HandlerTo(j, "start")
  /\ UNCHANGED <<storeVars, storeOpen, jobs, obj, tpc, bounds>>

(* thread.start(), and the 202 answer. *)
Start(j) ==
  /\ hpc[j] = "start"
  /\ tpc' = [tpc EXCEPT ![j] = "fetch"]
  /\ Answer(j, "accepted")
  /\ UNCHANGED <<storeVars, storeOpen, memoryVars, bounds>>

-----------------------------------------------------------------------------
ThreadTo(j, step) == tpc' = [tpc EXCEPT ![j] = step]
SetStatus(j, status) == obj' = [obj EXCEPT ![j] = status]

(* _run_ingest_job reads _jobs[job_id]; a missing entry is a KeyError raised
   outside the try, which ends the thread and leaves it in _job_threads. *)
Fetch(j) ==
  /\ tpc[j] = "fetch"
  /\ \/ jobs[j] = "none" /\ ThreadTo(j, "done") /\ UNCHANGED <<jobs, obj>>
     \/ jobs[j] # "none" /\ ThreadTo(j, "begin")
        /\ jobs' = [jobs EXCEPT ![j] = "own"]
        /\ SetStatus(j, IF jobs[j] = "copy" THEN "failed" ELSE obj[j])
  /\ UNCHANGED <<storeVars, storeOpen, threads, handlerVars, bounds>>

(* Status running, in memory and in the store; this upsert is outside the
   try, so its failure ends the thread through the outer finally. *)
Begin(j) ==
  LET running == upsert_job(rows, j, "running", repo[j])
  IN  /\ tpc[j] = "begin"
      /\ SetStatus(j, "running")
      /\ \/ Committed(running) /\ ThreadTo(j, "work")
         \/ Raised(running) /\ ThreadTo(j, "pop")
      /\ UNCHANGED <<catalog, snap, storeOpen, jobs, threads, handlerVars, crashes>>

(* Each progress message of the pipeline writes the whole row again; an
   exception of the store inside the logger fails the ingest. *)
Log(j) ==
  LET again == upsert_job(rows, j, obj[j], repo[j])
  IN  /\ tpc[j] = "work"
      /\ \/ Committed(again) /\ UNCHANGED <<tpc, obj>>
         \/ Raised(again) /\ SetStatus(j, "failed") /\ ThreadTo(j, "snapshot")
      /\ UNCHANGED <<catalog, snap, storeOpen, jobs, threads, handlerVars, crashes>>

(* ingest_repository raises (clone, purge, embeddings, ...). *)
IngestFails(j) ==
  /\ tpc[j] = "work"
  /\ SetStatus(j, "failed")
  /\ ThreadTo(j, "snapshot")
  /\ UNCHANGED <<storeVars, storeOpen, jobs, threads, handlerVars, bounds>>

IngestSucceeds(j) ==
  /\ tpc[j] = "work"
  /\ ThreadTo(j, "runtime")
  /\ UNCHANGED <<storeVars, storeOpen, memoryVars, handlerVars, bounds>>

(* upsert_repo_runtime: the repo enters the catalog. *)
RecordRuntime(j) ==
  /\ tpc[j] = "runtime"
  /\ \/ /\ StoreOk
        /\ catalog' = catalog \cup {repo[j]}
        /\ ThreadTo(j, "ready")
        /\ UNCHANGED obj
     \/ /\ StoreFault
        /\ catalog' \in {catalog, catalog \cup {repo[j]}}
        /\ SetStatus(j, "failed")
        /\ ThreadTo(j, "snapshot")
  /\ UNCHANGED <<rows, snap, storeOpen, jobs, threads, handlerVars, crashes>>

(* get_repo_query_status decides between completed and partial; if it raises
   the job fails although everything is indexed. *)
Readiness(j) ==
  /\ tpc[j] = "ready"
  /\ \E status \in Terminal : SetStatus(j, status)
  /\ ThreadTo(j, "snapshot")
  /\ UNCHANGED <<storeVars, storeOpen, jobs, threads, handlerVars, bounds>>

(* Mutant: a failing snapshot is swallowed. *)
RecordSnapshotQuietly(j) ==
  /\ tpc[j] = "snapshot"
  /\ \/ StoreOk /\ snap' = [snap EXCEPT ![j] = obj[j]]
     \/ StoreFault /\ UNCHANGED snap
  /\ ThreadTo(j, "final")
  /\ UNCHANGED <<rows, catalog, storeOpen, memoryVars, handlerVars, crashes>>

(* The finally block: the snapshot first.  If it raises, the upsert of the
   final row after it is skipped and the row stays running. *)
RecordSnapshot(j) ==
  /\ tpc[j] = "snapshot"
  /\ \/ /\ StoreOk
        /\ snap' = [snap EXCEPT ![j] = obj[j]]
        /\ ThreadTo(j, "final")
     \/ /\ StoreFault
        /\ snap' \in {snap, [snap EXCEPT ![j] = obj[j]]}
        /\ ThreadTo(j, "pop")
  /\ UNCHANGED <<rows, catalog, storeOpen, memoryVars, handlerVars, crashes>>

(* The final upsert of _execute_ingest_job, then the one of its wrapper. *)
Publish(j) ==
  LET ended == upsert_job(rows, j, obj[j], repo[j])
  IN  /\ tpc[j] \in {"final", "final2"}
      /\ \/ Committed(ended)
            /\ ThreadTo(j, IF tpc[j] = "final" THEN "final2" ELSE "pop")
         \/ Raised(ended) /\ ThreadTo(j, "pop")
      /\ UNCHANGED <<catalog, snap, storeOpen, memoryVars, handlerVars, crashes>>

(* Mutant: the JobInfo is forgotten together with its thread. *)
PopJob(j) ==
  /\ tpc[j] = "pop"
  /\ jobs' = [jobs EXCEPT ![j] = "none"]
  /\ threads' = threads \ {j}
  /\ ThreadTo(j, "done")
  /\ UNCHANGED <<storeVars, storeOpen, obj, handlerVars, bounds>>

(* The outer finally of _run_ingest_job. *)
Pop(j) ==
  /\ tpc[j] = "pop"
  /\ threads' = threads \ {j}
  /\ ThreadTo(j, "done")
  /\ UNCHANGED <<storeVars, storeOpen, jobs, obj, handlerVars, bounds>>

-----------------------------------------------------------------------------
(* The process dies and is started again: daemon threads and handlers are
   gone, and so is all memory. *)
Restart ==
  /\ crashes < MaxCrash
  /\ crashes' = crashes + 1
  /\ storeOpen' = FALSE
  /\ lock' = NoJob
  /\ jobs' = [j \in Job |-> "none"]
  /\ threads' = {}
  /\ obj' = [j \in Job |-> "none"]
  /\ hpc' = [j \in Job |-> IF hpc[j] \in HandlerBusy THEN "lost" ELSE hpc[j]]
  /\ tpc' = [j \in Job |-> IF tpc[j] \in ThreadAlive THEN "done" ELSE tpc[j]]
  /\ UNCHANGED <<storeVars, repo, faults>>

Create(j) == \/ \E r \in Repo : Acquire(j, r)
             \/ Check(j) \/ Insert(j) \/ Register(j) \/ Start(j)

EndIngest(j) == IngestFails(j) \/ IngestSucceeds(j)

RunStep(j) == \/ Fetch(j) \/ Begin(j) \/ EndIngest(j) \/ RecordRuntime(j)
              \/ Readiness(j) \/ RecordSnapshot(j) \/ Publish(j) \/ Pop(j)

Next == \/ OpenStore
        \/ Restart
        \/ \E j \in Job : Create(j) \/ RunStep(j) \/ Log(j)

Spec == Init /\ [][Next]_vars

(* The scheduler runs handlers and threads, git and the stores answer or
   time out, and some request reaches the store after a restart. *)
Fairness == /\ WF_vars(OpenStore)
            /\ \A j \in Job : WF_vars(Check(j)) /\ WF_vars(Insert(j))
                              /\ WF_vars(Register(j)) /\ WF_vars(Start(j))
                              /\ WF_vars(RunStep(j))

FairSpec == Spec /\ Fairness

-----------------------------------------------------------------------------
(* No two threads are inside the ingest of one repository at the same time:
   they would share one workspace clone (clone_repository removes and
   recreates workspace/repo_id) and purge each other's index entries. *)
AtMostOneIngest ==
  \A j, k \in Job :
    tpc[j] \in Ingesting /\ tpc[k] \in Ingesting /\ repo[j] = repo[k] => j = k

(* The jobs table never holds two queued or running rows of one repository,
   and the thread that ingests always stands behind one of them: this is what
   makes list_active_job_ids a sound test for the 409 answer. *)
LockHeld ==
  \A j \in Job : hpc[j] \in HandlerBusy <=> lock = j

RowBehindWork ==
  \A j \in Job :
    /\ hpc[j] \in {"register", "start"} \/ tpc[j] \in Ingesting
         => rows[j].status \in Active /\ rows[j].repo = repo[j]
    /\ hpc[j] = "insert" => NoActiveJob(repo[j])

ThreadAfterAccept ==
  \A j \in Job :
    /\ hpc[j] \in {"idle"} \cup HandlerBusy => tpc[j] = "none"
    /\ tpc[j] \in ThreadAlive => storeOpen
    /\ hpc[j] \in HandlerBusy \/ tpc[j] \in ThreadAlive => repo[j] \in Repo
    /\ hpc[j] \in HandlerBusy \ {"check"} => storeOpen
    /\ hpc[j] \in {"idle", "check", "insert"} => rows[j] = Absent

OneActiveRow ==
  /\ \A j \in Job : rows[j].status \in Active => rows[j].repo \in Repo
  /\ \A j, k \in Job :
       rows[j].status \in Active /\ rows[k].status \in Active
       /\ rows[j].repo = rows[k].repo => j = k

(* While a thread ingests, its row says running; what it publishes at the end
   is terminal. *)
FinalStatus ==
  \A j \in Job :
    /\ tpc[j] \in Ingesting \ {"fetch", "begin"} => rows[j].status = "running"
    /\ tpc[j] \in {"snapshot", "final", "final2"} => obj[j] \in Terminal
    /\ tpc[j] \in {"runtime", "ready", "work"} => obj[j] = "running"
    /\ tpc[j] = "final2" => rows[j].status = obj[j]

(* What the final row will claim is recorded before it is written: the catalog
   entry from the readiness check on, the snapshot before the final upsert. *)
RecordedFirst ==
  \A j \in Job :
    /\ tpc[j] = "ready" => repo[j] \in catalog
    /\ tpc[j] \in {"snapshot", "final", "final2"} /\ obj[j] # "failed"
         => repo[j] \in catalog
    /\ tpc[j] \in {"final", "final2"} => snap[j] = obj[j]

(* A job whose row says completed or partial left a snapshot that says the
   same and its repository is in the catalog: the history of a repository (of
   which the store keeps the last fifty) and the list of repositories never
   miss a successful ingest. *)
SuccessIsRecorded ==
  \A j \in Job : rows[j].status \in {"completed", "partial"}
                  => snap[j] = rows[j].status /\ rows[j].repo \in catalog

(* The inductive invariant: the parts above and the types. *)
IInv == /\ TypeOK /\ LockHeld /\ RowBehindWork /\ ThreadAfterAccept
        /\ OneActiveRow /\ FinalStatus /\ RecordedFirst /\ SuccessIsRecorded

(* A row that reached a terminal status keeps it: neither a late log message,
   nor the second final upsert, nor the recovery after a restart rewrites it. *)
TerminalRowIsFinal ==
  [][\A j \in Job : rows[j].status \in Terminal
                     => rows'[j].status = rows[j].status]_vars

(* get_job: memory first, the table otherwise. *)
get_job(j) == CASE jobs[j] = "own"  -> obj[j]
                [] jobs[j] = "copy" -> "failed"
                [] OTHER            -> rows[j].status

(* What GET /jobs/{id} has once reported as the end of a job it goes on
   reporting, as long as the process lives. *)
ReportedEndIsFinal ==
  [][\A j \in Job : get_job(j) \in Terminal
                     => get_job(j)' = get_job(j) \/ crashes' # crashes]_vars

(* A 409 answer is only given while a handler or a thread of this process is
   really at work on an ingest of the same repository. *)
AtWork(r) == \E k \in Job : repo[k] = r
                            /\ (hpc[k] \in {"register", "start"} \/ tpc[k] \in Ingesting)
ConflictMeansIngest ==
  [][\A j \in Job : hpc[j] = "check" /\ hpc'[j] = "conflict" => AtWork(repo[j])]_vars

(* Why it is so, as long as no call of the store has failed: in a process that has opened
   its store every active row has a handler about to start a thread, or a thread that
   ingests; and what a thread looks up in _jobs is there. *)
ActiveMeansWork ==
  faults = 0 =>
    \A j \in Job :
      /\ storeOpen /\ rows[j].status \in Active
           => hpc[j] \in {"register", "start"} \/ tpc[j] \in Ingesting
      /\ hpc[j] \in {"register", "start"} \/ tpc[j] = "fetch" => jobs[j] = "own"

(* Every job whose row became active ends, whatever happens to the process. *)
EveryJobEnds ==
  \A j \in Job : (rows[j].status \in Active) ~> (rows[j].status \in Terminal)

(* The job manager implements the slots: a slot is the active row of the
   repository, an outcome is the status of the row. *)
SlotOf(t, r) == IF list_active_job_ids(t, r) = {} THEN NoJob
                ELSE CHOOSE j \in Job : j \in list_active_job_ids(t, r)

Slots == INSTANCE IngestSlots WITH
  Free    <- NoJob,
  slot    <- [r \in Repo |-> SlotOf(rows, r)],
  outcome <- [j \in Job |-> rows[j].status]

ImplementsSlots == Slots!SlotSpec

=============================================================================
