---------------------------- MODULE RepoDeletion ----------------------------
(***************************************************************************)
(* DELETE /repos/{repo_id} beside the JobManager in thread mode:           *)
(* delete_repo with its reconciliation of active jobs (jobs/worker.py) and *)
(* delete_repo_storage (maintenance/reset_service.py), which clears the    *)
(* storage layers one after the other and turns every failure into a       *)
(* warning.  Deletes take no lock: they interleave with the handlers and   *)
(* threads of JobManager, and with each other.                             *)
(***************************************************************************)
EXTENDS JobManager, Sequences

CONSTANTS Deleter,    \* delete requests
          PrefixOf,   \* <<r, s>>: the name of s is the name of r, "_", and more
          IngestOrder \* the storage layers an ingest fills, in order

Layers == {"workspace", "chroma", "lexical", "graph"}

ASSUME DeletionAssumption ==
  PrefixOf \subseteq Repo \X Repo /\ IngestOrder \in Seq(Layers)

VARIABLES index,      \* repo -> the storage layers that hold data of it
          written,    \* job -> how many layers its ingest has written
          del,        \* the delete requests
          quiet,      \* history: nobody worked on the target since the request
          seen        \* history: jobs that were ingesting the target by then

allVars == <<vars, index, written, del, quiet, seen>>

(* Mutant: the metadata is cleared again and again. *)
StageAfterRetrying ==
  [chroma |-> "lexical", lexical |-> "graph", graph |-> "workspace",
   workspace |-> "snapshots", snapshots |-> "jobs", jobs |-> "repos",
   repos |-> "snapshots"]

(* The stages of delete_repo_storage, each with the one after it, and the
   final step that forgets the tracked jobs. *)
StageAfter == [chroma |-> "lexical", lexical |-> "graph", graph |-> "workspace",
               workspace |-> "snapshots", snapshots |-> "jobs", jobs |-> "repos",
               repos |-> "untrack"]
Clearing   == DOMAIN StageAfter \cup {"untrack"}
DeleteBusy == {"reconcile", "orphan"} \cup Clearing
DeletePc   == DeleteBusy \cup {"idle", "deleted", "refused", "missing", "error", "lost"}

NoDelete == [pc |-> "idle", target |-> NoRepo, pending |-> {}, victim |-> NoJob,
             busy |-> FALSE, warned |-> FALSE]

DeleteRequest == [pc : DeletePc, target : Repo \cup {NoRepo}, pending : SUBSET Job,
                  victim : Job \cup {NoJob}, busy : BOOLEAN, warned : BOOLEAN]

DeleteTypes ==
  /\ index \in [Repo -> SUBSET Layers]
  /\ written \in [Job -> 0..Len(IngestOrder)]
  /\ del \in [Deleter -> DeleteRequest]
  /\ quiet \in [Deleter -> BOOLEAN]
  /\ seen \in [Deleter -> SUBSET Job]

DeletionTypeOK == TypeOK /\ DeleteTypes

DeletionInit ==
  /\ Init
  /\ index = [r \in Repo |-> {}]
  /\ written = [j \in Job |-> 0]
  /\ del = [d \in Deleter |-> NoDelete]
  /\ quiet = [d \in Deleter |-> FALSE]
  /\ seen = [d \in Deleter |-> {}]

(* An ingest of r is under way, from the lock to the end of the thread. *)
IngestUnderWay(r) ==
  \E j \in Job : repo[j] = r /\ (hpc[j] \in HandlerBusy \/ tpc[j] \in ThreadAlive)

(* Somebody may still write for the target of d: an ingest, or another delete
   that is rewriting its job rows. *)
Reconciling == {"reconcile", "orphan"}
Disturbed(d) ==
  \/ IngestUnderWay(del[d].target)
  \/ \E e \in Deleter \ {d} : del[e].target = del[d].target /\ del[e].pc \in Reconciling

KeepHistory ==
  /\ quiet' = [d \in Deleter |-> quiet[d] /\ ~Disturbed(d)']
  /\ UNCHANGED seen

-----------------------------------------------------------------------------
(* Mutant: the last layer is written once more. *)
WriteLayerAgain(j) ==
  /\ tpc[j] = "work"
  /\ written[j] <= Len(IngestOrder)
  /\ written' = [written EXCEPT ![j] = @ + 1]
  /\ UNCHANGED <<vars, index, del>>
  /\ KeepHistory

(* The ingest as the layers see it: clone, vectors, lexical corpus, graph. *)
WriteLayer(j) ==
  /\ tpc[j] = "work"
  /\ written[j] < Len(IngestOrder)
  /\ written' = [written EXCEPT ![j] = @ + 1]
  /\ index' = [index EXCEPT ![repo[j]] = @ \cup {IngestOrder[written[j] + 1]}]
  /\ UNCHANGED <<vars, del>>
  /\ KeepHistory

IngestDone(j) == /\ written[j] = Len(IngestOrder)
                 /\ IngestSucceeds(j)
                 /\ UNCHANGED <<index, written, del>>
                 /\ KeepHistory

(* query_ready needs vectors and a lexical corpus; a Chroma that does not answer,
   or an index of another space, makes an indexed repository partial too. *)
QueryReady(r) == {"chroma", "lexical"} \subseteq index[r]

ReadinessOfIndex(j) ==
  /\ Readiness(j)
  /\ obj'[j] = "completed" => QueryReady(repo[j])
  /\ UNCHANGED <<index, written, del>>
  /\ KeepHistory

OtherJobStep(j) ==
  /\ \/ Create(j) \/ Fetch(j) \/ Begin(j) \/ Log(j) \/ IngestFails(j)
     \/ RecordRuntime(j) \/ RecordSnapshot(j) \/ Publish(j) \/ Pop(j)
  /\ UNCHANGED <<index, written, del>>
  /\ KeepHistory

OpenStoreHere == OpenStore /\ UNCHANGED <<index, written, del>> /\ KeepHistory

RestartAll ==
  /\ Restart
  /\ del' = [d \in Deleter |-> IF del[d].pc \in DeleteBusy
                               THEN [del[d] EXCEPT !.pc = "lost"] ELSE del[d]]
  /\ UNCHANGED <<index, written>>
  /\ KeepHistory

-----------------------------------------------------------------------------
Stage(d, stage) == del' = [del EXCEPT ![d].pc = stage]

(* list_active_job_ids of the repository. *)
ListActive(d, r) ==
  LET listed == [NoDelete EXCEPT !.target = r, !.pc = "reconcile",
                                 !.pending = list_active_job_ids(rows, r)]
  IN  /\ del[d].pc = "idle"
      /\ storeOpen
      /\ UNCHANGED <<storeVars, storeOpen, memoryVars, handlerVars, tpc, crashes,
                     index, written>>
      /\ \/ /\ StoreOk
            /\ del' = [del EXCEPT ![d] = listed]
            /\ quiet' = [e \in Deleter |-> (e = d \/ quiet[e]) /\ ~Disturbed(e)']
            /\ seen' = [seen EXCEPT ![d] = {j \in Job : repo[j] = r /\ tpc[j] \in Ingesting}]
         \/ StoreFault /\ Stage(d, "error") /\ KeepHistory

(* Mutant: a thread counts from its first row on. *)
HasBegun(j) == j \in threads /\ tpc[j] \in ThreadAlive \ {"fetch", "begin"}

(* _is_local_job_active: a registered thread that is alive. *)
IsLocalJobActive(j) == j \in threads /\ tpc[j] \in ThreadAlive

(* _is_job_really_active of one listed job.  When it answers no, the thread
   may still be started, or the job may end, before the mark is written. *)
Reconcile(d, j) ==
  /\ del[d].pc = "reconcile"
  /\ j \in del[d].pending
  /\ \/ IsLocalJobActive(j)
        /\ del' = [del EXCEPT ![d].pending = @ \ {j}, ![d].busy = TRUE]
     \/ ~IsLocalJobActive(j)
        /\ del' = [del EXCEPT ![d].pending = @ \ {j}, ![d].victim = j,
                              ![d].pc = "orphan"]
  /\ UNCHANGED <<vars, index, written>>
  /\ KeepHistory

(* _mark_orphan_job_failed: rewrite the stored copy of the job, or the tracked
   object when there is no row, as failed, and forget its thread.  A failing
   store call escapes from delete_repo. *)
MarkOrphan(d) ==
  LET j == del[d].victim
      failed == upsert_job(rows, j, "failed", repo[j])
      stored == rows[j] # Absent
  IN  /\ del[d].pc = "orphan"
      /\ \/ /\ ~stored /\ jobs[j] = "none"
            /\ Stage(d, "reconcile")
            /\ UNCHANGED <<rows, jobs, obj, threads, faults>>
         \/ /\ stored \/ jobs[j] # "none"
            /\ obj' = IF ~stored /\ jobs[j] = "own"
                      THEN [obj EXCEPT ![j] = "failed"] ELSE obj
            /\ \/ /\ Committed(failed)
                  /\ jobs' = [jobs EXCEPT ![j] = IF stored THEN "copy" ELSE @]
                  /\ threads' = threads \ {j}
                  /\ Stage(d, "reconcile")
               \/ /\ Raised(failed)
                  /\ Stage(d, "error")
                  /\ UNCHANGED <<jobs, threads>>
      /\ UNCHANGED <<catalog, snap, storeOpen, handlerVars, tpc, crashes,
                     index, written>>
      /\ KeepHistory

(* The 409, the 404 and the way into delete_repo_storage. *)
Decide(d) ==
  /\ del[d].pc = "reconcile"
  /\ del[d].pending = {}
  /\ \/ del[d].busy /\ Stage(d, "refused") /\ StoreOk
     \/ ~del[d].busy /\ StoreFault /\ Stage(d, "error")
     \/ ~del[d].busy /\ StoreOk
        /\ Stage(d, IF del[d].target \in list_repo_ids(rows, catalog)
                    THEN "chroma" ELSE "missing")
  /\ UNCHANGED <<storeVars, storeOpen, memoryVars, handlerVars, tpc, crashes,
                 index, written>>
  /\ KeepHistory

(* _workspace_repo_paths: the clone of the repository and every directory
   whose name starts with its name and "_". *)
WorkspaceOf(r) == {r} \cup {s \in Repo : <<r, s>> \in PrefixOf}

(* What one stage removes. *)
Cleared(stage, r) ==
  /\ index' = [s \in Repo |->
                IF stage \in Layers /\ s \in (IF stage = "workspace"
                                              THEN WorkspaceOf(r) ELSE {r})
                THEN index[s] \ {stage} ELSE index[s]]
  /\ snap' = IF stage = "snapshots"
             THEN [j \in Job |-> IF repo[j] = r THEN "none" ELSE snap[j]] ELSE snap
  /\ rows' = IF stage = "jobs" THEN delete_repo_jobs(rows, r) ELSE rows
  /\ catalog' = IF stage = "repos" THEN catalog \ {r} ELSE catalog

(* Mutant: a failing layer leaves no warning. *)
ClearStageQuietly(d) ==
  LET stage == del[d].pc
  IN  /\ stage \in DOMAIN StageAfter
      /\ \/ StoreOk /\ Cleared(stage, del[d].target)
         \/ StoreFault /\ UNCHANGED <<index, snap, rows, catalog>>
      /\ Stage(d, StageAfter[stage])
      /\ UNCHANGED <<storeOpen, memoryVars, handlerVars, tpc, crashes, written>>
      /\ KeepHistory

(* One stage of delete_repo_storage: done, or failed with a warning.  The
   three tables of the metadata are one try block: the first failure skips
   the rest of them. *)
ClearStage(d) ==
  LET stage == del[d].pc
      metadata == {"snapshots", "jobs", "repos"}
  IN  /\ stage \in DOMAIN StageAfter
      /\ \/ /\ StoreOk
            /\ Cleared(stage, del[d].target)
            /\ Stage(d, StageAfter[stage])
         \/ /\ StoreFault
            /\ del' = [del EXCEPT ![d].warned = TRUE,
                         ![d].pc = IF stage \in metadata THEN "untrack"
                                   ELSE StageAfter[stage]]
            /\ UNCHANGED <<index, snap, rows, catalog>>
      /\ UNCHANGED <<storeOpen, memoryVars, handlerVars, tpc, crashes, written>>
      /\ KeepHistory

(* The end of delete_repo: forget the tracked jobs of the repository. *)
Untrack(d) ==
  LET mine == {j \in Job : jobs[j] # "none" /\ repo[j] = del[d].target}
  IN  /\ del[d].pc = "untrack"
      /\ jobs' = [j \in Job |-> IF j \in mine THEN "none" ELSE jobs[j]]
      /\ threads' = threads \ mine
      /\ Stage(d, "deleted")
      /\ UNCHANGED <<storeVars, storeOpen, obj, handlerVars, tpc, bounds,
                     index, written>>
      /\ KeepHistory

DeleteStep(d) == \/ \E j \in Job : Reconcile(d, j)
                 \/ MarkOrphan(d) \/ Decide(d) \/ ClearStage(d) \/ Untrack(d)

JobStep(j) == WriteLayer(j) \/ IngestDone(j) \/ ReadinessOfIndex(j) \/ OtherJobStep(j)

DeletionNext ==
  \/ OpenStoreHere
  \/ RestartAll
  \/ \E j \in Job : JobStep(j)
  \/ \E d \in Deleter, r \in Repo : ListActive(d, r)
  \/ \E d \in Deleter : DeleteStep(d)

DeletionSpec == DeletionInit /\ [][DeletionNext]_allVars

(* Handlers, threads and delete requests keep running; stores answer. *)
DeletionFairness ==
  /\ WF_allVars(OpenStoreHere)
  /\ \A d \in Deleter : WF_allVars(DeleteStep(d))

DeletionFairSpec == DeletionSpec /\ DeletionFairness

-----------------------------------------------------------------------------
(* A delete answered without warnings, while nobody else worked on its
   repository since it began, has left nothing: no layer, no job row, no
   catalog entry and no snapshot.  It is the whole promise of
   delete_repo_storage when nothing interferes, over eight separate
   transactions, and it holds for the retry of a delete that left warnings. *)
DeletedMeansGone ==
  \A d \in Deleter :
    LET r == del[d].target
    IN  del[d].pc = "deleted" /\ ~del[d].warned /\ quiet[d]
          => /\ index[r] = {}
             /\ r \notin list_repo_ids(rows, catalog)
             /\ \A j \in Job : repo[j] = r => snap[j] = "none"

(* d is the only delete of its repository so far.  The orphan mark of another
   one can take the active row and the registration from a thread that goes on
   ingesting. *)
OnlyDelete(d) == \A e \in Deleter \ {d} : del[e].target # del[d].target

(* An ingest that was already running when the only delete of its repository
   began, and still runs, keeps that delete from clearing anything.  It rests
   on the row being active as long as the thread ingests, and on the thread
   being registered before it is alive. *)
OngoingIngestBlocksDelete ==
  \A d \in Deleter : OnlyDelete(d) /\ del[d].pc \in Clearing
                       => \A j \in seen[d] : tpc[j] \notin Ingesting

-----------------------------------------------------------------------------
(* The inductive invariant behind the two.  Deletes break that of JobManager
   (the orphan mark ends the row of a job that may still run), so it is
   stated for the repositories no delete has been asked for. *)

(* A row names the repository of its request; a JobInfo that is in use has a
   status, a terminal one at the end. *)
JobsKnown ==
  \A j \in Job :
    /\ rows[j] # Absent => rows[j].repo = repo[j]
    /\ jobs[j] = "own" \/ tpc[j] \in ThreadAlive \ {"fetch"} => obj[j] # "none"
    /\ tpc[j] \in {"snapshot", "final", "final2"} => obj[j] \in Terminal

(* What a delete has listed or seen is of its target, and has been inserted
   or started before. *)
RequestKnown(d) ==
  /\ del[d].pc = "idle" => del[d].target = NoRepo
  /\ del[d].pc \notin {"idle", "error"} => del[d].target \in Repo
  /\ del[d].pc = "orphan" => del[d].victim \in Job
  /\ \A j \in Job :
       /\ j \in del[d].pending \/ (del[d].pc = "orphan" /\ del[d].victim = j)
            => repo[j] = del[d].target /\ hpc[j] \notin {"idle", "check", "insert"}
       /\ j \in seen[d] => repo[j] = del[d].target /\ tpc[j] # "none"
  /\ quiet[d] => ~Disturbed(d)

Untouched(r) == \A d \in Deleter : del[d].target # r

(* As long as no delete of its repository was asked for, a thread that ingests
   is registered and has an active row. *)
ThreadBehindRow ==
  \A j \in Job : Untouched(repo[j]) =>
    /\ hpc[j] \in {"register", "start"} \/ tpc[j] \in Ingesting => rows[j].status \in Active
    /\ tpc[j] = "work" => obj[j] = "running"
    /\ hpc[j] = "start" \/ tpc[j] \in ThreadAlive => j \in threads

(* The only delete of a repository still has to ask about, or has found busy,
   every job it saw ingesting that is not over; nobody else unregisters it. *)
SeenFound(d) ==
  OnlyDelete(d) => \A j \in seen[d] : tpc[j] \in Ingesting =>
    /\ del[d].pc \notin Clearing
    /\ del[d].pc \in Reconciling => j \in threads /\ (del[d].busy \/ j \in del[d].pending)
    /\ ~(del[d].pc = "orphan" /\ del[d].victim = j)

(* The place of each step of delete_repo_storage, and what a finished one has
   left of the repository. *)
Position == [chroma |-> 1, lexical |-> 2, graph |-> 3, workspace |-> 4,
             snapshots |-> 5, jobs |-> 6, repos |-> 7, untrack |-> 8, deleted |-> 9]

Emptied(stage, r) ==
  CASE stage \in Layers      -> stage \notin index[r]
    [] stage = "snapshots"   -> \A j \in Job : repo[j] = r => snap[j] = "none"
    [] stage = "jobs"        -> \A j \in Job : rows[j].repo # r
    [] stage = "repos"       -> r \notin catalog

(* What an undisturbed delete without warnings has cleared stays cleared. *)
PassedEmptied(d) ==
  quiet[d] /\ ~del[d].warned /\ del[d].pc \in DOMAIN Position =>
    \A stage \in DOMAIN StageAfter :
      Position[stage] < Position[del[d].pc] => Emptied(stage, del[d].target)

RequestSide(d) == RequestKnown(d) /\ SeenFound(d) /\ PassedEmptied(d)

JobSide == TypeOK /\ ThreadAfterAccept /\ JobsKnown /\ ThreadBehindRow

DeletionIInv == JobSide /\ DeleteTypes /\ \A d \in Deleter : RequestSide(d)

-----------------------------------------------------------------------------
(* Every delete request answers, whatever the ingests of the repository do. *)
DeleteAnswers ==
  \A d \in Deleter : (del[d].pc \in DeleteBusy) ~> (del[d].pc \notin DeleteBusy)

(* While a delete clears the layers of a repository no ingest of it runs: the
   endpoint says it rejects the action if the repository has active jobs. *)
DeleteNeverOverlapsIngest ==
  \A d \in Deleter : del[d].pc \in Clearing =>
    ~ \E j \in Job : repo[j] = del[d].target /\ tpc[j] \in Ingesting

(* Data that survives in some layer belongs to a repository that can still be
   listed, and so deleted again. *)
DataStaysListed ==
  \A r \in Repo : index[r] \cap {"chroma", "lexical", "graph"} # {}
                  => r \in list_repo_ids(rows, catalog)

(* A delete takes nothing from another repository. *)
DeleteSparesOthers ==
  [][\A d \in Deleter, r \in Repo :
       DeleteStep(d) /\ r # del[d].target => index[r] \subseteq index'[r]]_allVars

=============================================================================
