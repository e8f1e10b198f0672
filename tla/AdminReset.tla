------------------------------- MODULE AdminReset ------------------------------
(* POST /admin/reset beside the ingests of several repositories, in thread mode:
   reset_all_data of jobs/worker.py, reset_all_storage of
   maintenance/reset_service.py and reset_managed_vector_storage of
   core/vector_index.py. The reset looks for active jobs once, then clears five
   stores one after the other; it takes no lock, and ingests may be accepted while
   it runs. What an ingest does in detail is in JobManager and IncrementalIngest. *)
EXTENDS Naturals, FiniteSets, Sequences

CONSTANTS
    Repository, Ingest,
    SourceOf,                        \* ingest -> its repository
    MaxResets, MaxResetFaults        \* bounds

ASSUME ResetAssumption == SourceOf \in [Ingest -> Repository]

Stores == {"lexical", "chroma", "workspace", "metadata", "graph"}
WriteOrder == <<"workspace", "chroma", "lexical", "graph", "metadata">>

VARIABLES
    holds,        \* store -> the repositories it has data of
    jobRow,       \* ingest -> its row: "none", "active" or "ended"
    thread,       \* ingest -> "none", "alive" or "over"
    stage,        \* ingest -> how many stores it has written
    tracked,      \* ingests in _jobs and _job_threads
    remote,       \* chroma_mode
    reset,        \* stage of the reset request
    report,       \* what the answer lists: cleared stores, and whether it warns
    alone,        \* history: no ingest has been alive since the request came
    met,          \* history: ingests that were alive at the check
    resets, resetFaults

clusterVars == <<holds, jobRow, thread, stage, tracked>>
resetVars == <<clusterVars, remote, reset, report, alone, met, resets, resetFaults>>

NothingCleared == [cleared |-> {}, warns |-> FALSE]

ResetInit ==
    /\ holds = [s \in Stores |-> {}] /\ jobRow = [i \in Ingest |-> "none"]
    /\ thread = [i \in Ingest |-> "none"] /\ stage = [i \in Ingest |-> 0]
    /\ tracked = {} /\ remote \in BOOLEAN /\ reset = "idle" /\ report = NothingCleared
    /\ alone = FALSE /\ met = {} /\ resets = 0 /\ resetFaults = 0

Alive == {i \in Ingest : thread[i] = "alive"}
Works == UNCHANGED resetFaults
Breaks == resetFaults < MaxResetFaults /\ resetFaults' = resetFaults + 1
ByIngest == /\ alone' = (alone /\ Alive' = {})
            /\ UNCHANGED <<remote, reset, report, met, resets>>

-----------------------------------------------------------------------------
(* create_ingest_job: the row before the thread, under the lock of creations. *)
Accept(i) ==
    /\ thread[i] = "none"
    /\ ~ \E j \in Ingest : SourceOf[j] = SourceOf[i] /\ jobRow[j] = "active"
    /\ jobRow' = [jobRow EXCEPT ![i] = "active"]
    /\ thread' = [thread EXCEPT ![i] = "alive"] /\ tracked' = tracked \union {i}
    /\ Works /\ UNCHANGED <<holds, stage>> /\ ByIngest

(* The next store of an ingest; its log line writes the row again. *)
Write(i) ==
    LET s == WriteOrder[stage[i] + 1]
    IN  /\ thread[i] = "alive" /\ stage[i] < Len(WriteOrder)
        /\ holds' = [holds EXCEPT ![s] = @ \union {SourceOf[i]}]
        /\ stage' = [stage EXCEPT ![i] = @ + 1]
        /\ jobRow' = [jobRow EXCEPT ![i] = "active"]
        /\ Works /\ UNCHANGED <<thread, tracked>> /\ ByIngest

(* The end of the thread. A snapshot that cannot be recorded keeps the row active. *)
ThreadEnds(i) ==
    /\ thread[i] = "alive" /\ thread' = [thread EXCEPT ![i] = "over"]
    /\ \/ stage[i] = Len(WriteOrder) /\ jobRow' = [jobRow EXCEPT ![i] = "ended"] /\ Works
       \/ Breaks /\ \E status \in {"active", "ended"} : jobRow' = [jobRow EXCEPT ![i] = status]
    /\ UNCHANGED <<holds, stage, tracked>> /\ ByIngest

(* The process starts again: recover_interrupted_jobs fails the active rows. *)
ProcessRestarts ==
    /\ Breaks
    /\ thread' = [i \in Ingest |-> IF thread[i] = "alive" THEN "over" ELSE thread[i]]
    /\ jobRow' = [i \in Ingest |-> IF jobRow[i] = "active" THEN "ended" ELSE jobRow[i]]
    /\ tracked' = {} /\ reset' = "idle" /\ report' = NothingCleared
    /\ alone' = FALSE /\ met' = {}
    /\ UNCHANGED <<holds, stage, remote, resets>>

-----------------------------------------------------------------------------
(* list_active_job_ids of every repository: rows only, no look at the threads. *)
ResetRequested ==
    /\ reset = "idle" /\ resets < MaxResets /\ resets' = resets + 1
    /\ reset' = IF \E i \in Ingest : jobRow[i] = "active" THEN "refused" ELSE "lexical"
    /\ alone' = (Alive = {}) /\ met' = Alive /\ report' = NothingCleared
    /\ Works /\ UNCHANGED <<clusterVars, remote>>

To(next) == reset' = next
Emptied(s) == holds' = [holds EXCEPT ![s] = {}]
Listed(s) == report' = [report EXCEPT !.cleared = @ \union {s}]
Warns == report' = [report EXCEPT !.warns = TRUE]
ByReset == UNCHANGED <<thread, stage, tracked, remote, alone, met, resets>>

(* A store whose failure is a warning. *)
ClearOrWarn(s, next) ==
    /\ reset = s /\ To(next)
    /\ \/ Works /\ Emptied(s) /\ Listed(s)
       \/ Breaks /\ Warns /\ UNCHANGED holds

(* Mutant: a locked directory is no matter. *)
ClearChromaQuietly ==
    /\ reset = "chroma" /\ To("workspace") /\ Listed("chroma")
    /\ \/ Works /\ Emptied("chroma")
       \/ Breaks /\ UNCHANGED holds

(* Chroma. A remote one that refuses is a warning and is not listed. A local one is
   always listed: a collection that cannot be deleted is passed over, for the
   directory is removed, or warned of, afterwards. *)
ClearChroma ==
    \/ remote /\ ClearOrWarn("chroma", "workspace")
    \/ /\ ~remote /\ reset = "chroma" /\ To("workspace")
       /\ \/ Works /\ Emptied("chroma") /\ Listed("chroma")
          \/ /\ Breaks
             /\ report' = [cleared |-> report.cleared \union {"chroma"}, warns |-> TRUE]
             /\ (Emptied("chroma") \/ UNCHANGED holds)

(* The workspace directory is removed without a net: three tries, then the
   RuntimeError that the endpoint answers as 409. *)
ClearWorkspace ==
    /\ reset = "workspace"
    /\ \/ Works /\ Emptied("workspace") /\ Listed("workspace") /\ To("metadata")
       \/ Breaks /\ To("conflict") /\ UNCHANGED <<holds, report>>

ClearStore == /\ \/ ClearOrWarn("lexical", "chroma") \/ ClearChroma \/ ClearWorkspace
                 \/ ClearOrWarn("graph", "forget")
              /\ UNCHANGED jobRow /\ ByReset

(* reset_all of the metadata store: snapshots, jobs and repos in one transaction. *)
ClearMetadata ==
    /\ ClearOrWarn("metadata", "graph")
    /\ jobRow' = IF "metadata" \in report'.cleared THEN [i \in Ingest |-> "none"] ELSE jobRow
    /\ ByReset

(* The end of reset_all_data: forget every job; the new store recovers nothing. *)
Forget == /\ reset = "forget" /\ To("done") /\ tracked' = {}
          /\ Works /\ UNCHANGED <<holds, jobRow, report>> /\ UNCHANGED <<thread, stage>>
          /\ UNCHANGED <<remote, alone, met, resets>>

Answered == /\ reset \in {"done", "refused", "conflict"} /\ To("idle") /\ met' = {}
            /\ alone' = FALSE /\ Works
            /\ UNCHANGED <<clusterVars, remote, report, resets>>

ResetStep == ResetRequested \/ ClearStore \/ ClearMetadata \/ Forget \/ Answered

ResetNext == \/ \E i \in Ingest : Accept(i) \/ Write(i) \/ ThreadEnds(i)
             \/ ProcessRestarts \/ ResetStep

ResetSpec == ResetInit /\ [][ResetNext]_resetVars

-----------------------------------------------------------------------------
(* Every variable keeps its type. *)
ResetTypeOK ==
    /\ holds \in [Stores -> SUBSET Repository] /\ stage \in [Ingest -> 0..Len(WriteOrder)]
    /\ jobRow \in [Ingest -> {"none", "active", "ended"}]
    /\ thread \in [Ingest -> {"none", "alive", "over"}] /\ tracked \subseteq Ingest
    /\ reset \in Stores \union {"idle", "forget", "done", "refused", "conflict"}
    /\ report \in [cleared : SUBSET Stores, warns : BOOLEAN] /\ met \subseteq Ingest

(* A reset answered without warnings, beside no ingest, has left nothing in the five
   stores and no job row, whichever way Chroma is reached. *)
ResetMeansEmpty ==
    reset = "done" /\ ~report.warns /\ alone
        => \A s \in Stores : holds[s] = {} /\ \A i \in Ingest : jobRow[i] # "active"

(* An ingest that runs when a reset looks for active jobs is not cleared under it,
   though the reset sees rows and not threads. It is so until a first reset has run
   beside an ingest, and taken its row. *)
RunningBlocksReset ==
    resets <= 1 /\ reset \in Stores \union {"forget", "done"} => Alive \intersect met = {}

(* Not so: a 409, documented as jobs being in execution, has changed nothing. *)
ConflictMeansUntouched == reset = "conflict" => report.cleared = {}

(* Not so: a reset is refused only beside an ingest that runs. *)
RefusedBesideIngest == reset = "refused" /\ resets = 1 => met # {}

(* Not so: the stores listed as cleared hold nothing when no ingest came by. *)
ListedMeansEmpty == alone => \A s \in report.cleared : holds[s] = {}

(* Not so: the manager tracks every ingest that runs. *)
AliveIsTracked == Alive \subseteq tracked

(* Not so: one ingest at a time for a repository. *)
OneAtATime == \A i, j \in Alive : SourceOf[i] = SourceOf[j] => i = j

(* What a reset reports is so: one that reports everything cleared has left nothing,
   and none starts beside an ingest that it could see. *)
ResetIsTrue == ResetMeansEmpty /\ RunningBlocksReset

-----------------------------------------------------------------------------
(* Why it is so: the inductive invariant. The stores are cleared in this order, and
   what is behind the reset is empty while it warns of nothing and is alone. *)
Place == [lexical |-> 1, chroma |-> 2, workspace |-> 3, metadata |-> 4, graph |-> 5,
          forget |-> 6, done |-> 7]
Underway == DOMAIN Place
Passed(at) == {s \in Stores : Place[s] < Place[at]}

EmptyOncePassed ==
    reset \in Underway /\ alone /\ ~report.warns =>
        /\ \A s \in Passed(reset) : holds[s] = {}
        /\ "metadata" \in Passed(reset) => \A i \in Ingest : jobRow[i] # "active"

(* Before the first reset an ingest that lives has an active row, as JobManager has it;
   so the first reset that goes on has met none. *)
AliveHasRow == resets = 0 => \A i \in Alive : jobRow[i] = "active"
FirstMetNone == resets <= 1 /\ reset \in Underway => met = {}

ResetIInv ==
    /\ ResetTypeOK /\ resets \in Nat /\ alone \in BOOLEAN
    /\ (reset # "idle" => resets # 0) /\ (alone => Alive = {})
    /\ EmptyOncePassed /\ AliveHasRow /\ FirstMetNone
=============================================================================
