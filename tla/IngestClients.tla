----------------------------- MODULE IngestClients ----------------------------
(* The two clients that start an ingest and watch it: the script of the CI
   (scripts/trigger_repo_ingest.py) and the window of the desktop
   (ui/main_window.py), beside any other client of the API. The window has one
   thread: while a request of it is on the way nothing else in it happens, and
   its timer polls the job it watches.

   The server is what its clients see of it: the jobs, and whether a repository
   is ready to be asked. What a job does is in the modules of the jobs. *)
EXTENDS Integers, Sequences, FiniteSets

CONSTANTS Repository, ScriptRepository,
          MaxTasks, MaxPolls, MaxApiFlips, MaxLostAnswers   \* bounds

ASSUME WatchersAssumption ==
    /\ ScriptRepository \in Repository
    /\ {MaxTasks, MaxPolls, MaxApiFlips, MaxLostAnswers} \subseteq Nat

Nobody == "none"     \* no repository is selected, or shown as evidence

VARIABLES
    apiUp, apiFlips, lostAnswers,
    tasks,       \* the jobs: [repository, status, by]
    askable,     \* repositories that answer query_ready
    script,      \* where the script stands, its job, polls
    window       \* the window: see WindowAtStart

watchersVars == <<apiUp, apiFlips, lostAnswers, tasks, askable, script, window>>

Terminal == {"completed", "partial", "failed"}
Busy(r) == \E t \in DOMAIN tasks : tasks[t].repository = r /\ tasks[t].status = "active"
KnownRepositories ==
    {tasks[t].repository : t \in {u \in DOMAIN tasks : tasks[u].status # "gone"}}
NewTask(r, who) ==
    tasks' = Append(tasks, [repository |-> r, status |-> "active", by |-> who])
CanPost == Len(tasks) < MaxTasks
Without(R) ==
    /\ tasks' = [t \in DOMAIN tasks |->
                    IF tasks[t].repository \in R THEN [tasks[t] EXCEPT !.status = "gone"]
                    ELSE tasks[t]]
    /\ askable' = askable \ R

(* _active_job_id with _job_poll_enabled, the query controls, the entries of the
   repository box and the one selected, whose evidence is shown, the request on
   the way. *)
WindowAtStart ==
    [watching |-> 0, controls |-> TRUE, listed |-> {}, selected |-> Nobody,
     evidence |-> Nobody, pc |-> "idle"]

WatchersInit ==
    /\ apiUp \in BOOLEAN /\ apiFlips = 0 /\ lostAnswers = 0
    /\ tasks = <<>> /\ askable = {}
    /\ script = [pc |-> "health", job |-> 0, polls |-> 0]
    /\ window = WindowAtStart

-----------------------------------------------------------------------------
(* The server. It fails what was active when it goes down. *)
TaskEnds ==
    /\ apiUp
    /\ \E t \in DOMAIN tasks, status \in Terminal :
          /\ tasks[t].status = "active"
          /\ tasks' = [tasks EXCEPT ![t].status = status]
          /\ askable' = CASE status = "completed" -> askable \union {tasks[t].repository}
                          [] status = "partial"   -> askable \ {tasks[t].repository}
                          [] OTHER                -> askable
    /\ UNCHANGED <<apiUp, apiFlips, lostAnswers, script, window>>

ApiFlips ==
    /\ apiFlips < MaxApiFlips /\ apiFlips' = apiFlips + 1 /\ apiUp' = ~apiUp
    /\ tasks' = [t \in DOMAIN tasks |->
                    IF tasks[t].status = "active" THEN [tasks[t] EXCEPT !.status = "failed"]
                    ELSE tasks[t]]
    /\ UNCHANGED <<lostAnswers, askable, script, window>>

OtherDeletes(r) ==
    /\ apiUp /\ r \in KnownRepositories /\ ~Busy(r) /\ Without({r})
    /\ UNCHANGED <<apiUp, apiFlips, lostAnswers, script, window>>

-----------------------------------------------------------------------------
(* trigger_repo_ingest.py: /health until it is ok or the deadline; one POST; the
   job until it ends or the deadline. Any request after /health that is not
   answered with 200 ends the script. *)
ScriptAt(pc) == script' = [script EXCEPT !.pc = pc]
ScriptOnly == UNCHANGED <<apiUp, apiFlips, askable, window>>

WaitForHealth ==
    /\ script.pc = "health"
    /\ IF apiUp THEN ScriptAt("post")
       ELSE IF script.polls = MaxPolls THEN ScriptAt("failed")
       ELSE script' = [script EXCEPT !.polls = @ + 1]
    /\ UNCHANGED <<tasks, lostAnswers>> /\ ScriptOnly

(* Mutant: the job that is in the way is watched instead. *)
ScriptPostsOrJoins ==
    /\ script.pc = "post"
    /\ IF apiUp /\ ~Busy(ScriptRepository)
       THEN /\ CanPost /\ NewTask(ScriptRepository, "script")
            /\ script' = [script EXCEPT !.pc = "poll", !.job = Len(tasks'), !.polls = 0]
       ELSE /\ UNCHANGED tasks
            /\ IF apiUp THEN script' = [script EXCEPT !.pc = "poll", !.job = Len(tasks)]
               ELSE ScriptAt("failed")
    /\ UNCHANGED lostAnswers /\ ScriptOnly

ScriptPosts ==
    /\ script.pc = "post"
    /\ IF apiUp /\ ~Busy(ScriptRepository)
       THEN /\ CanPost /\ NewTask(ScriptRepository, "script")
            /\ script' = [script EXCEPT !.pc = "poll", !.job = Len(tasks'), !.polls = 0]
       ELSE ScriptAt("failed") /\ UNCHANGED tasks
    /\ UNCHANGED lostAnswers /\ ScriptOnly

(* "partial" is not one of the ends it knows. *)
PollJob ==
    /\ script.pc = "poll"
    /\ LET status == tasks[script.job].status
       IN  CASE ~apiUp \/ status \in {"failed", "gone"} -> ScriptAt("failed")
             [] apiUp /\ status = "completed"           -> ScriptAt("ok")
             [] apiUp /\ status \in {"active", "partial"} ->
                    IF script.polls = MaxPolls THEN ScriptAt("timeout")
                    ELSE script' = [script EXCEPT !.polls = @ + 1]
    /\ UNCHANGED <<tasks, lostAnswers>> /\ ScriptOnly

-----------------------------------------------------------------------------
(* The window. Idle: it answers to the user and to its timer. *)
Idle == window.pc = "idle"
WindowOnly == UNCHANGED <<apiUp, apiFlips, script>>

FirstOf(R) == IF R = {} THEN Nobody ELSE CHOOSE r \in R : TRUE
(* Mutant: the entry is kept though the repository is gone. *)
SelectedAfterKept(w, wanted) ==
    IF wanted \in KnownRepositories THEN wanted
    ELSE IF w.selected # Nobody THEN w.selected ELSE FirstOf(KnownRepositories)

SelectedAfter(w, wanted) ==
    IF wanted \in KnownRepositories THEN wanted
    ELSE IF w.selected \in KnownRepositories THEN w.selected ELSE FirstOf(KnownRepositories)

(* _refresh_repo_ids: the box keeps its entry when it is still listed, or takes the
   first, or the one wanted; _on_query_repo_changed clears what was shown. *)
Refreshed(w, wanted) ==
    LET now == SelectedAfter(w, wanted) IN
    [w EXCEPT !.listed = KnownRepositories, !.selected = now,
                  !.evidence = IF now = w.selected THEN @ ELSE Nobody]

(* A delete or a reset empties the box and what is shown; the list is asked for once more,
   and where that request fails the entries stay, the one that is gone among them. *)
Cleared == [window EXCEPT !.selected = Nobody, !.evidence = Nobody]
ClearedThenListed(R) ==
    window' \in {Cleared, [Cleared EXCEPT !.listed = R, !.selected = FirstOf(R)]}

(* _on_ingest: also while it watches another job. An answer that is lost leaves a
   job it does not know of. *)
WindowIngests(r) ==
    /\ Idle
    /\ IF apiUp /\ ~Busy(r)
       THEN /\ CanPost /\ NewTask(r, "window")
            /\ \/ /\ window' = [window EXCEPT !.watching = Len(tasks'), !.controls = FALSE]
                  /\ UNCHANGED lostAnswers
               \/ /\ lostAnswers < MaxLostAnswers /\ lostAnswers' = lostAnswers + 1
                  /\ UNCHANGED window
       ELSE UNCHANGED <<tasks, lostAnswers, window>>
    /\ UNCHANGED askable /\ WindowOnly

(* timerEvent, _sync_job_ui: a poll that is not answered, or with 404, is made
   again and again; the box follows the repository of the job, unless the request for the
   list fails. *)
WindowPolls ==
    /\ Idle /\ window.watching # 0 /\ apiUp
    /\ LET task == tasks[window.watching]
       IN  /\ task.status # "gone"
           /\ \E seen \in {window, Refreshed(window, task.repository)} :
                 window' = IF task.status \notin Terminal THEN seen
                           ELSE [seen EXCEPT !.watching = 0, !.controls = TRUE]
    /\ UNCHANGED <<tasks, askable, lostAnswers>> /\ WindowOnly

(* _on_reset_all: not while it watches a job; the server refuses beside any job. *)
WindowResets ==
    /\ Idle /\ window.watching = 0 /\ apiUp /\ ~\E r \in Repository : Busy(r)
    /\ Without(Repository)
    /\ ClearedThenListed({})
    /\ UNCHANGED lostAnswers /\ WindowOnly

(* _on_delete_selected_repo. *)
WindowDeletes ==
    /\ Idle /\ window.controls /\ window.selected # Nobody /\ apiUp
    /\ window.selected \in KnownRepositories /\ ~Busy(window.selected)
    /\ Without({window.selected})
    /\ ClearedThenListed(KnownRepositories \ {window.selected})
    /\ UNCHANGED lostAnswers /\ WindowOnly

WindowSelects ==
    /\ Idle /\ window.controls
    /\ \E r \in window.listed \ {window.selected} :
          window' = [window EXCEPT !.selected = r, !.evidence = Nobody]
    /\ UNCHANGED <<tasks, askable, lostAnswers>> /\ WindowOnly

WindowRefreshes ==
    /\ Idle /\ window.controls /\ apiUp /\ window' = Refreshed(window, Nobody)
    /\ UNCHANGED <<tasks, askable, lostAnswers>> /\ WindowOnly

(* _on_query: the preconditions, the status of the repository, then the question;
   a question that times out is asked once more when the profile allows it. *)
WindowAsks ==
    /\ Idle /\ window.watching = 0 /\ window.selected \in window.listed
    /\ apiUp /\ window.selected \in askable
    /\ window' = [window EXCEPT !.pc = "asking", !.controls = FALSE]
    /\ UNCHANGED <<tasks, askable, lostAnswers>> /\ WindowOnly

WindowAnswered ==
    /\ window.pc \in {"asking", "retrying"}
    /\ \/ /\ apiUp /\ window.selected \in askable
          /\ window' = [window EXCEPT !.pc = "idle", !.controls = TRUE,
                                      !.evidence = window.selected]
       \/ window' = [window EXCEPT !.pc = "idle", !.controls = TRUE]
       \/ window.pc = "asking" /\ window' = [window EXCEPT !.pc = "retrying"]
    /\ UNCHANGED <<tasks, askable, lostAnswers>> /\ WindowOnly

-----------------------------------------------------------------------------
ScriptStep == WaitForHealth \/ ScriptPosts \/ PollJob

WatchersNext ==
    \/ TaskEnds \/ ApiFlips \/ \E r \in Repository : OtherDeletes(r)
    \/ ScriptStep
    \/ \E r \in Repository : WindowIngests(r)
    \/ WindowPolls \/ WindowResets \/ WindowDeletes \/ WindowSelects \/ WindowRefreshes
    \/ WindowAsks \/ WindowAnswered

(* Jobs end, the script runs, requests of the window end, its timer fires. *)
WatchersFairness ==
    /\ WF_watchersVars(TaskEnds) /\ WF_watchersVars(ScriptStep)
    /\ WF_watchersVars(WindowAnswered) /\ WF_watchersVars(WindowPolls)

WatchersSpec == WatchersInit /\ [][WatchersNext]_watchersVars /\ WatchersFairness

-----------------------------------------------------------------------------
WatchersTypeOK ==
    /\ Len(tasks) <= MaxTasks /\ askable \subseteq Repository
    /\ script.pc \in {"health", "post", "poll", "ok", "failed", "timeout"}
    /\ window.watching \in 0 .. Len(tasks) /\ window.listed \subseteq Repository
    /\ window.selected \in window.listed \union {Nobody}

(* The script exits with 0 only when the job it started itself, with its commit,
   left an index that answers: never for the job of another client that was in its
   way. *)
ExitZeroIsEarned ==
    script.pc = "ok" => /\ tasks[script.job].by = "script"
                        /\ tasks[script.job].status \in {"completed", "gone"}

(* The window shows evidence of the selected repository only, through refreshes,
   polls that move the selection, deletes and resets. *)
EvidenceIsOfSelection == window.evidence \in {Nobody, window.selected}

(* The query controls are locked exactly while a job is watched or a question is
   on the way: no end of a job leaves them locked. *)
NeverLockedOut == window.controls <=> window.watching = 0 /\ Idle

(* Whoever watches an ingest stops: the script always, the window unless the API
   stays down or somebody deletes the repository before it has seen the end. *)
WatchersEnd ==
    /\ script.pc = "poll" ~> script.pc \in {"failed", "ok", "timeout"}
    /\ window.watching # 0 ~> \/ window.watching = 0 \/ ~apiUp
                              \/ tasks[window.watching].status = "gone"

(* Not so: a job that ends as partial is polled until the deadline. *)
TimeoutMeansRunning == script.pc = "timeout" => tasks[script.job].status # "partial"

(* Not so: a delete before the last poll leaves the window polling for ever. *)
WindowIsFreed == window.watching # 0 ~> window.watching = 0 \/ ~apiUp

(* Not so: a second ingest takes the place of the one that is watched. *)
QuestionsWaitForIngests == window.pc # "idle" => ~Busy(window.selected)

(* What the clients tell the operator: an exit code of zero was earned, the evidence
   shown is of the repository selected, and the controls come back. *)
ClientsTellTheTruth == ExitZeroIsEarned /\ EvidenceIsOfSelection /\ NeverLockedOut

-----------------------------------------------------------------------------
(* Why it is so: the inductive invariant. The job the script polls is its own, and stays
   so whatever becomes of the others; the window asks only while it watches nothing, and
   what it watches and has selected is there. *)
Task == [repository : Repository, status : Terminal \union {"active", "gone"},
         by : {"script", "window"}]
PollsItsOwn ==
    script.pc \in {"poll", "ok"} =>
        script.job \in DOMAIN tasks /\ tasks[script.job].by = "script"
AsksUnwatched == window.pc # "idle" => window.watching = 0

ScriptState == [pc : {"health", "post", "poll", "ok", "failed", "timeout"}, job : Nat,
                polls : Nat]
WindowState == [watching : Nat, controls : BOOLEAN, listed : SUBSET Repository,
                selected : Repository \union {Nobody}, evidence : Repository \union {Nobody},
                pc : {"idle", "asking", "retrying"}]

WatchersIInv ==
    /\ WatchersTypeOK /\ tasks \in Seq(Task) /\ script \in ScriptState /\ window \in WindowState
    /\ PollsItsOwn /\ AsksUnwatched /\ ClientsTellTheTruth
=============================================================================
