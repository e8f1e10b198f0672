------------------------------ MODULE JobTable ------------------------------
(***************************************************************************)
(* The jobs table of the metadata store (storage/postgres_metadata_store)  *)
(* as a value: a row per job identifier, and the operations that read or   *)
(* rewrite the table.  Each operation of the store is one transaction, so  *)
(* one operator here is one atomic step of whoever calls it.               *)
(*                                                                         *)
(* A row keeps what the callers tell apart: the status and the repo_id.    *)
(* Progress, logs, error text, diagnostics and timestamps are left out.    *)
(***************************************************************************)
CONSTANTS Job,      \* job identifiers (uuid4 strings in the code)
          Repo,     \* repo_id values (build_repo_id of url and branch)
          NoRepo    \* the NULL repo_id

ASSUME JobTableAssumption == NoRepo \notin Repo

Active   == {"queued", "running"}
Terminal == {"completed", "partial", "failed"}
Status   == Active \cup Terminal

Absent == [status |-> "absent", repo |-> NoRepo]
Table  == [Job -> [status : Status, repo : Repo \cup {NoRepo}] \cup {Absent}]

EmptyTable == [j \in Job |-> Absent]

(* INSERT ... ON CONFLICT (id) DO UPDATE: the whole snapshot replaces the
   row, whatever the row said before. *)
upsert_job(rows, j, status, repo) ==
  [rows EXCEPT ![j] = [status |-> status, repo |-> repo]]

list_active_job_ids(rows, repo) ==
  {j \in Job : rows[j].status \in Active /\ rows[j].repo = repo}

(* Mutants: a partial ingest counted as interrupted; a queued job overlooked. *)
RecoverPartial(rows) ==
  [j \in Job |-> IF rows[j].status \in Active \cup {"partial"}
                 THEN [rows[j] EXCEPT !.status = "failed"]
                 ELSE rows[j]]

RecoverRunning(rows) ==
  [j \in Job |-> IF rows[j].status = "running"
                 THEN [rows[j] EXCEPT !.status = "failed"]
                 ELSE rows[j]]

(* Every active row becomes failed. *)
recover_interrupted_jobs(rows) ==
  [j \in Job |-> IF rows[j].status \in Active
                 THEN [rows[j] EXCEPT !.status = "failed"]
                 ELSE rows[j]]

delete_repo_jobs(rows, repo) ==
  [j \in Job |-> IF rows[j].repo = repo THEN Absent ELSE rows[j]]

(* The union of the repos table and of the repo_id column of the jobs table. *)
list_repo_ids(rows, catalog) ==
  catalog \cup ({rows[j].repo : j \in Job} \ {NoRepo})

=============================================================================
