# Verification of CodeRAG (KDB-RAG-Repo)

TLA+ models of this repository where it is hard to get right and hard to test: the
life of an ingest job, its concurrency with deletions and resets, its distribution
over Redis and RQ, the consistency of the stores it fills, the ways a question takes
through stores and models that fail, the algorithms that rank and resolve, and the
start of the processes on one database. Each module is translated from the Python
code; `PROJECT.json` maps every definition to the lines it stands for. Paths below are
relative to `src/src/coderag/`, docs and scripts to `src/`.

## 1. The system and its parts

CodeRAG clones Git repositories, indexes their code in three stores (Chroma for
vectors, PostgreSQL for the lexical corpus, Neo4j for the graph), and answers
questions over HTTP. PostgreSQL also holds the metadata: `jobs`, `repos` and
`ingest_snapshots`.

| Part | State | Operations | Interacts with |
|---|---|---|---|
| Job manager (`jobs/worker.py`, class `JobManager`) | `_store`, `_jobs`, `_job_threads`, `_create_job_lock`; `jobs` table | `create_ingest_job`, `get_job`, `delete_repo`, `reset_all_data`, the ingest thread | API handlers call it; threads call the pipeline and the metadata store |
| RQ workers (`run_ingest_job_task`, `jobs/rq_worker.py`) | RQ queue and registries in Redis, one `JobInfo` per task | take, run, retry | share only PostgreSQL and Redis with the replicas |
| Metadata store (`storage/postgres_metadata_store.py`) | `jobs`, `repos`, `ingest_snapshots` | one transaction per operation | everyone |
| Maintenance (`maintenance/reset_service.py`) | none | clears each store in turn, failures become warnings | all stores and the workspace |
| Ingest pipeline (`ingestion/pipeline.py`) | none of its own; `last_indexed_commit` in `repos` | clone, plan full or incremental, purge, write, record | Git client, Chroma, lexical store, graph |
| Git client, Chroma index, lexical store, graph builder | clone directory, three collections, `lexical` rows, nodes | clone, head, diff; upsert, delete | pipeline and maintenance |
| Storage health (`core/storage_health.py`) | cached preflight report | preflight, `get_repo_query_status` | handlers and the end of an ingest |
| HTTP API, MCP server (`api/server.py`) | none | endpoints | job manager, query service |
| Bitbucket webhook (`api/webhook_bitbucket.py`) | none | merge events become ingests | job manager |
| Query service, inventory and literal mode (`api/`) | a cache of scopes | fallback chain under a time budget; pages | retrieval, graph, LLM clients |
| Retrieval (`retrieval/`) | none | fusion, rerank, graph expansion, citations, context | stores |
| Embeddings, LLM clients, model discovery | a cache of models | batches, candidates in turn, refresh | remote services |
| Scanner, chunker, extractors | none | text to symbols, names and exports to symbols | pipeline |
| PostgreSQL startup and cutover (`storage/postgres_*.py`, `migrations/`) | revision, tables | inspect, stamp, migrate, copy, report | every process at its start, an operator |
| Desktop window, ingest script | selection, watched job | post, poll, ask, delete, reset | API |

Hard behaviours:

- *Concurrency.* Handlers run in a thread pool, ingests in daemon threads (mode
  `thread`) or in worker processes (mode `rq`); `delete_repo` and
  `reset_all_data` take no lock; the deployment with Redis has two API replicas.
- *Failure.* Any store call may raise with its effect lost or done; most stages
  turn an exception into a failed job, deletions turn it into a warning, the
  graph into a diagnostic.
- *Restart.* Memory is lost, the tables stay. The first use of the store in an
  API process marks every active row as failed.
- *Ordering and staleness.* The row, the `JobInfo` object and the thread are
  three records of one job; `last_indexed_commit` stands for the content of
  three indices that change one after another.
- *Timeouts.* The Redis lock expires; RQ retries after an interval; Git has no
  timeout at all; a question has one budget that its stages and model calls share.
- *Degradation.* Most failures on the way of a question are turned into "nothing
  found", a fallback or a diagnostic, so that an outage may look like an answer.

What makes the parts correct: at most one ingest per repository (they share one
clone directory and purge each other's documents); an end that has been
reported or stored never changes; what a row claims is on record; every active
row ends; a 409 means an ingest; a deletion leaves nothing, or leaves the
repository listed; an index reflects the commit the tables say it reflects; a question
is admitted by what the stores hold and answered from what they answer; an outage is
never shown as more than it is, and is over when it is over; a process serves only on
the schema it expects; what maintenance reports as done is done.
The hazards, each at its line and with the properties aimed at it, are listed in
`PROJECT.json`.

## 2. Modules

### JobTable
The `jobs` table as a value and the store operations that read or rewrite it. A
row keeps status and `repo_id`. An operation is one transaction in the code and
one atomic operator here.

### JobManager (thread mode)
One identifier in `Job` stands for one ingest request. `hpc` is the place of its
handler, `tpc` the next step of its thread, `obj` the status of the `JobInfo`
the two share, `jobs` whether it is tracked in `_jobs` and as which object,
`threads` the keys of `_job_threads`, `rows`, `catalog`, `snap` the three tables.

| Action | Code |
|---|---|
| `OpenStore` | property `store`, first use, with `recover_interrupted_jobs` |
| `Acquire`, `Check`, `Insert`, `Register`, `Start` | `create_ingest_job` and `_create_ingest_job_unlocked`, split wherever another thread can get in between |
| `Fetch`, `Pop` | `_run_ingest_job` around the task, with its `finally` |
| `Begin`, `Log`, `IngestFails`, `IngestSucceeds`, `RecordRuntime`, `Readiness`, `RecordSnapshot`, `Publish` | `_execute_ingest_job` and its wrapper, one action per visible effect |
| `Restart` | the process dies and starts again |

A store call either commits, or raises with its effect lost *or* done
(`Committed`, `Raised`). Where the code calls the store outside its `try`
(`Begin`), or before another call in its `finally` (`RecordSnapshot`), an
exception takes the way the code gives it.

### IngestSlots
The abstract promise of the job manager: one slot per repository, taken by an
accepted job and given back with one outcome. `JobManager!ImplementsSlots` is the
refinement: the slot is the active row of the repository, the outcome is the
status of the row.

### RepoDeletion
Extends JobManager with `DELETE /repos/{repo_id}`: `ListActive`, `Reconcile`,
`MarkOrphan` and `Decide` are the reconciliation and the 409 and 404 of
`delete_repo`; `ClearStage` is one stage of `delete_repo_storage`; `Untrack` is
its end. `index` says which layers hold data of a repository, `WriteLayer` fills
them during the ingest. `quiet` and `seen` are history variables: they record
whether an ingest interfered and which ingests were running when the delete
began. Deletes interleave with every step of JobManager.

### RqIngest (rq mode)
Replicas (`Api`), workers (`Worker`), the Redis lock, the RQ queue, retries, the
store shared by all. The handler writes its row once more after the job is in
the queue (`Note`), as the code does to log the identifier of RQ. Redis and RQ
(1.16) are external: `Enqueue`, `Dequeue`, `Raise` and `Abandoned` model what the
code uses of them. `Raise` puts a retry in the scheduled registry, which only a
scheduler empties; `rq_worker.py` runs without one. Steps of an ingest that no
other process can see are merged; JobManager has them all.

### IncrementalIngest
One repository, one ingest at a time (what JobManager shows), commits pushed at
any time. `Plan` is `_resolve_ingest_mode` with the test for existing data;
`PurgeVectors` to `IndexGraph` are the purges and the writes; `Record` is
`upsert_repo_runtime`. A document is a file with its content. A failing stage
leaves any part of what it removes or writes, except where the code uses one
transaction. `fresh` is a history variable: the commit the indices are owed to
reflect, by the reasoning the code relies on (a full plan, or an incremental one
on top of an index that reflected its base).

### The data of a repository
- *MergeEvents*: from a merge to an indexed commit. Events may be lost, delayed,
  reordered or delivered again; the webhook ignores one that meets an active ingest;
  the clone of a branch falls back to the default branch; a shallow clone may lack the
  commit. Crashes and deletes in between. A tree is the number of its commit.
- *GitClone*: `clone_repository`. A request is a record of what it says about provider,
  URL, transport and secrets; `Access` is what the environment for git becomes. The
  secret files, the directory of the last clone and the commands may fail one by one,
  and the process may die in each.
- *RepoCatalog*: the row of the repository beside its vectors and lexical rows. Ingest,
  delete and question are three processes that take the stores in three orders; the
  gate reads the lexical rows before the vectors. Embedding models are told apart by name and length.
  `aligned` says whether the collections have the distance of the settings; its check is part of
  readiness and is passed over when it fails.
- *GraphStore*: an upsert as its transactions (files, symbols, relations, unresolved
  relations with their `ExternalSymbol` nodes, imports), interrupted anywhere; the queries as
  relations over what is there. `ExpandSymbols` walks the edges in either direction through
  nodes of every kind, so that two symbols meet at a reference neither of them resolves.
- *Embedding*: batches, failures, answers with no vectors or too few, and the collection that
  takes the dimension of its first vector.
- *ChromaUpsert*: the batches of one upsert, the split of a refused one (`todo` is the
  stack of the recursion), the second pass on a fresh collection.
- *VectorClients*: the client that the threads of a process share. `gen` is the identity
  of a collection, `shared` what a process holds of it; a stale handle fails.
- *AdminReset*: `reset_all_data` with its one look at the jobs, five stores, failing
  calls, restarts, and ingests accepted meanwhile.

### The way of a question
- *StorageHealth*: probes in threads, the cached report, requests that share it. `reachable`
  changes at any time; ages are ticks. The key of a report is the context and the repository,
  so requests about different repositories share none: the module follows one repository.
- *QueryFlow*: the stages of `run_query` and `run_retrieval_query` as program counters,
  every store up or down at every stage, time as calls that run into the budget. The route of
  an inventory resolves its scope within the same budget; once it is spent the graph is not
  asked, and the answer is empty with the reason `time_budget_exhausted`.
- *LiteralMode*, *InventoryQuery*: the routes that answer without a ranking. Names are
  tried in turn; a scope is read through a cache, whose key is the token in lower case while a
  folder is matched by its case first (`Spelling`); pages are queries of their own, each with
  its own budget.
- *LlmClient*: one call as a walk over candidates and interfaces; each request is
  answered, refused, fails or uses up its timeout, which is what is left and at least a second.
  Time is in half seconds, so that less than a second can be left.
- *ModelDiscovery*: lookups of several requests over a cache with a time to live.
- *Fusion*, *Rerank*, *GraphContext*: what a search returns becomes a ranking, a
  selection, citations and a context. Scores are integers in hundredths. Text is
  reduced to the predicates that the code reads from it: a chunk of Fusion says whether its
  symbol, its text, a segment of its path or its whole path holds the identifier, and whether
  its path is one of configuration or tests.
- *NameScopes*, *JsExports*: how the extractors tie names to symbols. A rule of a
  language is an operator; `Ladder` gives the first that answers. In Kotlin only what no class
  owns has a qualified name (`QualifiedTop`).

### The processes
- *SchemaStartup*: `Inspect`, stamp, migrate and verify of several processes on one
  schema; the operator's cutover, and how it is undone. The first three migrations matter by
  themselves; of the four others of the code one stands for all. Alembic's own column of 32 characters
  holds the names of the first three revisions only, and every start widens it where it finds
  one: the first start on an empty database stops at the third revision and the next one
  finishes.
- *CutoverReport*: the copy of the legacy rows statement by statement, the audit, the
  probe, the checklists, beside processes that write.
- *IngestClients*: the ingest script and the window, as what they remember and when they
  poll; the server is the state of its jobs.

### MC modules
`MCJobManager`, `MCRepoDeletion`, `MCRqIngest` give the small instances and the symmetry
sets; the last two also bound how many clients come in one behaviour. `MCBranchIngest` (the tree
of a repository, with the instances of IncrementalIngest), `MCRecords` (what is on record of it), `MCRetrieval` (what a search
reads and computes) and `MCService` (what a question waits for) put several modules in one run each: they share no variable, `part` chooses the
one that moves in a behaviour, and the others keep one first state, so the states add
up instead of multiplying. Symmetry is used only in runs whose properties
are of safety; `MCRetrieval` numbers the chunks of Fusion by what they are and how they
were found instead. In
`MCService` the fairness of every module is stated for the behaviours in which it
moves; conditions of different parts share one weak fairness, as only one of them can
be enabled.

A property of a listed run is often a conjunction of named parts, each stated and
commented in its module; `MergesAreHonoured`, for instance, is `RequestedTreeIsRead`
and `MissesHaveACause`. A comment that begins with "Not so" marks a property the code
does not keep: it is stated for the reader and no passing run lists it.

## 3. Runs

| Run | Question | Instance | Distinct states |
|---|---|---|---|
| `job_manager` | mutual exclusion, final ends, records, refinement of the slots | 3 jobs, 2 repos, 1 fault, 1 restart | 0.12 M |
| `job_manager_live` | every active row ends; a 409 means an ingest | 2 jobs, 2 repos, 1 restart | 9 k |
| `repo_deletion` | an undisturbed delete leaves nothing; a running ingest blocks it | 2 ingests and a delete, or 1 ingest and 2 deletes (`ThreeClients`), 1 fault, 2 layers | 3.2 M |
| `repo_deletion_restart` | deletes answer, with every layer, a restart and a fault | 1 job, 1 delete | 0.11 M |
| `rq_ingest` | one ingest and one active row per repository | 3 jobs, 2 replicas, 2 workers, 1 crash | 91 k |
| `rq_ingest_live` | queued jobs end, a delete loses none, handlers answer | 2 jobs or 1 job and a delete (`TwoClients`), 1 replica, 1 worker, 1 retry, one each of fault, restart, crash, expiry | 0.13 M |
| `incremental_ingest` | the tree of a repository, see below | below | 2.2 M |
| `records` | what is on record of a repository, see below | below | 2.0 M |
| `retrieval` | what a search reads and computes, see below | below | 1.3 M |
| `service` | what a question waits for, see below | below | 0.16 M |

Three jobs on two repositories are the least with a conflict, an independent
ingest and a third request that arrives after an end. One fault at any point is
enough for every failure path of the code, which has no path of its own for a
second failure except a retry (`rq_ingest_live` has one retry, the other run of
rq mode none: a retry ends in the scheduled registry, where it stays). Deadlock is
not checked: every request answered, every thread ended and every bound reached is
a legal rest.

`incremental_ingest`, by part:

| Part | Bounds | Shows |
|---|---|---|
| ingest | 2 files, 2 contents, 2 commits, any list of changed files, 2 faults | `FreshIndex`, `PlanIsKept`: what an ingest undertakes it does; chains of successes are exact. A third commit adds no relation between base, head and tip, as `Clone` may ask for an older one |
| merge | 2 merges, 3 jobs, 1 failing command, 1 crash | `MergesAreHonoured`: the tree that is indexed is one that was asked for, and a merge that is not indexed was lost, ignored beside an ingest, or failed |
| clone | every request by method, every key and known-hosts file; 2 clones, 1 failing command or crash | `ClonesAreSafe`: sufficient access is used, a secret is used or refused as the code says, its files do not outlive the call unless the process dies or the SSH settings were refused after the key was written |

`records`, by part:

| Part | Bounds | Shows |
|---|---|---|
| catalog | 3 models of 2 lengths, 2 pieces, 2 ingests, 1 delete, 1 outage, 1 question, 1 snapshot kept | `CatalogIsTrue`: readiness means corpus and vectors, an admitted question has vectors of its length unless the code cannot know, the row names what was written last, the history is the latest |
| reset | 2 ingests of one repository, 2 resets, 1 fault | `ResetIsTrue`: a first reset does not run beside an ingest it could see, and one without warnings and without an ingest beside it leaves nothing |
| cutover | 2 tables of 2 rows, 2 writes beside the copy, 1 fault | `CutoverIsTrue`: a checklist that is ticked off means that all rows seen were copied |

`retrieval`, by part: one reader and two operators on two processes, two collections, one
reset (`ClientsHeal`); trees of at most three files and one reference, two upserts, two faults
(`GraphIsSound`); three chunks of every shape and similarity with a cut of two
(`RankingIsFair`, the fusion), every three chunks of a pool of twelve for every kind of question
(`RankingIsFair`, the rerank); small rankings, records and budgets at which every limit
is met (`EvidenceIsKept`); five texts in requests of two and writes of three, two
embeddings, two bad answers (`VectorsAreTrue`); two lookups over the sources of a provider
with one publication and one failure, and four files in two folders that differ in case,
pages of one to three, one ingest, outage and restart (`ListingsAreTrue`); three files
with re-exports and stars, and repositories of three symbols in six languages, for every
order of the scan (`NamesResolveSoundly`).

`service`, by part: five stores that flip twice and a budget of one slow call
(`AnswersAreSound`, `EveryWaitEnds`); two requests in two contexts over one store that
flips, with a report that lives one tick (`OutagesAreNoticed`); two failing lookups, and
every source of three lines (`AnswersAreSound`); three candidates of four kinds, three seconds in
halves, four faults (`AnswersAreSound`, `EveryWaitEnds`); crews of two processes on
a schema in every revision, with odd columns or without, two attempts, one fault
(`SchemaIsTrue`, `EveryWaitEnds`); six payloads around every limit, batches of four to two,
two resets of the connection and two lost collections (`UpsertIsExact`); two repositories,
two tasks, an API that stops once and an answer that is lost (`ClientsTellTheTruth`,
`EveryWaitEnds`).

What the runs do not catch. `job_manager_live` has no failing calls, so that a row left active
behind a thread that is gone is not a violation there: `SuccessIsRecorded` and `IInv` follow
failing calls in `job_manager`, and the row that stays is a limit of the code. The rq properties
hold while no replica recovers beside workers, no lock expires and no delete is asked for;
`QueuedJobsEnd` counts a job in the registry of scheduled jobs as ended, because nothing takes
it out (`RetriesRun` below).

`JobManager!ReportedEndIsFinal` deserves a word. `GET /jobs/{id}` reads memory
first: the thread sets a terminal status in memory *before* the row has it. What
was reported is kept as long as the process lives; a process that dies in between
reports `failed` afterwards, which is why the property exempts the restart.

### Fairness
Weak fairness of `OpenStore`, of the handler steps and of the thread steps: the
operating system schedules both; store drivers and HTTP calls have timeouts, and
a request reaches the store after a restart. Fairness of `RunStep` also assumes
that `ingest_repository` returns, so that Git answers: `git_client.py` runs Git
without a timeout, and a remote that hangs holds the row for ever; this is listed
as a hazard. No fairness on failures, restarts, log messages, pushes, requests or
deletes being issued. In RqIngest workers and RQ keep running; RQ cleans up after
dead workers (`Abandoned`); the replica is used again after a restart; the expiry
of the Redis lock needs no fairness, because a waiting handler gives up.
In `MCService`: queries, calls of the LLM, batches, starting processes, the script, the
answers of the window's requests, its timer and the tasks of the server are weakly fair;
each of them is one thread that runs until it is done and whose calls have timeouts. The
clock of StorageHealth is strongly fair: time passes however many requests come. Stores
that flip, requests, operators and migrations of the cutover are never fair; a process
that starts is given as many attempts as the settings say.

### Runs that show a divergence
Two listed runs check what a document of the repository says, and fail:

- `two_ingests_after_delete`: a delete looks at a new job after its row is committed
  (`worker.py:499`) and before its thread is started (518), takes it for an orphan and
  rewrites the row as failed (374-392); the next request finds no active row, and two
  threads ingest the repository (`AtMostOneIngest`). A delete that was decided before the
  ingest was created gets there too, by removing the row (`postgres_metadata_store.py:485`);
  the trace of the run is the shorter one.
- `legacy_rows_dropped`: the documented migration of legacy data upgrades to head
  first, and revision 0002 drops the legacy tables before they are copied
  (`LegacyRowsSurvive`).

Two more configurations stand beside the listed runs and end in a short trace:

- `rq_replica_recovery` (with `MCRqIngest`): an API replica that starts (or first uses its store)
  while workers run marks their rows as failed; a second ingest is accepted
  beside the first (`AtMostOneIngest`).
- `stale_after_failed_ingest` (with `MCBranchIngest`): an ingest that fails after its purge leaves
  `last_indexed_commit`; the next one diffs against it and completes with the
  purged documents missing (`SuccessIsFresh`). The comment in
  `ingestion/pipeline.py:369` promises that any ambiguity becomes a full ingest.

Further properties the code does not keep are stated in the modules:

| Property | What happens instead |
|---|---|
| `RepoDeletion!DataStaysListed`, `DeleteNeverOverlapsIngest`, `DeleteSparesOthers` | a layer fails to clear and its rest can no longer be listed; an ingest is accepted after the check of a delete; directory names share a prefix (`PrefixOf <- OnePrefix`) |
| `RqIngest!DeleteRefusedWhileActive`, `RejectedMeansNotQueued`, `RetriesRun` | the delete asks RQ for jobs by the identifier of the row, and RQ chose its own, so none is ever found active; a 503 for a job that runs; a retry waits for a scheduler nobody runs |
| `IncrementalIngest!SummariesAreFresh` | the summary of a folder whose last file was removed stays |
| `MergeEvents!IndexNeverGoesBack`, `LastMergeIsIndexed` | events that overtake each other take the index back; one that meets an ingest is ignored for good |
| `GitClone!KeyIsEnough`, `SecretIsNeverPassedOver`, `NoFileOutlivesItsCall` | a GitHub token makes git ignore a configured key; a secret that does not fit the transport is dropped silently; a refusal of the SSH settings (`git_client.py:472-499`) is raised before the `try`, and its files go with the error, by the finalizer of the temporary directory |
| `RepoCatalog!ModelFits`, `ServedIsMarked`, `OneModel`, `CompletedIsAdmittedAnyway` | `docs/MCP_CONTRACT.md:219` compares models, the code compares lengths, of models it knows; the first question during an ingest has no row to mark; an incremental ingest mixes models; the check of the distance of the collections is passed over when it fails, so that an ingest completes over collections of another distance and every question is refused |
| `AdminReset!ConflictMeansUntouched`, `RefusedBesideIngest`, `ListedMeansEmpty`, `AliveIsTracked`, `OneAtATime` | a 409 after corpus and vectors are gone; stale rows refuse a reset; Chroma's failure is listed as cleared; ingests that began before a reset live on untracked beside new ones |
| `VectorClients!ReadyWhenComplete` | readiness asks through a stale client and answers no |
| `GraphStore!DataMeansComplete` | one node is data, also after an interrupted upsert |
| `Embedding!NothingIsMisfiled` | an answer with fewer vectors than texts shifts the vectors after it to other texts |
| `JsExports!ReexportsAreComplete` | chains of barrels depend on the scan order |
| `QueryFlow!VectorOutageIsSurvived`, `OnlyOutageHidesDependents` | a Chroma that fails is fatal where a failing embedding is not; an inventory whose budget was spent on its scope is answered as empty, the graph up |
| `InventoryQuery!ScopeIsAsTyped`, `ScopeIsCurrent`, `NoEntityTwice` | the first spelling of a token decides the folder for every other (`inventory_helpers.py:399-413`); the cached scope outlives the folder; pages move when an ingest comes between |
| `Fusion!DefinitionBeforePaths` | a configuration file of the name goes before the definition (`hybrid_search.py:143-158`) |
| `LlmClient!WithinQueryMaxSeconds` | every candidate and interface gets the whole rest of the time, and a second at least; `docs/CONFIGURATION.md:69` calls it a global limit |
| `ModelDiscovery!CatalogueNeverGoesBack` | a slow lookup overwrites a newer one |
| `SchemaStartup!PartialIsNotStamped`, `NewerRowsSurvive` | tables that miss later changes are stamped as current; a second report copies legacy rows over newer ones |
| `CutoverReport!ExitZeroIsReady`, `LaterRowsAreCopied` | zero says that a report was written; rows of the old version after the audit stay behind |
| `IngestClients!TimeoutMeansRunning`, `WindowIsFreed`, `QuestionsWaitForIngests` | the script polls a partial job to its deadline; the window polls a deleted job for ever, and forgets the first of two ingests |

## 4. Proofs

Eight modules hold the theorems. Each is about one component or a few that belong together,
and holds for every value of their constants: any jobs, repositories, files, processes,
bounds on failures, restarts and crashes. The invariant a proof rests on is defined in the
module of the component, as a conjunction of named parts, and TLC has checked it on the
instance of the run before it was proved; the proof module has one lemma per action and,
under it, one step per part the action disturbs.

The assumptions are those the component modules name (`...Assumption`), and TLC evaluates
them in the runs. They say that a null value is not a member of the set it is added to,
that bounds are naturals and that a constant function has its domain and range. Stronger
ones: `IncrementalAssumption` and `ReportAssumption` take the files of a repository and the
legacy rows as finite sets; `SchemaAssumption` has more than three migrations, as the
repository has; `GraphAssumption` has references that are no files, and relations between
files of their own tree; `CatalogAssumption` knows a model by its true length or not at all;
`EmbeddingAssumption` has batches and dimensions of at least one; `UpsertAssumption` has sizes of
documents as naturals, and bounds of a batch of at least one; `LiteralAssumption` has
finitely many definitions of a name, of which the path says whether they are tests, as
`_looks_like_test_path` does, and lines of a source as sequences of the three characters told
apart; `QueryAssumption` has a budget and the five stores the code names;
`InventoryAssumption` has finitely many files, numbered in the order of their paths;
`ContextAssumption` takes chunks and records as sequences of the records the code builds;
`FusionAssumption` says that a symbol match is also a match of the text, as `in` of Python
makes it, and that two similarities told apart are two hundredths apart, so that the halved
weights of the code keep their order in integers; `RerankAssumption` types questions and pool;
`JsAssumption` has finitely many names to export, and a re-export belongs to the file it is
written in and leads to a scanned one; `ScopeAssumption` types the symbols and the file under
study.

### RepoDeletionProofs: the job manager
- `Invariance`: `Spec => []IInv`. `AtMostOneIngest` is not inductive: a handler may
  start a thread because, steps earlier, it found no active row. `IInv` adds what
  carries that fact along: the lock is held exactly by the busy handler
  (`LockHeld`), the handler about to insert still sees no active row and every
  working thread stands behind an active row (`RowBehindWork`), two active rows
  never share a repository (`OneActiveRow`), threads exist only after an accepted
  request and an opened store (`ThreadAfterAccept`: without it the recovery of the
  first use would fail the row of a live thread), the row and the object agree at
  the end (`FinalStatus`), and the records precede the row (`RecordedFirst`).
- `TypeCorrectness`, `MutualExclusion` (`AtMostOneIngest`), `SuccessIsOnRecord`
  (`SuccessIsRecorded`) follow from `IInv`; `FinalRows` (`TerminalRowIsFinal`) is an
  action property proved from `IInv` in the pre-state.
- `FinalReports` (`ReportedEndIsFinal`) needs a second invariant, `Tracked`: a `JobInfo`
  is the object its thread shares and says queued until the thread sets it running. An
  end read from memory is kept because every later write to the object comes from a step
  that finds it queued or running; an end read from the table is kept by `FinalRows`, and
  nobody tracks such a job again.
- `ConflictsMeanIngests` (`ConflictMeansIngest`), for behaviours in which no call of the store
  fails, which are those of the run; `ConflictsAreEarned` says it step by step, for any
  behaviour up to its first failure. It needs a third invariant, `ActiveMeansWork`: in a process that has opened its
  store an active row has a handler about to start its thread, or a thread that ingests. A
  failing `update_job` breaks it in the code: the row stays active behind a thread that is gone.
- `Refinement`: `Spec => ImplementsSlots`. Each action maps to `Accept` (a committed
  insertion, or one that raised after it committed), `Run`, `Finish`, `AbortAll`
  (recovery) or a stutter. `OneActiveRow` makes the slot well defined, and
  `NoActiveJob` in `RowBehindWork` makes it free when a row is inserted.

### RepoDeletionProofs: deletions beside it
- `DeletionTypes`, `OngoingIngestsAreSafe` (`OngoingIngestBlocksDelete`) and `NothingIsLeft`
  (`DeletedMeansGone`) from `DeletionIInv`. The `IInv` of the job manager does not survive
  beside deletes: an orphan mark ends the row of a job whose thread has not begun. What does
  survive is stated per repository no delete was asked for: there a thread at work stands
  behind an active row and is registered (`ThreadBehindRow`). The only delete of a repository
  therefore lists every ingest it sees running, and until it decides it has found that ingest
  busy or still has to ask about it (`SeenFound`). What an undisturbed delete has passed stays
  empty (`PassedEmptied`), because an ingest that could write there would have disturbed it.

### RqIngestProofs
- `RqTypes` (`RqTypeOK`) holds whatever fails, restarts, crashes or expires.
- `OneActive` (`OneActiveRow`) and `OneIngest` (`AtMostOneIngest`) hold while `Undisturbed`:
  no store call failed, no replica restarted or built its store among workers, no lock expired under
  its holder, no delete was asked for. Worker crashes, abandoned jobs and retries are allowed.
  Each exception is a way the code really loses the property (section 3). In those
  behaviours, by `RqIInv`, the holder of the Redis lock is the handler between its check and
  its last write (`LockInRedis`), which is alone with its row (`AloneUnderLock`); a job has its row
  before its place in RQ (`RowAndEntry`) and is handed out once (`CarriedOnce`); and until a
  worker publishes an end the row stays active (`RowBehindWorker`).

### IncrementalIngestProofs
- `IngestTypes`, `Freshness` (`FreshIndex`) and `PlanKept` (`PlanIsKept`). The invariant
  says, stage by stage, which index is free of the planned files and which holds them (`IndexOfStage`, `SummaryOfStage`, `GraphOfStage`), that an incremental plan covers
  the difference between its base and the cloned commit (`PlanCovers`), and that what is
  outside of the plan is untouched (`OthersUntouched`). A failing stage leaves any part of what it
  does, so nothing is claimed of the indices after a failure; the next ingest that succeeds
  still leaves the files of its plan as they are in the commit.

### RecordsProofs
- `CatalogTypesHold` and `CatalogHolds` (`CatalogIsTrue`). Questions read the lexical rows,
  then the vectors, then the row, while an ingest and a delete take the stores in other
  orders; the invariant keeps, per question, what it has seen and whether anyone has come
  between (`Admission`, `KeptMeansThere`, `AloneMeansShrinking`), which models the vectors may be of at each
  stage of an ingest (`VectorsByStage`), and that a completed row has its pieces
  (`CompletedIsThere`).
- `ResetHolds` (`ResetIsTrue`), on `ResetIInv`: a store the reset has passed without a
  warning stays empty while nobody ingests (`EmptyOncePassed`), an ingest that is alive has
  its active row until the first reset (`AliveHasRow`), and the first reset that goes on
  has met no ingest (`FirstMetNone`).
- `CutoverHolds` (`CutoverIsTrue`), on `ReportIInv`: a table whose audit missed nothing keeps
  every row the audit saw, in the new table, in the open transaction or among the deleted
  (`KeepsWhatItSaw`); nothing stays uncommitted after the audit (`CopiedUntilCommit`); and the report
  is written once (`WrittenOnce`).

### ServiceProofs
- `SchemaHolds` (`SchemaIsTrue`), on `SchemaIInv`: a revision that was there is never
  stamped over and never goes back, so what a process found is a lower bound (`KnownIsKept`), also
  where a name does not fit the column and the migration is rolled back;
  and past the migration that drops the legacy tables nothing drops them again
  (`PastTheDrop`, `KeptForTheCutover`).
- `ClientsAreTruthful` (`ClientsTellTheTruth`), on `WatchersIInv`: the job the script polls is
  one it has posted, and stays so (`PollsItsOwn`); the window asks only while it watches
  nothing (`AsksUnwatched`); and, from step to step, the server forgets no job and takes no
  completion back (`TasksKept` in the proof module).
- `QueriesAreSound` (`QueryIsSound`, the part of `AnswersAreSound` about QueryFlow), on
  `QueryIInv`: a hybrid question passes every search, and behind each of them what matches is
  evidence, or what failed is on record (`SearchAccounted`). The stores may go down and come
  back between any two stages. An absence is told if it is true, if the graph failed, or with the
  reason that the budget of the listing was spent (`AbsencesAreExplained`).
- `LlmCallsAreSound` (`LlmIsSound`), on `LlmIInv`: the candidates a walk has left behind cannot
  answer on any interface, and each request it has come to says what the earlier ones have shown of the
  candidate (`WalkIsThorough`); a timeout was passed over once for each candidate
  (`TimeoutsPassed`).
- `CallsKeepToTheBudget` (`CallsStartInBudget`, the safety part of `EveryWaitEnds`): both calls
  start before the budget is spent, and allow a request less than a second more than is left.
- `LiteralAnswersAreSound` (`LiteralIsSound`), on `LiteralIInv`: a name that was tried could not
  be answered or its lookup failed (`PassedOver`). It needs that the selection among candidates
  has one member at most, from the cardinality of finite sets.
- `SourcesAreBalanced` (`BlockIsBalanced`): the scan of the lines, a fold over characters inside
  a fold over lines, is that of the text as one sequence, in which the first brace that
  brings the balance back to zero is the one that closes the first.
- `AnswersHold` (`AnswersAreSound`) and `ServiceTypes` (`QueryPathTypeOK`) put the parts
  together, for the composed `MCSpec`: the part that moves keeps its own invariant and the
  others stutter.
- `OutagesAreSeenInTime` (`AdmittedSoonAfterUp`, `RefusedSoonAfterDown`, the safety part of
  `OutagesAreNoticed`), on `HealthIInv`: what a probe has found was so within the age of its
  preflight (`ProbesAreRecent`), and what a report says was so within the time it was kept and
  the longest preflight (`ReportsAreRecent`), also when a slow preflight overwrites the report
  of a later one.

### IngestProofs
- `ClonesHold` (`ClonesAreSafe`): the files of a secret are there while git runs, and after
  the call only with a refusal or a dead process (`SecretsBesideGit`), and a request with sufficient access, while nothing fails, finds the place of its
  first clone empty and needs no second (`LetInAtOnce`).
- `MergesHold` (`MergesAreHonoured`): while nothing excuses a miss, the head of the branch is
  on its way as an event, asked for by the active job, or indexed (`NothingMissed`).
- `UpsertsAreExact` (`UpsertIsExact`), on `UpsertIInv`: what waits on the stack of halves
  follows what is stored without a gap (`SegmentsFollow`), what is counted as written is stored
  (`SentIsStored`), and a segment that was halved often is short, so that the depth runs out on single documents only
  (`DepthBoundsLength`). The proof shows that `Bytes`, `Bisect` and `Reach`, recursive functions
  over finite domains, exist and compute the size of a window, the largest batch within the
  budget and the powers of two. Each is an induction put as a smallest counterexample
  (`Smallest`, `Induction`), for sets in place of the predicates the provers cannot instantiate.
- `BranchTypes` (`BranchTypeOK`, in IncrementalIngestProofs): the types of the three parts in
  every behaviour of `MCBranchIngest`, from the invariants of each.

### RetrievalProofs
- `ClientsHealEverywhere` (`ClientsHeal`): a search over a complete and untouched index
  heals a stale client with its one retry. The invariant follows the search and the count
  through their steps (`SearchOnItsWay`, `CountOnItsWay`); `OnlyStaleClientMisleads` is
  stated for the client the check went through, since two readers of one process may
  replace it in between.
- `GraphHolds` (`GraphIsSound`): an edge is written after its ends (`NothingElse`), and an
  upsert nobody disturbed has written exactly its tree up to its stage (`WrittenUpTo`). The
  expansion of a symbol shows what one or two edges of the tree lead to, references that no
  symbol answers to included, and all of it after an undisturbed upsert.
- `VectorsHold` (`VectorsAreTrue`): the vectors of a call are those of the texts sent
  (`SentHasVectors`) and of one dimension (`OfTheCall`), for batches of any size.
- `ListingsHold` (`ListingsAreTrue`), on `InventoryIInv` and `DiscoveryIInv`. A caller nobody
  disturbed holds the pages before the one it asks for, as a prefix of the sorted list, and
  the query in progress holds what the answered aliases list (`CallerHolds`); a page cut out
  of a list and put behind its predecessors is a longer prefix. A page whose budget was spent
  adds nothing and says so (`CutShort`). The cached scope is the one of the spelling that was
  typed first. Of the cache of models:
  what is true now has no age (`PresentHasNoAge`), and a request knows of what it fetched or
  passed over that it was so since the request began (`TrueWithin`), so that the order in
  which requests store does not matter.
- `EvidenceHolds` (`EvidenceIsKept`), on `ContextIInv`: the loops of the expansion stay in their
  records (`LoopsStayInside`), an expansion without budgets takes the first record
  (`UnboundedTakesAll`). The rest is about operators: sums (`SumIs`), and that `Arranged`, the
  stable sort, is a bijection from the places it is given that respects the order
  (`ArrangedIs`, `BehindIs`), by counting the places in front of each.
- `FusionIsFair`, `RerankIsOrdered` and `RankingHolds` (`RankingIsFair`, whole, in the composed
  `MCSpec`), for every pool. `FusionIInv` knows the scores of a ranking as the fused ones;
  `RerankIInv` knows that a candidate with its penalty is not above any chunk taken before it
  (`TakenLead`). `DefinitionWins` compares what the rules of the reranker give two chunks, apart
  from the scores of the search: the definition a lookup prefers leads a chunk of another name
  that covers no more of the question by 0.88 at least. It says nothing of a private symbol of
  the same name, which a path of entry points may put first, nor of a chunk that covers more of
  the question; `DocsWinDocsQuestions` takes plain documents that the search scored no lower.
- `RetrievalTypes` (`RetrievalTypeOK`): the types of every part, in the composed `MCSpec`.

### NamesProofs
- `NamesResolve` (`NamesResolveSoundly`), in the composed `MCSpec`, on `NamesHold`.
  *Exports.* `JsIInv` adds to the soundness of the index that what a file declares is never
  lost, and that a re-export is put aside or done (`PassesBring`); that the two passes invent
  nothing rests on what a name can stand for: `ReachedAre` shows that `Reached`, a recursive
  function that follows re-exports as often as there are names, is the least set with the name
  that they do not leave, because each round that is not the last adds a name. `FlattenIs` says what
  `FlattenSeq` of the community modules holds.
  *Scopes.* Every resolver is a `Ladder`, and what is proved of ladders is used for each
  language: rules that only differ where no scope is asked keep an answer that a scope
  explains (`LadderStays`); rules that find one thing or nothing find it (`LadderPicks`); and rules
  that find the same symbols in two scans give the same answer (`LadderTurns`). In Swift the
  only symbol of a name goes before the types of the receivers, so that `SwiftStays` needs that
  a name shared by several symbols stays shared when one more comes (`StillNotUnique`). The
  order of the scan is an exchange of two neighbours (`Turn`), and so is what each rule finds
  (`Turns`): where no two symbols of a name share a file or a package, the last of them that
  an index keeps is the only one.

### Only model-checked
- Liveness, which with fairness and ENABLED is out of the prover's reach: `EveryJobEnds`,
  `DeleteAnswers`, `QueuedJobsEnd`, `HandlersAnswer`, `EveryWaitEnds`, and `OutageIsForgotten`
  in `OutagesAreNoticed`.

## 5. What the models leave out

- Progress, logs, diagnostics, error texts, timestamps, prompts, widgets, the wording
  of answers.
- An empty `INGESTION_RETRY_INTERVALS`, with which RQ would requeue at once.
- The expiry of the Redis lock under a live holder breaks the exclusion by design
  and is part of `rq_ingest_live` only.
- The text processing of scanner, chunker and extractors, of `api/literal_mode.py` and of
  the inventory explanations: patterns, tree-sitter walks, normalising of words. What
  they find is the input of the models. Two repositories whose names differ only in
  characters that are replaced share an identifier (`ingestion/git_client.py:47`): the
  models take identifiers as distinct.
- Of an expansion of the graph: modules as nodes two hops away, the seed that comes back
  through a second relation, and the LIMIT of the query.
- An entry without values in an answer of an embedding service: it counts as one of another
  dimension, which fails.
- Diagnostics of a ranking, and the explanations that repeat its features.
- The MCP server, settings, data classes and benchmarks: no state and no order of their
  own.
- External code is modelled from its use: PostgreSQL transactions, the merge of Neo4j,
  the size limit of Chroma, RQ, git, the embedding and LLM services.

Assumptions that narrow an input: `toRef.latestCommit` of a merge event is the head of
the branch; a question that names a model names one that the settings list; a full ingest
of RepoCatalog finds nothing or all pieces; one ingest at a time per repository in
IncrementalIngest, GraphStore and RepoCatalog, which is what JobManager proves; `git
clone` into a directory that could not be removed is given another name that is free.

## 6. Plan

Done, in the order of their weight: JobTable, JobManager, IngestSlots and their proofs;
RepoDeletion; RqIngest; IncrementalIngest; the modules of a repository's data; the way of
a question; the processes; then the proofs of section 4.

Every invariant of the runs is stated by a theorem now. What is left to prove, for every
value of the constants:

1. RqIngest: `ConflictMeansIngest` of that module, in behaviours without failing calls.
   `AtWork` counts a job RQ still holds as started or scheduled, also when its worker died.
