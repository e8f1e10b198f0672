------------------------------ MODULE RepoCatalog -----------------------------
(* What a question about a repository is admitted against, and where it leaves its
   mark: the row of the repository in the metadata store, beside its vectors and
   its lexical rows (storage/postgres_metadata_store.py, core/storage_health.py,
   the query endpoints of api/server.py).

   An ingest writes the three stores one after the other, a delete clears them in
   another order, and a question reads them in a third, each store in a
   transaction of its own. One repository; its ingests are serial (JobManager).
   The stale shared client of Chroma is in VectorClients, the graph is not needed
   to admit a question. *)
EXTENDS Integers, Sequences, FiniteSets

CONSTANTS
    Piece,          \* what is embedded: symbols, files, modules
    Model,          \* embedding models
    TrueDim,        \* model -> the length of its vectors
    KnownDim,       \* MODEL_DIMENSIONS: model -> its length, 0 if not listed
    DefaultModel,   \* of the settings
    Unnamed,        \* a request, or a row, that names no model
    Requested,      \* what ingests ask for
    Trees,          \* what a full ingest finds: sets of pieces
    NoModel,
    Question,
    Retention,      \* retention_limit, 50 in the code
    MaxIngests, MaxRemovals, MaxOutages   \* bounds

ASSUME CatalogAssumption ==
    /\ TrueDim \in [Model -> Nat \ {0}]
    /\ \A m \in Model : KnownDim[m] \in {0, TrueDim[m]}
    /\ DefaultModel \in Model /\ Unnamed \notin Model
    /\ NoModel \notin Model \union {Unnamed}
    /\ Requested \subseteq Model \union {Unnamed} /\ Trees \subseteq SUBSET Piece
    /\ Retention \in Nat \ {0}

VARIABLES
    vectors,      \* piece -> the model of its vector, or NoModel
    dimension,    \* of the collections, 0 until the first insertion
    corpusRows,   \* pieces with a lexical row
    repoRow,      \* the row of repos, or NoRow
    jobKnown,     \* a row of jobs names the repository
    aligned,      \* the collections were created with the configured distance
    snapshots, recorded,   \* those kept, and how many since the last delete
    run,          \* the ingest
    removal,      \* stage of DELETE /repos/{repo_id}
    asked,        \* the questions
    completed,    \* history: model of the last ingest, while nothing followed it
    blended,      \* history: a failed ingest, or one that changed the model of a part
    ingests, removals, outages

storeRows == <<vectors, dimension, corpusRows, aligned, repoRow, jobKnown, snapshots,
               recorded>>
catalogHistory == <<completed, blended>>
catalogBounds == <<ingests, removals, outages>>
catalogVars == <<storeRows, run, removal, asked, catalogHistory, catalogBounds>>

Named == Model \union {Unnamed}
Row == [model : Named \union {NoModel}, queried : BOOLEAN]
NoRow == [model |-> NoModel, queried |-> FALSE]
Resolved(m) == IF m = Unnamed THEN DefaultModel ELSE m
ListedModels == {m \in Model : KnownDim[m] # 0}   \* those questions name
HaveVectors == {p \in Piece : vectors[p] # NoModel}

RunRests == [pc |-> "idle", model |-> DefaultModel, full |-> TRUE, todo |-> {},
             alone |-> FALSE]
NotAsked == [pc |-> "idle", kind |-> "query", model |-> DefaultModel, row |-> NoRow,
             lexical |-> FALSE, vectors |-> FALSE, both |-> FALSE,
             calm |-> FALSE, alone |-> FALSE, kept |-> FALSE]

CatalogInit ==
    /\ vectors = [p \in Piece |-> NoModel]
    /\ dimension \in {0} \union {TrueDim[m] : m \in Model}   \* other repositories
    /\ aligned \in BOOLEAN                  \* CHROMA_HNSW_SPACE may have been another
    /\ corpusRows = {} /\ repoRow = NoRow /\ jobKnown = FALSE
    /\ snapshots = {} /\ recorded = 0
    /\ run = RunRests /\ removal = "idle" /\ asked = [q \in Question |-> NotAsked]
    /\ completed = NoModel /\ blended = FALSE
    /\ ingests = 0 /\ removals = 0 /\ outages = 0

Outage == outages < MaxOutages /\ outages' = outages + 1
Answers == UNCHANGED outages

(* Questions learn that the stores moved while they were asked. *)
Disturbed(flags) ==
    asked' = [q \in Question |->
                [asked[q] EXCEPT !.calm = IF "calm" \in flags THEN FALSE ELSE @,
                                 !.alone = IF "alone" \in flags THEN FALSE ELSE @,
                                 !.kept = IF "kept" \in flags THEN FALSE ELSE @]]

-----------------------------------------------------------------------------
(* An ingest, as far as these stores see it. Its job row names the repository from
   the start; the requested model goes to the row as it was named. *)
RunTo(stage) == run' = [run EXCEPT !.pc = stage]

BeginIngest(m, full, todo) ==
    /\ run.pc = "idle" /\ ingests < MaxIngests /\ ingests' = ingests + 1
    /\ full \/ (repoRow # NoRow /\ (HaveVectors # {} \/ corpusRows # {}))
    /\ run' = [pc |-> "purgeVectors", model |-> m, full |-> full, todo |-> todo,
               alone |-> removal = "idle"]
    /\ jobKnown' = TRUE /\ completed' = NoModel
    /\ Disturbed({"calm", "alone"})
    /\ UNCHANGED <<vectors, dimension, corpusRows, aligned, repoRow, snapshots, recorded,
                   removal, blended, removals, outages>>

(* A stage that raises fails the job; what it wrote so far stays. *)
IngestRaises ==
    /\ run.pc \in {"purgeVectors", "purgeCorpus", "vectors", "corpus", "runtime"}
    /\ \/ /\ Outage
          /\ \/ run.pc # "vectors" /\ UNCHANGED <<vectors, dimension>>
             \/ run.pc = "vectors" /\ \E some \in SUBSET run.todo :
                   LET m == Resolved(run.model)
                   IN  /\ some # {} => dimension \in {0, TrueDim[m]}
                       /\ vectors' = [p \in Piece |-> IF p \in some THEN m ELSE vectors[p]]
                       /\ dimension' = IF some # {} THEN TrueDim[m] ELSE dimension
       \/ /\ run.pc = "vectors" /\ run.todo # {}
          /\ dimension \notin {0, TrueDim[Resolved(run.model)]}   \* the collection refuses
          /\ Answers /\ UNCHANGED <<vectors, dimension>>
    /\ RunTo("failed") /\ blended' = TRUE
    /\ UNCHANGED <<corpusRows, aligned, repoRow, jobKnown, snapshots, recorded, removal, asked,
                   completed, ingests, removals>>

Replaced(p) == run.full \/ p \in run.todo

ClearVectors ==
    /\ run.pc = "purgeVectors" /\ RunTo("purgeCorpus")
    /\ vectors' = [p \in Piece |-> IF Replaced(p) THEN NoModel ELSE vectors[p]]
    /\ UNCHANGED <<corpusRows, dimension>>

ClearCorpus ==
    /\ run.pc = "purgeCorpus" /\ RunTo("vectors")
    /\ corpusRows' = {p \in corpusRows : ~Replaced(p)}
    /\ UNCHANGED <<vectors, dimension>>

WriteVectors ==
    LET m == Resolved(run.model)
    IN  /\ run.pc = "vectors" /\ RunTo("corpus")
        /\ run.todo # {} => dimension \in {0, TrueDim[m]}
        /\ vectors' = [p \in Piece |-> IF p \in run.todo THEN m ELSE vectors[p]]
        /\ dimension' = IF run.todo # {} THEN TrueDim[m] ELSE dimension
        /\ UNCHANGED corpusRows

WriteCorpus ==
    /\ run.pc = "corpus" /\ RunTo("runtime")
    /\ corpusRows' = corpusRows \union run.todo
    /\ UNCHANGED <<vectors, dimension>>

IngestWrites ==
    /\ ClearVectors \/ ClearCorpus \/ WriteVectors \/ WriteCorpus
    /\ UNCHANGED <<aligned, repoRow, jobKnown, snapshots, recorded, removal, asked,
                   catalogHistory, catalogBounds>>

(* upsert_repo_runtime: a new row was never queried, an old one keeps its mark and
   takes the model of this ingest. *)
Upserted(row, m) == [model |-> m, queried |-> row.queried]

RecordRuntime ==
    /\ run.pc = "runtime" /\ RunTo("readiness")
    /\ repoRow' = Upserted(repoRow, run.model)
    /\ blended' = (~run.full /\ (blended \/ Resolved(repoRow.model) # Resolved(run.model)))
    /\ UNCHANGED <<vectors, dimension, corpusRows, aligned, jobKnown, snapshots, recorded, removal,
                   asked, completed, catalogBounds>>

(* get_repo_query_status decides whether the job is completed; it is asked without
   the runtime row. A count that fails is no vectors, a failing check of the distance
   is passed. *)
IsReady(lexicalLoaded, hasDocs, fits) == lexicalLoaded /\ hasDocs /\ fits
SpaceChecked(fits) ==
    \/ fits = aligned /\ Answers
    \/ fits /\ Outage

IngestConcludes ==
    /\ run.pc = "readiness"
    /\ \/ \E fits \in BOOLEAN :
             /\ SpaceChecked(fits)
             /\ RunTo(IF IsReady(corpusRows # {}, HaveVectors # {}, fits)
                      THEN "completed" ELSE "partial")
       \/ Outage /\ \E stage \in {"partial", "failed"} : RunTo(stage)
    /\ UNCHANGED <<storeRows, removal, asked, catalogHistory, ingests, removals>>

(* record_ingest_snapshot: insert and prune to the newest in one transaction. *)
Kept(all, last) == {n \in all : n > last - Retention}

RecordSnapshot ==
    /\ run.pc \in {"completed", "partial", "failed"}
    /\ recorded' = recorded + 1
    /\ snapshots' = Kept(snapshots \union {recorded'}, recorded')
    /\ completed' = IF run.pc = "completed" /\ run.alone
                    THEN Resolved(run.model) ELSE NoModel
    /\ run' = RunRests
    /\ UNCHANGED <<vectors, dimension, corpusRows, aligned, repoRow, jobKnown, removal, asked,
                   blended, catalogBounds>>

-----------------------------------------------------------------------------
(* DELETE /repos/{repo_id}: starts beside no ingest, holds nothing off while it
   runs. A stage that fails is a warning; the three tables fail together. *)
NextStage == [vectors |-> "corpus", corpus |-> "snapshots", snapshots |-> "jobs",
              jobs |-> "row", row |-> "idle"]

InCatalog == jobKnown \/ repoRow # NoRow     \* list_repo_ids

BeginRemoval ==
    /\ removal = "idle" /\ run.pc = "idle" /\ InCatalog
    /\ removals < MaxRemovals /\ removals' = removals + 1
    /\ removal' = "vectors" /\ completed' = NoModel
    /\ Disturbed({"calm", "kept"})
    /\ UNCHANGED <<storeRows, run, blended, ingests, outages>>

RemovalFails ==
    /\ removal # "idle" /\ Outage
    /\ removal' = IF removal \in {"vectors", "corpus"} THEN NextStage[removal] ELSE "idle"
    /\ Disturbed({"alone"})
    /\ UNCHANGED <<storeRows, run, catalogHistory, ingests, removals>>

(* A question met by a removal has lost its mark with the row. *)
RemovalClears ==
    /\ removal # "idle" /\ removal' = NextStage[removal]
    /\ vectors' = IF removal = "vectors" THEN [p \in Piece |-> NoModel] ELSE vectors
    /\ corpusRows' = IF removal = "corpus" THEN {} ELSE corpusRows
    /\ snapshots' = IF removal = "snapshots" THEN {} ELSE snapshots
    /\ recorded' = IF removal = "snapshots" THEN 0 ELSE recorded
    /\ jobKnown' = (jobKnown /\ removal # "jobs")
    /\ repoRow' = IF removal = "row" THEN NoRow ELSE repoRow
    /\ Disturbed({"kept"})
    /\ UNCHANGED <<dimension, aligned, run, catalogHistory, catalogBounds>>

-----------------------------------------------------------------------------
(* A question: read the row, then the two stores, then decide. An inventory query
   goes straight to the mark. Each question is asked once. *)
Ask(q, kind, m) ==
    /\ asked[q].pc = "idle"
    /\ asked' = [asked EXCEPT ![q] =
         [pc |-> IF kind = "query" THEN "first" ELSE "admitted", kind |-> kind, model |-> m,
          row |-> repoRow, lexical |-> FALSE, vectors |-> FALSE, both |-> FALSE,
          calm |-> TRUE, alone |-> run.pc = "idle" /\ removal = "idle",
          kept |-> removal = "idle"]]
    /\ UNCHANGED <<storeRows, run, removal, catalogHistory, catalogBounds>>

(* The gate of a question looks for lexical rows first: a failure is a 500. *)
ReadLexical(q) ==
    /\ asked[q].pc = "first"
    /\ \/ /\ Answers
          /\ asked' = [asked EXCEPT ![q].lexical = corpusRows # {}, ![q].pc = "second"]
       \/ Outage /\ asked' = [asked EXCEPT ![q] = NotAsked]
    /\ UNCHANGED <<storeRows, run, removal, catalogHistory, ingests, removals>>

(* Then for vectors: a failure counts as none. Both: the stores are really filled. *)
ReadVectors(q) ==
    /\ asked[q].pc = "second"
    /\ \/ /\ Answers
          /\ asked' = [asked EXCEPT ![q].vectors = HaveVectors # {}, ![q].pc = "decide",
                         ![q].both = corpusRows # {} /\ HaveVectors # {}]
       \/ Outage /\ asked' = [asked EXCEPT ![q].pc = "decide", ![q].calm = FALSE]
    /\ UNCHANGED <<storeRows, run, removal, catalogHistory, ingests, removals>>

(* Mutant: a row is compared with the default model. *)
CompatibleByDefault(row, m) == KnownDim[DefaultModel] = KnownDim[Resolved(m)]

(* evaluate_embedding_compatibility is False only when both lengths are known. *)
Compatible(row, m) ==
    \/ row = NoRow
    \/ row.model = Unnamed
    \/ 0 \in {KnownDim[row.model], KnownDim[Resolved(m)]}
    \/ KnownDim[row.model] = KnownDim[Resolved(m)]

(* The distance is looked at last; it stays what it is, so that it may be now. *)
Decide(q) ==
    /\ asked[q].pc = "decide"
    /\ \E fits \in BOOLEAN :
          /\ SpaceChecked(fits)
          /\ LET ready == IsReady(asked[q].lexical, asked[q].vectors, fits)
                          /\ Compatible(asked[q].row, asked[q].model)
             IN  asked' = [asked EXCEPT ![q].pc = IF ready THEN "admitted" ELSE "refused"]
    /\ UNCHANGED <<storeRows, run, removal, catalogHistory, ingests, removals>>

(* touch_repo_last_queried_at updates no row when there is none. *)
Mark(q) ==
    /\ asked[q].pc = "admitted"
    /\ asked' = [asked EXCEPT ![q].pc = "served"]
    /\ repoRow' = IF repoRow = NoRow THEN NoRow ELSE [repoRow EXCEPT !.queried = TRUE]
    /\ UNCHANGED <<vectors, dimension, corpusRows, aligned, jobKnown, snapshots, recorded, run,
                   removal, catalogHistory, catalogBounds>>

CatalogNext ==
    \/ \E m \in Requested : \/ \E todo \in Trees : BeginIngest(m, TRUE, todo)
                            \/ \E todo \in SUBSET Piece : BeginIngest(m, FALSE, todo)
    \/ IngestRaises \/ IngestWrites \/ RecordRuntime \/ IngestConcludes \/ RecordSnapshot
    \/ BeginRemoval \/ RemovalFails \/ RemovalClears
    \/ \E q \in Question, m \in ListedModels : Ask(q, "query", m)
    \/ \E q \in Question : Ask(q, "inventory", DefaultModel)
    \/ \E q \in Question : ReadLexical(q) \/ ReadVectors(q) \/ Decide(q) \/ Mark(q)

CatalogSpec == CatalogInit /\ [][CatalogNext]_catalogVars

-----------------------------------------------------------------------------
Asked == [pc : {"idle", "first", "second", "decide", "admitted", "refused", "served"},
          kind : {"query", "inventory"}, model : Named, row : Row,
          lexical : BOOLEAN, vectors : BOOLEAN, both : BOOLEAN,
          calm : BOOLEAN, alone : BOOLEAN, kept : BOOLEAN]

(* Every variable keeps its type. *)
CatalogTypeOK ==
    /\ vectors \in [Piece -> Model \union {NoModel}] /\ dimension \in Nat
    /\ corpusRows \subseteq Piece /\ aligned \in BOOLEAN
    /\ repoRow \in Row
    /\ snapshots \subseteq 1..recorded
    /\ removal \in DOMAIN NextStage \union {"idle"}
    /\ run.todo \subseteq Piece
    /\ asked \in [Question -> Asked]
    /\ completed \in Model \union {NoModel}

(* A question admitted beside no ingest found the two stores filled at one moment,
   though it read them at two and a delete may have run between: it reads the
   lexical rows before the vectors, and the delete clears them the other way. *)
ReadyMeansBoth ==
    \A q \in Question :
        asked[q].kind = "query" /\ asked[q].pc \in {"admitted", "served"} /\ asked[q].alone
            => asked[q].both

(* A question served beside no ingest has the length of the vectors it searches,
   when both models are listed and the last ingest left one model behind. *)
DimensionFits ==
    \A q \in Question : LET a == asked[q] IN
        /\ a.kind = "query" /\ a.pc = "served" /\ a.alone /\ ~blended
        /\ a.row.model \in Model /\ KnownDim[a.row.model] # 0 /\ KnownDim[Resolved(a.model)] # 0
        => \A p \in HaveVectors : TrueDim[vectors[p]] = TrueDim[Resolved(a.model)]

(* Between ingests the row names the model of every vector, unless an ingest failed
   or re-embedded only a part with another model. *)
RowNamesTheVectors ==
    run.pc = "idle" /\ ~blended /\ repoRow # NoRow
        => \A p \in HaveVectors : vectors[p] = Resolved(repoRow.model)

(* After an ingest reported as completed, and until something else happens to the
   repository, a question that names its model is not refused, while the collections
   have the distance of the settings. *)
CompletedIsAdmitted ==
    aligned => \A q \in Question :
        asked[q].pc = "refused" /\ asked[q].calm /\ asked[q].alone /\ asked[q].kept
            => Resolved(asked[q].model) # completed

(* A question served on a repository whose row it saw, and that was not deleted
   since, keeps it off the list of stale repositories, re-ingests included. *)
ServedIsNotStale ==
    \A q \in Question :
        asked[q].pc = "served" /\ asked[q].row # NoRow /\ asked[q].kept /\ repoRow # NoRow
            => repoRow.queried

(* The history holds the newest snapshots since the last delete, as many as it may. *)
HistoryIsTheLatest == snapshots = {n \in 1..recorded : n > recorded - Retention}

(* Not so: whatever the settings. An ingest whose check of the distance fails completes
   over collections of another one, and every question after it is refused. *)
CompletedIsAdmittedAnyway ==
    \A q \in Question :
        asked[q].pc = "refused" /\ asked[q].calm /\ asked[q].alone /\ asked[q].kept
            => Resolved(asked[q].model) # completed

(* Not so: a question served on a repository has met its model. Another model of the
   same length is admitted. *)
ModelFits ==
    \A q \in Question :
        asked[q].kind = "query" /\ asked[q].pc = "served" /\ asked[q].alone /\ ~blended
            => \A p \in HaveVectors : vectors[p] = Resolved(asked[q].model)

(* Not so: a repository that served a question is no longer listed as never queried.
   During its first ingest there is no row to mark. *)
ServedIsMarked ==
    \A q \in Question :
        asked[q].pc = "served" /\ asked[q].kept /\ repoRow # NoRow => repoRow.queried

(* Not so: the vectors of a repository are of one model. *)
OneModel == \A p, o \in HaveVectors : vectors[p] = vectors[o]

(* What the tables say of a repository is so: both stores were read as ready, its
   vectors have the length and the model of its row, what completed is admitted,
   and neither the mark of a question nor the latest snapshot is lost. *)
CatalogIsTrue ==
    /\ ReadyMeansBoth /\ DimensionFits /\ RowNamesTheVectors
    /\ CompletedIsAdmitted /\ ServedIsNotStale /\ HistoryIsTheLatest

-----------------------------------------------------------------------------
(* Why it is so: the inductive invariant. It says stage by stage what an ingest has
   made of the stores, and what each question may still rely on of what it read. *)
Runs == [pc : {"idle", "purgeVectors", "purgeCorpus", "vectors", "corpus", "runtime",
               "readiness", "completed", "partial", "failed"},
         model : Named, full : BOOLEAN, todo : SUBSET Piece, alone : BOOLEAN]

(* The type of every variable, a row that is there naming a model or leaving it open. *)
CatalogTypes ==
    /\ CatalogTypeOK
    /\ run \in Runs /\ recorded \in Nat /\ jobKnown \in BOOLEAN /\ blended \in BOOLEAN
    /\ repoRow # NoRow => repoRow.model \in Named
    /\ \A q \in Question : asked[q].row # NoRow => asked[q].row.model \in Named

AllAre(models) == \A p \in HaveVectors : vectors[p] \in models

(* What is left of the vectors while an ingest replaces them: a full one starts from
   none, another adds to those of the model that the row names. *)
VectorsByStage ==
    /\ run.full /\ run.pc \in {"purgeCorpus", "vectors"} => HaveVectors = {}
    /\ run.full /\ run.pc \in {"corpus", "runtime"} => AllAre({Resolved(run.model)})
    /\ ~blended /\ repoRow # NoRow /\ (run.full => run.pc \notin {"purgeVectors",
          "purgeCorpus", "vectors", "corpus", "runtime"}) =>
        AllAre({Resolved(repoRow.model)}
                 \union IF run.pc \in {"corpus", "runtime"} THEN {Resolved(run.model)} ELSE {})

(* An ingest that no delete was there to meet finds the row it has written, and the
   one that completed has left both stores filled, until something else begins. *)
CompletedIsThere ==
    /\ run.alone => removal = "idle" /\ run.pc # "idle"
    /\ run.alone /\ run.pc \in {"readiness", "completed"}
          => repoRow # NoRow /\ repoRow.model = run.model
    /\ run.alone /\ run.pc = "completed" => corpusRows # {} /\ HaveVectors # {}
    /\ completed # NoModel =>
         /\ run.pc = "idle" /\ removal = "idle"
         /\ corpusRows # {} /\ HaveVectors # {}
         /\ repoRow # NoRow /\ Resolved(repoRow.model) = completed

(* While a question is alone nothing is added to the stores, and a delete empties the
   vectors before the lexical rows. *)
AloneMeansShrinking ==
    \A q \in Question : LET a == asked[q] IN
        a.alone =>
        /\ run.pc = "idle" /\ (removal = "corpus" => HaveVectors = {})
        /\ a.pc = "second" /\ a.lexical => corpusRows # {} \/ HaveVectors = {}
        /\ a.pc = "decide" /\ a.lexical /\ a.vectors => a.both
        /\ ~blended /\ a.row # NoRow => AllAre({Resolved(a.row.model)})

(* While no delete begins the row it has read is there, marked once it is served; and
   while nothing begins everything is as it was read. *)
KeptMeansThere ==
    \A q \in Question : LET a == asked[q] IN
        a.kept =>
        /\ removal = "idle"
        /\ a.row # NoRow => repoRow # NoRow /\ (a.pc = "served" => repoRow.queried)
        /\ a.alone => (a.row = NoRow <=> repoRow = NoRow) /\ a.row.model = repoRow.model
        /\ a.alone /\ a.calm /\ a.pc \in {"second", "decide"}
              => a.lexical = (corpusRows # {})
        /\ a.alone /\ a.calm /\ a.pc = "decide" => a.vectors = (HaveVectors # {})

(* The vectors are looked at second; who is let in is compatible with the row. *)
Admission ==
    \A q \in Question : LET a == asked[q] IN
        /\ a.pc \in {"first", "second"} => ~a.vectors
        /\ a.kind = "query" /\ a.pc \in {"admitted", "served"} => Compatible(a.row, a.model)

CatalogIInv ==
    /\ CatalogTypes /\ VectorsByStage /\ CompletedIsThere /\ HistoryIsTheLatest
    /\ AloneMeansShrinking /\ KeptMeansThere /\ Admission
    /\ ReadyMeansBoth /\ CompletedIsAdmitted
=============================================================================
