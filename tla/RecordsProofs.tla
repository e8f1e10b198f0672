----------------------------- MODULE RecordsProofs -----------------------------
(* Theorems about what is on record of a repository, for every value of the constants
   and every bound: RepoCatalog, for any models, pieces, requests and retention;
   AdminReset, for any ingests and repositories; and CutoverReport, for any list of
   tables and finite set of rows. The invariants are those of the three modules. *)
EXTENDS RepoCatalog, AdminReset, CutoverReport, FiniteSetTheorems, TLAPS

(* What the questions lose when a store moves, and what they keep. *)
LEMMA DisturbedAre ==
  ASSUME asked \in [Question -> Asked], NEW flags, Disturbed(flags)
  PROVE  /\ asked' \in [Question -> Asked]
         /\ \A q \in Question :
              /\ asked'[q].pc = asked[q].pc /\ asked'[q].kind = asked[q].kind
              /\ asked'[q].model = asked[q].model /\ asked'[q].row = asked[q].row
              /\ asked'[q].lexical = asked[q].lexical
              /\ asked'[q].vectors = asked[q].vectors /\ asked'[q].both = asked[q].both
              /\ asked'[q].calm = IF "calm" \in flags THEN FALSE ELSE asked[q].calm
              /\ asked'[q].alone = IF "alone" \in flags THEN FALSE ELSE asked[q].alone
              /\ asked'[q].kept = IF "kept" \in flags THEN FALSE ELSE asked[q].kept
  <1> DEFINE After(a) == [a EXCEPT !.calm = IF "calm" \in flags THEN FALSE ELSE @,
                                   !.alone = IF "alone" \in flags THEN FALSE ELSE @,
                                   !.kept = IF "kept" \in flags THEN FALSE ELSE @]
  <1>1. asked' = [q \in Question |-> After(asked[q])]
    BY DEF Disturbed
  <1>2. ASSUME NEW a \in Asked
        PROVE  After(a) \in Asked
    BY DEF Asked
  <1>3. ASSUME NEW a \in Asked
        PROVE  /\ After(a).pc = a.pc /\ After(a).kind = a.kind /\ After(a).model = a.model
               /\ After(a).row = a.row /\ After(a).lexical = a.lexical
               /\ After(a).vectors = a.vectors /\ After(a).both = a.both
               /\ After(a).calm = IF "calm" \in flags THEN FALSE ELSE a.calm
               /\ After(a).alone = IF "alone" \in flags THEN FALSE ELSE a.alone
               /\ After(a).kept = IF "kept" \in flags THEN FALSE ELSE a.kept
    BY DEF Asked
  <1> HIDE DEF After
  <1> QED BY <1>1, <1>2, <1>3

(* A question that takes a step, field by field. *)
LEMMA OneAsked ==
  ASSUME asked \in [Question -> Asked], NEW q \in Question, NEW a \in Asked,
         asked' = [asked EXCEPT ![q] = a]
  PROVE  /\ asked' \in [Question -> Asked] /\ asked'[q] = a
         /\ \A o \in Question \ {q} : asked'[o] = asked[o]
  OBVIOUS

(* Every model a request or a row names is resolved to a model. *)
LEMMA ResolvedIsModel ==
  ASSUME NEW m \in Named
  PROVE  Resolved(m) \in Model /\ Resolved(m) # NoModel
  BY CatalogAssumption DEF Named, Resolved

(* The models of requests, the listed ones and the default are names; no model is none. *)
LEMMA RequestsAreNamed == Requested \subseteq Named /\ ListedModels \subseteq Named
                          /\ DefaultModel \in Named /\ NoModel \notin Named
  BY CatalogAssumption DEF Named, ListedModels

-----------------------------------------------------------------------------
(* The initial state. *)
LEMMA CatalogInitIInv ==
  ASSUME CatalogInit
  PROVE  CatalogIInv
  <1> USE CatalogAssumption
  <1>1. NotAsked \in Asked /\ NoRow \in Row
    BY DEF NotAsked, Asked, NoRow, Row, Named
  <1>2. RunRests \in Runs
    BY DEF RunRests, Runs, Named
  <1>3. HaveVectors = {} /\ run.pc = "idle" /\ ~run.alone
    BY DEF CatalogInit, HaveVectors, RunRests
  <1>4. \A q \in Question : asked[q] = NotAsked
    BY DEF CatalogInit
  <1>5. ~NotAsked.alone /\ ~NotAsked.kept /\ NotAsked.pc = "idle" /\ NotAsked.row = NoRow
    BY DEF NotAsked
  <1>6. CatalogTypes
    <2>1. dimension \in Nat
      BY DEF CatalogInit
    <2>2. \A q \in Question : asked[q].row = NoRow
      BY <1>4, <1>5
    <2>3. snapshots \subseteq 1..recorded /\ recorded \in Nat
      BY DEF CatalogInit
    <2>4. asked \in [Question -> Asked]
      BY <1>1 DEF CatalogInit
    <2>5. /\ vectors \in [Piece -> Model \union {NoModel}] /\ completed \in Model \union {NoModel}
          /\ corpusRows \subseteq Piece /\ repoRow = NoRow /\ run.todo \subseteq Piece
          /\ jobKnown \in BOOLEAN /\ blended \in BOOLEAN /\ aligned \in BOOLEAN
          /\ removal \in DOMAIN NextStage \union {"idle"}
      BY DEF CatalogInit, RunRests
    <2>6. run \in Runs
      BY <1>2 DEF CatalogInit
    <2> QED BY <1>1, <2>1, <2>2, <2>3, <2>4, <2>5, <2>6 DEF CatalogTypes, CatalogTypeOK
  <1>7. VectorsByStage
    BY <1>3 DEF CatalogInit, VectorsByStage
  <1>8. CompletedIsThere
    BY <1>3 DEF CatalogInit, CompletedIsThere
  <1>9. HistoryIsTheLatest
    BY DEF CatalogInit, HistoryIsTheLatest
  <1>10. AloneMeansShrinking /\ KeptMeansThere
    BY <1>4, <1>5 DEF AloneMeansShrinking, KeptMeansThere
  <1>11. Admission /\ ReadyMeansBoth /\ CompletedIsAdmitted
    BY <1>4, <1>5 DEF Admission, ReadyMeansBoth, CompletedIsAdmitted
  <1> QED BY <1>6, <1>7, <1>8, <1>9, <1>10, <1>11 DEF CatalogIInv

-----------------------------------------------------------------------------
(* While an ingest runs no question is alone, and the row is there once it was: what
   the questions may rely on stays, whatever the ingest writes. *)
LEMMA QuestionsDuringIngest ==
  ASSUME CatalogIInv, run.pc # "idle", UNCHANGED <<asked, removal>>,
         repoRow' = repoRow \/ (repoRow' # NoRow /\ repoRow'.queried = repoRow.queried)
  PROVE  /\ AloneMeansShrinking' /\ KeptMeansThere' /\ Admission'
         /\ ReadyMeansBoth' /\ CompletedIsAdmitted'
  <1>1. \A q \in Question : ~asked[q].alone
    BY DEF CatalogIInv, AloneMeansShrinking
  <1>2. AloneMeansShrinking' /\ ReadyMeansBoth' /\ CompletedIsAdmitted'
    BY <1>1 DEF AloneMeansShrinking, ReadyMeansBoth, CompletedIsAdmitted
  <1>3. Admission'
    BY DEF CatalogIInv, Admission, Compatible
  <1>4. KeptMeansThere'
    BY <1>1 DEF CatalogIInv, KeptMeansThere
  <1> QED BY <1>2, <1>3, <1>4

(* An ingest is accepted: every question has a neighbour from now on. *)
LEMMA BeginIngestKeeps ==
  ASSUME CatalogIInv, NEW m \in Requested, NEW full \in BOOLEAN, NEW todo \in SUBSET Piece,
         BeginIngest(m, full, todo)
  PROVE  CatalogIInv'
  <1>0. CatalogTypes
    BY DEF CatalogIInv
  <1>1. /\ asked' \in [Question -> Asked]
        /\ \A q \in Question :
             /\ asked'[q].pc = asked[q].pc /\ asked'[q].kind = asked[q].kind
             /\ asked'[q].model = asked[q].model /\ asked'[q].row = asked[q].row
             /\ asked'[q].lexical = asked[q].lexical
             /\ asked'[q].vectors = asked[q].vectors /\ asked'[q].both = asked[q].both
             /\ asked'[q].calm = FALSE /\ asked'[q].alone = FALSE
             /\ asked'[q].kept = asked[q].kept
    <2>1. PICK flags : flags = {"calm", "alone"} /\ Disturbed(flags)
      BY DEF BeginIngest
    <2>2. asked \in [Question -> Asked]
      BY <1>0 DEF CatalogTypes, CatalogTypeOK
    <2>3. "calm" \in flags /\ "alone" \in flags /\ "kept" \notin flags
      BY <2>1
    <2>4. /\ asked' \in [Question -> Asked]
          /\ \A q \in Question :
             /\ asked'[q].pc = asked[q].pc /\ asked'[q].kind = asked[q].kind
             /\ asked'[q].model = asked[q].model /\ asked'[q].row = asked[q].row
             /\ asked'[q].lexical = asked[q].lexical
             /\ asked'[q].vectors = asked[q].vectors /\ asked'[q].both = asked[q].both
             /\ asked'[q].calm = IF "calm" \in flags THEN FALSE ELSE asked[q].calm
             /\ asked'[q].alone = IF "alone" \in flags THEN FALSE ELSE asked[q].alone
             /\ asked'[q].kept = IF "kept" \in flags THEN FALSE ELSE asked[q].kept
      BY <2>1, <2>2, DisturbedAre, ZenonT(60)
    <2> QED BY <2>3, <2>4
  <1>2. /\ run' \in Runs /\ run'.pc = "purgeVectors" /\ run'.full = full
        /\ run'.alone = (removal = "idle")
    <2>1. run' = [pc |-> "purgeVectors", model |-> m, full |-> full, todo |-> todo,
                  alone |-> removal = "idle"]
      BY DEF BeginIngest
    <2>2. m \in Named
      BY RequestsAreNamed
    <2>3. ASSUME NEW lone \in BOOLEAN
          PROVE  [pc |-> "purgeVectors", model |-> m, full |-> full, todo |-> todo,
                  alone |-> lone] \in Runs
      BY <2>2 DEF Runs
    <2>4. (removal = "idle") \in BOOLEAN
      OBVIOUS
    <2>5. run' \in Runs
      BY <2>1, <2>3, <2>4
    <2> QED BY <2>1, <2>5
  <1>3. run.pc = "idle"
    BY DEF BeginIngest
  <1>4. CatalogTypes'
    BY <1>0, <1>1, <1>2 DEF BeginIngest, CatalogTypes, CatalogTypeOK
  <1>5. VectorsByStage'
    BY <1>2, <1>3 DEF CatalogIInv, VectorsByStage, BeginIngest, AllAre, HaveVectors
  <1>6. CompletedIsThere'
    BY <1>2 DEF CompletedIsThere, BeginIngest
  <1>7. HistoryIsTheLatest'
    BY DEF CatalogIInv, HistoryIsTheLatest, BeginIngest
  <1>8. AloneMeansShrinking' /\ ReadyMeansBoth' /\ CompletedIsAdmitted'
    BY <1>1 DEF AloneMeansShrinking, ReadyMeansBoth, CompletedIsAdmitted
  <1>9. KeptMeansThere'
    BY <1>1 DEF CatalogIInv, KeptMeansThere, BeginIngest
  <1>10. Admission'
    BY <1>1 DEF CatalogIInv, Admission, Compatible
  <1> QED BY <1>4, <1>5, <1>6, <1>7, <1>8, <1>9, <1>10 DEF CatalogIInv

(* The parts that speak of the ingest and its stores when only an ingest moves. *)
LEMMA IngestRaisesKeeps ==
  ASSUME CatalogIInv, IngestRaises
  PROVE  CatalogIInv'
  <1>0. CatalogTypes
    BY DEF CatalogIInv
  <1>1. /\ run.pc # "idle" /\ UNCHANGED <<asked, removal, repoRow, corpusRows, completed, aligned>>
        /\ UNCHANGED <<snapshots, recorded, jobKnown>> /\ blended' = TRUE
        /\ run' = [run EXCEPT !.pc = "failed"]
    BY DEF IngestRaises, RunTo
  <1>2. /\ run' \in Runs /\ run'.pc = "failed" /\ run'.alone = run.alone
        /\ run'.todo = run.todo
    BY <1>0, <1>1 DEF CatalogTypes, Runs
  <1>3. vectors' \in [Piece -> Model \union {NoModel}] /\ dimension' \in Nat
    <2>1. Resolved(run.model) \in Model
      BY <1>0, ResolvedIsModel DEF CatalogTypes, Runs
    <2>2. TrueDim[Resolved(run.model)] \in Nat
      BY <2>1, CatalogAssumption
    <2>3. vectors \in [Piece -> Model \union {NoModel}] /\ dimension \in Nat
      BY <1>0 DEF CatalogTypes, CatalogTypeOK
    <2> QED BY <2>1, <2>2, <2>3 DEF IngestRaises
  <1>4. CatalogTypes'
    BY <1>0, <1>1, <1>2, <1>3 DEF CatalogTypes, CatalogTypeOK
  <1>5. VectorsByStage'
    BY <1>1, <1>2 DEF VectorsByStage
  <1>6. CompletedIsThere'
    BY <1>1, <1>2 DEF CatalogIInv, CompletedIsThere
  <1>7. HistoryIsTheLatest'
    BY <1>1 DEF CatalogIInv, HistoryIsTheLatest
  <1> QED BY <1>1, <1>4, <1>5, <1>6, <1>7, QuestionsDuringIngest DEF CatalogIInv

(* The four writes of an ingest. *)
LEMMA IngestWritesKeep ==
  ASSUME CatalogIInv, IngestWrites
  PROVE  CatalogIInv'
  <1> DEFINE mine == Resolved(run.model)
  <1>0. CatalogTypes
    BY DEF CatalogIInv
  <1>1. /\ run.pc \in {"purgeVectors", "purgeCorpus", "vectors", "corpus"}
        /\ UNCHANGED <<asked, removal, repoRow, completed, blended>>
        /\ UNCHANGED <<snapshots, recorded, jobKnown, aligned>>
    BY DEF IngestWrites, ClearVectors, ClearCorpus, WriteVectors, WriteCorpus,
           catalogHistory
  <1>2. /\ vectors \in [Piece -> Model \union {NoModel}] /\ dimension \in Nat
        /\ corpusRows \subseteq Piece /\ run \in Runs
    BY <1>0 DEF CatalogTypes, CatalogTypeOK
  <1>3. mine \in Model /\ TrueDim[mine] \in Nat /\ run.todo \subseteq Piece
    BY <1>2, ResolvedIsModel, CatalogAssumption DEF Runs
  <1> HIDE DEF mine
  <1>4. ASSUME NEW next \in {"purgeCorpus", "vectors", "corpus", "runtime"}, RunTo(next)
        PROVE  /\ run' \in Runs /\ run'.pc = next /\ run'.alone = run.alone
               /\ run'.full = run.full /\ run'.model = run.model /\ run'.todo = run.todo
    BY <1>2, <1>4 DEF RunTo, Runs
  <1>5. completed = NoModel
    BY <1>1 DEF CatalogIInv, CompletedIsThere
  <1>6. /\ run' \in Runs /\ run'.pc \in {"purgeCorpus", "vectors", "corpus", "runtime"}
        /\ run'.alone = run.alone /\ run'.full = run.full /\ run'.model = run.model
        /\ run'.todo = run.todo
    BY <1>4 DEF IngestWrites, ClearVectors, ClearCorpus, WriteVectors, WriteCorpus
  <1>7. /\ vectors' \in [Piece -> Model \union {NoModel}] /\ dimension' \in Nat
        /\ corpusRows' \subseteq Piece
    <2>1. CASE ClearVectors
      BY <1>2, <2>1 DEF ClearVectors
    <2>2. CASE ClearCorpus
      BY <1>2, <2>2 DEF ClearCorpus
    <2>3. CASE WriteVectors
      BY <1>2, <1>3, <2>3 DEF WriteVectors, mine
    <2>4. CASE WriteCorpus
      BY <1>2, <1>3, <2>4 DEF WriteCorpus
    <2> QED BY <2>1, <2>2, <2>3, <2>4 DEF IngestWrites
  <1>8. CatalogTypes'
    BY <1>0, <1>1, <1>6, <1>7 DEF CatalogTypes, CatalogTypeOK
  <1>9. VectorsByStage'
    <2>0. VectorsByStage
      BY DEF CatalogIInv
    <2>1. CASE ClearVectors
      <3>1. run.pc = "purgeVectors" /\ run'.pc = "purgeCorpus"
        BY <1>4, <2>1 DEF ClearVectors
      <3>2. \A p \in Piece : vectors'[p] = IF run.full \/ p \in run.todo THEN NoModel
                                           ELSE vectors[p]
        BY <2>1 DEF ClearVectors, Replaced
      <3> QED BY <1>1, <1>6, <2>0, <3>1, <3>2 DEF VectorsByStage, AllAre, HaveVectors
    <2>2. CASE ClearCorpus
      <3>1. run.pc = "purgeCorpus" /\ run'.pc = "vectors" /\ vectors' = vectors
        BY <1>4, <2>2 DEF ClearCorpus
      <3> QED BY <1>1, <1>6, <2>0, <3>1 DEF VectorsByStage, AllAre, HaveVectors
    <2>3. CASE WriteVectors
      <3>1. run.pc = "vectors" /\ run'.pc = "corpus"
        BY <1>4, <2>3 DEF WriteVectors
      <3>2. \A p \in Piece : vectors'[p] = IF p \in run.todo THEN mine ELSE vectors[p]
        BY <2>3 DEF WriteVectors, mine
      <3>3. Resolved(run'.model) = mine
        BY <1>6 DEF mine
      <3> QED BY <1>1, <1>6, <2>0, <3>1, <3>2, <3>3 DEF VectorsByStage, AllAre, HaveVectors
    <2>4. CASE WriteCorpus
      <3>1. run.pc = "corpus" /\ run'.pc = "runtime" /\ vectors' = vectors
        BY <1>4, <2>4 DEF WriteCorpus
      <3> QED BY <1>1, <1>6, <2>0, <3>1 DEF VectorsByStage, AllAre, HaveVectors
    <2> QED BY <2>1, <2>2, <2>3, <2>4 DEF IngestWrites
  <1>10. CompletedIsThere'
    BY <1>1, <1>5, <1>6 DEF CatalogIInv, CompletedIsThere
  <1>11. HistoryIsTheLatest'
    BY <1>1 DEF CatalogIInv, HistoryIsTheLatest
  <1> QED BY <1>1, <1>8, <1>9, <1>10, <1>11, QuestionsDuringIngest DEF CatalogIInv

(* The row of the repository takes the model of the ingest. *)
LEMMA RecordRuntimeKeeps ==
  ASSUME CatalogIInv, RecordRuntime
  PROVE  CatalogIInv'
  <1> DEFINE mine == Resolved(run.model)
             named == Resolved(repoRow.model)
  <1>0. CatalogTypes
    BY DEF CatalogIInv
  <1>1. /\ run.pc = "runtime" /\ UNCHANGED <<asked, removal, completed, vectors, dimension>>
        /\ UNCHANGED <<corpusRows, snapshots, recorded, jobKnown, aligned>>
        /\ run' = [run EXCEPT !.pc = "readiness"]
        /\ repoRow' = [model |-> run.model, queried |-> repoRow.queried]
        /\ blended' = (~run.full /\ (blended \/ named # mine))
    BY DEF RecordRuntime, RunTo, Upserted
  <1>2. /\ run.model \in Named /\ run \in Runs /\ repoRow \in Row /\ blended \in BOOLEAN
    BY <1>0 DEF CatalogTypes, CatalogTypeOK, Runs
  <1>3. /\ run' \in Runs /\ run'.pc = "readiness" /\ run'.alone = run.alone
        /\ run'.todo = run.todo /\ run'.full = run.full /\ run'.model = run.model
    BY <1>1, <1>2 DEF Runs
  <1>4. /\ repoRow' \in Row /\ repoRow'.model = run.model
        /\ repoRow'.queried = repoRow.queried /\ repoRow' # NoRow
    BY <1>1, <1>2, RequestsAreNamed DEF Row, NoRow
  <1>5. mine \in Model /\ Resolved(repoRow'.model) = mine
    BY <1>2, <1>4, ResolvedIsModel
  <1>6. CatalogTypes'
    <2>1. blended' \in BOOLEAN
      BY <1>1
    <2> QED BY <1>0, <1>1, <1>2, <1>3, <1>4, <2>1 DEF CatalogTypes, CatalogTypeOK
  <1>7. VectorsByStage'
    <2>1. AllAre({mine}) \/ blended'
      <3>1. CASE run.full
        BY <1>1, <3>1 DEF CatalogIInv, VectorsByStage
      <3>2. CASE ~run.full /\ repoRow = NoRow
        <4>1. named = NoModel
          BY <3>2, CatalogAssumption DEF NoRow, Resolved
        <4>2. named # mine
          BY <4>1, <1>5, CatalogAssumption
        <4> HIDE DEF named, mine
        <4> QED BY <1>1, <3>2, <4>2
      <3>3. CASE ~run.full /\ repoRow # NoRow
        <4>1. blended \/ AllAre({named} \union {mine})
          BY <1>1, <3>3 DEF CatalogIInv, VectorsByStage
        <4>2. CASE blended \/ named # mine
          BY <1>1, <3>3, <4>2
        <4>3. CASE ~blended /\ named = mine
          BY <4>1, <4>3 DEF AllAre
        <4> QED BY <4>2, <4>3
      <3> QED BY <3>1, <3>2, <3>3
    <2>2. AllAre({mine})' = AllAre({mine})
      BY <1>1, <1>3 DEF AllAre, HaveVectors
    <2>3. AllAre({Resolved(repoRow.model)})' = AllAre({mine})
      BY <1>1, <1>5 DEF AllAre, HaveVectors
    <2> HIDE DEF mine, named
    <2>4. ~blended' => AllAre({Resolved(repoRow.model)})'
      BY <2>1, <2>3
    <2>5. run'.pc = "readiness" /\ {Resolved(repoRow.model)}' \union {} = {Resolved(repoRow.model)}'
      BY <1>3
    <2> QED BY <2>4, <2>5 DEF VectorsByStage
  <1>8. CompletedIsThere'
    BY <1>1, <1>3, <1>4 DEF CatalogIInv, CompletedIsThere
  <1>9. HistoryIsTheLatest'
    BY <1>1 DEF CatalogIInv, HistoryIsTheLatest
  <1> QED BY <1>1, <1>4, <1>6, <1>7, <1>8, <1>9, QuestionsDuringIngest DEF CatalogIInv

(* The readiness of the repository decides how the ingest ends. *)
LEMMA IngestConcludesKeeps ==
  ASSUME CatalogIInv, IngestConcludes
  PROVE  CatalogIInv'
  <1>0. CatalogTypes
    BY DEF CatalogIInv
  <1>1. /\ run.pc = "readiness" /\ UNCHANGED <<asked, removal, completed, blended>>
        /\ UNCHANGED <<vectors, dimension, corpusRows, aligned, repoRow, snapshots, recorded,
                      jobKnown>>
    BY DEF IngestConcludes, catalogHistory, storeRows
  <1>2. PICK next \in {"completed", "partial", "failed"} :
          /\ run' = [run EXCEPT !.pc = next]
          /\ next = "completed" => corpusRows # {} /\ HaveVectors # {}
    BY DEF IngestConcludes, RunTo, IsReady, SpaceChecked
  <1>3. /\ run' \in Runs /\ run'.pc = next /\ run'.alone = run.alone
        /\ run'.todo = run.todo /\ run'.full = run.full /\ run'.model = run.model
    BY <1>0, <1>2 DEF CatalogTypes, Runs
  <1>4. CatalogTypes'
    BY <1>0, <1>1, <1>3 DEF CatalogTypes, CatalogTypeOK
  <1>5. VectorsByStage'
    BY <1>1, <1>3 DEF CatalogIInv, VectorsByStage, AllAre, HaveVectors
  <1>6. CompletedIsThere'
    BY <1>1, <1>2, <1>3 DEF CatalogIInv, CompletedIsThere, HaveVectors
  <1>7. HistoryIsTheLatest'
    BY <1>1 DEF CatalogIInv, HistoryIsTheLatest
  <1> QED BY <1>1, <1>4, <1>5, <1>6, <1>7, QuestionsDuringIngest DEF CatalogIInv

(* The snapshot of a run, the last thing an ingest does. *)
LEMMA RecordSnapshotKeeps ==
  ASSUME CatalogIInv, RecordSnapshot
  PROVE  CatalogIInv'
  <1>0. CatalogTypes
    BY DEF CatalogIInv
  <1>1. /\ run.pc \in {"completed", "partial", "failed"}
        /\ UNCHANGED <<asked, removal, blended, vectors, dimension, corpusRows, repoRow>>
        /\ UNCHANGED <<jobKnown, aligned>> /\ recorded' = recorded + 1
        /\ run' = RunRests
    BY DEF RecordSnapshot
  <1>2. /\ run' \in Runs /\ run'.pc = "idle" /\ run'.full /\ ~run'.alone
        /\ run'.todo \subseteq Piece
    BY <1>1, CatalogAssumption DEF RunRests, Runs, Named
  <1>3. recorded \in Nat /\ run.model \in Named /\ Resolved(run.model) \in Model
    BY <1>0, ResolvedIsModel DEF CatalogTypes, Runs
  <1>4. snapshots' = {n \in 1..recorded' : n > recorded' - Retention}
    <2>1. snapshots = {n \in 1..recorded : n > recorded - Retention}
      BY DEF CatalogIInv, HistoryIsTheLatest
    <2>2. Retention \in Nat \ {0}
      BY CatalogAssumption
    <2>3. snapshots' = {n \in snapshots \union {recorded'} : n > recorded' - Retention}
      BY DEF RecordSnapshot, Kept
    <2>4. recorded' = recorded + 1 /\ recorded' \in Nat
      BY <1>1, <1>3
    <2>5. ASSUME NEW n
          PROVE  n \in snapshots' <=> n \in 1..recorded' /\ n > recorded' - Retention
      BY <1>3, <2>1, <2>2, <2>3, <2>4
    <2> QED BY <2>5
  <1>5. CatalogTypes'
    <2>1. completed' \in Model \union {NoModel}
      BY <1>3 DEF RecordSnapshot
    <2>2. snapshots' \subseteq 1..recorded' /\ recorded' \in Nat
      BY <1>1, <1>3, <1>4
    <2> QED BY <1>0, <1>1, <1>2, <2>1, <2>2 DEF CatalogTypes, CatalogTypeOK
  <1>6. VectorsByStage'
    BY <1>1, <1>2 DEF CatalogIInv, VectorsByStage, AllAre, HaveVectors
  <1>7. CompletedIsThere'
    <2>1. CASE run.pc = "completed" /\ run.alone
      <3>1. completed' = Resolved(run.model)
        BY <2>1 DEF RecordSnapshot
      <3> QED BY <1>1, <1>2, <2>1, <3>1 DEF CatalogIInv, CompletedIsThere, HaveVectors
    <2>2. CASE ~(run.pc = "completed" /\ run.alone)
      <3>1. completed' = NoModel
        BY <2>2 DEF RecordSnapshot
      <3> QED BY <1>2, <3>1 DEF CompletedIsThere
    <2> QED BY <2>1, <2>2
  <1>8. HistoryIsTheLatest'
    BY <1>4 DEF HistoryIsTheLatest
  <1> QED BY <1>1, <1>5, <1>6, <1>7, <1>8, QuestionsDuringIngest DEF CatalogIInv

-----------------------------------------------------------------------------
(* A delete begins, beside no ingest; a question that is underway has lost its calm. *)
LEMMA BeginRemovalKeeps ==
  ASSUME CatalogIInv, BeginRemoval
  PROVE  CatalogIInv'
  <1>0. CatalogTypes
    BY DEF CatalogIInv
  <1>1. /\ removal = "idle" /\ removal' = "vectors" /\ completed' = NoModel
        /\ run.pc = "idle" /\ UNCHANGED <<run, blended, vectors, dimension, corpusRows>>
        /\ UNCHANGED <<repoRow, snapshots, recorded, jobKnown, aligned>>
    BY DEF BeginRemoval, storeRows
  <1>2. /\ asked' \in [Question -> Asked]
        /\ \A q \in Question :
             /\ asked'[q].pc = asked[q].pc /\ asked'[q].kind = asked[q].kind
             /\ asked'[q].model = asked[q].model /\ asked'[q].row = asked[q].row
             /\ asked'[q].lexical = asked[q].lexical
             /\ asked'[q].vectors = asked[q].vectors /\ asked'[q].both = asked[q].both
             /\ asked'[q].alone = asked[q].alone
             /\ asked'[q].calm = FALSE /\ asked'[q].kept = FALSE
    <2>1. PICK flags : flags = {"calm", "kept"} /\ Disturbed(flags)
      BY DEF BeginRemoval
    <2>2. asked \in [Question -> Asked]
      BY <1>0 DEF CatalogTypes, CatalogTypeOK
    <2>3. "calm" \in flags /\ "alone" \notin flags /\ "kept" \in flags
      BY <2>1
    <2>4. /\ asked' \in [Question -> Asked]
          /\ \A q \in Question :
             /\ asked'[q].pc = asked[q].pc /\ asked'[q].kind = asked[q].kind
             /\ asked'[q].model = asked[q].model /\ asked'[q].row = asked[q].row
             /\ asked'[q].lexical = asked[q].lexical
             /\ asked'[q].vectors = asked[q].vectors /\ asked'[q].both = asked[q].both
             /\ asked'[q].calm = IF "calm" \in flags THEN FALSE ELSE asked[q].calm
             /\ asked'[q].alone = IF "alone" \in flags THEN FALSE ELSE asked[q].alone
             /\ asked'[q].kept = IF "kept" \in flags THEN FALSE ELSE asked[q].kept
      BY <2>1, <2>2, DisturbedAre
    <2> QED BY <2>3, <2>4
  <1>3. ~run.alone
    BY <1>1 DEF CatalogIInv, CompletedIsThere
  <1>4. CatalogTypes'
    BY <1>0, <1>1, <1>2 DEF CatalogTypes, CatalogTypeOK, NextStage
  <1>5. VectorsByStage'
    BY <1>1 DEF CatalogIInv, VectorsByStage, AllAre, HaveVectors
  <1>6. CompletedIsThere'
    BY <1>1, <1>3 DEF CompletedIsThere
  <1>7. HistoryIsTheLatest'
    BY <1>1 DEF CatalogIInv, HistoryIsTheLatest
  <1>8. AloneMeansShrinking'
    BY <1>1, <1>2 DEF CatalogIInv, AloneMeansShrinking, AllAre, HaveVectors
  <1>9. KeptMeansThere' /\ CompletedIsAdmitted'
    BY <1>2 DEF KeptMeansThere, CompletedIsAdmitted
  <1>10. Admission' /\ ReadyMeansBoth'
    BY <1>2 DEF CatalogIInv, Admission, ReadyMeansBoth, Compatible
  <1> QED BY <1>4, <1>5, <1>6, <1>7, <1>8, <1>9, <1>10 DEF CatalogIInv

(* The stages of a delete follow one another. *)
LEMMA StagesFollow ==
  /\ DOMAIN NextStage = {"vectors", "corpus", "snapshots", "jobs", "row"}
  /\ NextStage["vectors"] = "corpus" /\ NextStage["corpus"] = "snapshots"
  /\ NextStage["snapshots"] = "jobs" /\ NextStage["jobs"] = "row" /\ NextStage["row"] = "idle"
  BY DEF NextStage

(* While a delete runs nothing counts as completed, no ingest as alone, and no
   question as kept. *)
LEMMA DuringRemoval ==
  ASSUME CatalogIInv, removal # "idle"
  PROVE  /\ completed = NoModel /\ ~run.alone /\ removal \in DOMAIN NextStage
         /\ \A q \in Question : ~asked[q].kept
  BY DEF CatalogIInv, CompletedIsThere, KeptMeansThere, CatalogTypes, CatalogTypeOK

(* A stage of a delete fails, and is a warning. *)
LEMMA RemovalFailsKeeps ==
  ASSUME CatalogIInv, RemovalFails
  PROVE  CatalogIInv'
  <1>0. CatalogTypes
    BY DEF CatalogIInv
  <1>1. /\ removal # "idle" /\ UNCHANGED <<run, blended, vectors, dimension, corpusRows>>
        /\ UNCHANGED <<repoRow, snapshots, recorded, jobKnown, completed, aligned>>
        /\ removal' = IF removal \in {"vectors", "corpus"} THEN NextStage[removal] ELSE "idle"
    BY DEF RemovalFails, storeRows, catalogHistory
  <1>2. /\ asked' \in [Question -> Asked]
        /\ \A q \in Question :
             /\ asked'[q].pc = asked[q].pc /\ asked'[q].kind = asked[q].kind
             /\ asked'[q].model = asked[q].model /\ asked'[q].row = asked[q].row
             /\ asked'[q].lexical = asked[q].lexical
             /\ asked'[q].vectors = asked[q].vectors /\ asked'[q].both = asked[q].both
             /\ asked'[q].calm = asked[q].calm /\ asked'[q].kept = asked[q].kept
             /\ asked'[q].alone = FALSE
    <2>1. PICK flags : flags = {"alone"} /\ Disturbed(flags)
      BY DEF RemovalFails
    <2>2. asked \in [Question -> Asked]
      BY <1>0 DEF CatalogTypes, CatalogTypeOK
    <2>3. "calm" \notin flags /\ "alone" \in flags /\ "kept" \notin flags
      BY <2>1
    <2>4. /\ asked' \in [Question -> Asked]
          /\ \A q \in Question :
             /\ asked'[q].pc = asked[q].pc /\ asked'[q].kind = asked[q].kind
             /\ asked'[q].model = asked[q].model /\ asked'[q].row = asked[q].row
             /\ asked'[q].lexical = asked[q].lexical
             /\ asked'[q].vectors = asked[q].vectors /\ asked'[q].both = asked[q].both
             /\ asked'[q].calm = IF "calm" \in flags THEN FALSE ELSE asked[q].calm
             /\ asked'[q].alone = IF "alone" \in flags THEN FALSE ELSE asked[q].alone
             /\ asked'[q].kept = IF "kept" \in flags THEN FALSE ELSE asked[q].kept
      BY <2>1, <2>2, DisturbedAre
    <2> QED BY <2>3, <2>4
  <1>3. /\ completed = NoModel /\ ~run.alone /\ removal \in DOMAIN NextStage
        /\ \A q \in Question : ~asked[q].kept
    BY <1>1, DuringRemoval
  <1>4. removal' \in DOMAIN NextStage \union {"idle"}
    BY <1>1, <1>3, StagesFollow
  <1>5. CatalogTypes'
    BY <1>0, <1>1, <1>2, <1>4 DEF CatalogTypes, CatalogTypeOK
  <1>6. VectorsByStage'
    BY <1>1 DEF CatalogIInv, VectorsByStage, AllAre, HaveVectors
  <1>7. CompletedIsThere'
    BY <1>1, <1>3 DEF CompletedIsThere
  <1>8. HistoryIsTheLatest'
    BY <1>1 DEF CatalogIInv, HistoryIsTheLatest
  <1>9. AloneMeansShrinking' /\ ReadyMeansBoth' /\ CompletedIsAdmitted'
    BY <1>2 DEF AloneMeansShrinking, ReadyMeansBoth, CompletedIsAdmitted
  <1>10. KeptMeansThere'
    BY <1>2, <1>3 DEF KeptMeansThere
  <1>11. Admission'
    BY <1>2 DEF CatalogIInv, Admission, Compatible
  <1> QED BY <1>5, <1>6, <1>7, <1>8, <1>9, <1>10, <1>11 DEF CatalogIInv

(* A stage of a delete clears its store. *)
LEMMA RemovalClearsKeeps ==
  ASSUME CatalogIInv, RemovalClears
  PROVE  CatalogIInv'
  <1>0. CatalogTypes
    BY DEF CatalogIInv
  <1>1. /\ removal # "idle" /\ UNCHANGED <<run, blended, dimension, completed, aligned>>
        /\ removal' = NextStage[removal]
        /\ vectors' = IF removal = "vectors" THEN [p \in Piece |-> NoModel] ELSE vectors
        /\ corpusRows' = IF removal = "corpus" THEN {} ELSE corpusRows
        /\ snapshots' = IF removal = "snapshots" THEN {} ELSE snapshots
        /\ recorded' = IF removal = "snapshots" THEN 0 ELSE recorded
        /\ jobKnown' = (jobKnown /\ removal # "jobs")
        /\ repoRow' = IF removal = "row" THEN NoRow ELSE repoRow
    BY DEF RemovalClears, catalogHistory
  <1>2. /\ asked' \in [Question -> Asked]
        /\ \A q \in Question :
             /\ asked'[q].pc = asked[q].pc /\ asked'[q].kind = asked[q].kind
             /\ asked'[q].model = asked[q].model /\ asked'[q].row = asked[q].row
             /\ asked'[q].lexical = asked[q].lexical
             /\ asked'[q].vectors = asked[q].vectors /\ asked'[q].both = asked[q].both
             /\ asked'[q].calm = asked[q].calm /\ asked'[q].alone = asked[q].alone
             /\ asked'[q].kept = FALSE
    <2>1. PICK flags : flags = {"kept"} /\ Disturbed(flags)
      BY DEF RemovalClears
    <2>2. asked \in [Question -> Asked]
      BY <1>0 DEF CatalogTypes, CatalogTypeOK
    <2>3. "calm" \notin flags /\ "alone" \notin flags /\ "kept" \in flags
      BY <2>1
    <2>4. /\ asked' \in [Question -> Asked]
          /\ \A q \in Question :
             /\ asked'[q].pc = asked[q].pc /\ asked'[q].kind = asked[q].kind
             /\ asked'[q].model = asked[q].model /\ asked'[q].row = asked[q].row
             /\ asked'[q].lexical = asked[q].lexical
             /\ asked'[q].vectors = asked[q].vectors /\ asked'[q].both = asked[q].both
             /\ asked'[q].calm = IF "calm" \in flags THEN FALSE ELSE asked[q].calm
             /\ asked'[q].alone = IF "alone" \in flags THEN FALSE ELSE asked[q].alone
             /\ asked'[q].kept = IF "kept" \in flags THEN FALSE ELSE asked[q].kept
      BY <2>1, <2>2, DisturbedAre
    <2> QED BY <2>3, <2>4
  <1>3. /\ completed = NoModel /\ ~run.alone /\ removal \in DOMAIN NextStage
    BY <1>1, DuringRemoval
  <1>4. removal' \in DOMAIN NextStage \union {"idle"} /\ (removal' = "corpus" => removal = "vectors")
    BY <1>1, <1>3, StagesFollow
  <1>5. /\ HaveVectors' \subseteq HaveVectors /\ \A p \in HaveVectors' : vectors'[p] = vectors[p]
        /\ removal = "vectors" => HaveVectors' = {}
    BY <1>1 DEF HaveVectors
  <1>6. CatalogTypes'
    <2>1. vectors' \in [Piece -> Model \union {NoModel}] /\ corpusRows' \subseteq Piece
      BY <1>0, <1>1 DEF CatalogTypes, CatalogTypeOK
    <2>2. snapshots' \subseteq 1..recorded' /\ recorded' \in Nat
      BY <1>0, <1>1 DEF CatalogTypes, CatalogTypeOK
    <2>3. jobKnown' \in BOOLEAN
      BY <1>1
    <2>4. repoRow' \in Row /\ (repoRow' # NoRow => repoRow'.model \in Named)
      <3>1. NoRow \in Row
        BY DEF NoRow, Row
      <3> QED BY <1>0, <1>1, <3>1 DEF CatalogTypes, CatalogTypeOK
    <2>5. \A q \in Question : asked'[q].row # NoRow => asked'[q].row.model \in Named
      BY <1>0, <1>2 DEF CatalogTypes
    <2> QED BY <1>0, <1>1, <1>2, <1>4, <2>1, <2>2, <2>3, <2>4, <2>5 DEF CatalogTypes, CatalogTypeOK
  <1>7. VectorsByStage'
    <2>1. repoRow' = repoRow \/ repoRow' = NoRow
      BY <1>1
    <2> QED BY <1>1, <1>5, <2>1 DEF CatalogIInv, VectorsByStage, AllAre
  <1>8. CompletedIsThere'
    BY <1>1, <1>3 DEF CompletedIsThere
  <1>9. HistoryIsTheLatest'
    BY <1>1, CatalogAssumption DEF CatalogIInv, HistoryIsTheLatest
  <1>10. AloneMeansShrinking'
    <2> SUFFICES ASSUME NEW q \in Question, asked'[q].alone
                 PROVE  LET a == asked'[q] IN
                        /\ run'.pc = "idle" /\ (removal' = "corpus" => HaveVectors' = {})
                        /\ a.pc = "second" /\ a.lexical => corpusRows' # {} \/ HaveVectors' = {}
                        /\ a.pc = "decide" /\ a.lexical /\ a.vectors => a.both
                        /\ ~blended' /\ a.row # NoRow
                             => \A p \in HaveVectors' : vectors'[p] \in {Resolved(a.row.model)}
      BY DEF AloneMeansShrinking, AllAre
    <2>1. /\ run.pc = "idle" /\ (removal = "corpus" => HaveVectors = {})
          /\ asked[q].pc = "second" /\ asked[q].lexical => corpusRows # {} \/ HaveVectors = {}
          /\ asked[q].pc = "decide" /\ asked[q].lexical /\ asked[q].vectors => asked[q].both
          /\ ~blended /\ asked[q].row # NoRow
               => \A p \in HaveVectors : vectors[p] \in {Resolved(asked[q].row.model)}
      BY <1>2 DEF CatalogIInv, AloneMeansShrinking, AllAre
    <2> QED BY <1>1, <1>2, <1>4, <1>5, <2>1
  <1>11. KeptMeansThere' /\ CompletedIsAdmitted'
    BY <1>2 DEF KeptMeansThere, CompletedIsAdmitted
  <1>12. Admission' /\ ReadyMeansBoth'
    BY <1>2 DEF CatalogIInv, Admission, ReadyMeansBoth, Compatible
  <1> QED BY <1>6, <1>7, <1>8, <1>9, <1>10, <1>11, <1>12 DEF CatalogIInv

-----------------------------------------------------------------------------
(* What the invariant asks of one question, and of the row as it is after its step. *)
Fits(a, row) ==
  /\ a.row # NoRow => a.row.model \in Named
  /\ a.alone =>
       /\ run.pc = "idle" /\ (removal = "corpus" => HaveVectors = {})
       /\ a.pc = "second" /\ a.lexical => corpusRows # {} \/ HaveVectors = {}
       /\ a.pc = "decide" /\ a.lexical /\ a.vectors => a.both
       /\ ~blended /\ a.row # NoRow => AllAre({Resolved(a.row.model)})
  /\ a.kept =>
       /\ removal = "idle"
       /\ a.row # NoRow => row # NoRow /\ (a.pc = "served" => row.queried)
       /\ a.alone => (a.row = NoRow <=> row = NoRow) /\ a.row.model = row.model
       /\ a.alone /\ a.calm /\ a.pc \in {"second", "decide"}
             => a.lexical = (corpusRows # {})
       /\ a.alone /\ a.calm /\ a.pc = "decide" => a.vectors = (HaveVectors # {})
  /\ a.pc \in {"first", "second"} => ~a.vectors
  /\ a.kind = "query" /\ a.pc \in {"admitted", "served"} => Compatible(a.row, a.model)
  /\ a.kind = "query" /\ a.pc \in {"admitted", "served"} /\ a.alone => a.both
  /\ a.pc = "refused" /\ a.calm /\ a.alone /\ a.kept /\ aligned => Resolved(a.model) # completed

(* Every question fits. *)
LEMMA AllFit ==
  ASSUME CatalogIInv, NEW q \in Question
  PROVE  Fits(asked[q], repoRow)
  <1> DEFINE a == asked[q]
  <1>1. a.row # NoRow => a.row.model \in Named
    BY DEF CatalogIInv, CatalogTypes
  <1>2. a.alone =>
       /\ run.pc = "idle" /\ (removal = "corpus" => HaveVectors = {})
       /\ a.pc = "second" /\ a.lexical => corpusRows # {} \/ HaveVectors = {}
       /\ a.pc = "decide" /\ a.lexical /\ a.vectors => a.both
       /\ ~blended /\ a.row # NoRow => AllAre({Resolved(a.row.model)})
    BY DEF CatalogIInv, AloneMeansShrinking
  <1>3. a.kept =>
       /\ removal = "idle"
       /\ a.row # NoRow => repoRow # NoRow /\ (a.pc = "served" => repoRow.queried)
       /\ a.alone => (a.row = NoRow <=> repoRow = NoRow) /\ a.row.model = repoRow.model
       /\ a.alone /\ a.calm /\ a.pc \in {"second", "decide"}
             => a.lexical = (corpusRows # {})
       /\ a.alone /\ a.calm /\ a.pc = "decide" => a.vectors = (HaveVectors # {})
    BY DEF CatalogIInv, KeptMeansThere
  <1>4. /\ a.pc \in {"first", "second"} => ~a.vectors
        /\ a.kind = "query" /\ a.pc \in {"admitted", "served"} => Compatible(a.row, a.model)
    BY DEF CatalogIInv, Admission
  <1>5. a.kind = "query" /\ a.pc \in {"admitted", "served"} /\ a.alone => a.both
    BY DEF CatalogIInv, ReadyMeansBoth
  <1>6. a.pc = "refused" /\ a.calm /\ a.alone /\ a.kept /\ aligned => Resolved(a.model) # completed
    BY DEF CatalogIInv, CompletedIsAdmitted
  <1> HIDE DEF a
  <1>7. Fits(a, repoRow)
    BY <1>1, <1>2, <1>3, <1>4, <1>5, <1>6 DEF Fits
  <1> QED BY <1>7 DEF a

(* One question takes a step that leaves the stores alone, but for its mark in the row. *)
LEMMA QuestionStep ==
  ASSUME CatalogIInv, NEW q \in Question, NEW a \in Asked,
         asked' = [asked EXCEPT ![q] = a],
         UNCHANGED <<vectors, dimension, corpusRows, aligned, jobKnown, snapshots, recorded, run,
                     removal, completed, blended>>,
         \/ repoRow' = repoRow
         \/ /\ repoRow # NoRow /\ repoRow' # NoRow /\ repoRow' \in Row
            /\ repoRow'.model = repoRow.model /\ repoRow'.queried,
         Fits(a, repoRow')
  PROVE  CatalogIInv'
  <1>0. CatalogTypes
    BY DEF CatalogIInv
  <1>1. /\ asked' \in [Question -> Asked] /\ asked'[q] = a
        /\ \A o \in Question \ {q} : asked'[o] = asked[o]
    BY <1>0, OneAsked DEF CatalogTypes, CatalogTypeOK
  <1>2. ASSUME NEW o \in Question
        PROVE  Fits(asked'[o], repoRow')
    <2>1. CASE o = q
      BY <1>1, <2>1
    <2>2. CASE o # q
      <3>1. asked'[o] = asked[o]
        BY <1>1, <2>2
      <3>2. Fits(asked[o], repoRow)
        BY AllFit
      <3>3. Fits(asked[o], repoRow')
        BY <3>2 DEF Fits
      <3> QED BY <3>1, <3>3
    <2> QED BY <2>1, <2>2
  <1>3. /\ repoRow' \in Row /\ (repoRow' # NoRow => repoRow'.model \in Named)
        /\ (repoRow' = NoRow <=> repoRow = NoRow) /\ (repoRow' # NoRow => repoRow'.model = repoRow.model)
    BY <1>0 DEF CatalogTypes, CatalogTypeOK
  <1>4. HaveVectors' = HaveVectors /\ \A models : AllAre(models)' = AllAre(models)
    BY DEF HaveVectors, AllAre
  <1>5. CatalogTypes'
    <2>1. \A o \in Question : asked'[o].row # NoRow => asked'[o].row.model \in Named
      BY <1>2 DEF Fits
    <2> QED BY <1>0, <1>1, <1>3, <2>1 DEF CatalogTypes, CatalogTypeOK
  <1>6. VectorsByStage'
    BY <1>3, <1>4 DEF CatalogIInv, VectorsByStage, AllAre
  <1>7. CompletedIsThere'
    BY <1>3, <1>4 DEF CatalogIInv, CompletedIsThere
  <1>8. HistoryIsTheLatest'
    BY DEF CatalogIInv, HistoryIsTheLatest
  <1>9. AloneMeansShrinking'
    BY <1>2, <1>4 DEF Fits, AloneMeansShrinking, AllAre
  <1>10. KeptMeansThere'
    <2>1. ASSUME NEW o \in Question, NEW b, b = asked'[o], b.kept
          PROVE  /\ removal' = "idle"
                 /\ b.row # NoRow => repoRow' # NoRow /\ (b.pc = "served" => repoRow'.queried)
                 /\ b.alone => (b.row = NoRow <=> repoRow' = NoRow) /\ b.row.model = repoRow'.model
                 /\ b.alone /\ b.calm /\ b.pc \in {"second", "decide"}
                       => b.lexical = (corpusRows' # {})
                 /\ b.alone /\ b.calm /\ b.pc = "decide" => b.vectors = (HaveVectors' # {})
      <3>1. Fits(b, repoRow')
        BY <1>2, <2>1
      <3>2. UNCHANGED <<removal, corpusRows>>
        OBVIOUS
      <3> QED BY <1>4, <2>1, <3>1, <3>2 DEF Fits
    <2> QED BY <2>1 DEF KeptMeansThere
  <1>11. Admission'
    BY <1>2 DEF Fits, Admission, Compatible
  <1>12. ReadyMeansBoth' /\ CompletedIsAdmitted'
    BY <1>2 DEF Fits, ReadyMeansBoth, CompletedIsAdmitted
  <1> QED BY <1>5, <1>6, <1>7, <1>8, <1>9, <1>10, <1>11, <1>12 DEF CatalogIInv

(* A question is asked: it has read the row, and nothing else. *)
LEMMA AskKeeps ==
  ASSUME CatalogIInv, NEW q \in Question, NEW kind \in {"query", "inventory"},
         NEW m \in Named, Ask(q, kind, m)
  PROVE  CatalogIInv'
  <1>0. CatalogTypes
    BY DEF CatalogIInv
  <1> DEFINE quiet == run.pc = "idle" /\ removal = "idle"
             still == removal = "idle"
             next == IF kind = "query" THEN "first" ELSE "admitted"
             a == [pc |-> next, kind |-> kind, model |-> m, row |-> repoRow,
                   lexical |-> FALSE, vectors |-> FALSE, both |-> FALSE, calm |-> TRUE,
                   alone |-> quiet, kept |-> still]
  <1>1. asked' = [asked EXCEPT ![q] = a]
    BY DEF Ask
  <1>2. repoRow \in Row /\ (repoRow # NoRow => repoRow.model \in Named)
    BY <1>0 DEF CatalogTypes, CatalogTypeOK
  <1>3. next \in {"first", "admitted"} /\ (kind = "query" => next = "first")
    OBVIOUS
  <1>4. a \in Asked
    <2>1. ASSUME NEW lone \in BOOLEAN, NEW kept \in BOOLEAN
          PROVE  [pc |-> next, kind |-> kind, model |-> m, row |-> repoRow,
                  lexical |-> FALSE, vectors |-> FALSE, both |-> FALSE, calm |-> TRUE,
                  alone |-> lone, kept |-> kept] \in Asked
      <3> HIDE DEF next
      <3> QED BY <1>2, <1>3 DEF Asked
    <2>2. quiet \in BOOLEAN /\ still \in BOOLEAN
      OBVIOUS
    <2> HIDE DEF quiet, still
    <2> QED BY <2>1, <2>2
  <1>5. /\ a.pc = next /\ a.kind = kind /\ a.model = m /\ a.row = repoRow /\ ~a.lexical
        /\ ~a.vectors /\ (a.alone <=> quiet) /\ (a.kept <=> removal = "idle")
    OBVIOUS
  <1>6. UNCHANGED <<storeRows, run, removal, completed, blended>>
    BY DEF Ask, catalogHistory
  <1>7. quiet /\ ~blended /\ repoRow # NoRow => AllAre({Resolved(repoRow.model)})
    BY DEF CatalogIInv, VectorsByStage, AllAre
  <1> HIDE DEF a, next
  <1>8. Fits(a, repoRow)
    BY <1>2, <1>3, <1>5, <1>7 DEF Fits
  <1>9. repoRow' = repoRow
    BY <1>6 DEF storeRows
  <1> QED BY <1>1, <1>4, <1>6, <1>8, <1>9, QuestionStep DEF storeRows

(* The lexical rows are looked at, or the question ends as an error. *)
LEMMA ReadLexicalKeeps ==
  ASSUME CatalogIInv, NEW q \in Question, ReadLexical(q)
  PROVE  CatalogIInv'
  <1> DEFINE b == asked[q]
             filled == corpusRows # {}
             a == [b EXCEPT !.lexical = filled, !.pc = "second"]
  <1>0. b \in Asked /\ Fits(b, repoRow) /\ asked \in [Question -> Asked]
    BY AllFit DEF CatalogIInv, CatalogTypes, CatalogTypeOK
  <1>1. UNCHANGED <<storeRows, run, removal, completed, blended>> /\ b.pc = "first"
    BY DEF ReadLexical, catalogHistory
  <1>2. CASE asked' = [asked EXCEPT ![q] = NotAsked]
    <2>1. NotAsked \in Asked
      BY RequestsAreNamed DEF NotAsked, Asked, NoRow, Row
    <2>2. Fits(NotAsked, repoRow)
      BY DEF NotAsked, Fits
    <2> QED BY <1>1, <1>2, <2>1, <2>2, QuestionStep DEF storeRows
  <1>3. CASE asked' = [asked EXCEPT ![q].lexical = corpusRows # {}, ![q].pc = "second"]
    <2>1. asked' = [asked EXCEPT ![q] = a]
      BY <1>0, <1>3
    <2>2. a \in Asked
      <3>1. filled \in BOOLEAN
        OBVIOUS
      <3> HIDE DEF b, filled
      <3> QED BY <1>0, <3>1 DEF Asked
    <2>3. /\ a.pc = "second" /\ a.kind = b.kind /\ a.model = b.model /\ a.row = b.row
          /\ (a.lexical <=> filled) /\ a.vectors = b.vectors /\ a.both = b.both
          /\ a.calm = b.calm /\ a.alone = b.alone /\ a.kept = b.kept
      <3> HIDE DEF b
      <3> QED BY <1>0 DEF Asked
    <2>4. a.lexical \in BOOLEAN
      BY <2>2 DEF Asked
    <2> HIDE DEF a, b
    <2>5. Fits(a, repoRow)
      BY <1>0, <1>1, <2>3, <2>4 DEF Fits
    <2> QED BY <1>1, <2>1, <2>2, <2>5, QuestionStep DEF storeRows
  <1> QED BY <1>2, <1>3 DEF ReadLexical

(* The vectors are looked at; beside no ingest, if some are left some lexical rows are. *)
LEMMA ReadVectorsKeeps ==
  ASSUME CatalogIInv, NEW q \in Question, ReadVectors(q)
  PROVE  CatalogIInv'
  <1> DEFINE b == asked[q]
             filled == HaveVectors # {}
             both == corpusRows # {} /\ HaveVectors # {}
             a == [b EXCEPT !.vectors = filled, !.pc = "decide", !.both = both]
             c == [b EXCEPT !.pc = "decide", !.calm = FALSE]
  <1>0. b \in Asked /\ Fits(b, repoRow) /\ asked \in [Question -> Asked]
    BY AllFit DEF CatalogIInv, CatalogTypes, CatalogTypeOK
  <1>1. UNCHANGED <<storeRows, run, removal, completed, blended>> /\ b.pc = "second"
    BY DEF ReadVectors, catalogHistory
  <1>2. CASE asked' = [asked EXCEPT ![q].vectors = HaveVectors # {}, ![q].pc = "decide",
                         ![q].both = corpusRows # {} /\ HaveVectors # {}]
    <2>1. asked' = [asked EXCEPT ![q] = a]
      BY <1>0, <1>2
    <2>2. a \in Asked
      <3>1. filled \in BOOLEAN /\ both \in BOOLEAN
        OBVIOUS
      <3> HIDE DEF b, filled, both
      <3> QED BY <1>0, <3>1 DEF Asked
    <2>3. /\ a.pc = "decide" /\ a.kind = b.kind /\ a.model = b.model /\ a.row = b.row
          /\ a.lexical = b.lexical /\ (a.vectors <=> filled) /\ (a.both <=> both)
          /\ a.calm = b.calm /\ a.alone = b.alone /\ a.kept = b.kept
      <3> HIDE DEF b
      <3> QED BY <1>0 DEF Asked
    <2>4. a.vectors \in BOOLEAN
      BY <2>2 DEF Asked
    <2> HIDE DEF a, b
    <2>5. Fits(a, repoRow)
      BY <1>0, <1>1, <2>3, <2>4 DEF Fits
    <2> QED BY <1>1, <2>1, <2>2, <2>5, QuestionStep DEF storeRows
  <1>3. CASE asked' = [asked EXCEPT ![q].pc = "decide", ![q].calm = FALSE]
    <2>1. asked' = [asked EXCEPT ![q] = c]
      BY <1>0, <1>3
    <2>2. c \in Asked
      <3> HIDE DEF b
      <3> QED BY <1>0 DEF Asked
    <2>3. /\ c.pc = "decide" /\ c.kind = b.kind /\ c.model = b.model /\ c.row = b.row
          /\ c.lexical = b.lexical /\ c.vectors = b.vectors /\ c.both = b.both
          /\ ~c.calm /\ c.alone = b.alone /\ c.kept = b.kept
      <3> HIDE DEF b
      <3> QED BY <1>0 DEF Asked
    <2> HIDE DEF c, b
    <2>4. Fits(c, repoRow)
      BY <1>0, <1>1, <2>3 DEF Fits
    <2> QED BY <1>1, <2>1, <2>2, <2>4, QuestionStep DEF storeRows
  <1> QED BY <1>2, <1>3 DEF ReadVectors

(* The question is let in or turned away. One that is turned away beside nothing has
   not asked for the model that the last ingest completed with. *)
LEMMA DecideKeeps ==
  ASSUME CatalogIInv, NEW q \in Question, Decide(q)
  PROVE  CatalogIInv'
  <1> DEFINE b == asked[q]
             ready == b.lexical /\ b.vectors /\ Compatible(b.row, b.model)
  <1>0. b \in Asked /\ Fits(b, repoRow) /\ asked \in [Question -> Asked]
    BY AllFit DEF CatalogIInv, CatalogTypes, CatalogTypeOK
  <1>0a. aligned \in BOOLEAN
    BY DEF CatalogIInv, CatalogTypes, CatalogTypeOK
  <1>1. UNCHANGED <<storeRows, run, removal, completed, blended>> /\ b.pc = "decide"
    BY DEF Decide, catalogHistory
  <1>2. PICK next \in {"admitted", "refused"} :
          /\ next = "admitted" => ready
          /\ next = "refused" /\ aligned => ~ready
          /\ asked' = [asked EXCEPT ![q].pc = next]
    <2>1. PICK fits \in BOOLEAN :
            /\ SpaceChecked(fits)
            /\ asked' = [asked EXCEPT ![q].pc =
                  IF IsReady(b.lexical, b.vectors, fits) /\ Compatible(b.row, b.model)
                  THEN "admitted" ELSE "refused"]
      BY DEF Decide
    <2>2. aligned => fits
      BY <2>1, <1>0a DEF SpaceChecked
    <2>3. CASE IsReady(b.lexical, b.vectors, fits) /\ Compatible(b.row, b.model)
      <3>1. ready
        BY <2>3 DEF IsReady
      <3>2. asked' = [asked EXCEPT ![q].pc = "admitted"]
        BY <2>1, <2>3
      <3> HIDE DEF b, ready
      <3> QED BY <3>1, <3>2
    <2>4. CASE ~(IsReady(b.lexical, b.vectors, fits) /\ Compatible(b.row, b.model))
      <3>1. aligned => ~ready
        BY <2>2, <2>4 DEF IsReady
      <3>2. asked' = [asked EXCEPT ![q].pc = "refused"]
        BY <2>1, <2>4
      <3> HIDE DEF b, ready
      <3> QED BY <3>1, <3>2
    <2> QED BY <2>3, <2>4
  <1> DEFINE a == [b EXCEPT !.pc = next]
  <1>3. asked' = [asked EXCEPT ![q] = a]
    BY <1>0, <1>2
  <1>4. a \in Asked
    <2> HIDE DEF b
    <2> QED BY <1>0 DEF Asked
  <1>5. /\ a.pc = next /\ a.kind = b.kind /\ a.model = b.model /\ a.row = b.row
        /\ a.lexical = b.lexical /\ a.vectors = b.vectors /\ a.both = b.both
        /\ a.calm = b.calm /\ a.alone = b.alone /\ a.kept = b.kept
    <2> HIDE DEF b
    <2> QED BY <1>0 DEF Asked
  <1>6. ~ready /\ b.calm /\ b.alone /\ b.kept => Resolved(b.model) # completed
    <2> SUFFICES ASSUME b.calm, b.alone, b.kept, Resolved(b.model) = completed
                 PROVE  ready
      OBVIOUS
    <2>1. b.model \in Named /\ completed \in Model
      <3>1. b.model \in Named
        BY <1>0 DEF Asked
      <3> QED BY <3>1, ResolvedIsModel
    <2>2. completed # NoModel
      BY <2>1, CatalogAssumption
    <2>3. /\ corpusRows # {} /\ HaveVectors # {} /\ repoRow # NoRow
          /\ Resolved(repoRow.model) = completed
      BY <2>2 DEF CatalogIInv, CompletedIsThere
    <2>4. /\ b.lexical = (corpusRows # {}) /\ b.vectors = (HaveVectors # {})
          /\ b.row # NoRow /\ b.row.model = repoRow.model /\ b.row.model \in Named
      BY <1>0, <1>1, <2>3 DEF Fits
    <2>5. b.row.model = Unnamed \/ KnownDim[b.row.model] = KnownDim[Resolved(b.model)]
      BY <2>3, <2>4 DEF Resolved
    <2>6. Compatible(b.row, b.model)
      BY <2>5 DEF Compatible
    <2>7. b.lexical /\ b.vectors
      BY <2>3, <2>4
    <2> QED BY <2>6, <2>7
  <1>7. ready => (b.alone => b.both)
    BY <1>0, <1>1 DEF Fits
  <1> HIDE DEF a, b
  <1>8. Fits(a, repoRow)
    BY <1>0, <1>1, <1>2, <1>5, <1>6, <1>7 DEF Fits
  <1> QED BY <1>1, <1>3, <1>4, <1>8, QuestionStep DEF storeRows

(* The mark: a row that the question has seen, and that was not deleted, has it. *)
LEMMA MarkKeeps ==
  ASSUME CatalogIInv, NEW q \in Question, Mark(q)
  PROVE  CatalogIInv'
  <1> DEFINE b == asked[q]
             a == [b EXCEPT !.pc = "served"]
  <1>0. b \in Asked /\ Fits(b, repoRow) /\ asked \in [Question -> Asked] /\ repoRow \in Row
    BY AllFit DEF CatalogIInv, CatalogTypes, CatalogTypeOK
  <1>1. /\ UNCHANGED <<vectors, dimension, corpusRows, aligned, jobKnown, snapshots, recorded, run>>
        /\ UNCHANGED <<removal, completed, blended>> /\ b.pc = "admitted"
    BY DEF Mark, catalogHistory
  <1>2. asked' = [asked EXCEPT ![q] = a]
    BY <1>0 DEF Mark
  <1>3. a \in Asked
    <2> HIDE DEF b
    <2> QED BY <1>0 DEF Asked
  <1>4. /\ a.pc = "served" /\ a.kind = b.kind /\ a.model = b.model /\ a.row = b.row
        /\ a.lexical = b.lexical /\ a.vectors = b.vectors /\ a.both = b.both
        /\ a.calm = b.calm /\ a.alone = b.alone /\ a.kept = b.kept
    <2> HIDE DEF b
    <2> QED BY <1>0 DEF Asked
  <1>5. \/ repoRow' = repoRow /\ repoRow = NoRow
        \/ /\ repoRow # NoRow /\ repoRow' # NoRow /\ repoRow' \in Row
           /\ repoRow'.model = repoRow.model /\ repoRow'.queried
    <2>1. CASE repoRow = NoRow
      BY <2>1 DEF Mark
    <2>2. CASE repoRow # NoRow
      <3>1. repoRow' = [repoRow EXCEPT !.queried = TRUE]
        BY <2>2 DEF Mark
      <3>2. repoRow' = [model |-> repoRow.model, queried |-> TRUE]
        BY <1>0, <3>1 DEF Row
      <3>3. repoRow' \in Row /\ repoRow'.model = repoRow.model /\ repoRow'.queried
        BY <1>0, <3>2 DEF Row
      <3>4. ~NoRow.queried
        BY DEF NoRow
      <3> QED BY <2>2, <3>3, <3>4
    <2> QED BY <2>1, <2>2
  <1> HIDE DEF a, b
  <1>6. Fits(a, repoRow')
    BY <1>0, <1>1, <1>4, <1>5 DEF Fits
  <1> QED BY <1>1, <1>2, <1>3, <1>5, <1>6, QuestionStep

-----------------------------------------------------------------------------
(* Every step keeps the invariant. *)
LEMMA CatalogStep ==
  ASSUME CatalogIInv, [CatalogNext]_catalogVars
  PROVE  CatalogIInv'
  <1>1. ASSUME NEW m \in Requested, NEW todo \in Trees, BeginIngest(m, TRUE, todo)
        PROVE  CatalogIInv'
    <2>1. todo \in SUBSET Piece
      BY CatalogAssumption
    <2> QED BY <1>1, <2>1, BeginIngestKeeps
  <1>2. ASSUME NEW m \in Requested, NEW todo \in SUBSET Piece, BeginIngest(m, FALSE, todo)
        PROVE  CatalogIInv'
    BY <1>2, BeginIngestKeeps
  <1>3. ASSUME NEW q \in Question, NEW m \in ListedModels, Ask(q, "query", m)
        PROVE  CatalogIInv'
    <2>1. m \in Named
      BY RequestsAreNamed
    <2> QED BY <1>3, <2>1, AskKeeps
  <1>4. ASSUME NEW q \in Question, Ask(q, "inventory", DefaultModel)
        PROVE  CatalogIInv'
    BY <1>4, RequestsAreNamed, AskKeeps
  <1>5. CASE UNCHANGED catalogVars
    <2>1. /\ UNCHANGED <<vectors, dimension, corpusRows, aligned, repoRow, jobKnown, snapshots>>
          /\ UNCHANGED <<recorded, run, removal, asked, completed, blended>>
      BY <1>5 DEF catalogVars, storeRows, catalogHistory
    <2>2. CatalogTypes' /\ HistoryIsTheLatest'
      BY <2>1 DEF CatalogIInv, CatalogTypes, CatalogTypeOK, HistoryIsTheLatest
    <2>3. VectorsByStage' /\ CompletedIsThere'
      BY <2>1 DEF CatalogIInv, VectorsByStage, CompletedIsThere, AllAre, HaveVectors
    <2>4. AloneMeansShrinking' /\ ReadyMeansBoth' /\ CompletedIsAdmitted'
      BY <2>1 DEF CatalogIInv, AloneMeansShrinking, ReadyMeansBoth, CompletedIsAdmitted,
                  AllAre, HaveVectors
    <2>5. KeptMeansThere'
      BY <2>1 DEF CatalogIInv, KeptMeansThere, HaveVectors
    <2>6. Admission'
      BY <2>1 DEF CatalogIInv, Admission, Compatible
    <2> QED BY <2>2, <2>3, <2>4, <2>5, <2>6 DEF CatalogIInv
  <1> QED BY <1>1, <1>2, <1>3, <1>4, <1>5, IngestRaisesKeeps, IngestWritesKeep,
             RecordRuntimeKeeps, IngestConcludesKeeps, RecordSnapshotKeeps, BeginRemovalKeeps,
             RemovalFailsKeeps, RemovalClearsKeeps, ReadLexicalKeeps, ReadVectorsKeeps,
             DecideKeeps, MarkKeeps
          DEF CatalogNext

(* The inductive invariant of the catalog holds in every behaviour: ingests, deletes
   and questions that take the three stores in three orders, whatever fails. *)
THEOREM CatalogInvariance == CatalogSpec => []CatalogIInv
  <1>1. CatalogInit => CatalogIInv
    BY CatalogInitIInv
  <1>2. CatalogIInv /\ [CatalogNext]_catalogVars => CatalogIInv'
    BY CatalogStep
  <1> QED BY <1>1, <1>2, PTL DEF CatalogSpec

(* Every variable keeps its type: upsert_repo_runtime, record_ingest_snapshot and the
   query gate leave rows of the shape they are read in. *)
THEOREM CatalogTypesHold == CatalogSpec => []CatalogTypeOK
  <1>1. CatalogIInv => CatalogTypeOK
    BY DEF CatalogIInv, CatalogTypes
  <1> QED BY <1>1, CatalogInvariance, PTL

(* What the invariant says of one question, in the terms of the properties. *)
LEMMA DimensionsFit ==
  ASSUME CatalogIInv, NEW q \in Question, asked[q].kind = "query", asked[q].pc = "served",
         asked[q].alone, ~blended, asked[q].row.model \in Model,
         KnownDim[asked[q].row.model] # 0, KnownDim[Resolved(asked[q].model)] # 0,
         NEW p \in HaveVectors
  PROVE  TrueDim[vectors[p]] = TrueDim[Resolved(asked[q].model)]
  <1> DEFINE a == asked[q]
  <1>1. a \in Asked /\ Fits(a, repoRow)
    BY AllFit DEF CatalogIInv, CatalogTypes, CatalogTypeOK
  <1>2. a.row # NoRow /\ a.row.model # Unnamed
    BY CatalogAssumption DEF NoRow
  <1>3. Resolved(a.model) \in Model /\ Resolved(a.row.model) = a.row.model
    BY <1>1, <1>2, ResolvedIsModel DEF Asked, Resolved
  <1>4. vectors[p] = a.row.model
    BY <1>1, <1>2, <1>3 DEF Fits, AllAre
  <1>5. Compatible(a.row, a.model)
    BY <1>1 DEF Fits
  <1>6. KnownDim[a.row.model] = KnownDim[Resolved(a.model)]
    BY <1>2, <1>5 DEF Compatible
  <1>7. \A m \in Model : KnownDim[m] # 0 => KnownDim[m] = TrueDim[m]
    BY CatalogAssumption
  <1>8. TrueDim[a.row.model] = TrueDim[Resolved(a.model)]
    BY <1>3, <1>6, <1>7
  <1> QED BY <1>4, <1>8

(* What the tables say of a repository is so: the gate of a question, the row, the mark
   and the history, as storage_health and the metadata store read and write them. *)
THEOREM CatalogHolds == CatalogSpec => []CatalogIsTrue
  <1>1. ASSUME CatalogIInv
        PROVE  CatalogIsTrue
    <2>1. ReadyMeansBoth /\ CompletedIsAdmitted /\ HistoryIsTheLatest
      BY <1>1 DEF CatalogIInv
    <2>2. RowNamesTheVectors
      BY <1>1 DEF CatalogIInv, VectorsByStage, RowNamesTheVectors, AllAre
    <2>3. ServedIsNotStale
      BY <1>1 DEF CatalogIInv, KeptMeansThere, ServedIsNotStale
    <2>4. DimensionFits
      BY <1>1, DimensionsFit DEF DimensionFits
    <2> QED BY <2>1, <2>2, <2>3, <2>4 DEF CatalogIsTrue
  <1> QED BY <1>1, CatalogInvariance, PTL
-----------------------------------------------------------------------------
(* The global reset. *)

(* The places of the stages. *)
LEMMA Places ==
  /\ Underway = Stores \union {"forget", "done"}
  /\ Place["lexical"] = 1 /\ Place["chroma"] = 2 /\ Place["workspace"] = 3
  /\ Place["metadata"] = 4 /\ Place["graph"] = 5 /\ Place["forget"] = 6
  /\ Place["done"] = 7
  BY DEF Underway, Place, Stores

(* What is behind the stage after a store is that store and what is behind it. *)
LEMMA OneMorePassed ==
  /\ Passed("lexical") = {} /\ Passed("chroma") = Passed("lexical") \union {"lexical"}
  /\ Passed("workspace") = Passed("chroma") \union {"chroma"}
  /\ Passed("metadata") = Passed("workspace") \union {"workspace"}
  /\ Passed("graph") = Passed("metadata") \union {"metadata"}
  /\ Passed("forget") = Passed("graph") \union {"graph"}
  /\ Passed("done") = Passed("forget") /\ Passed("done") = Stores
  BY Places DEF Passed, Stores

(* The initial state: no ingest, no reset. *)
LEMMA ResetInitIInv ==
  ASSUME ResetInit
  PROVE  ResetIInv
  <1>1. ResetTypeOK /\ resets \in Nat /\ alone \in BOOLEAN
    <2>1. NothingCleared \in [cleared : SUBSET Stores, warns : BOOLEAN]
      BY DEF NothingCleared
    <2>2. Len(WriteOrder) = 5
      BY DEF WriteOrder
    <2>3. /\ holds \in [Stores -> SUBSET Repository] /\ stage \in [Ingest -> 0..5]
          /\ jobRow \in [Ingest -> {"none", "active", "ended"}]
          /\ thread \in [Ingest -> {"none", "alive", "over"}]
      BY DEF ResetInit
    <2>4. /\ tracked = {} /\ reset = "idle" /\ report = NothingCleared /\ met = {}
          /\ resets = 0 /\ alone = FALSE /\ reset = "idle"
      BY DEF ResetInit
    <2> QED BY <2>1, <2>2, <2>3, <2>4 DEF ResetTypeOK
  <1>2. ~alone /\ Alive = {}
    BY DEF ResetInit, Alive
  <1>3. reset \notin Underway /\ reset = "idle"
    BY Places DEF ResetInit, Stores
  <1> QED BY <1>1, <1>2, <1>3 DEF ResetIInv, EmptyOncePassed, AliveHasRow, FirstMetNone

(* A step of an ingest, which makes the reset less than alone as long as one lives. *)
LEMMA IngestStepsKeep ==
  ASSUME ResetIInv, NEW i \in Ingest, Accept(i) \/ Write(i) \/ ThreadEnds(i)
  PROVE  ResetIInv'
  <1>1. /\ UNCHANGED <<remote, reset, report, met, resets>>
        /\ alone' = (alone /\ Alive' = {})
    BY DEF Accept, Write, ThreadEnds, ByIngest
  <1>2. ResetTypeOK
    BY DEF ResetIInv
  <1>3. ResetTypeOK'
    <2>1. CASE Accept(i)
      BY <1>1, <1>2, <2>1 DEF ResetTypeOK, Accept
    <2>2. CASE Write(i)
      <3>1. stage[i] + 1 \in 1..5 /\ stage[i] \in 0..5
        BY <1>2, <2>2 DEF ResetTypeOK, Write, WriteOrder
      <3>2. WriteOrder[stage[i] + 1] \in Stores
        BY <3>1 DEF WriteOrder, Stores
      <3>3. SourceOf[i] \in Repository
        BY ResetAssumption
      <3>4. holds' \in [Stores -> SUBSET Repository]
        BY <1>2, <2>2, <3>2, <3>3 DEF ResetTypeOK, Write
      <3>5. stage' \in [Ingest -> 0..Len(WriteOrder)]
        BY <1>2, <2>2, <3>1 DEF ResetTypeOK, Write, WriteOrder
      <3>6. jobRow' \in [Ingest -> {"none", "active", "ended"}]
        BY <1>2, <2>2 DEF ResetTypeOK, Write
      <3>7. UNCHANGED <<thread, tracked>>
        BY <2>2 DEF Write
      <3> QED BY <1>1, <1>2, <3>4, <3>5, <3>6, <3>7 DEF ResetTypeOK
    <2>3. CASE ThreadEnds(i)
      BY <1>1, <1>2, <2>3 DEF ResetTypeOK, ThreadEnds
    <2> QED BY <2>1, <2>2, <2>3
  <1>4. AliveHasRow'
    BY <1>1, <1>2 DEF ResetIInv, ResetTypeOK, AliveHasRow, Alive, Accept, Write, ThreadEnds
  <1>5. EmptyOncePassed'
    <2>1. CASE Accept(i)
      <3>1. i \in Alive'
        BY <1>2, <2>1 DEF Accept, Alive, ResetTypeOK
      <3> QED BY <1>1, <3>1 DEF EmptyOncePassed
    <2>2. CASE Write(i) \/ ThreadEnds(i)
      <3>1. i \in Alive
        BY <2>2 DEF Write, ThreadEnds, Alive
      <3>2. ~alone
        BY <3>1 DEF ResetIInv
      <3> QED BY <1>1, <3>2 DEF EmptyOncePassed
    <2> QED BY <2>1, <2>2
  <1>6. FirstMetNone' /\ resets' \in Nat /\ alone' \in BOOLEAN /\ (alone' => Alive' = {})
    BY <1>1 DEF ResetIInv, FirstMetNone
  <1> QED BY <1>1, <1>3, <1>4, <1>5, <1>6 DEF ResetIInv

(* The process starts again; the reset that was underway is gone. *)
LEMMA ProcessRestartsKeeps ==
  ASSUME ResetIInv, ProcessRestarts
  PROVE  ResetIInv'
  <1>1. ResetTypeOK'
    BY DEF ResetIInv, ResetTypeOK, ProcessRestarts, NothingCleared
  <1>2. alone' = FALSE /\ reset' = "idle" /\ resets' = resets
    BY DEF ProcessRestarts
  <1>3. Alive' = {}
    BY DEF ResetIInv, ResetTypeOK, ProcessRestarts, Alive
  <1>4. "idle" \notin Underway
    BY Places DEF Stores
  <1> QED BY <1>1, <1>2, <1>3, <1>4 DEF ResetIInv, EmptyOncePassed, AliveHasRow, FirstMetNone

(* The look at the rows: before any reset no row is missing for an ingest that lives. *)
LEMMA ResetRequestedKeeps ==
  ASSUME ResetIInv, ResetRequested
  PROVE  ResetIInv'
  <1>1. /\ UNCHANGED <<holds, jobRow, thread, stage, tracked, remote>>
        /\ reset' = IF \E i \in Ingest : jobRow[i] = "active" THEN "refused" ELSE "lexical"
        /\ alone' = (Alive = {}) /\ met' = Alive /\ report' = NothingCleared
        /\ resets' = resets + 1
    BY DEF ResetRequested, clusterVars
  <1>2. Alive' = Alive /\ Alive \subseteq Ingest
    BY <1>1 DEF Alive
  <1>3. ResetTypeOK'
    BY <1>1, <1>2 DEF ResetIInv, ResetTypeOK, NothingCleared, Stores
  <1>4. EmptyOncePassed'
    <2>1. CASE \E i \in Ingest : jobRow[i] = "active"
      <3>1. reset' = "refused"
        BY <1>1, <2>1
      <3>2. "refused" \notin Underway
        BY Places DEF Stores
      <3> QED BY <3>1, <3>2 DEF EmptyOncePassed
    <2>2. CASE ~ \E i \in Ingest : jobRow[i] = "active"
      <3>1. reset' = "lexical"
        BY <1>1, <2>2
      <3> QED BY <3>1, OneMorePassed DEF EmptyOncePassed
    <2> QED BY <2>1, <2>2
  <1>5. FirstMetNone'
    <2> SUFFICES ASSUME resets' <= 1, reset' \in Underway
                 PROVE  met' = {}
      BY DEF FirstMetNone
    <2>1. resets = 0
      BY <1>1 DEF ResetIInv
    <2>2. \A i \in Ingest : jobRow[i] # "active"
      BY <1>1, Places DEF Stores
    <2> QED BY <1>1, <1>2, <2>1, <2>2 DEF ResetIInv, AliveHasRow
  <1>6. AliveHasRow' /\ resets' \in Nat /\ alone' \in BOOLEAN /\ (alone' => Alive' = {})
    BY <1>1, <1>2 DEF ResetIInv, AliveHasRow
  <1>7. resets' # 0
    BY <1>1 DEF ResetIInv
  <1> QED BY <1>3, <1>4, <1>5, <1>6, <1>7 DEF ResetIInv

(* A store is cleared, or its failure is a warning: one more is empty, or it warns. *)
LEMMA OneMoreEmpty ==
  ASSUME ResetIInv, NEW s \in Stores, NEW next \in Underway, reset = s, reset' = next,
         Passed(next) = Passed(s) \union {s},
         UNCHANGED <<thread, stage, tracked, alone, met, resets>>,
         holds' = [holds EXCEPT ![s] = {}] \/ (holds' = holds /\ report'.warns),
         report' \in [cleared : SUBSET Stores, warns : BOOLEAN],
         report.warns => report'.warns,
         s # "metadata" => jobRow' = jobRow,
         s = "metadata" => jobRow' \in {jobRow, [i \in Ingest |-> "none"]},
         s = "metadata" /\ ~report'.warns => jobRow' = [i \in Ingest |-> "none"]
  PROVE  ResetIInv'
  <1>1. ResetTypeOK'
    BY Places DEF ResetIInv, ResetTypeOK
  <1>2. Alive' = Alive
    BY DEF Alive
  <1>3. EmptyOncePassed'
    <2> SUFFICES ASSUME alone, ~report'.warns
                 PROVE  /\ \A t \in Passed(next) : holds'[t] = {}
                        /\ "metadata" \in Passed(next) => \A i \in Ingest : jobRow'[i] # "active"
      BY DEF EmptyOncePassed
    <2>1. /\ \A t \in Passed(s) : holds[t] = {}
          /\ "metadata" \in Passed(s) => \A i \in Ingest : jobRow[i] # "active"
      BY Places DEF ResetIInv, EmptyOncePassed
    <2>2. holds \in [Stores -> SUBSET Repository] /\ Passed(next) \subseteq Stores
      BY DEF ResetIInv, ResetTypeOK, Passed
    <2> QED BY <2>1, <2>2
  <1>4. FirstMetNone'
    BY Places DEF ResetIInv, FirstMetNone
  <1>5. resets # 0 /\ AliveHasRow'
    BY DEF ResetIInv, AliveHasRow, Stores
  <1> QED BY <1>1, <1>2, <1>3, <1>4, <1>5 DEF ResetIInv

(* The two stages that clear nothing or may answer a conflict, and the answer. *)
LEMMA LeavesStores ==
  ASSUME ResetIInv, UNCHANGED <<thread, stage, jobRow, holds, report, resets>>,
         tracked' \subseteq Ingest, met' \in {met, {}}, alone' \in BOOLEAN, alone' => alone,
         reset' \in {"idle", "conflict"} \/ (reset = "forget" /\ reset' = "done"),
         reset # "idle"
  PROVE  ResetIInv'
  <1>1. ResetTypeOK'
    BY DEF ResetIInv, ResetTypeOK
  <1>2. Alive' = Alive
    BY DEF Alive
  <1>3. EmptyOncePassed' /\ FirstMetNone'
    <2>1. CASE reset' \in {"idle", "conflict"}
      BY <2>1, Places DEF EmptyOncePassed, FirstMetNone, Stores
    <2>2. CASE reset = "forget" /\ reset' = "done"
      <3>1. "forget" \in Underway /\ Passed("done") = Passed("forget")
        BY Places, OneMorePassed
      <3>2. EmptyOncePassed'
        BY <2>2, <3>1 DEF ResetIInv, EmptyOncePassed
      <3>3. FirstMetNone'
        BY <2>2, <3>1 DEF ResetIInv, FirstMetNone
      <3> QED BY <3>2, <3>3
    <2> QED BY <2>1, <2>2
  <1>4. AliveHasRow' /\ resets' # 0 /\ resets' \in Nat /\ (alone' => Alive' = {})
    BY <1>2 DEF ResetIInv, AliveHasRow
  <1> QED BY <1>1, <1>3, <1>4 DEF ResetIInv

(* The stores, one after the other. *)
LEMMA ClearStoreKeeps ==
  ASSUME ResetIInv, ClearStore
  PROVE  ResetIInv'
  <1>0. /\ UNCHANGED <<jobRow, thread, stage, tracked, remote, alone, met, resets>>
        /\ report \in [cleared : SUBSET Stores, warns : BOOLEAN] /\ tracked \subseteq Ingest
    BY DEF ClearStore, ByReset, ResetIInv, ResetTypeOK
  <1>1. ASSUME NEW s \in Stores
        PROVE  /\ Listed(s) => /\ report' \in [cleared : SUBSET Stores, warns : BOOLEAN]
                              /\ report'.warns = report.warns
               /\ Warns => /\ report' \in [cleared : SUBSET Stores, warns : BOOLEAN]
                           /\ report'.warns
    BY <1>0 DEF Listed, Warns
  <1>2. ASSUME NEW s \in {"lexical", "graph", "chroma"}, NEW next \in Underway,
               ClearOrWarn(s, next), Passed(next) = Passed(s) \union {s}
        PROVE  ResetIInv'
    <2>1. /\ reset = s /\ reset' = next /\ s \in Stores
          /\ (Emptied(s) /\ Listed(s)) \/ (Warns /\ UNCHANGED holds)
      BY <1>2 DEF ClearOrWarn, To, Stores
    <2> QED BY <1>0, <1>1, <1>2, <2>1, OneMoreEmpty DEF Emptied
  <1>3. CASE ClearOrWarn("lexical", "chroma")
    BY <1>2, <1>3, OneMorePassed, Places DEF Stores
  <1>4. CASE ClearOrWarn("graph", "forget")
    BY <1>2, <1>4, OneMorePassed, Places DEF Stores
  <1>5. CASE ClearChroma
    <2>1. CASE ClearOrWarn("chroma", "workspace")
      BY <1>2, <2>1, OneMorePassed, Places DEF Stores
    <2>2. CASE ~ClearOrWarn("chroma", "workspace")
      <3>1. /\ reset = "chroma" /\ reset' = "workspace"
            /\ \/ Emptied("chroma") /\ Listed("chroma")
               \/ /\ report' = [cleared |-> report.cleared \union {"chroma"}, warns |-> TRUE]
                  /\ (Emptied("chroma") \/ UNCHANGED holds)
        BY <1>5, <2>2 DEF ClearChroma, To
      <3>2. "chroma" \in Stores /\ "workspace" \in Underway
            /\ Passed("workspace") = Passed("chroma") \union {"chroma"}
        BY OneMorePassed, Places DEF Stores
      <3>3. /\ report' \in [cleared : SUBSET Stores, warns : BOOLEAN]
            /\ report.warns => report'.warns
        <4>1. CASE Listed("chroma")
          BY <1>1, <3>2, <4>1
        <4>2. CASE report' = [cleared |-> report.cleared \union {"chroma"}, warns |-> TRUE]
          BY <1>0, <3>2, <4>2
        <4> QED BY <3>1, <4>1, <4>2
      <3>4. holds' = [holds EXCEPT !["chroma"] = {}] \/ (holds' = holds /\ report'.warns)
        BY <3>1 DEF Emptied
      <3> QED BY <1>0, <3>1, <3>2, <3>3, <3>4, OneMoreEmpty
    <2> QED BY <2>1, <2>2
  <1>6. CASE ClearWorkspace
    <2>1. CASE reset' = "conflict" /\ UNCHANGED <<holds, report>>
      <3>1. reset # "idle" /\ alone \in BOOLEAN
        BY <1>6 DEF ClearWorkspace, ResetIInv
      <3>2. UNCHANGED <<thread, stage, jobRow, holds, report, resets>> /\ tracked' \subseteq Ingest
        BY <1>0, <2>1
      <3>3. met' \in {met, {}} /\ alone' \in BOOLEAN /\ (alone' => alone)
        BY <1>0, <3>1
      <3> QED BY <2>1, <3>1, <3>2, <3>3, LeavesStores
    <2>2. CASE ~(reset' = "conflict" /\ UNCHANGED <<holds, report>>)
      <3>1. /\ reset = "workspace" /\ reset' = "metadata"
            /\ Emptied("workspace") /\ Listed("workspace")
        BY <1>6, <2>2 DEF ClearWorkspace, To
      <3>2. "workspace" \in Stores /\ "metadata" \in Underway
            /\ Passed("metadata") = Passed("workspace") \union {"workspace"}
        BY OneMorePassed, Places DEF Stores
      <3> QED BY <1>0, <1>1, <3>1, <3>2, OneMoreEmpty DEF Emptied
    <2> QED BY <2>1, <2>2
  <1> QED BY <1>3, <1>4, <1>5, <1>6 DEF ClearStore

(* The metadata, whose rows go with the snapshots and the catalog. *)
LEMMA ClearMetadataKeeps ==
  ASSUME ResetIInv, ClearMetadata
  PROVE  ResetIInv'
  <1>0. /\ UNCHANGED <<thread, stage, tracked, remote, alone, met, resets>>
        /\ report \in [cleared : SUBSET Stores, warns : BOOLEAN]
    BY DEF ClearMetadata, ByReset, ResetIInv, ResetTypeOK
  <1>1. /\ reset = "metadata" /\ reset' = "graph"
        /\ \/ Emptied("metadata") /\ Listed("metadata")
           \/ Warns /\ UNCHANGED holds
        /\ jobRow' = IF "metadata" \in report'.cleared THEN [i \in Ingest |-> "none"]
                     ELSE jobRow
    BY DEF ClearMetadata, ClearOrWarn, To
  <1>2. "metadata" \in Stores /\ "graph" \in Underway
        /\ Passed("graph") = Passed("metadata") \union {"metadata"}
    BY OneMorePassed, Places DEF Stores
  <1>3. CASE Emptied("metadata") /\ Listed("metadata")
    <2>1. /\ report' \in [cleared : SUBSET Stores, warns : BOOLEAN]
          /\ report'.warns = report.warns /\ "metadata" \in report'.cleared
      BY <1>0, <1>2, <1>3 DEF Listed
    <2> QED BY <1>0, <1>1, <1>2, <1>3, <2>1, OneMoreEmpty DEF Emptied
  <1>4. CASE Warns /\ UNCHANGED holds
    <2>1. report' \in [cleared : SUBSET Stores, warns : BOOLEAN] /\ report'.warns
      BY <1>0, <1>4 DEF Warns
    <2> QED BY <1>0, <1>1, <1>2, <1>4, <2>1, OneMoreEmpty
  <1> QED BY <1>1, <1>3, <1>4

(* Every step keeps the invariant. *)
LEMMA ResetStepKeeps ==
  ASSUME ResetIInv, [ResetNext]_resetVars
  PROVE  ResetIInv'
  <1>1. CASE Forget
    BY <1>1, LeavesStores DEF Forget, To, ResetIInv, ResetTypeOK
  <1>2. CASE Answered
    <2>1. /\ UNCHANGED <<thread, stage, jobRow, holds, report, resets, tracked>>
          /\ met' = {} /\ alone' = FALSE /\ reset' = "idle" /\ reset # "idle"
      BY <1>2 DEF Answered, To, clusterVars
    <2>2. tracked' \subseteq Ingest
      BY <2>1 DEF ResetIInv, ResetTypeOK
    <2> QED BY <2>1, <2>2, LeavesStores
  <1>3. CASE UNCHANGED resetVars
    <2>1. UNCHANGED <<holds, jobRow, thread, stage, tracked, remote, reset, report, alone,
                      met, resets>>
      BY <1>3 DEF resetVars, clusterVars
    <2> QED BY <2>1 DEF ResetIInv, ResetTypeOK, EmptyOncePassed, AliveHasRow, FirstMetNone, Alive
  <1> QED BY <1>1, <1>2, <1>3, IngestStepsKeep, ProcessRestartsKeeps, ResetRequestedKeeps,
             ClearStoreKeeps, ClearMetadataKeeps DEF ResetNext, ResetStep

(* The inductive invariant of the global reset beside ingests holds for any number of
   ingests, resets, failures and restarts. *)
THEOREM ResetInvariance == ResetSpec => []ResetIInv
  <1>1. ResetInit => ResetIInv
    BY ResetInitIInv
  <1>2. ResetIInv /\ [ResetNext]_resetVars => ResetIInv'
    BY ResetStepKeeps
  <1> QED BY <1>1, <1>2, PTL DEF ResetSpec

(* reset_all_data reports what is so: without a warning, and beside no ingest, the five
   stores are empty and no row is active; the first reset never clears anything under
   an ingest that ran when it looked for active rows. *)
THEOREM ResetHolds == ResetSpec => []ResetIsTrue
  <1>1. ASSUME ResetIInv
        PROVE  ResetIsTrue
    <2>1. ResetMeansEmpty
      BY <1>1, OneMorePassed, Places
         DEF ResetIInv, EmptyOncePassed, ResetMeansEmpty, Stores
    <2>2. RunningBlocksReset
      BY <1>1, Places DEF ResetIInv, FirstMetNone, RunningBlocksReset
    <2> QED BY <2>1, <2>2 DEF ResetIsTrue
  <1> QED BY <1>1, ResetInvariance, PTL

-----------------------------------------------------------------------------
(* The list of tables is not empty, and every place of it holds a table. *)
LEMMA TablesAre ==
  /\ Len(LegacyTables) \in Nat \ {0} /\ DOMAIN LegacyTables = 1..Len(LegacyTables)
  /\ \A n \in DOMAIN LegacyTables : LegacyTables[n] \in Tables
  BY ReportAssumption DEF Tables

(* How many rows a table has; when none is missing, none is. *)
LEMMA CountsAre ==
  ASSUME NEW rows \in SUBSET CutoverRow
  PROVE  Cardinality(rows) \in Nat /\ (Cardinality(rows) = 0 => rows = {})
  <1>1. IsFiniteSet(rows)
    BY ReportAssumption, FS_Subset
  <1> QED BY <1>1, FS_CardinalityType, FS_EmptySet

(* The initial state: nothing is copied, audited or written. *)
LEMMA ReportInitIInv ==
  ASSUME ReportInit
  PROVE  ReportIInv
  <1>1. table \in DOMAIN LegacyTables
    BY TablesAre DEF ReportInit
  <1>2. /\ oldRows \in RowsOf /\ newRows \in RowsOf /\ copied \in RowsOf /\ audited \in RowsOf
        /\ gone \in RowsOf
    BY DEF ReportInit, RowsOf
  <1>3. audit \in [Tables -> Count]
    BY DEF ReportInit, Count
  <1>4. /\ \A t \in Tables : audited[t] = {}
        /\ reportStage = "copy" /\ written = <<>> /\ health = "unasked" /\ present \subseteq Tables
    BY DEF ReportInit
  <1>5. ReportTypeOK
    BY <1>1, <1>2, <1>4 DEF ReportTypeOK, RowsOf
  <1> QED BY <1>2, <1>3, <1>4, <1>5 DEF ReportIInv, KeepsWhatItSaw, CopiedUntilCommit,
            NothingAuditedYet, WrittenOnce, TickedMeansReady, SaysReady

(* The type of the report follows from the types of its rows. *)
LEMMA RowsAreTyped ==
  ASSUME oldRows \in RowsOf, newRows \in RowsOf, copied \in RowsOf
  PROVE  \A t \in Tables : oldRows[t] \union newRows[t] \union copied[t] \subseteq CutoverRow
  BY DEF RowsOf

(* The copy of one table. *)
LEMMA CopyTableKeeps ==
  ASSUME ReportIInv, CopyTable
  PROVE  ReportIInv'
  <1>1. /\ reportStage = "copy" /\ reportStage' \in {"copy", "audit"}
        /\ UNCHANGED <<present, oldRows, newRows, gone, audit, health, written, audited>>
    BY DEF CopyTable, InTurn, TheRestStays
  <1>2. LegacyTables[table] \in Tables /\ table' \in DOMAIN LegacyTables
    BY TablesAre DEF ReportIInv, ReportTypeOK, CopyTable, InTurn
  <1>3. copied' \in RowsOf
    BY <1>2 DEF ReportIInv, RowsOf, CopyTable
  <1>4. \A t \in Tables : audited[t] = {}
    BY <1>1 DEF ReportIInv, NothingAuditedYet
  <1>5. ReportTypeOK'
    BY <1>1, <1>2, <1>3 DEF ReportIInv, ReportTypeOK, RowsOf
  <1>6. written = <<>>
    BY <1>1 DEF ReportIInv, WrittenOnce
  <1>7. KeepsWhatItSaw' /\ CopiedUntilCommit' /\ NothingAuditedYet' /\ WrittenOnce'
    BY <1>1, <1>4, <1>6 DEF KeepsWhatItSaw, CopiedUntilCommit, NothingAuditedYet, WrittenOnce
  <1> QED BY <1>1, <1>3, <1>5, <1>6, <1>7 DEF ReportIInv, TickedMeansReady, SaysReady

(* The two counts of a table say nothing yet of what is missing. *)
LEMMA CountRowsKeeps ==
  ASSUME ReportIInv, CountRows
  PROVE  ReportIInv'
  <1> DEFINE t == LegacyTables[table]
             before == Cardinality(oldRows[t])
             now == Cardinality(newRows[t] \union copied[t])
  <1>1. /\ reportStage = "audit" /\ reportStage' = "missing"
        /\ UNCHANGED <<present, oldRows, newRows, copied, gone, table, health, written, audited>>
        /\ audit' = [audit EXCEPT ![t].source = before, ![t].after = now]
    BY DEF CountRows, TheRestStays
  <1>2. t \in Tables
    BY TablesAre DEF ReportIInv, ReportTypeOK
  <1>3. before \in Nat /\ now \in Nat
    <2>1. oldRows[t] \in SUBSET CutoverRow /\ newRows[t] \union copied[t] \in SUBSET CutoverRow
      BY <1>2 DEF ReportIInv, RowsOf
    <2> QED BY <2>1, CountsAre
  <1> HIDE DEF t, before, now
  <1>4. audit' \in [Tables -> Count] /\ \A u \in Tables : audit'[u].missing = audit[u].missing
    BY <1>1, <1>2, <1>3 DEF ReportIInv, Count
  <1>5. written = <<>>
    BY <1>1 DEF ReportIInv, WrittenOnce
  <1>6. KeepsWhatItSaw'
    BY <1>1, <1>4 DEF ReportIInv, KeepsWhatItSaw
  <1>7. CopiedUntilCommit' /\ NothingAuditedYet' /\ WrittenOnce'
    BY <1>1, <1>5 DEF CopiedUntilCommit, NothingAuditedYet, WrittenOnce
  <1>8. ReportTypeOK'
    BY <1>1 DEF ReportIInv, ReportTypeOK
  <1> QED BY <1>1, <1>4, <1>5, <1>6, <1>7, <1>8
          DEF ReportIInv, TickedMeansReady, SaysReady, RowsOf

(* The rows without a counterpart: when there are none, all are copied. *)
LEMMA CountMissingKeeps ==
  ASSUME ReportIInv, CountMissing
  PROVE  ReportIInv'
  <1> DEFINE t == LegacyTables[table]
             lost == oldRows[t] \ (newRows[t] \union copied[t])
  <1>1. /\ reportStage = "missing" /\ reportStage' \in {"audit", "commit"}
        /\ UNCHANGED <<present, oldRows, newRows, copied, gone, health, written>>
        /\ audit' = [audit EXCEPT ![t].missing = Cardinality(lost)]
        /\ audited' = [audited EXCEPT ![t] = oldRows[t]]
    BY DEF CountMissing, TheRestStays
  <1>2. t \in Tables /\ table' \in DOMAIN LegacyTables
    BY TablesAre DEF ReportIInv, ReportTypeOK, CountMissing
  <1>3. Cardinality(lost) \in Nat /\ (Cardinality(lost) = 0 => lost = {})
    <2>1. lost \in SUBSET CutoverRow
      BY <1>2 DEF ReportIInv, RowsOf
    <2> HIDE DEF lost
    <2> QED BY <2>1, CountsAre
  <1>4. audited' \in RowsOf /\ audited'[t] = oldRows[t]
        /\ \A u \in Tables \ {t} : audited'[u] = audited[u]
    BY <1>1, <1>2 DEF ReportIInv, RowsOf
  <1> DEFINE missing == Cardinality(lost)
  <1>5. audit' \in [Tables -> Count] /\ audit'[t].missing = missing
        /\ \A u \in Tables \ {t} : audit'[u].missing = audit[u].missing
    <2>1. missing \in Nat /\ audit' = [audit EXCEPT ![t].missing = missing]
      BY <1>1, <1>3
    <2> HIDE DEF missing, t
    <2> QED BY <1>2, <2>1 DEF ReportIInv, Count
  <1>6. written = <<>>
    BY <1>1 DEF ReportIInv, WrittenOnce
  <1>7. KeepsWhatItSaw'
    <2> SUFFICES ASSUME NEW u \in Tables, audit'[u].missing = 0
                 PROVE  audited'[u] \subseteq newRows'[u] \union copied'[u] \union gone'[u]
      BY DEF KeepsWhatItSaw
    <2>1. CASE u = t
      <3>1. lost = {}
        BY <1>3, <1>5, <2>1
      <3> QED BY <1>1, <1>4, <2>1, <3>1
    <2>2. CASE u # t
      <3>1. audited[u] \subseteq newRows[u] \union copied[u] \union gone[u]
        BY <1>1, <1>5, <2>2 DEF ReportIInv, KeepsWhatItSaw
      <3> QED BY <1>1, <1>4, <2>2, <3>1
    <2> QED BY <2>1, <2>2
  <1>8. CopiedUntilCommit' /\ NothingAuditedYet' /\ WrittenOnce'
    BY <1>1, <1>6 DEF CopiedUntilCommit, NothingAuditedYet, WrittenOnce
  <1>9. ReportTypeOK'
    BY <1>1, <1>2 DEF ReportIInv, ReportTypeOK
  <1> QED BY <1>1, <1>4, <1>5, <1>6, <1>7, <1>8, <1>9
          DEF ReportIInv, TickedMeansReady, SaysReady, RowsOf

(* The transaction commits: what it had written is in the new tables. *)
LEMMA CommitCopyKeeps ==
  ASSUME ReportIInv, CommitCopy
  PROVE  ReportIInv'
  <1>1. /\ reportStage = "commit" /\ reportStage' = "health"
        /\ UNCHANGED <<present, oldRows, gone, audit, table, health, written, audited>>
    BY DEF CommitCopy, TheRestStays
  <1>2. /\ newRows' \in RowsOf /\ copied' \in RowsOf
        /\ \A t \in Tables : newRows'[t] = newRows[t] \union copied[t] /\ copied'[t] = {}
    BY DEF ReportIInv, RowsOf, CommitCopy
  <1>3. written = <<>>
    BY <1>1 DEF ReportIInv, WrittenOnce
  <1>4. KeepsWhatItSaw'
    BY <1>1, <1>2 DEF ReportIInv, KeepsWhatItSaw
  <1>5. CopiedUntilCommit' /\ NothingAuditedYet' /\ WrittenOnce'
    BY <1>1, <1>2, <1>3 DEF CopiedUntilCommit, NothingAuditedYet, WrittenOnce
  <1>6. ReportTypeOK'
    <2>1. oldRows' \in RowsOf
      BY <1>1 DEF ReportIInv, RowsOf
    <2> QED BY <1>1, <1>2, <2>1 DEF ReportIInv, ReportTypeOK, RowsOf
  <1> QED BY <1>1, <1>2, <1>3, <1>4, <1>5, <1>6
          DEF ReportIInv, TickedMeansReady, SaysReady, RowsOf

(* The answer of /health. *)
LEMMA AskHealthKeeps ==
  ASSUME ReportIInv, AskHealth
  PROVE  ReportIInv'
  <1>1. /\ reportStage = "health" /\ reportStage' = "report"
        /\ UNCHANGED <<present, oldRows, newRows, copied, gone, audit, table, written, audited>>
        /\ health' \in {"unasked", "ok", "not_ok"}
    BY DEF AskHealth, TheRestStays
  <1>2. written = <<>>
    BY <1>1 DEF ReportIInv, WrittenOnce
  <1>3. KeepsWhatItSaw' /\ CopiedUntilCommit' /\ NothingAuditedYet' /\ WrittenOnce'
    BY <1>1, <1>2
       DEF ReportIInv, KeepsWhatItSaw, CopiedUntilCommit, NothingAuditedYet, WrittenOnce
  <1>4. ReportTypeOK'
    BY <1>1 DEF ReportIInv, ReportTypeOK
  <1> QED BY <1>1, <1>2, <1>3, <1>4 DEF ReportIInv, TickedMeansReady, SaysReady, RowsOf

(* The run fails: what is not committed is undone, and nothing is written. *)
LEMMA RunFailsKeeps ==
  ASSUME ReportIInv, RunFails
  PROVE  ReportIInv'
  <1>1. /\ reportStage # "over" /\ reportStage' = "over"
        /\ UNCHANGED <<present, oldRows, newRows, gone, audit, table, health, written, audited>>
        /\ copied' = [t \in Tables |-> {}]
    BY DEF RunFails
  <1>2. written = <<>> /\ copied' \in RowsOf
    BY <1>1 DEF ReportIInv, WrittenOnce, RowsOf
  <1>3. KeepsWhatItSaw' /\ CopiedUntilCommit' /\ NothingAuditedYet' /\ WrittenOnce'
    BY <1>1, <1>2 DEF KeepsWhatItSaw, CopiedUntilCommit, NothingAuditedYet, WrittenOnce
  <1>4. ReportTypeOK'
    <2>1. oldRows' \in RowsOf /\ newRows' \in RowsOf
      BY <1>1 DEF ReportIInv, RowsOf
    <2> QED BY <1>1, <1>2, <2>1 DEF ReportIInv, ReportTypeOK, RowsOf
  <1> QED BY <1>1, <1>2, <1>3, <1>4 DEF ReportIInv, TickedMeansReady, SaysReady, RowsOf

(* What other processes write beside the copy. *)
LEMMA OthersWriteKeep ==
  ASSUME ReportIInv, NEW t \in Tables, NEW r \in CutoverRow,
         OldWrites(t, r) \/ ApiWrites(t, r) \/ ApiDeletes(t, r)
  PROVE  ReportIInv'
  <1>1. UNCHANGED <<present, copied, audit, reportStage, table, health, written, audited>>
    BY DEF OldWrites, ApiWrites, ApiDeletes, runVars
  <1>2. /\ oldRows' \in RowsOf /\ newRows' \in RowsOf /\ gone' \in RowsOf
        /\ \A u \in Tables : newRows[u] \union gone[u] \subseteq newRows'[u] \union gone'[u]
    BY DEF ReportIInv, RowsOf, OldWrites, ApiWrites, ApiDeletes
  <1>3. KeepsWhatItSaw'
    BY <1>1, <1>2 DEF ReportIInv, KeepsWhatItSaw
  <1>4. CopiedUntilCommit' /\ NothingAuditedYet' /\ WrittenOnce'
    BY <1>1 DEF ReportIInv, CopiedUntilCommit, NothingAuditedYet, WrittenOnce
  <1>5. ReportTypeOK'
    <2>1. copied' \in RowsOf
      BY <1>1 DEF ReportIInv, RowsOf
    <2> QED BY <1>1, <1>2, <2>1 DEF ReportIInv, ReportTypeOK, RowsOf
  <1> QED BY <1>1, <1>2, <1>3, <1>4, <1>5 DEF ReportIInv, TickedMeansReady, SaysReady, RowsOf

-----------------------------------------------------------------------------
(* A tick that stands for what holds is set. *)
LEMMA Ticked ==
  ASSUME NEW item, NEW title, NEW tick \in BOOLEAN, item = <<title, tick>>, tick
  PROVE  item[2]
  OBVIOUS

(* The checklist and the flag of the cutover say the same. *)
LEMMA ChecklistAgrees ==
  ASSUME ReportIInv, NEW manual \in SUBSET Confirmations
  PROVE  (Automatic /\ manual = Confirmations) <=> \A item \in Checklist(manual) : item[2]
  <1>1. health \in {"unasked", "ok", "not_ok"}
    BY DEF ReportIInv
  <1>2. ASSUME Automatic, manual = Confirmations, NEW item \in Checklist(manual)
        PROVE  item[2]
    <2>1. CASE item = <<"heads", TRUE>>
      BY <2>1
    <2>2. CASE item = <<"tables", present = Tables>>
      BY <1>2, <2>2, Ticked DEF Automatic
    <2>3. CASE item \in {<<t, RowReady(t)>> : t \in present}
      <3>1. PICK t \in present : item = <<t, RowReady(t)>>
        BY <2>3
      <3>2. RowReady(t) /\ RowReady(t) \in BOOLEAN
        BY <1>2 DEF Automatic, RowReady
      <3> QED BY <3>1, <3>2, Ticked
    <2>4. CASE item = <<"health", health = "ok">> /\ health # "unasked"
      <3>1. health = "ok"
        BY <1>1, <1>2, <2>4 DEF Automatic
      <3> QED BY <2>4, <3>1, Ticked
    <2>5. CASE item \in {<<c, c \in manual>> : c \in Confirmations}
      <3>1. PICK c \in Confirmations : item = <<c, c \in manual>>
        BY <2>5
      <3>2. c \in manual
        BY <1>2
      <3> QED BY <3>1, <3>2, Ticked
    <2> QED BY <1>2, <2>1, <2>2, <2>3, <2>4, <2>5 DEF Checklist
  <1>3. ASSUME \A item \in Checklist(manual) : item[2]
        PROVE  Automatic /\ manual = Confirmations
    <2>1. present = Tables
      <3>1. <<"tables", present = Tables>> \in Checklist(manual)
        BY DEF Checklist
      <3> QED BY <1>3, <3>1
    <2>2. \A t \in present : RowReady(t)
      <3>1. \A t \in present : <<t, RowReady(t)>> \in Checklist(manual)
        BY DEF Checklist
      <3> QED BY <1>3, <3>1
    <2>3. health # "not_ok"
      <3>1. health # "unasked" => <<"health", health = "ok">> \in Checklist(manual)
        BY DEF Checklist
      <3> QED BY <1>3, <3>1
    <2>4. \A c \in Confirmations : c \in manual
      <3>1. \A c \in Confirmations : <<c, c \in manual>> \in Checklist(manual)
        BY DEF Checklist
      <3> QED BY <1>3, <3>1
    <2> QED BY <2>1, <2>2, <2>3, <2>4 DEF Automatic
  <1> QED BY <1>2, <1>3

(* So do those of the end of the observation. *)
LEMMA ExitsAgree ==
  ASSUME NEW observed \in SUBSET ExitConfirmations
  PROVE  (Automatic /\ observed = ExitConfirmations)
           <=> \A item \in ObservationChecklist(observed) : item[2]
  <1>1. ASSUME Automatic, observed = ExitConfirmations,
               NEW item \in ObservationChecklist(observed)
        PROVE  item[2]
    <2>1. CASE item = <<"evidence", Automatic>>
      <3>1. Automatic \in BOOLEAN
        BY DEF Automatic
      <3> QED BY <1>1, <2>1, <3>1, Ticked
    <2>2. CASE item \in {<<c, c \in observed>> : c \in ExitConfirmations}
      <3>1. PICK c \in ExitConfirmations : item = <<c, c \in observed>>
        BY <2>2
      <3>2. c \in observed
        BY <1>1
      <3> QED BY <3>1, <3>2, Ticked
    <2> QED BY <1>1, <2>1, <2>2 DEF ObservationChecklist
  <1>2. ASSUME \A item \in ObservationChecklist(observed) : item[2]
        PROVE  Automatic /\ observed = ExitConfirmations
    <2>1. <<"evidence", Automatic>> \in ObservationChecklist(observed)
      BY DEF ObservationChecklist
    <2>2. Automatic
      BY <1>2, <2>1
    <2>3. \A c \in ExitConfirmations : <<c, c \in observed>> \in ObservationChecklist(observed)
      BY DEF ObservationChecklist
    <2>4. \A c \in ExitConfirmations : c \in observed
      BY <1>2, <2>3
    <2> QED BY <2>2, <2>4
  <1> QED BY <1>1, <1>2

(* The report is written: its flags and its checklists come from the same audit. *)
LEMMA WriteReportKeeps ==
  ASSUME ReportIInv, NEW manual \in SUBSET Confirmations,
         NEW observed \in SUBSET ExitConfirmations, WriteReport(manual, observed)
  PROVE  ReportIInv'
  <1> DEFINE ready == Automatic /\ manual = Confirmations
             finished == Automatic /\ observed = ExitConfirmations
             list == Checklist(manual)
             exits == ObservationChecklist(observed)
  <1>1. /\ reportStage = "report" /\ reportStage' = "over"
        /\ UNCHANGED <<present, oldRows, newRows, copied, gone, audit, table, health, audited>>
        /\ written' = <<[cutover |-> ready, observation |-> finished,
                         checklist |-> list, exits |-> exits]>>
    BY DEF WriteReport, TheRestStays
  <1>2. ready \in BOOLEAN /\ finished \in BOOLEAN
    OBVIOUS
  <1>3. ready <=> \A item \in list : item[2]
    BY ChecklistAgrees
  <1>4. finished <=> \A item \in exits : item[2]
    BY ExitsAgree
  <1>5. ready => \A t \in Tables : audit[t].missing = 0
    BY DEF Automatic, RowReady
  <1> HIDE DEF ready, finished, list, exits
  <1>6. /\ written'[1].cutover = ready /\ written'[1].observation = finished
        /\ written'[1].checklist = list /\ written'[1].exits = exits
    BY <1>1
  <1>7. TickedMeansReady'
    BY <1>2, <1>3, <1>4, <1>6 DEF TickedMeansReady
  <1>8. SaysReady' => \A t \in Tables : audit'[t].missing = 0
    BY <1>1, <1>2, <1>5, <1>6 DEF SaysReady
  <1>9. KeepsWhatItSaw' /\ CopiedUntilCommit' /\ NothingAuditedYet' /\ WrittenOnce'
    BY <1>1 DEF ReportIInv, KeepsWhatItSaw, CopiedUntilCommit, NothingAuditedYet, WrittenOnce
  <1>10. ReportTypeOK'
    BY <1>1 DEF ReportIInv, ReportTypeOK
  <1>11. /\ oldRows' \in RowsOf /\ newRows' \in RowsOf /\ copied' \in RowsOf
         /\ audited' \in RowsOf /\ gone' \in RowsOf /\ audit' \in [Tables -> Count]
         /\ health' \in {"unasked", "ok", "not_ok"}
    BY <1>1 DEF ReportIInv, RowsOf
  <1> QED BY <1>7, <1>8, <1>9, <1>10, <1>11 DEF ReportIInv

(* Every step keeps the invariant. *)
LEMMA ReportStepKeeps ==
  ASSUME ReportIInv, [ReportNext]_reportVars
  PROVE  ReportIInv'
  <1>1. CASE \E manual \in {{"backup", "rollback"}, Confirmations},
                observed \in {{"window"}, ExitConfirmations} : WriteReport(manual, observed)
    <2>1. /\ {{"backup", "rollback"}, Confirmations} \subseteq SUBSET Confirmations
          /\ {{"window"}, ExitConfirmations} \subseteq SUBSET ExitConfirmations
      BY DEF Confirmations, ExitConfirmations
    <2> QED BY <1>1, <2>1, WriteReportKeeps
  <1>2. CASE \E t \in Tables, r \in CutoverRow :
               OldWrites(t, r) \/ ApiWrites(t, r) \/ ApiDeletes(t, r)
    BY <1>2, OthersWriteKeep
  <1>3. CASE UNCHANGED reportVars
    BY <1>3 DEF ReportIInv, ReportTypeOK, KeepsWhatItSaw, CopiedUntilCommit, NothingAuditedYet,
                WrittenOnce, TickedMeansReady, SaysReady, reportVars, runVars
  <1> QED BY <1>1, <1>2, <1>3, CopyTableKeeps, CountRowsKeeps, CountMissingKeeps,
             CommitCopyKeeps, AskHealthKeeps, RunFailsKeeps DEF ReportNext

(* The inductive invariant of the cutover report holds for any tables, and whatever
   processes of the two versions write beside the copy. *)
THEOREM ReportInvariance == ReportSpec => []ReportIInv
  <1>1. ReportInit => ReportIInv
    BY ReportInitIInv
  <1>2. ReportIInv /\ [ReportNext]_reportVars => ReportIInv'
    BY ReportStepKeeps
  <1> QED BY <1>1, <1>2, PTL DEF ReportSpec

(* What a report of run_postgres_legacy_cutover.py says is so: its checklists and its
   flags agree, and one that says ready vouches for every row that the audit saw. *)
THEOREM CutoverHolds == ReportSpec => []CutoverIsTrue
  <1>1. ASSUME ReportIInv
        PROVE  CutoverIsTrue
    <2>1. ReadyMeansCopied
      <3> SUFFICES ASSUME SaysReady, NEW t \in Tables
                   PROVE  audited[t] \subseteq newRows[t] \union gone[t]
        BY DEF ReadyMeansCopied
      <3>1. reportStage = "over" /\ written # <<>>
        BY <1>1 DEF ReportIInv, WrittenOnce, SaysReady
      <3>2. copied[t] = {} /\ audit[t].missing = 0
        BY <1>1, <3>1 DEF ReportIInv, CopiedUntilCommit
      <3> QED BY <1>1, <3>1, <3>2 DEF ReportIInv, KeepsWhatItSaw
    <2> QED BY <1>1, <2>1 DEF ReportIInv, CutoverIsTrue
  <1> QED BY <1>1, ReportInvariance, PTL

================================================================================
