------------------------------ MODULE Embedding ------------------------------
(* EmbeddingClient.embed_texts of ingestion/embedding.py and what becomes of its
   vectors: texts go to the provider in batches; a batch that fails is replaced
   by deterministic vectors, one that comes back short leaves fewer vectors. The ingest
   then writes the vectors next to the ids of the texts, batch by batch, into a
   collection that takes the dimension of the first vector it is given.

   A vector is the text it was made from, its dimension and whether it is real. An answer
   that holds an entry without values is one of another dimension, which fails. *)
EXTENDS Integers, Sequences, FiniteSets, SequencesExt

CONSTANTS
    MaxTexts,         \* bound: texts of one call
    TextsPerRequest,  \* batch_size
    IdsPerWrite,      \* batch size of the upsert
    NativeDims,       \* dimensions of the models
    DefaultDim,       \* MODEL_DIMENSIONS.get(model, 768)
    MaxEmbedCalls,    \* bound: calls for one collection
    MaxBadAnswers     \* bound: requests that fail or answer less than asked

ASSUME EmbeddingAssumption ==
    /\ MaxTexts \in Nat /\ TextsPerRequest \in Nat \ {0} /\ IdsPerWrite \in Nat \ {0}
    /\ NativeDims \subseteq Nat \ {0} /\ DefaultDim \in Nat \ {0}
    /\ MaxEmbedCalls \in Nat /\ MaxBadAnswers \in Nat

VARIABLES
    usable,        \* the provider has its key or its credentials
    nativeDim,     \* dimension of the model's own vectors
    texts, sent,   \* texts of the call and how many of them were sent
    vectors, targetDim,
    reported,      \* progress_callback
    shortfall,     \* an answer of this call had fewer vectors than texts
    failedBatch,   \* texts whose request failed in this call
    collectionDim, stored,   \* the collection: its dimension, text -> vector
    outcome, embedCalls, badAnswers

embeddingVars == <<usable, nativeDim, texts, sent, vectors, targetDim, reported, shortfall,
                   failedBatch, collectionDim, stored, outcome, embedCalls, badAnswers>>
collectionVars == <<collectionDim, stored>>

Unset == 0
Vector(i, d, own) == [text |-> i, dim |-> d, real |-> own]
AtMost(m, n) == IF m <= n THEN m ELSE n
BatchEnd == AtMost(sent + TextsPerRequest, texts)
BatchTexts == [k \in 1 .. BatchEnd - sent |-> sent + k]

EmbeddingInit ==
    /\ usable \in BOOLEAN /\ nativeDim \in NativeDims
    /\ texts = 0 /\ sent = 0 /\ vectors = <<>> /\ targetDim = Unset
    /\ reported = 0 /\ shortfall = FALSE /\ failedBatch = {}
    /\ collectionDim = Unset /\ stored = <<>> /\ outcome = "none"
    /\ embedCalls = 0 /\ badAnswers = 0

-----------------------------------------------------------------------------
(* Without a key or credentials every text gets its deterministic vector. *)
EmbedTexts ==
    /\ outcome # "embedding" /\ outcome # "embedded" /\ embedCalls < MaxEmbedCalls
    /\ embedCalls' = embedCalls + 1
    /\ texts' \in 1 .. MaxTexts
    /\ IF usable
       THEN /\ vectors' = <<>> /\ targetDim' = Unset /\ sent' = 0
            /\ outcome' = "embedding"
       ELSE /\ vectors' = [i \in 1 .. texts' |-> Vector(i, DefaultDim, FALSE)]
            /\ targetDim' = DefaultDim /\ sent' = texts' /\ outcome' = "embedded"
    /\ reported' = 0 /\ shortfall' = FALSE /\ failedBatch' = {}
    /\ UNCHANGED <<usable, nativeDim, badAnswers>> /\ UNCHANGED collectionVars

InLoop == outcome = "embedding" /\ sent < texts
Advance == sent' = BatchEnd /\ reported' = BatchEnd

(* The dimension of the vectors before, or the default one. *)
FallbackDim == IF targetDim = Unset THEN DefaultDim ELSE targetDim

FallBack ==
    /\ targetDim' = FallbackDim
    /\ vectors' = vectors \o [k \in DOMAIN BatchTexts |-> Vector(BatchTexts[k], FallbackDim, FALSE)]

(* The provider answers; _validate_dimensions rejects a batch whose dimension is
   not the one of the vectors before, which then falls back like a failed one. *)
BatchAnswered ==
    /\ InLoop
    /\ IF targetDim \in {Unset, nativeDim}
       THEN /\ targetDim' = nativeDim
            /\ vectors' = vectors \o [k \in DOMAIN BatchTexts |-> Vector(BatchTexts[k], nativeDim, TRUE)]
       ELSE FallBack
    /\ Advance
    /\ UNCHANGED <<usable, nativeDim, texts, shortfall, failedBatch, outcome, embedCalls,
                   badAnswers>>
    /\ UNCHANGED collectionVars

BadAnswer == badAnswers < MaxBadAnswers /\ badAnswers' = badAnswers + 1

(* Mutant: the texts of a failed batch get no vectors. *)
BatchFailsAlone ==
    /\ InLoop /\ BadAnswer
    /\ Advance /\ failedBatch' = failedBatch \union ToSet(BatchTexts)
    /\ UNCHANGED <<usable, nativeDim, texts, vectors, targetDim, shortfall, outcome, embedCalls>>
    /\ UNCHANGED collectionVars

(* The request raises: a timeout, an HTTP error, a token that cannot be had. *)
BatchFails ==
    /\ InLoop /\ BadAnswer /\ FallBack
    /\ Advance /\ failedBatch' = failedBatch \union ToSet(BatchTexts)
    /\ UNCHANGED <<usable, nativeDim, texts, shortfall, outcome, embedCalls>>
    /\ UNCHANGED collectionVars

(* An answer with fewer vectors than texts: with none it is passed over ("continue", with
   the finally clause), with some they are taken for the vectors of the first texts; nothing
   counts them. *)
BatchShort ==
    /\ InLoop /\ BadAnswer /\ Advance /\ shortfall' = TRUE
    /\ \/ UNCHANGED <<vectors, targetDim>>
       \/ /\ targetDim \in {Unset, nativeDim} /\ targetDim' = nativeDim
          /\ \E m \in 1 .. BatchEnd - sent - 1 :
               vectors' = vectors \o [k \in 1 .. m |-> Vector(BatchTexts[k], nativeDim, TRUE)]
    /\ UNCHANGED <<usable, nativeDim, texts, failedBatch, outcome, embedCalls>>
    /\ UNCHANGED collectionVars

Embedded ==
    /\ outcome = "embedding" /\ sent = texts /\ outcome' = "embedded"
    /\ UNCHANGED <<usable, nativeDim, texts, sent, vectors, targetDim, reported, shortfall,
                   failedBatch, embedCalls, badAnswers>>
    /\ UNCHANGED collectionVars

-----------------------------------------------------------------------------
(* The upsert of the ingest: ids and vectors are cut at the same places. Chroma
   refuses a slice with fewer vectors than ids, or of another dimension. *)
Writes == (texts + IdsPerWrite - 1) \div IdsPerWrite
IdsOf(w) == (w - 1) * IdsPerWrite + 1 .. AtMost(w * IdsPerWrite, texts)
Takes(w) ==
    \A i \in IdsOf(w) : i <= Len(vectors) /\ collectionDim \in {Unset, vectors[i].dim}
                          /\ vectors[i].dim = vectors[1].dim

Store ==
    /\ outcome = "embedded"
    /\ \E taken \in 0 .. Writes :
         LET ids == UNION {IdsOf(w) : w \in 1 .. taken}
         IN  /\ \A w \in 1 .. taken : Takes(w)
             /\ taken = Writes \/ ~Takes(taken + 1)
             /\ stored' = [i \in DOMAIN stored \union ids |->
                              IF i \in ids THEN vectors[i] ELSE stored[i]]
             /\ collectionDim' = IF ids = {} THEN collectionDim ELSE vectors[1].dim
             /\ outcome' = CASE taken = Writes           -> "stored"
                             [] taken # Writes /\ Len(vectors) < texts -> "too_few"
                             [] OTHER                    -> "wrong_dimension"
    /\ UNCHANGED <<usable, nativeDim, texts, sent, vectors, targetDim, reported, shortfall,
                   failedBatch, embedCalls, badAnswers>>

EmbeddingNext ==
    EmbedTexts \/ BatchAnswered \/ BatchFails \/ BatchShort \/ Embedded \/ Store

EmbeddingSpec == EmbeddingInit /\ [][EmbeddingNext]_embeddingVars

-----------------------------------------------------------------------------
EmbeddingTypeOK ==
    /\ sent \in 0 .. MaxTexts /\ Len(vectors) <= texts /\ reported \in 0 .. texts
    /\ outcome \in {"none", "embedding", "embedded", "stored", "too_few", "wrong_dimension"}

(* Whatever batches fail, every text has its vector at its place, unless the
   provider answers a request with fewer vectors than it was given texts. *)
VectorsFollowTexts ==
    outcome \in {"embedded", "stored"} /\ ~shortfall =>
        /\ Len(vectors) = texts
        /\ \A i \in 1 .. texts : vectors[i].text = i

(* The vectors of a call have one dimension, real and deterministic ones mixed,
   also when the model is not in MODEL_DIMENSIONS. *)
OneDimension == \A i, j \in DOMAIN vectors : vectors[i].dim = vectors[j].dim

(* With a model of MODEL_DIMENSIONS a failed request costs its own texts and no
   others, and never makes the collection refuse a vector of another call. *)
FaultsStayInTheirBatch ==
    nativeDim = DefaultDim =>
        /\ outcome # "wrong_dimension"
        /\ usable => \A i \in DOMAIN vectors : vectors[i].real \/ vectors[i].text \in failedBatch

(* The progress reaches the number of texts, however the batches end. *)
ProgressIsComplete == usable /\ outcome = "embedded" => reported = texts

(* Not so: the index never holds the vector of one text under the id of another;
   once an answer is short, the vectors after it move up. *)
NothingIsMisfiled == \A i \in DOMAIN stored : stored[i].text = i

(* Every text has its own vector or the ingest fails: one for each, at its place, of
   one length, and a fault stays in its batch. *)
VectorsAreTrue == VectorsFollowTexts /\ OneDimension /\ FaultsStayInTheirBatch /\ ProgressIsComplete

-----------------------------------------------------------------------------
(* Why it is so: the inductive invariant. What was sent has its vectors, in order, unless
   an answer was short (SentHasVectors); they have the dimension the call has settled on,
   which is the model's or the default one (OfTheCall). *)
Outcomes == {"none", "embedding", "embedded", "stored", "too_few", "wrong_dimension"}
EmbeddedVector == [text : Nat, dim : Nat, real : BOOLEAN]

SentHasVectors ==
    /\ Len(vectors) <= sent
    /\ ~shortfall => Len(vectors) = sent /\ \A i \in 1 .. sent : vectors[i].text = i
OfTheCall ==
    /\ targetDim \in {Unset, nativeDim, DefaultDim}
    /\ \A i \in 1 .. Len(vectors) : targetDim # Unset /\ vectors[i].dim = targetDim
    /\ nativeDim = DefaultDim /\ usable =>
          \A i \in 1 .. Len(vectors) : vectors[i].real \/ vectors[i].text \in failedBatch

EmbeddingIInv ==
    /\ usable \in BOOLEAN /\ nativeDim \in NativeDims /\ shortfall \in BOOLEAN
    /\ texts \in 0 .. MaxTexts /\ sent \in 0 .. texts /\ reported \in 0 .. texts
    /\ vectors \in Seq(EmbeddedVector) /\ outcome \in Outcomes
    /\ collectionDim \in {Unset, nativeDim, DefaultDim}
    /\ outcome # "embedding" => sent = texts
    /\ usable => reported = sent
    /\ nativeDim = DefaultDim => outcome # "wrong_dimension"
    /\ SentHasVectors /\ OfTheCall
=============================================================================
