-------------------------------- MODULE Fusion --------------------------------
(* retrieval/hybrid_search.py after the searches: the results of the vector
   collections and of the lexical index become one ranking; then the boost of
   api/external_imports.py for files the graph says import what was asked.
   Scores are in hundredths; a similarity stands for 1/(1+distance). *)
EXTENDS Integers, FiniteSets

CONSTANTS
    Id,             \* chunks of the repository
    Shape,          \* what the adjustment reads of a chunk
    Similarity,     \* similarities a vector search returns, in hundredths
    LexicalScore,   \* scores of the full text search
    TopN,           \* top_n of the request
    Widened         \* candidates asked for when the question holds an identifier

(* A chunk is the symbol, or its text holds, or a segment of its path is, the identifier
   of the question; its whole path holds it; its path is one of configuration, or of
   tests; its symbol is a key of a configuration file. *)
Features == [symbol : BOOLEAN, text : BOOLEAN, path : BOOLEAN, within : BOOLEAN,
             config : BOOLEAN, key : BOOLEAN, test : BOOLEAN]

(* What defines a name holds it in its text, unless it is a key, whose dots are lines.
   Similarities that differ are told apart by the hundredths of a score, where the code
   has fractions. *)
ASSUME FusionAssumption ==
    /\ IsFiniteSet(Id) /\ TopN \in Nat /\ Widened \in Nat /\ TopN <= Widened
    /\ Shape \subseteq {f \in Features : (f.symbol => f.text \/ f.key) /\ (f.path => f.within)}
    /\ LexicalScore \subseteq Nat /\ Similarity \subseteq 0 .. 100
    /\ \A v, w \in Similarity \union {0} : v < w => v + 2 <= w

VARIABLES chunk, focus, vectorHits, lexicalHits, score, ranking, importers
fusionVars == <<chunk, focus, vectorHits, lexicalHits, score, ranking, importers>>

(* Every collection holds other chunks, so one search stands for the three. *)
FusionInit ==
    /\ chunk \in [Id -> Shape]
    /\ focus \in {"none", "inside", "exact"}     \* identifier in the question
    /\ vectorHits \in [Id -> Similarity] /\ lexicalHits \in [Id -> LexicalScore]
    /\ score = [i \in Id |-> 0] /\ ranking = {} /\ importers = {}

(* The first n of Id by f: those with fewer than n better ones. Equal scores are
   returned by the stores in any order. *)
FirstBy(f, ids, n) ==
    {S \in SUBSET ids :
        /\ Cardinality(S) = IF Cardinality(ids) < n THEN Cardinality(ids) ELSE n
        /\ \A i \in S, j \in ids \ S : f[j] <= f[i]}

Found(f) == {i \in Id : f[i] > 0}
MaxOf(S) == CHOOSE m \in S : \A x \in S : x <= m

(* Mutant: a question with an identifier is searched no wider. *)
CandidateTopNUnwidened == TopN

(* _candidate_top_n *)
CandidateTopN == IF focus = "none" THEN TopN ELSE Widened

(* _identifier_query_score_adjustment, of a question with one identifier. *)
Match(f) == f.symbol \/ f.text \/ f.path

Adjustment(f) ==
    LET exact == focus = "exact"
        W(rule, weight) == IF rule THEN weight ELSE 0
    IN  IF focus = "none" THEN 0 ELSE
        W(f.symbol, IF exact THEN 100 ELSE 80) + W(f.text, IF exact THEN 55 ELSE 40)
        + W(f.path, IF exact THEN 40 ELSE 28) + W(f.config /\ Match(f), 35)
        + W(f.key /\ f.symbol, 25) + W(f.within /\ f.symbol, 10)
        - W(~f.config /\ ~Match(f), 50) - W(f.test /\ ~Match(f), 35)

(* The accumulation by identifier of hybrid_search: a chunk both searches found
   has both scores; the lexical ones are relative to the best of them. *)
Fused(vector, lexical) ==
    LET best == MaxOf({lexicalHits[i] : i \in lexical} \union {0})
        Lexical(i) == IF i \in lexical /\ best > 0 THEN (45 * lexicalHits[i]) \div best ELSE 0
        Vector(i)  == IF i \in vector THEN (55 * vectorHits[i]) \div 100 ELSE 0
    IN  [i \in Id |-> IF i \in vector \union lexical
                      THEN Vector(i) + Lexical(i) + Adjustment(chunk[i]) ELSE 0]

(* Mutant: the ranking is not cut again after the wider search. *)
FuseUncut ==
    /\ ranking = {} /\ importers = {}
    /\ \E vector  \in FirstBy(vectorHits, Found(vectorHits), CandidateTopN),
          lexical \in FirstBy(lexicalHits, Found(lexicalHits), CandidateTopN) :
          score' = Fused(vector, lexical) /\ ranking' = vector \union lexical
    /\ UNCHANGED <<chunk, focus, vectorHits, lexicalHits, importers>>

Fuse ==
    /\ ranking = {} /\ importers = {}
    /\ \E vector  \in FirstBy(vectorHits, Found(vectorHits), CandidateTopN),
          lexical \in FirstBy(lexicalHits, Found(lexicalHits), CandidateTopN) :
          /\ score' = Fused(vector, lexical)
          /\ ranking' \in FirstBy(score', vector \union lexical, TopN)
    /\ UNCHANGED <<chunk, focus, vectorHits, lexicalHits, importers>>

(* apply_external_import_seed_boost: m is match_score of the file of the chunk. The
   results of the searches are gone by then. *)
Boost(m, mentions) ==
    28 + (IF 6 * (m - 1) < 18 THEN 6 * (m - 1) ELSE 18) + (IF mentions THEN 12 ELSE 0)

SeedBoost ==
    /\ ranking # {} /\ importers = {}
    /\ \E matched \in (SUBSET Id) \ {{}}, m \in {1, 9} :
          /\ importers' = matched
          /\ score' = [i \in Id |-> IF i \in ranking \intersect matched
                                    THEN score[i] + Boost(m, chunk[i].text) ELSE score[i]]
          /\ vectorHits' = [i \in Id |-> 0] /\ lexicalHits' = [i \in Id |-> 0]
    /\ UNCHANGED <<chunk, focus, ranking>>

FusionNext == Fuse \/ SeedBoost
FusionSpec == FusionInit /\ [][FusionNext]_fusionVars

-----------------------------------------------------------------------------
FusionTypeOK ==
    /\ focus \in {"none", "inside", "exact"} /\ ranking \subseteq Id /\ importers \subseteq Id
    /\ score \in [Id -> -200 .. 500] /\ Cardinality(ranking) <= TopN

(* A question with an identifier returns the chunk that defines it, even when it
   is not among the TopN nearest, unless chunks that match it too, by their text or
   their path, take the places: the wider search and the adjustment outweigh any
   similarity. *)
DefinitionSurvivesTheCut ==
    \A i \in Found(vectorHits) \union Found(lexicalHits) :
        /\ focus # "none" /\ chunk[i].symbol
        /\ Cardinality(Id) <= Widened /\ ranking # {} /\ i \notin ranking
        => \A j \in ranking : Match(chunk[j])

(* Not so: its places go to chunks that name it in their text. A configuration file of
   that name, near the question in both searches, goes before the definition. *)
DefinitionBeforePaths ==
    \A i \in Found(vectorHits) \union Found(lexicalHits) :
        /\ focus # "none" /\ chunk[i].symbol
        /\ Cardinality(Id) <= Widened /\ ranking # {} /\ i \notin ranking
        => \A j \in ranking : chunk[j].symbol \/ chunk[j].text

(* Being found twice never costs a place: among chunks the adjustment treats
   alike, one that both searches rate at least as high is not left out for the
   other. *)
AgreementIsNotPunished ==
    \A i \in Id, j \in Id :
        /\ chunk[i] = chunk[j] /\ Cardinality(Id) <= CandidateTopN
        /\ vectorHits[i] > vectorHits[j] /\ lexicalHits[i] > lexicalHits[j]
        /\ j \in ranking
        => i \in ranking

(* The boost lifts the files that import what was asked and nothing else, and
   keeps the order among files that match alike. *)
BoostKeepsOrder ==
    [][ ranking # {} =>
          \A i, j \in ranking :
             /\ (i \in importers') = (j \in importers') /\ chunk[i] = chunk[j]
             => (score[i] < score[j]) = (score'[i] < score'[j]) ]_fusionVars

-----------------------------------------------------------------------------
(* Why it is so: the inductive invariant. A ranking that is not boosted yet is the cut of
   what the two searches found, and a boosted one has forgotten them. *)
FusionTypes ==
    /\ chunk \in [Id -> Features]
    /\ \A i \in Id : chunk[i].symbol => chunk[i].text \/ chunk[i].key
    /\ vectorHits \in [Id -> Similarity \union {0}] /\ lexicalHits \in [Id -> Nat]
    /\ importers = {} => score \in [Id -> -85 .. 365]

WasCut ==
    \E vector  \in FirstBy(vectorHits, Found(vectorHits), CandidateTopN),
       lexical \in FirstBy(lexicalHits, Found(lexicalHits), CandidateTopN) :
       score = Fused(vector, lexical) /\ ranking \in FirstBy(score, vector \union lexical, TopN)

FusionIInv ==
    /\ FusionTypeOK /\ FusionTypes
    /\ ranking # {} /\ importers = {} => WasCut
    /\ importers # {} => \A i \in Id : vectorHits[i] = 0 /\ lexicalHits[i] = 0
=============================================================================
