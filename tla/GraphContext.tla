----------------------------- MODULE GraphContext -----------------------------
(* The evidence of a hybrid question after its reranking: the expansion over the
   graph under its budgets (retrieval/graph_expand.py), the boost and the
   citations (api/query_hybrid_pipeline.py, api/query_service.py,
   api/citation_filters.py), and the context for the LLM cut to its budget
   (retrieval/context_assembler.py). Scores are in hundredths. *)
EXTENDS Integers, Sequences, FiniteSets, SequencesExt

CONSTANTS
    Rankings,      \* reranked chunks: sequences of [path, span, score, size]
    RawRecords,    \* answers of expand_symbols: sequences of [key, path, edges]
    FileRecords,   \* answers of the two file context queries: the same
    NoisyPath,     \* paths is_noisy_path drops
    MaxNodes, MaxEdges,    \* semantic_graph_query_max_nodes, _max_edges
    MaxChars,      \* four times max_context_tokens
    Separator,     \* size of SECTION_SEPARATOR
    RecordSize     \* size of a formatted record, and of the header before them

RankedChunk == [path : STRING, span : {"file", "symbol"}, score : Int, size : Nat]
GraphRecord == [key : Nat, path : STRING, edges : Nat]

ASSUME ContextAssumption ==
    /\ MaxNodes \in Nat \ {0} /\ MaxEdges \in Nat \ {0}
    /\ MaxChars \in Nat /\ Separator \in Nat /\ RecordSize \in Nat \ {0}
    /\ Rankings \subseteq Seq(RankedChunk) /\ RawRecords \union FileRecords \subseteq Seq(GraphRecord)

VARIABLES chunks, raw, file, semantic, late, place, selected, edgesUsed, fallback,
          citations, context, at
contextVars == <<chunks, raw, file, semantic, late, place, selected, edgesUsed, fallback,
                 citations, context, at>>

ContextStart(c, r, f, s) ==
    /\ chunks = c /\ raw = r /\ file = f /\ semantic = s
    /\ late = FALSE /\ place = 1 /\ selected = <<>> /\ edgesUsed = 0 /\ fallback = FALSE
    /\ citations = <<>> /\ context = <<>> /\ at = "raw"

ContextInit ==
    \E c \in Rankings, r \in RawRecords, f \in FileRecords, s \in BOOLEAN :
        /\ c = <<>> => r = <<>> /\ f = <<>>      \* nothing to expand
        /\ ContextStart(c, r, f, s)

Keys(records) == {records[i].key : i \in DOMAIN records}

(* The sum of the f[i], which can be reasoned about. *)
Sum(f) ==
    LET sum[n \in 0 .. Len(f)] == IF n = 0 THEN 0 ELSE sum[n - 1] + f[n]
    IN  sum[Len(f)]

-----------------------------------------------------------------------------
(* semantic_graph_query_max_ms passes between two records. *)
Late ==
    /\ at \in {"raw", "file"} /\ semantic /\ ~late /\ late' = TRUE
    /\ UNCHANGED <<chunks, raw, file, semantic, place, selected, edgesUsed, fallback,
                   citations, context, at>>

(* One record of the first loop. One that is over a budget is skipped, and a
   lighter one after it may still enter. *)
OverBudget(r) ==
    semantic /\ (late \/ Len(selected) >= MaxNodes \/ edgesUsed + r.edges > MaxEdges)

TakeRaw ==
    /\ at = "raw"
    /\ IF place > Len(raw)
       THEN at' = "file" /\ place' = 1 /\ UNCHANGED <<selected, edgesUsed>>
       ELSE LET r == raw[place]
            IN  /\ place' = place + 1 /\ at' = at
                /\ IF OverBudget(r) \/ r.key \in Keys(selected)
                   THEN UNCHANGED <<selected, edgesUsed>>
                   ELSE selected' = Append(selected, r) /\ edgesUsed' = edgesUsed + r.edges
    /\ UNCHANGED <<chunks, raw, file, semantic, late, fallback, citations, context>>

(* One record of the second loop, which stops at the first that does not fit and
   does not count edges. *)
TakeFile ==
    /\ at = "file"
    /\ IF place > Len(file) \/ (semantic /\ (late \/ Len(selected) >= MaxNodes))
       THEN at' = "fallback" /\ UNCHANGED <<place, selected>>
       ELSE /\ place' = place + 1 /\ at' = at
            /\ selected' = IF file[place].key \in Keys(selected) THEN selected
                           ELSE Append(selected, file[place])
    /\ UNCHANGED <<chunks, raw, file, semantic, late, edgesUsed, fallback, citations, context>>

(* Everything was pruned: the structural expansion, which has no weights and no
   duplicates removed; its records are those of the graph again. *)
ChunkFallback ==
    /\ at = "fallback" /\ at' = "boost"
    /\ IF semantic /\ selected = <<>> /\ raw # <<>>
       THEN /\ fallback' = TRUE
            /\ selected' = SubSeq(raw, 1, IF Len(raw) < MaxNodes THEN Len(raw) ELSE MaxNodes)
            /\ edgesUsed' = Sum([i \in DOMAIN selected' |-> selected'[i].edges])
       ELSE UNCHANGED <<selected, edgesUsed, fallback>>
    /\ UNCHANGED <<chunks, raw, file, semantic, late, place, citations, context>>

-----------------------------------------------------------------------------
(* _graph_context_paths, _apply_graph_context_chunk_boost: a stable sort, best
   first, once the chunks of files the graph leads to are raised. A record that
   is no file has the path "none"; the smaller boost of a file that imports an
   external symbol is left out. *)
GraphPaths == {selected[i].path : i \in DOMAIN selected} \ {"none"}

(* The elements of s at the places P, each behind those whose place is before its own
   in R. *)
Arranged(s, P, R) ==
    [n \in 1 .. Cardinality(P) |->
        s[CHOOSE i \in P : Cardinality({j \in P : <<j, i>> \in R}) = n - 1]]

Places(s) == (DOMAIN s) \X (DOMAIN s)
AsTheyCome(s) == {e \in Places(s) : e[1] < e[2]}
BestFirst(s) ==
    {e \in Places(s) : \/ s[e[1]].score > s[e[2]].score
                       \/ s[e[1]].score = s[e[2]].score /\ e[1] < e[2]}

Ranked(s, P) == Arranged(s, P, BestFirst(s))

Boosted ==
    [i \in DOMAIN chunks |->
        IF chunks[i].path \in GraphPaths THEN [chunks[i] EXCEPT !.score = @ + 28] ELSE chunks[i]]

BoostFiles ==
    /\ at = "boost" /\ at' = "cite"
    /\ chunks' = IF selected = <<>> THEN chunks ELSE Ranked(Boosted, DOMAIN chunks)
    /\ UNCHANGED <<raw, file, semantic, late, place, selected, edgesUsed, fallback,
                   citations, context>>

(* _build_graph_context_citations: one for each file, where it comes first. *)
ChunkCitation(c) == [path |-> c.path, span |-> c.span, score |-> c.score, reason |-> "hybrid_rag_match"]
GraphCitation(p) == [path |-> p, span |-> "first_line", score |-> 75, reason |-> "graph_file_dependency_match"]

FirstOfFile ==
    {i \in DOMAIN selected : /\ selected[i].path # "none"
                             /\ \A j \in 1 .. i - 1 : selected[j].path # selected[i].path}
GraphCitations ==
    Arranged([i \in DOMAIN selected |-> GraphCitation(selected[i].path)], FirstOfFile,
             AsTheyCome(selected))

(* finalize_graph_enrichment: noise is dropped unless nothing else is left. *)
RawCitations ==
    [i \in DOMAIN chunks |-> ChunkCitation(chunks[i])] \o GraphCitations
Clear == {i \in DOMAIN RawCitations : RawCitations[i].path \notin NoisyPath}

(* Mutant: noise is dropped, whatever is left. *)
SortedCitationsClear == Ranked(RawCitations, Clear)

SortedCitations ==
    Ranked(RawCitations, IF Clear = {} THEN DOMAIN RawCitations ELSE Clear)

(* select_high_signal_citations with max_total = 1: the best citation of the
   first ranked path that has one, or else the best of all. (citation_priority
   also ranks by the kind of suffix: the paths here are of one kind.) *)
HighSignal(sorted) ==
    LET paths == [i \in DOMAIN chunks |-> chunks[i].path]
        cited == {i \in DOMAIN paths : \E j \in DOMAIN sorted : sorted[j].path = paths[i]}
        First(S) == CHOOSE i \in S : \A j \in S : i <= j
    IN  IF sorted = <<>> THEN <<>>
        ELSE IF cited = {} THEN <<sorted[1]>>
        ELSE <<sorted[First({j \in DOMAIN sorted : sorted[j].path = paths[First(cited)]})]>>

(* The graph citations that are not returned yet follow. *)
Cite ==
    /\ at = "cite" /\ at' = "refine"
    /\ LET sorted == SortedCitations
           best   == HighSignal(sorted)
           others == {i \in DOMAIN sorted :
                         sorted[i].reason = "graph_file_dependency_match"
                         /\ sorted[i] \notin ToSet(best)}
       IN  citations' = best \o Arranged(sorted, others, AsTheyCome(sorted))
    /\ UNCHANGED <<chunks, raw, file, semantic, late, place, selected, edgesUsed, fallback,
                   context>>

-----------------------------------------------------------------------------
(* _refine_top_unique_symbol_span: a whole file at the top becomes the lines of
   the symbol asked for, when it is unique and the workspace has the file. The
   citations were built before, with the lines of the whole file. *)
Refine ==
    /\ at = "refine" /\ at' = "assemble"
    /\ \/ chunks' = chunks
       \/ /\ chunks # <<>> /\ chunks[1].span = "file"
          /\ chunks' = [chunks EXCEPT ![1].span = "symbol", ![1].size = 1]
    /\ UNCHANGED <<raw, file, semantic, late, place, selected, edgesUsed, fallback,
                   citations, context>>

(* assemble_context: whole sections while they fit, else a prefix of the first. *)
Sections ==
    [i \in DOMAIN chunks |-> [of |-> chunks[i].path, size |-> chunks[i].size]]
    \o (IF selected = <<>> THEN <<>>
        ELSE <<[of |-> "header", size |-> RecordSize]>>
             \o [i \in 1 .. (IF Len(selected) < 50 THEN Len(selected) ELSE 50) |->
                   [of |-> "record", size |-> RecordSize]])

Joined(sections) ==
    Sum([i \in DOMAIN sections |-> sections[i].size])
      + (IF sections = <<>> THEN 0 ELSE Separator * (Len(sections) - 1))

Kept ==
    CHOOSE n \in 0 .. Len(Sections) :
        /\ Joined(SubSeq(Sections, 1, n)) <= MaxChars
        /\ n = Len(Sections) \/ Joined(SubSeq(Sections, 1, n + 1)) > MaxChars

AssembleContext ==
    /\ at = "assemble" /\ at' = "end"
    /\ context' = IF Joined(Sections) <= MaxChars THEN Sections
                  ELSE IF MaxChars = 0 THEN <<>>
                  ELSE IF Kept > 0 THEN SubSeq(Sections, 1, Kept)
                  ELSE <<[Sections[1] EXCEPT !.size = MaxChars]>>
    /\ UNCHANGED <<chunks, raw, file, semantic, late, place, selected, edgesUsed, fallback,
                   citations>>

ContextNext ==
    Late \/ TakeRaw \/ TakeFile \/ ChunkFallback \/ BoostFiles \/ Cite \/ Refine \/ AssembleContext

ContextSpec == ContextInit /\ [][ContextNext]_contextVars

-----------------------------------------------------------------------------
ContextTypeOK ==
    /\ at \in {"raw", "file", "fallback", "boost", "cite", "refine", "assemble", "end"}
    /\ place \in 1 .. Len(raw) + Len(file) + 1 /\ edgesUsed \in Nat /\ {semantic, late, fallback} \subseteq BOOLEAN

(* The budgets of the semantic expansion: nodes in every case, edges unless the
   fallback answers, and no node twice in a semantic selection. *)
BudgetsHold ==
    semantic =>
        /\ Len(selected) <= MaxNodes
        /\ ~fallback => /\ edgesUsed <= MaxEdges
                        /\ Cardinality(Keys(selected)) = Len(selected)

(* A pruned expansion does not lose the graph: with records to expand and a
   budget that admits one, or the fallback, some context remains. *)
GraphIsNotLost ==
    at \in {"boost", "cite", "refine", "assemble", "end"} /\ raw # <<>> => selected # <<>>

(* Evidence is never invented or lost: a citation is of a retrieved chunk or of a
   record of the graph, and whenever there is one of either, one is returned. *)
CitationsAreEvidence ==
    at \in {"refine", "assemble", "end"} =>
        /\ \A i \in DOMAIN citations :
              citations[i].path \in {chunks[j].path : j \in DOMAIN chunks} \union GraphPaths
        /\ citations = <<>> <=> chunks = <<>> /\ GraphPaths = {}

(* Noise is cited only when there is nothing else, and nothing is cited twice. *)
CitationsAreClean ==
    at \in {"refine", "assemble", "end"} =>
        /\ (\E i \in DOMAIN citations : citations[i].path \in NoisyPath)
             => {chunks[j].path : j \in DOMAIN chunks} \union GraphPaths \subseteq NoisyPath
        /\ IsInjective(citations)

(* The first citation is of the file shown first, noise aside. *)
TopFileIsCited ==
    at \in {"refine", "assemble", "end"} =>
        \A i \in DOMAIN chunks :
            /\ chunks[i].path \notin NoisyPath
            /\ \A j \in 1 .. i - 1 : chunks[j].path \in NoisyPath
            => citations[1].path = chunks[i].path

(* The context keeps to its budget, in the order of the ranking and without
   holes, and is not empty while there is something to show and room for it. *)
ContextFits ==
    at = "end" =>
        /\ Joined(context) <= MaxChars
        /\ \A i \in DOMAIN context : context[i].of = Sections[i].of
        /\ context = <<>> => Sections = <<>> \/ MaxChars = 0

(* The evidence of an answer: the expansion stays in its budgets without losing the
   graph, citations are evidence, once each and clear of noise where they can be, the
   best file is among them, and the context fits. *)
EvidenceIsKept ==
    /\ BudgetsHold /\ GraphIsNotLost /\ CitationsAreEvidence
    /\ CitationsAreClean /\ TopFileIsCited /\ ContextFits

-----------------------------------------------------------------------------
(* Why it is so: the inductive invariant. The loops stay in their records, the fallback
   comes after them, and an expansion without budgets takes the first record there is. *)
ContextSequences ==
    /\ chunks \in Seq(RankedChunk)
    /\ raw \in Seq(GraphRecord) /\ file \in Seq(GraphRecord) /\ selected \in Seq(GraphRecord)

LoopsStayInside ==
    /\ at = "raw"  => place <= Len(raw) + 1
    /\ at = "file" => place <= Len(file) + 1
    /\ at \in {"raw", "file", "fallback"} => ~fallback

UnboundedTakesAll ==
    ~semantic /\ raw # <<>> /\ (at = "raw" => place > 1) => selected # <<>>

ContextIInv ==
    ContextSequences /\ ContextTypeOK /\ LoopsStayInside /\ UnboundedTakesAll /\ EvidenceIsKept
=============================================================================
