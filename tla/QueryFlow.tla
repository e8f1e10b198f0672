------------------------------ MODULE QueryFlow ------------------------------
(* One question to a repository that passed its readiness gate: run_query and
   run_retrieval_query of api/query_service.py with the stages they call. A
   question about dependents, or about an inventory, is answered from the graph
   alone; any other goes through embedding, vector and lexical search, seeds and
   expansion from the graph, and, on /query, an LLM that answers and verifies.
   Stores go down and come back between any two stages.

   The question, what the repository holds about it and the settings are fixed
   per behaviour in `ask`. *)
EXTENDS Naturals, FiniteSets

CONSTANTS
    Store,        \* what a stage may call: graph, vector, lexical, embedding, llm
    Dependent,    \* files that depend on the file asked about
    Budget,       \* query_max_seconds, in ticks
    MaxFlips      \* bound: outages and recoveries

ASSUME QueryAssumption ==
    /\ Budget \in Nat \ {0} /\ MaxFlips \in Nat
    /\ {"graph", "vector", "lexical", "embedding", "llm"} \subseteq Store

VARIABLES ask, up, pc, left, chroma, found, evidence, graphContext, modules, answer,
          missed, flips
queryVars == <<ask, up, pc, left, chroma, found, evidence, graphContext, modules,
               answer, missed, flips>>

(* What the stages can tell apart about a question. *)
Ask == [endpoint : {"query", "retrieval"},
        route    : {"impact", "reverse", "inventory", "component", "hybrid"},
        targets  : 0 .. 2,                 \* files that match best the name asked
        dependents : SUBSET Dependent,     \* importers of it, or entities in the scope
        matches  : SUBSET {"vector", "lexical"},   \* where chunks match
        llm : BOOLEAN, verify : BOOLEAN]   \* LLM configured, verification enabled

(* Only the fields a route reads vary. *)
Sensible(q) ==
    /\ q.route \notin {"impact", "reverse"} => q.targets = 1
    /\ q.targets = 0 => q.dependents = {}
    /\ q.route \in {"component", "hybrid"} => q.dependents = Dependent
    /\ q.route # "hybrid" => q.matches = {} /\ ~q.llm /\ ~q.verify
    /\ q.endpoint = "retrieval" => ~q.llm /\ ~q.verify
    /\ ~q.llm => ~q.verify

NoAnswer == [kind |-> "none", reason |-> "none", verify_valid |-> "none", verify_skipped |-> FALSE]

QueryInit ==
    /\ ask \in {q \in Ask : Sensible(q)}
    /\ up = Store /\ missed = {} /\ flips = 0
    /\ pc = "route" /\ left = Budget
    /\ chroma \in BOOLEAN          \* the process already has a Chroma client
    /\ found = {} /\ evidence = {} /\ graphContext = "none" /\ modules = "none"
    /\ answer = NoAnswer

-----------------------------------------------------------------------------
(* The environment: stores fail and recover, time passes. *)
Flip ==
    /\ pc # "done" /\ flips < MaxFlips
    /\ \E s \in Store : up' = IF s \in up THEN up \ {s} ELSE up \union {s}
    /\ flips' = flips + 1
    /\ UNCHANGED <<ask, pc, left, chroma, found, evidence, graphContext, modules, answer, missed>>

(* Time counts in the stages that read the budget, from where it begins. *)
Pass ==
    /\ pc \notin {"route", "targets", "component", "done"}
    /\ pc = "dependents" => ask.route = "inventory"
    /\ left > 0 /\ left' = left - 1
    /\ UNCHANGED <<ask, up, pc, chroma, found, evidence, graphContext, modules, answer, missed, flips>>

world == <<ask, up, left, flips>>

(* A stage at `from` goes on to `to`; it called the store s, or none. *)
Stage(from, to) == pc = from /\ pc' = to
Calls(s) == missed' = IF s \in up THEN missed ELSE missed \union {s}
Answer(kind, reason) == [NoAnswer EXCEPT !.kind = kind, !.reason = reason]
Done(from, a) == Stage(from, "done") /\ answer' = a

-----------------------------------------------------------------------------
(* resolve_graph_first_inventory_route, in this order: impact, reverse imports,
   inventory; then component code; then the hybrid pipeline. *)
Route ==
    /\ Stage("route", CASE ask.route \in {"impact", "reverse"} -> "targets"
                        [] ask.route = "inventory" -> "scope"
                        [] ask.route = "component" -> "component"
                        [] OTHER -> "embed")
    /\ UNCHANGED <<world, chroma, found, evidence, graphContext, modules, answer, missed>>

(* resolve_reverse_file_target_paths: a graph that fails resolves nothing. *)
Resolved == IF "graph" \in up THEN ask.targets ELSE 0

ResolveTargets ==
    /\ Calls("graph")
    /\ IF Resolved = 1
       THEN Stage("targets", "dependents") /\ answer' = answer
       ELSE Done("targets", Answer(IF Resolved = 0 THEN "unresolved" ELSE "ambiguous", "none"))
    /\ UNCHANGED <<world, chroma, found, evidence, graphContext, modules>>

(* Mutant: the lookup waits for a graph that is down. *)
LookUpWaiting ==
    /\ "graph" \in up /\ ask.route # "inventory"
    /\ found' = ask.dependents
    /\ Done("dependents", Answer(IF found' = {} THEN "no_dependents" ELSE "dependents", "none"))
    /\ UNCHANGED <<world, chroma, evidence, graphContext, modules, missed>>

(* query_file_impact_paths, query_file_importers: a graph that fails has none. *)
LookUp ==
    /\ ask.route # "inventory" /\ Calls("graph")
    /\ found' = IF "graph" \in up THEN ask.dependents ELSE {}
    /\ Done("dependents", Answer(IF found' = {} THEN "no_dependents" ELSE "dependents", "none"))
    /\ UNCHANGED <<world, chroma, evidence, graphContext, modules>>

(* resolve_module_scope: from the cache or from the folders of the graph, of which one
   that fails has none. What the cache holds is the matter of InventoryQuery. *)
ResolveScope ==
    /\ Stage("scope", "dependents")
    /\ missed' = missed \/ Calls("graph")
    /\ UNCHANGED <<world, chroma, found, evidence, graphContext, modules, answer>>

(* run_inventory_query: without a budget left the graph is not asked and the listing is
   empty; a graph that fails lists nothing, nor does a scope that a failure left as it
   was typed, if the graph has no such folder. *)
ListInventory ==
    /\ ask.route = "inventory" /\ Stage("dependents", "page")
    /\ IF left = 0
       THEN found' = {} /\ missed' = missed
       ELSE /\ Calls("graph")
            /\ found' \in {IF "graph" \in up THEN ask.dependents ELSE {}}
                            \union (IF "graph" \in missed THEN {{}} ELSE {})
    /\ UNCHANGED <<world, chroma, evidence, graphContext, modules, answer>>

(* The budget is read again, and a spent one is the reason told; then the graph is asked
   what the files are for, which may fail (describe_inventory_components). *)
PageAnswer ==
    /\ Done("page", Answer(IF found = {} THEN "no_dependents" ELSE "dependents",
                           IF left = 0 THEN "time_budget_exhausted" ELSE "none"))
    /\ \/ missed' = missed
       \/ found # {} /\ Calls("graph")
    /\ UNCHANGED <<world, chroma, found, evidence, graphContext, modules>>

(* resolve_component_target for a symbol: its definition from the graph, its
   text from Chroma, or else from the lexical store; each failure is a miss. *)
FindComponent ==
    /\ LET text == "vector" \in up \/ "lexical" \in up
       IN  /\ missed' = missed \union (IF "graph" \notin up THEN {"graph"}
                                       ELSE IF text THEN {} ELSE {"vector", "lexical"})
           /\ Done("component",
                   Answer(IF "graph" \in up /\ text THEN "snippet" ELSE "not_found", "none"))
    /\ UNCHANGED <<world, chroma, found, evidence, graphContext, modules>>

-----------------------------------------------------------------------------
(* hybrid_search: without an embedding the vector search is left out. *)
Embed ==
    /\ Calls("embedding")
    /\ Stage("embed", IF "embedding" \in up THEN "open" ELSE "lexical")
    /\ UNCHANGED <<world, chroma, found, evidence, graphContext, modules, answer>>

(* build_managed_vector_index: opening calls the server when the process has no
   client yet, and hybrid_search does not catch that failure. *)
Open(from, to) ==
    /\ missed' = IF chroma \/ "vector" \in up THEN missed ELSE missed \union {"vector"}
    /\ chroma' = (chroma \/ "vector" \in up)
    /\ IF chroma' THEN Stage(from, to) /\ answer' = answer
                  ELSE Done(from, Answer("error", "vector"))
    /\ UNCHANGED <<world, found, evidence, graphContext, modules>>

(* _run_vector_search: concurrent, then sequential; a collection that fails is
   an empty result. Nothing at all in the first pass leads to a second one. *)
SearchVector(from, empty) ==
    LET hits == "vector" \in up /\ "vector" \in ask.matches
    IN  /\ Calls("vector")
        /\ Stage(from, IF hits THEN "lexical" ELSE empty)
        /\ evidence' = IF hits THEN {"vector"} ELSE {}
        /\ UNCHANGED <<world, chroma, found, graphContext, modules, answer>>

(* repository_has_query_ready_lexical_data, which it has: the readiness gate saw
   it. Its failure is not caught. The shared client is dropped. *)
Heal ==
    /\ Calls("lexical")
    /\ IF "lexical" \in up THEN Stage("heal", "reopen") /\ answer' = answer /\ chroma' = FALSE
                            ELSE Done("heal", Answer("error", "lexical")) /\ chroma' = chroma
    /\ UNCHANGED <<world, found, evidence, graphContext, modules>>

Lexical ==
    /\ Calls("lexical")
    /\ IF "lexical" \in up
       THEN /\ Stage("lexical", "seeds") /\ answer' = answer
            /\ evidence' = evidence \union (ask.matches \intersect {"lexical"})
       ELSE /\ Done("lexical", Answer("error", "lexical"))
            /\ UNCHANGED evidence
    /\ UNCHANGED <<world, chroma, found, graphContext, modules>>

(* Seeds from the graph, before and after the reranking. Those for internal
   importers are asked of the two routes above only, so never here; those for
   external imports when the question is about one and there are chunks. A graph
   that fails boosts nothing. *)
Seeds ==
    /\ Stage("seeds", "rerank")
    /\ \/ missed' = missed
       \/ evidence # {} /\ Calls("graph")
    /\ UNCHANGED <<world, chroma, found, evidence, graphContext, modules, answer>>

Rerank ==
    /\ Stage("rerank", "parallel")
    /\ UNCHANGED <<world, chroma, found, evidence, graphContext, modules, answer, missed>>

(* expand_with_graph_with_diagnostics: a failure falls back to the structural
   expansion, and its failure to no context. On /query it runs beside the
   discovery of modules, in two threads that are both waited for. *)
Expand ==
    /\ pc = "parallel" /\ graphContext = "none"
    /\ IF evidence = {} THEN missed' = missed ELSE Calls("graph")
    /\ graphContext' = IF evidence = {} THEN "empty"
                       ELSE IF "graph" \in up THEN "expanded" ELSE "failed"
    /\ UNCHANGED <<world, pc, chroma, found, evidence, modules, answer>>

ExpandStructural ==
    /\ pc = "parallel" /\ graphContext = "failed"
    /\ Calls("graph")
    /\ graphContext' = IF "graph" \in up THEN "structural" ELSE "empty"
    /\ UNCHANGED <<world, pc, chroma, found, evidence, modules, answer>>

Discover ==
    /\ pc = "parallel" /\ modules = "none" /\ ask.endpoint = "query"
    /\ \/ /\ Calls("graph")
          /\ modules' = IF "graph" \in up THEN "listed" ELSE "unlisted"
       \/ missed' = missed /\ modules' = "unlisted"    \* not a question about modules
    /\ UNCHANGED <<world, pc, chroma, found, evidence, graphContext, answer>>

Assemble ==
    /\ graphContext \in {"empty", "expanded", "structural"}
    /\ ask.endpoint = "query" => modules # "none"
    /\ IF ask.endpoint = "retrieval"
       THEN Done("parallel", Answer("chunks", "none"))
       ELSE Stage("parallel", "resolve") /\ answer' = answer
    /\ UNCHANGED <<world, chroma, found, evidence, graphContext, modules, missed>>

-----------------------------------------------------------------------------
(* resolve_query_answer: reasons not to ask the LLM, in the code's order. *)
Fallback(reason) == Answer("extractive", reason)

ResolveAnswer ==
    /\ CASE evidence = {} -> Done("resolve", Fallback("insufficient_context"))
         [] evidence # {} /\ ~ask.llm -> Done("resolve", Fallback("not_configured"))
         [] evidence # {} /\ ask.llm /\ left = 0 ->
              Done("resolve", Fallback("time_budget_exhausted"))
         [] OTHER -> Stage("resolve", "answer") /\ answer' = answer
    /\ UNCHANGED <<world, chroma, found, evidence, graphContext, modules, missed>>

(* client.answer; an exception anywhere in the try, so also in the verification,
   discards the answer for the extractive one. *)
Generate ==
    /\ Calls("llm")
    /\ CASE "llm" \notin up -> Done("answer", Fallback("generation_error"))
         [] "llm" \in up /\ (~ask.verify \/ left = 0) ->
              Done("answer", [Answer("llm", "none") EXCEPT !.verify_skipped = TRUE])
         [] OTHER -> Stage("answer", "verify") /\ answer' = answer
    /\ UNCHANGED <<world, chroma, found, evidence, graphContext, modules>>

(* Mutant: an answer the verifier rejects is returned with a remark. *)
VerifyLeniently ==
    /\ Calls("llm")
    /\ IF "llm" \notin up THEN Done("verify", Fallback("generation_error"))
       ELSE \E valid \in {"true", "false"} :
              Done("verify", [Answer("llm", "none") EXCEPT !.verify_valid = valid])
    /\ UNCHANGED <<world, chroma, found, evidence, graphContext, modules>>

Verify ==
    /\ Calls("llm")
    /\ IF "llm" \notin up THEN Done("verify", Fallback("generation_error"))
       ELSE \E valid \in BOOLEAN :
              Done("verify", IF valid
                             THEN [Answer("llm", "none") EXCEPT !.verify_valid = "true"]
                             ELSE [Fallback("verification_failed") EXCEPT !.verify_valid = "false"])
    /\ UNCHANGED <<world, chroma, found, evidence, graphContext, modules>>

-----------------------------------------------------------------------------
Step ==
    \/ Route \/ ResolveTargets \/ LookUp \/ ResolveScope \/ ListInventory \/ PageAnswer
    \/ FindComponent \/ Embed
    \/ Open("open", "search") \/ SearchVector("search", "heal") \/ Heal
    \/ Open("reopen", "research") \/ SearchVector("research", "lexical") \/ Lexical
    \/ Seeds \/ Rerank \/ Expand \/ ExpandStructural \/ Discover \/ Assemble
    \/ ResolveAnswer \/ Generate \/ Verify

QueryNext == Step \/ Flip \/ Pass

QuerySpec == QueryInit /\ [][QueryNext]_queryVars /\ WF_queryVars(Step)

-----------------------------------------------------------------------------
QueryTypeOK ==
    /\ ask \in Ask /\ up \subseteq Store /\ missed \subseteq Store /\ left \in 0 .. Budget
    /\ found \subseteq Dependent /\ evidence \subseteq {"vector", "lexical"}
    /\ graphContext \in {"none", "failed", "empty", "expanded", "structural"}
    /\ modules \in {"none", "listed", "unlisted"}

(* "No file imports it", "the file could not be resolved" and an empty inventory are
   true, or the graph was down when one of the lookups asked it, or the answer says
   that the budget of the inventory was spent: the routes answer from an empty result,
   whatever made it empty. *)
AbsencesAreExplained ==
    answer.kind \in {"unresolved", "no_dependents"} /\ ask.dependents # {} =>
        \/ "graph" \in missed
        \/ ask.route = "inventory" /\ answer.reason = "time_budget_exhausted"

(* The graph, the embedding provider and the LLM never make a query fail: every
   failure of theirs is caught at its stage. The lexical store and Chroma do. *)
OnlySearchStoresAreFatal ==
    answer.kind = "error" => answer.reason \in missed /\ answer.reason \in {"vector", "lexical"}

(* An answer of the LLM is returned only with evidence behind it, and only when
   the verifier accepted it or did not run, which the report then says: because
   it is disabled or the budget is gone. An answer it rejected is not. *)
AnswerIsVouchedFor ==
    answer.kind = "llm" =>
        /\ evidence # {}
        /\ \/ answer.verify_valid = "true" /\ ~answer.verify_skipped
           \/ answer.verify_skipped /\ (~ask.verify \/ left = 0)

(* Degradation is no worse than the outage: a hybrid query that ends without an
   error has used every source that matches and that did not fail it. *)
UsesWhatAnswers ==
    pc = "done" /\ ask.route = "hybrid" /\ answer.kind # "error" =>
        /\ "lexical" \in ask.matches => "lexical" \in evidence
        /\ "vector" \in ask.matches /\ "vector" \notin evidence
             => missed \intersect {"embedding", "vector"} # {}

(* Not so: only an outage of the graph hides what an inventory has. The scope is resolved
   within the budget of the question, and one that is spent asks nothing more. *)
OnlyOutageHidesDependents ==
    answer.kind \in {"unresolved", "no_dependents"} /\ ask.dependents # {}
        => "graph" \in missed

(* Not so: a query survives Chroma, with matching lexical rows it answers from them. *)
VectorOutageIsSurvived ==
    answer.kind = "error" => answer.reason # "vector"

(* Every query is answered, also when its two threads meet outages. *)
QueryAnswered == pc = "done"
EveryQueryAnswers == <>QueryAnswered

(* The four above together. *)
QueryIsSound ==
    AbsencesAreExplained /\ OnlySearchStoresAreFatal /\ AnswerIsVouchedFor /\ UsesWhatAnswers

-----------------------------------------------------------------------------
(* Why it is so: the inductive invariant. The answer is given once, at the end; a hybrid
   question passes every search, and behind each one what matches is in the evidence, or
   what failed is on record (SearchAccounted); the LLM is asked with evidence only. *)
BehindLexical == {"seeds", "rerank", "parallel", "resolve", "answer", "verify"}
BehindVector  == {"heal", "reopen", "research", "lexical"} \union BehindLexical

VectorAccounted == "vector" \in ask.matches /\ "vector" \notin evidence
                       => missed \intersect {"embedding", "vector"} # {}
LexicalAccounted == "lexical" \in ask.matches => "lexical" \in evidence

SearchAccounted ==
    /\ ask.route = "hybrid" => pc \notin {"targets", "scope", "dependents", "page", "component"}
    /\ pc \in BehindVector  => VectorAccounted
    /\ pc \in BehindLexical => LexicalAccounted

ListingAccounted ==
    /\ pc \in {"scope", "page"} => ask.route = "inventory"
    /\ pc = "page" /\ found # ask.dependents => "graph" \in missed \/ left = 0

QueryIInv ==
    /\ ask \in Ask /\ Sensible(ask) /\ left \in 0 .. Budget
    /\ pc # "done" => answer = NoAnswer
    /\ pc \in {"answer", "verify"} => evidence # {}
    /\ SearchAccounted /\ ListingAccounted /\ QueryIsSound
=============================================================================
