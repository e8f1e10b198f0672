----------------------------- MODULE MCRetrieval ------------------------------
(* Small instances of the modules a search reads through, one of them per
   behaviour: the clients of the vector store, the vectors it is given and the
   models they come from, how the edges of the graph find their symbols and
   re-exports their files, the graph, the fusion of the results, their ranking, the
   context built from them and the pages of an inventory. The modules share no
   variable; `part` says which one moves, the others keep their first state. *)
EXTENDS VectorClients, GraphStore, Fusion, Rerank, GraphContext, JsExports, NameScopes,
        Embedding, ModelDiscovery, InventoryQuery, TLC

CONSTANTS t1, t2, t4, p1, p2

VARIABLE part
mcVars == <<part, clientVars, graphVars, fusionVars, rerankVars, contextVars, jsVars,
            scopeVars, embeddingVars, discoveryVars, inventoryVars>>

-----------------------------------------------------------------------------
(* VectorClients: a searching thread and an ingesting one in one process, a
   second process. *)
ProcessOf == [t \in {t1, t2, t4} |-> IF t = t4 THEN p2 ELSE p1]

(* GraphStore: what a commit of three files may hold; the reference is named by symbols
   that nothing else ties, and by a file. *)
SmallTrees ==
    {t \in [files : {{1, 2, 3}, {1, 2}},
            calls : {{}, {<<1, 2>>}, {<<1, 2>>, <<2, 1>>, <<1, 1>>}},
            unresolved : {{}, {<<1, 9>>, <<3, 9>>}, {<<2, 9>>}},
            imports : {{}, {<<2, 3>>}, {<<1, 2>>, <<3, 2>>}, {<<2, 3>>, <<1, 3>>}},
            externals : {{}, {<<1, 9>>}}] :
        /\ \A e \in t.calls \union t.imports : {e[1], e[2]} \subseteq t.files
        /\ \A e \in t.unresolved : e[1] \in t.files}

(* Fusion: definitions, in a file of their name or not, mentions, files of the name,
   configuration with and without it, and what does not match. *)
NoShape == [symbol |-> FALSE, text |-> FALSE, path |-> FALSE, within |-> FALSE,
            config |-> FALSE, key |-> FALSE, test |-> FALSE]
Having(rules) == [f \in DOMAIN NoShape |-> f \in rules]
Shapes ==
    {NoShape, Having({"config"}), Having({"text", "test"}), Having({"symbol", "text"}),
     Having({"symbol", "key", "config"}), Having({"symbol", "text", "path", "within"}),
     Having({"path", "within", "config"})}

(* Rerank: questions with two classes of words, and chunks of every kind. *)
Questions == {q \in Question : Cardinality(q.words) <= 2}

K(f, base, path, symbol, type, names, others, sov, pov, tov) ==
    [file |-> f, base |-> base, path |-> path, symbol |-> symbol, type |-> type,
     names |-> names, others |-> others, sov |-> sov, pov |-> pov, tov |-> tov]

Definitions ==
    {K("a", 50, {"source"}, "exact", "definition", TRUE, TRUE, 100, 0, 100),
     K("a", 50, {"source"}, "other", "definition", TRUE, TRUE, 40, 40, 100),
     K("b", 50, {"source", "wrapper"}, "other", "definition", TRUE, FALSE, 0, 0, 100),
     K("c", 50, {"source", "orchestration"}, "other", "definition", TRUE, TRUE, 0, 40, 100),
     K("g", 100, {"source", "example"}, "exact", "definition", TRUE, FALSE, 100, 0, 100),
     K("h", 50, {"source", "noise"}, "private", "definition", TRUE, FALSE, 40, 0, 40),
     K("j", 50, {"source", "named"}, "other", "definition", TRUE, FALSE, 40, 40, 100)}
Others ==
    {K("a", 50, {"source"}, "none", "other", TRUE, FALSE, 0, 40, 100),
     K("d", 50, {"source", "test"}, "prefixed", "definition", TRUE, TRUE, 40, 40, 100),
     K("e", 50, {"docs"}, "other", "section", TRUE, TRUE, 40, 40, 100),
     K("f", 50, {"config"}, "exact", "config_key", TRUE, FALSE, 100, 40, 100),
     K("f", 50, {"config"}, "other", "config_key", FALSE, FALSE, 0, 0, 40)}
Chunks == Definitions \union Others

(* GraphContext: rankings, records of the graph, citations. *)
C(path, points, size) ==
    [path |-> path, span |-> IF size > 3 THEN "file" ELSE "symbol",
     score |-> points, size |-> size]
R(key, path, edges) == [key |-> key, path |-> path, edges |-> edges]

SmallRankings ==
    {<<>>, <<C("f", 90, 4), C("g", 80, 3), C("docs", 70, 2)>>,
     <<C("docs", 95, 9), C("f", 60, 2), C("f", 50, 2)>>, <<C("docs", 40, 3)>>,
     <<C("f", 100, 12), C("g", 99, 1)>>}
UpTo(n, S) == UNION {[1 .. k -> S] : k \in 0 .. n}
SmallRaw   == UpTo(3, {R(1, "g", 1), R(2, "none", 2), R(3, "docs", 3), R(4, "h", 5)})
SmallFile  == {<<>>, <<R(1, "g", 1)>>, <<R(5, "f", 1), R(1, "g", 1)>>}

(* JsExports: three files; the first may re-export two names or stars, the third
   closes a cycle with the second. *)
Re(o, t, s, n) == [owner |-> o, target |-> t, source |-> s, name |-> n]
St(o, t) == [owner |-> o, target |-> t]
FirstFiles ==
    [declares : {{}, {"a", "default"}},
     named : {<<>>} \union {<<Re(1, t, s[1], s[2])>> : t \in {2, 3},
                              s \in {<<"a", "a">>, <<"a", "b">>, <<"default", "a">>}},
     stars : {<<>>, <<St(1, 2)>>, <<St(1, 3)>>}]
SecondFiles ==
    [declares : {{}, {"a", "default"}},
     named : {<<>>, <<Re(2, 3, "a", "a")>>, <<Re(2, 1, "a", "a")>>},
     stars : {<<>>, <<St(2, 3)>>, <<St(2, 1)>>}]
ThirdFiles ==
    [declares : {{"a", "b"}}, named : {<<>>, <<Re(3, 2, "a", "b")>>},
     stars : {<<>>, <<St(3, 2)>>}]
SmallRepositories == FirstFiles \X SecondFiles \X ThirdFiles

(* NameScopes: the file f of the package p, a neighbour in p, the packages q and r
   it may name, and s, which it cannot see. *)
Sym(n, path, package, isType, owner) ==
    [name |-> n, file |-> path, package |-> package, type |-> isType, owner |-> owner]
FoundSymbols ==
    {Sym("A", "f", "p", TRUE, "none"), Sym("A", "f", "p", FALSE, "none"),
     Sym("A", "g", "p", TRUE, "none"), Sym("A", "h", "q", TRUE, "none"),
     Sym("A", "i", "r", TRUE, "none"), Sym("A", "j", "s", TRUE, "none"),
     Sym("A", "h", "q", FALSE, "O"), Sym("A", "i", "r", FALSE, "O"),
     Sym("A", "j", "s", FALSE, "O"), Sym("U", "i", "r", TRUE, "none")}
FileScopes ==
    {c \in [name : {"A"}, file : {"f"}, package : {"p", "none"}, prefix : {"none", "r"},
            imported : {"none", "q"}, wildcards : {<<>>, <<"q", "r">>},
            statics : {<<>>, <<<<"r", "U">>>>, <<<<"q", "A">>, <<"r", "U">>>>},
            owner : {"none", "O"}] :
        /\ c.statics # <<>> => c.prefix = "none" /\ c.owner = "none"
        /\ c.package = "none" => c.wildcards = <<>> /\ c.statics = <<>> /\ c.owner = "none"}

(* ModelDiscovery: the remote sources of two providers. Gemini also has two, and
   what it does Vertex does too, which may pass over its first. *)
SourcesOf ==
    [p \in {"openai", "vertex"} |->
        IF p = "openai" THEN <<"first">> ELSE <<"first", "second">>]

(* InventoryQuery: two aliases with files in common; files that change folder
   and that appear. *)
AliasMatches == [a \in {"a", "b"} |-> IF a = "a" THEN {1, 2, 3} ELSE {2, 3, 4}]
SmallFolders == {<<1, 1, 1, 1>>, <<2, 2, 2, 0>>, <<1, 2, 1, 1>>}

(* Fusion: no chunk is told from another but by what it is and how it was found, so
   numbering them by that is enough. *)
Key(i) ==
    LET Bit(b) == IF b THEN 1 ELSE 0
        f == chunk[i]
    IN  1000 * vectorHits[i] + 100 * lexicalHits[i] + 32 * Bit(f.symbol) + 16 * Bit(f.text)
        + 8 * Bit(f.path) + 4 * Bit(f.config) + 2 * Bit(f.key) + Bit(f.test)
Numbered == \A i, j \in Id : i < j => Key(i) >= Key(j)

-----------------------------------------------------------------------------
(* The first state a module keeps while another one moves. *)
FusionRests ==
    /\ chunk = [i \in Id |-> NoShape] /\ focus = "none"
    /\ vectorHits = [i \in Id |-> 0] /\ lexicalHits = [i \in Id |-> 0]
    /\ score = [i \in Id |-> 0] /\ ranking = {} /\ importers = {}
RerankRests ==
    /\ question = [words |-> {}, target |-> "none"]
    /\ scored = {} /\ ranked = {} /\ shown = <<>>

ScopesRest == scope = [name |-> "A", file |-> "f", package |-> "p", prefix |-> "none",
                       imported |-> "none", wildcards |-> <<>>, statics |-> <<>>,
                       owner |-> "none"]

EmbeddingRests == usable = FALSE /\ nativeDim = DefaultDim
DiscoveryRests == vendor = "openai" /\ listing = [s \in RemoteSource |-> 0]

MCInit ==
    /\ part \in {"clients", "graph", "fusion", "rerank", "context", "exports", "scopes",
                 "embedding", "discovery", "inventory"}
    /\ ClientsInit /\ GraphInit
    /\ IF part = "fusion" THEN FusionInit /\ Numbered ELSE FusionRests
    /\ IF part = "rerank" THEN RerankInit ELSE RerankRests
    /\ IF part = "context" THEN ContextInit ELSE ContextStart(<<>>, <<>>, <<>>, FALSE)
    /\ IF part = "exports" THEN JsInit ELSE JsStart(<<>>)
    /\ IF part = "scopes" THEN TRUE ELSE ScopesRest
    /\ IF part = "embedding" THEN TRUE ELSE EmbeddingRests
    /\ IF part = "discovery" THEN TRUE ELSE DiscoveryRests
    /\ IF part = "inventory" THEN TRUE ELSE fileTree = <<1, 1, 1, 1>>
    /\ ScopeInit /\ EmbeddingInit /\ DiscoveryInit /\ InventoryInit

MCNext ==
    \/ /\ part = "clients" /\ ClientsNext
       /\ UNCHANGED <<part, graphVars, fusionVars, rerankVars, contextVars, jsVars,
                      scopeVars, embeddingVars, discoveryVars, inventoryVars>>
    \/ /\ part = "graph" /\ GraphNext
       /\ UNCHANGED <<part, clientVars, fusionVars, rerankVars, contextVars, jsVars,
                      scopeVars, embeddingVars, discoveryVars, inventoryVars>>
    \/ /\ part = "fusion" /\ FusionNext
       /\ UNCHANGED <<part, clientVars, graphVars, rerankVars, contextVars, jsVars,
                      scopeVars, embeddingVars, discoveryVars, inventoryVars>>
    \/ /\ part = "rerank" /\ RerankNext
       /\ UNCHANGED <<part, clientVars, graphVars, fusionVars, contextVars, jsVars,
                      scopeVars, embeddingVars, discoveryVars, inventoryVars>>
    \/ /\ part = "context" /\ ContextNext
       /\ UNCHANGED <<part, clientVars, graphVars, fusionVars, rerankVars, jsVars,
                      scopeVars, embeddingVars, discoveryVars, inventoryVars>>
    \/ /\ part = "exports" /\ JsNext
       /\ UNCHANGED <<part, clientVars, graphVars, fusionVars, rerankVars, contextVars,
                      scopeVars, embeddingVars, discoveryVars, inventoryVars>>
    \/ /\ part = "scopes" /\ ScopeNext
       /\ UNCHANGED <<part, clientVars, graphVars, fusionVars, rerankVars, contextVars,
                      jsVars, embeddingVars, discoveryVars, inventoryVars>>
    \/ /\ part = "embedding" /\ EmbeddingNext
       /\ UNCHANGED <<part, clientVars, graphVars, fusionVars, rerankVars, contextVars,
                      jsVars, scopeVars, discoveryVars, inventoryVars>>
    \/ /\ part = "discovery" /\ DiscoveryNext
       /\ UNCHANGED <<part, clientVars, graphVars, fusionVars, rerankVars, contextVars,
                      jsVars, scopeVars, embeddingVars, inventoryVars>>
    \/ /\ part = "inventory" /\ InventoryNext
       /\ UNCHANGED <<part, clientVars, graphVars, fusionVars, rerankVars, contextVars,
                      jsVars, scopeVars, embeddingVars, discoveryVars>>

MCSpec == MCInit /\ [][MCNext]_mcVars

(* The type invariants of the modules. *)
RetrievalTypeOK ==
    /\ ClientsTypeOK /\ GraphTypeOK /\ FusionTypeOK
    /\ part = "rerank" => RerankTypeOK
    /\ ContextTypeOK /\ EmbeddingTypeOK /\ DiscoveryTypeOK /\ InventoryTypeOK

(* The ranking of a search: the cut keeps the definition, agreement of the two
   searches never costs a place, the rerank favours what the question is about and
   makes a file earn its repetitions, scores descend, and a later boost keeps the
   order of what it does not touch. *)
RankingIsFair ==
    /\ [](/\ DefinitionSurvivesTheCut /\ AgreementIsNotPunished /\ DefinitionWins
          /\ DocsWinDocsQuestions /\ RepeatsAreEarned /\ ScoresDescend)
    /\ BoostKeepsOrder

(* A name is tied to a symbol that is in its sight: through re-exports, imports and
   scopes, whatever the order of the scan; and an edge drawn from a scope stays when
   the repository grows. *)
NamesResolveSoundly ==
    /\ [](ExportsAreSound /\ DirectReexportsAreFound /\ OrderDoesNotMatter /\ TheOneInSightIsTaken)
    /\ ScopedEdgesAreStable

(* What is listed from a cache or in pages: the pages of an inventory divide it, its
   scope is right until the folders change, and a catalogue of models is recent, the
   local one only when no source answers. *)
ListingsAreTrue ==
    PagesPartition /\ ScopeIsRightUntilDisturbed /\ ServedIsRecent /\ LocalIsTheLastResort
=============================================================================
