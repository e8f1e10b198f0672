------------------------------ MODULE GraphStore ------------------------------
(* ingestion/graph_builder.py: the graph of a repository is written in separate
   transactions, one per file, symbol and batch of edges, after a purge that may
   fail; any of them may be interrupted, and a delete may come between two. The
   questions about dependents and inventories read whatever is there. *)
EXTENDS Naturals, FiniteSets

CONSTANTS
    File,          \* files; each declares one symbol, which stands for all
    Reference,     \* external references
    Trees,         \* what an ingest scanned: [files, calls, imports, externals]
    MaxUpserts, MaxFaults      \* bounds

(* calls: relations of the supported types whose target was resolved, as pairs of files;
   unresolved: the others, which name a reference; imports: resolved file imports;
   externals: imports that resolved to no file. Symbols and files are looked up among
   those of the scan. *)
WellFormed(t) ==
    /\ t \in [files : SUBSET File, calls : SUBSET (File \X File),
              unresolved : SUBSET (File \X Reference),
              imports : SUBSET (File \X File), externals : SUBSET (File \X Reference)]
    /\ t.calls \union t.imports \subseteq t.files \X t.files
    /\ t.unresolved \union t.externals \subseteq t.files \X Reference

ASSUME GraphAssumption ==
    /\ MaxUpserts \in Nat /\ MaxFaults \in Nat /\ File \intersect Reference = {}
    /\ \A t \in Trees : WellFormed(t)

EmptyTree ==
    [files |-> {}, calls |-> {}, unresolved |-> {}, imports |-> {}, externals |-> {}]

VARIABLES tree, clean, stage, files, symbols, relations, unresolved, fileEdges, externalEdges,
          upserts, faults, disturbed
graphVars == <<tree, clean, stage, files, symbols, relations, unresolved, fileEdges,
               externalEdges, upserts, faults, disturbed>>
graphTables == <<files, symbols, relations, unresolved, fileEdges, externalEdges>>

GraphInit ==
    /\ tree = EmptyTree /\ clean = TRUE /\ stage = "idle"
    /\ files = {} /\ symbols = {} /\ relations = {} /\ unresolved = {}
    /\ fileEdges = {} /\ externalEdges = {}
    /\ upserts = 0 /\ faults = 0 /\ disturbed = FALSE

-----------------------------------------------------------------------------
(* delete_repo_subgraph: DETACH DELETE of the nodes takes their edges too. *)
Erase ==
    /\ files' = {} /\ symbols' = {} /\ relations' = {} /\ unresolved' = {}
    /\ fileEdges' = {} /\ externalEdges' = {}

(* _index_graph: the extractors of the languages run one after the other. When one
   raises, the relations of all of them are dropped, but the imports it and those
   before it had already reported are kept. *)
From(edges, S) == {e \in edges : e[1] \in S}
Extracted(t) ==
    {t} \union {[files |-> t.files, calls |-> {}, unresolved |-> {},
                imports |-> From(t.imports, S), externals |-> From(t.externals, S)] :
                  S \in SUBSET t.files}

(* Mutant: a purge that does nothing. *)
BeginUpsertUnpurged ==
    /\ stage = "idle" /\ upserts < MaxUpserts /\ upserts' = upserts + 1
    /\ \E t \in Trees : tree' \in Extracted(t)
    /\ stage' = "files" /\ disturbed' = FALSE /\ clean' = TRUE
    /\ UNCHANGED graphTables /\ UNCHANGED faults

(* The ingest purges and scans; a purge that fails aborts it, and the graph of a
   first ingest is not purged at all. *)
BeginUpsert ==
    /\ stage = "idle" /\ upserts < MaxUpserts /\ upserts' = upserts + 1
    /\ \E t \in Trees : tree' \in Extracted(t)
    /\ stage' = "files" /\ disturbed' = FALSE
    /\ \/ Erase /\ clean' = TRUE
       \/ UNCHANGED graphTables /\ clean' = (files = {} \/ (clean /\ tree' = tree))
    /\ UNCHANGED faults

Write(from, to) ==
    /\ stage = from /\ stage' = to
    /\ UNCHANGED <<tree, clean, upserts, faults, disturbed>>

(* MERGE of one file and its module; the last one leads on. *)
UpsertFile ==
    /\ \E f \in tree.files \ files : files' = files \union {f}
    /\ Write("files", "files")
    /\ UNCHANGED <<symbols, relations, unresolved, fileEdges, externalEdges>>

FilesWritten ==
    /\ tree.files \subseteq files /\ Write("files", "symbols")
    /\ UNCHANGED graphTables

(* MERGE of the symbols, which also merges their file again. *)
UpsertSymbols ==
    /\ Write("symbols", "relations")
    /\ symbols' = symbols \union tree.files /\ files' = files \union tree.files
    /\ UNCHANGED <<relations, unresolved, fileEdges, externalEdges>>

(* _upsert_semantic_relations, the resolved: both ends are matched, not created. *)
Between(pairs, ends) == {p \in pairs : p[1] \in ends /\ p[2] \in ends}

UpsertRelations ==
    /\ Write("relations", "unresolved")
    /\ relations' = relations \union Between(tree.calls, symbols)
    /\ UNCHANGED <<files, symbols, unresolved, fileEdges, externalEdges>>

(* The unresolved: the source is matched and the ExternalSymbol of the reference is
   merged, the one the external imports of files share. *)
UpsertUnresolved ==
    /\ Write("unresolved", "fileEdges")
    /\ unresolved' = unresolved \union From(tree.unresolved, symbols)
    /\ UNCHANGED <<files, symbols, relations, fileEdges, externalEdges>>

(* _derive_file_dependency_edges: one edge per pair of files, whatever the number
   and the kind of the relations, and none from a file to itself. *)
DeriveFileEdges(t) == {p \in t.calls \union t.imports : p[1] # p[2]}

UpsertFileEdges ==
    /\ Write("fileEdges", "externals")
    /\ fileEdges' = fileEdges \union Between(DeriveFileEdges(tree), files)
    /\ UNCHANGED <<files, symbols, relations, unresolved, externalEdges>>

(* _upsert_file_external_imports: the file is matched, the reference is merged. *)
UpsertExternals ==
    /\ Write("externals", "idle")
    /\ externalEdges' = externalEdges \union From(tree.externals, files)
    /\ UNCHANGED <<files, symbols, relations, unresolved, fileEdges>>

(* Neo4j fails, or the process dies: what was written stays, and the ingest ends
   with a warning. *)
Interrupt ==
    /\ stage # "idle" /\ faults < MaxFaults /\ faults' = faults + 1
    /\ stage' = "idle" /\ disturbed' = TRUE
    /\ UNCHANGED <<tree, clean, upserts>> /\ UNCHANGED graphTables

(* A delete of the repository, or the reset of the whole graph. *)
DeleteSubgraph ==
    /\ faults < MaxFaults /\ faults' = faults + 1
    /\ Erase /\ disturbed' = TRUE
    /\ UNCHANGED <<tree, clean, stage, upserts>>

GraphNext ==
    \/ BeginUpsert \/ UpsertFile \/ FilesWritten \/ UpsertSymbols \/ UpsertRelations
    \/ UpsertUnresolved \/ UpsertFileEdges \/ UpsertExternals \/ Interrupt \/ DeleteSubgraph

GraphSpec == GraphInit /\ [][GraphNext]_graphVars

-----------------------------------------------------------------------------
(* The queries. *)
HasRepoData == files # {} \/ symbols # {}

(* query_file_importers *)
Importers(targets) == {f \in File : \E t \in targets : <<f, t>> \in fileEdges}

(* query_file_impact_paths at depth 2: path -> distance, the least of the two. *)
Impact(targets) ==
    LET direct  == Importers(targets)
        further == Importers(direct) \ targets
    IN  [f \in direct \union further |-> IF f \in direct THEN 1 ELSE 2]

(* query_inventory of the dependencies: files and references that are imported. *)
Dependencies == {e[2] : e \in fileEdges} \union {e[2] : e \in externalEdges}

(* expand_symbols, at GRAPH_HOPS = 2: the nodes one or two edges from the symbol of a
   file, in either direction and through nodes of any kind; the semantic walk takes the
   relations between symbols and references, the structural one (no filter of types, and
   the fallback) every edge. Left out: the seed itself, which a second relation with the
   same neighbour brings back; modules, which two hops reach but do not pass; the LIMIT. *)
SymbolNode(f) == <<"Symbol", f>>
FileNode(f)   == <<"File", f>>
External(r)   == <<"ExternalSymbol", r>>

SemanticEdges ==
    {<<SymbolNode(p[1]), SymbolNode(p[2])>> : p \in relations}
      \union {<<SymbolNode(e[1]), External(e[2])>> : e \in unresolved}
StructuralEdges ==
    {<<FileNode(f), SymbolNode(f)>> : f \in symbols}
      \union {<<FileNode(p[1]), FileNode(p[2])>> : p \in fileEdges}
      \union {<<FileNode(e[1]), External(e[2])>> : e \in externalEdges}
Edges(structural) == SemanticEdges \union (IF structural THEN StructuralEdges ELSE {})

Ends(edges)       == {e[1] : e \in edges} \union {e[2] : e \in edges}
Around(N, edges)  == {m \in Ends(edges) : \E n \in N : <<n, m>> \in edges \/ <<m, n>> \in edges}
ExpandSymbols(f, structural) ==
    LET near == Around({SymbolNode(f)}, Edges(structural))
    IN  (near \union Around(near, Edges(structural))) \ {SymbolNode(f)}

(* expand_file_path_context: what the files import, inside and outside; and
   expand_symbol_file_context: the same of the files that declare the symbols. *)
Targets(edges, S) == {e[2] : e \in From(edges, S)}
FileContext(S) == Targets(fileEdges \union externalEdges, S \intersect files)
SymbolContext(S) == FileContext(S \intersect symbols)

(* query_external_import_source_paths *)
ExternalSources(refs) == {e[1] : e \in {x \in externalEdges : x[2] \in refs}}

-----------------------------------------------------------------------------
GraphTypeOK ==
    /\ stage \in {"idle", "files", "symbols", "relations", "unresolved", "fileEdges", "externals"}
    /\ files \subseteq File /\ symbols \subseteq File
    /\ relations \subseteq File \X File /\ fileEdges \subseteq File \X File
    /\ unresolved \subseteq File \X Reference /\ externalEdges \subseteq File \X Reference

(* No edge without its nodes, whatever was interrupted or deleted meanwhile. *)
EdgesHaveEnds ==
    /\ relations \subseteq symbols \X symbols /\ unresolved \subseteq symbols \X Reference
    /\ fileEdges \subseteq files \X files
    /\ externalEdges \subseteq files \X Reference

(* An upsert that nothing disturbed leaves exactly the graph of the files it
   scanned and of what was extracted from them, also over what an interrupted
   upsert of the same left. *)
Finished == stage = "idle" /\ upserts > 0 /\ ~disturbed
UpsertConverges ==
    Finished /\ clean =>
        /\ files = tree.files /\ symbols = tree.files
        /\ relations = Between(tree.calls, tree.files) /\ unresolved = tree.unresolved
        /\ fileEdges = DeriveFileEdges(tree) /\ externalEdges = tree.externals

(* The dependents of a file are the files that lead to it over what was extracted,
   in one or two steps, each once and at its least distance. *)
ImpactIsExact ==
    Finished /\ clean =>
        \A t \in File :
            LET Uses == (tree.calls \union tree.imports) \ {<<f, f>> : f \in File}
            IN  \A f \in File \ {t} :
                  /\ <<f, t>> \in Uses <=> f \in DOMAIN Impact({t}) /\ Impact({t})[f] = 1
                  /\ <<f, t>> \notin Uses =>
                       ((\E g \in File : <<f, g>> \in Uses /\ <<g, t>> \in Uses)
                          <=> f \in DOMAIN Impact({t}) /\ Impact({t})[f] = 2)

(* What ties two symbols in a tree: a relation between them, one of each with a third, or
   a reference that both name and nothing resolved. *)
Calls(f, g)  == <<f, g>> \in tree.calls \/ <<g, f>> \in tree.calls
Linked(f, g) ==
    \/ Calls(f, g) \/ \E h \in File : Calls(f, h) /\ Calls(h, g)
    \/ \E r \in Reference : {<<f, r>>, <<g, r>>} \subseteq tree.unresolved
(* A symbol names a reference, itself or by a symbol it is related to. *)
Names(f, r) ==
    <<f, r>> \in tree.unresolved \/ \E h \in File : Calls(f, h) /\ <<h, r>> \in tree.unresolved

(* What an expansion shows of the symbol of f is what ties it in the tree: a symbol it is
   linked to, a reference it names and, in the structural walk only, its own file, those
   it depends on or that depend on it, those of the symbols it is related to, and the
   importers of a reference it names; AllThatIsTied says that nothing of it is missing. *)
OnlyWhatIsTied(f) ==
    LET semantic   == ExpandSymbols(f, FALSE)
        structural == ExpandSymbols(f, TRUE)
    IN  /\ \A g \in File : SymbolNode(g) \in semantic \union structural => Linked(f, g)
        /\ \A r \in Reference :
              /\ External(r) \in semantic => Names(f, r)
              /\ External(r) \in structural => Names(f, r) \/ <<f, r>> \in tree.externals
        /\ \A g \in File :
              /\ FileNode(g) \notin semantic
              /\ FileNode(g) \in structural =>
                   \/ f = g \/ Calls(f, g)
                   \/ <<f, g>> \in DeriveFileEdges(tree) \/ <<g, f>> \in DeriveFileEdges(tree)
                   \/ \E r \in Reference : <<f, r>> \in tree.unresolved /\ <<g, r>> \in tree.externals
AllThatIsTied(f) ==
    LET both == ExpandSymbols(f, FALSE) \intersect ExpandSymbols(f, TRUE)
    IN  /\ \A g \in File \ {f} : Linked(f, g) => SymbolNode(g) \in both
        /\ \A r \in Reference : Names(f, r) => External(r) \in both

(* A graph that is not complete never invents: what an expansion shows follows from what
   was extracted, after interruptions too, who imports a reference shows it, and the
   inventory of dependencies is what the files of the graph import. *)
ExpansionIsSound ==
    clean =>
        /\ Dependencies = UNION {FileContext({f}) : f \in files}
        /\ \A f \in symbols : OnlyWhatIsTied(f) /\ (Finished => AllThatIsTied(f))
        /\ \A f \in File :
              /\ SymbolContext({f}) \subseteq FileContext({f})
              /\ FileContext({f}) \subseteq
                    Targets(DeriveFileEdges(tree) \union tree.externals, {f})
              /\ \A ref \in Reference :
                    f \in ExternalSources({ref}) <=> ref \in FileContext({f})

(* Not so: data in the graph, the gate of readiness, means the graph of the last ingest.
   The code asks only for some node. *)
DataMeansComplete == stage = "idle" /\ HasRepoData => ~disturbed

(* The graph has no loose ends, an undisturbed upsert makes it the graph of the
   commit, and the questions asked of it get what is there. *)
GraphIsSound == EdgesHaveEnds /\ UpsertConverges /\ ImpactIsExact /\ ExpansionIsSound

-----------------------------------------------------------------------------
(* Why it is so: the inductive invariant. Over a graph that was erased, or left by an
   upsert of the same, every table holds only what the tree has (NothingElse); and while
   nothing disturbs the upsert, what a stage writes is there once it is done
   (WrittenUpTo). *)
NothingElse ==
    /\ files \subseteq tree.files /\ symbols \subseteq tree.files
    /\ relations \subseteq tree.calls /\ unresolved \subseteq tree.unresolved
    /\ fileEdges \subseteq DeriveFileEdges(tree)
    /\ externalEdges \subseteq tree.externals

Wrote(done) == stage \in done \union {"idle"}
WrittenUpTo ==
    upserts > 0 /\ ~disturbed =>
        /\ Wrote({"symbols", "relations", "unresolved", "fileEdges", "externals"}) =>
             tree.files \subseteq files
        /\ Wrote({"relations", "unresolved", "fileEdges", "externals"}) => tree.files \subseteq symbols
        /\ Wrote({"unresolved", "fileEdges", "externals"}) =>
             Between(tree.calls, tree.files) \subseteq relations
        /\ Wrote({"fileEdges", "externals"}) => tree.unresolved \subseteq unresolved
        /\ Wrote({"externals"}) => DeriveFileEdges(tree) \subseteq fileEdges
        /\ Wrote({}) => tree.externals \subseteq externalEdges

GraphIInv ==
    /\ GraphTypeOK /\ WellFormed(tree) /\ upserts \in Nat
    /\ clean \in BOOLEAN /\ disturbed \in BOOLEAN
    /\ EdgesHaveEnds /\ symbols \subseteq files
    /\ (clean => NothingElse) /\ WrittenUpTo
=============================================================================
