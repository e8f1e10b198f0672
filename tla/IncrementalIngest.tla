------------------------- MODULE IncrementalIngest -------------------------
(***************************************************************************)
(* The ingest of one repository as its three indices see it                *)
(* (ingestion/pipeline.py): clone a commit, decide between a full and an   *)
(* incremental plan, purge what the plan replaces, write vectors, lexical  *)
(* corpus and graph, record the indexed commit.  Every stage may fail, and *)
(* commits are pushed at any time.  One ingest runs at a time, which is    *)
(* what JobManager shows.                                                  *)
(*                                                                         *)
(* A document is a file with its content: its symbols, summary and text    *)
(* are derived from the two.  Embeddings and scan filters are left out.    *)
(***************************************************************************)
EXTENDS Naturals, Sequences, FiniteSets

CONSTANTS File, Content, NoFile,
          Module,         \* top-level folders
          ModuleOf,       \* file -> its folder
          NoList,         \* the request has no changed_files
          Lists,          \* "none", "exact" or "any": the changed_files sent
          MaxCommit,      \* bound: commits of the branch
          MaxFault        \* bound: failing calls

ASSUME IncrementalAssumption ==
  /\ IsFiniteSet(File)
  /\ NoFile \notin Content
  /\ ModuleOf \in [File -> Module]
  /\ \A list \in SUBSET File : NoList # list
  /\ Lists \in {"none", "exact", "any"}
  /\ MaxCommit \in Nat \ {0} /\ MaxFault \in Nat

VARIABLES
  history,      \* trees of the branch, oldest first; a commit is a position
  symbols,      \* documents in the collection code_symbols
  files,        \* documents in the collection code_files
  modules,      \* code_modules: folder -> the file count its summary tells, 0 if none
  lexical,      \* documents in the lexical corpus
  lexModules,   \* summaries in the lexical corpus
  graph,        \* documents in the graph
  lastIndexed,  \* last_indexed_commit of the repos table, 0 if NULL
  pc,           \* stage of the ingest
  changed_files, head, headKnown, plan,
  outcome,      \* of the last ingest
  warned,       \* it only logged a failure of the graph
  fresh,        \* history: the commit the indices are owed to reflect, or 0
  faults

chroma  == <<symbols, files, modules>>
corpus  == <<lexical, lexModules>>
request == <<changed_files, head, headKnown, plan>>
vars == <<history, symbols, files, modules, lexical, lexModules, graph, lastIndexed,
          pc, changed_files, head, headKnown, plan, outcome, warned, fresh, faults>>

Tree    == [File -> Content \cup {NoFile}]
Doc     == File \X Content
Summary == [Module -> 0..Cardinality(File)]
Docs(t)       == {d \in Doc : t[d[1]] = d[2]}
DocsOf(t, ps) == {d \in Docs(t) : d[1] \in ps}
Off(docs, ps) == {d \in docs : d[1] \notin ps}
Commit  == 1..Len(history)
Tip     == Len(history)

(* summarize_modules: a folder with files, and how many. *)
Summaries(t) == [m \in Module |->
                  Cardinality({f \in File : ModuleOf[f] = m /\ t[f] # NoFile})]
NoSummary == [m \in Module |-> 0]

Full == [full |-> TRUE, changed |-> File, deleted |-> {}]
Incremental(changed, deleted) ==
  [full |-> FALSE, changed |-> changed, deleted |-> deleted]

Writing == {"purgeVectors", "purgeLexical", "purgeGraph", "symbols", "files",
            "modules", "lexical", "graph", "record"}

CommitTypes == /\ history \in Seq(Tree) /\ Len(history) \in 1..MaxCommit
               /\ lastIndexed \in 0..Tip /\ fresh \in 0..Tip /\ head \in 0..Tip
IndexTypes  == /\ symbols \subseteq Doc /\ files \subseteq Doc /\ modules \in Summary
               /\ lexical \subseteq Doc /\ lexModules \in Summary
               /\ graph \subseteq Doc
PlanTypes   == /\ changed_files \in {NoList} \cup SUBSET File
               /\ plan \in [full : BOOLEAN, changed : SUBSET File, deleted : SUBSET File]
StageTypes  == /\ pc \in {"idle", "clone", "plan"} \cup Writing
               /\ headKnown \in BOOLEAN /\ warned \in BOOLEAN
               /\ outcome \in {"none", "completed", "failed"}
               /\ faults \in 0..MaxFault

IngestTypeOK == CommitTypes /\ IndexTypes /\ PlanTypes /\ StageTypes

Init ==
  /\ history \in {<<t>> : t \in Tree}
  /\ symbols = {} /\ files = {} /\ modules = NoSummary
  /\ lexical = {} /\ lexModules = NoSummary
  /\ graph = {}
  /\ lastIndexed = 0
  /\ pc = "idle"
  /\ changed_files = NoList /\ head = 0 /\ headKnown = FALSE /\ plan = Full
  /\ outcome = "none" /\ warned = FALSE
  /\ fresh = 0
  /\ faults = 0

-----------------------------------------------------------------------------
Ok    == UNCHANGED faults
Fault == faults < MaxFault /\ faults' = faults + 1

(* The parts of a set that a failing call may have dealt with. *)
Part(docs) == SUBSET docs

Go(stage) == pc' = stage /\ UNCHANGED <<outcome, fresh>>

(* An exception leaves ingest_repository; so does the death of the process. *)
Abort == /\ Fault
         /\ pc' = "idle"
         /\ outcome' = "failed"
         /\ fresh' = IF pc \in Writing THEN 0 ELSE fresh

Push(t) ==
  /\ Len(history) < MaxCommit
  /\ t # history[Tip]
  /\ history' = Append(history, t)
  /\ UNCHANGED <<chroma, corpus, graph, lastIndexed, pc, request, outcome, warned,
                 fresh, faults>>

(* git diff --name-status of two commits: changed and deleted paths. *)
Differ(b, h)  == {f \in File : history[b][f] # history[h][f]}
Changed(b, h) == {f \in Differ(b, h) : history[h][f] # NoFile}
Deleted(b, h) == {f \in Differ(b, h) : history[h][f] = NoFile}

(* The changed_files a caller may send: none, or those between the indexed
   commit and the tip it sees, or whatever it likes. *)
Sent == {NoList} \cup CASE Lists = "none"  -> {}
                        [] Lists = "exact" -> IF lastIndexed = 0 THEN {}
                                              ELSE {Differ(lastIndexed, Tip)} \ {{}}
                        [] OTHER           -> SUBSET File

Request ==
  /\ pc = "idle"
  /\ changed_files' \in Sent
  /\ warned' = FALSE
  /\ Go("clone")
  /\ UNCHANGED <<history, chroma, corpus, graph, lastIndexed, head, headKnown, plan, faults>>

(* clone_repository at the tip, or at the commit the request names, which only
   a clone with history holds; resolve_head_commit may fail. *)
needs_history == lastIndexed # 0 /\ changed_files \in {NoList, {}}

Clone ==
  /\ pc = "clone"
  /\ \/ /\ head' \in IF needs_history THEN Commit ELSE {Tip}
        /\ \/ Ok /\ headKnown' = TRUE
           \/ Fault /\ headKnown' = FALSE
        /\ Go("plan")
     \/ Abort /\ UNCHANGED <<head, headKnown>>
  /\ UNCHANGED <<history, chroma, corpus, graph, lastIndexed, changed_files, plan, warned>>

(* _repo_has_existing_index_data, with what the graph answered. *)
HasData(graphSeen) ==
  \/ symbols # {} \/ files # {} \/ modules # NoSummary
  \/ lexical # {} \/ lexModules # NoSummary
  \/ graphSeen

(* _resolve_ingest_mode on a repository with data; the diff may be missing. *)
Plans ==
  CASE changed_files = {} -> {Full}
    [] changed_files \notin {{}, NoList} -> {Incremental(changed_files, {})}
    [] changed_files = NoList /\ (lastIndexed = 0 \/ ~headKnown) -> {Full}
    [] changed_files = NoList /\ lastIndexed = head /\ headKnown -> {Incremental({}, {})}
    [] OTHER -> {Full, Incremental(Changed(lastIndexed, head), Deleted(lastIndexed, head))}

(* Mutant: the deleted paths are not purged. *)
PurgedChanged(p) == p.changed

Purged(p) == p.changed \cup p.deleted

Plan ==
  /\ pc = "plan"
  /\ \/ \E graphSeen \in BOOLEAN :
          /\ \/ graphSeen = (graph # {}) /\ Ok /\ UNCHANGED warned
             \/ ~graphSeen /\ graph # {} /\ Fault /\ warned' = TRUE
          /\ IF HasData(graphSeen)
             THEN /\ plan' \in Plans
                  /\ Go(IF Purged(plan') = {} THEN "purgeGraph" ELSE "purgeVectors")
             ELSE plan' = Full /\ Go("symbols")
     \/ Abort /\ UNCHANGED <<plan, warned>>
  /\ UNCHANGED <<history, chroma, corpus, graph, lastIndexed, changed_files, head, headKnown>>

-----------------------------------------------------------------------------
(* What a purge that fails on the way leaves. *)
Left(docs) == {Off(docs, Purged(plan)) \cup kept : kept \in Part(docs)}

(* The vectors of the planned paths, collection after collection; a full
   purge takes the module summaries too. *)
PurgeVectors ==
  /\ pc = "purgeVectors"
  /\ \/ /\ Ok
        /\ symbols' = Off(symbols, Purged(plan))
        /\ files' = Off(files, Purged(plan))
        /\ modules' = IF plan.full THEN NoSummary ELSE modules
        /\ Go("purgeLexical")
     \/ /\ Abort
        /\ \/ symbols' \in Left(symbols) /\ UNCHANGED <<files, modules>>
           \/ /\ symbols' = Off(symbols, Purged(plan))
              /\ files' \in Left(files)
              /\ UNCHANGED modules
           \/ /\ plan.full
              /\ symbols' = {} /\ files' = {}
              /\ \E ms \in SUBSET Module : modules' = [m \in Module |-> IF m \in ms THEN 0 ELSE modules[m]]
  /\ UNCHANGED <<history, corpus, graph, lastIndexed, request, warned>>

(* One transaction of the lexical store. *)
PurgeLexical ==
  /\ pc = "purgeLexical"
  /\ \/ Ok /\ Go("purgeGraph")
        /\ lexical' = Off(lexical, Purged(plan))
        /\ lexModules' = IF plan.full THEN NoSummary ELSE lexModules
     \/ Abort /\ UNCHANGED corpus
  /\ UNCHANGED <<history, chroma, graph, lastIndexed, request, warned>>

(* The graph is purged and rebuilt whole, whatever the plan. *)
PurgeGraph ==
  /\ pc = "purgeGraph"
  /\ \/ Ok /\ Go("symbols") /\ graph' = {}
     \/ Abort /\ graph' \in Part(graph)
  /\ UNCHANGED <<history, chroma, corpus, lastIndexed, request, warned>>

Planned == DocsOf(history[head], plan.changed)

(* Symbols have identifiers of their own: those of another content stay. *)
IndexSymbols ==
  /\ pc = "symbols"
  /\ \/ Ok /\ Go("files") /\ symbols' = symbols \cup Planned
     \/ Abort /\ \E part \in Part(Planned) : symbols' = symbols \cup part
  /\ UNCHANGED <<history, files, modules, corpus, graph, lastIndexed, request, warned>>

(* A file has one document, which the new one replaces. *)
PutFiles(docs) == files' = Off(files, {d[1] : d \in docs}) \cup docs

IndexFiles ==
  /\ pc = "files"
  /\ \/ Ok /\ Go("modules") /\ PutFiles(Planned)
     \/ Abort /\ \E part \in Part(Planned) : PutFiles(part)
  /\ UNCHANGED <<history, symbols, modules, corpus, graph, lastIndexed, request, warned>>

(* Mutant: the new counts are added to the old ones. *)
OverAdding(old, new, ms) == [m \in Module |-> IF m \in ms THEN old[m] + new[m] ELSE old[m]]

(* Summaries replace those of the same folders; the other folders stay. *)
Over(old, new, ms) == [m \in Module |-> IF new[m] # 0 /\ m \in ms THEN new[m] ELSE old[m]]

IndexModules ==
  /\ pc = "modules"
  /\ \/ Ok /\ Go("lexical") /\ modules' = Over(modules, Summaries(history[head]), Module)
     \/ Abort /\ \E ms \in SUBSET Module :
                    modules' = Over(modules, Summaries(history[head]), ms)
  /\ UNCHANGED <<history, symbols, files, corpus, graph, lastIndexed, request, warned>>

(* Mutant: a failing corpus is a warning too. *)
IndexLexicalQuietly ==
  /\ pc = "lexical"
  /\ Go("graph")
  /\ \/ Ok
        /\ lexical' = lexical \cup Planned
        /\ lexModules' = Over(lexModules, Summaries(history[head]), Module)
     \/ Fault /\ UNCHANGED corpus
  /\ UNCHANGED <<history, chroma, graph, lastIndexed, request, warned>>

(* index_documents: one transaction. *)
IndexLexical ==
  /\ pc = "lexical"
  /\ \/ Ok /\ Go("graph")
        /\ lexical' = lexical \cup Planned
        /\ lexModules' = Over(lexModules, Summaries(history[head]), Module)
     \/ Abort /\ UNCHANGED corpus
  /\ UNCHANGED <<history, chroma, graph, lastIndexed, request, warned>>

(* A failure of the graph is a warning. *)
IndexGraph ==
  /\ pc = "graph"
  /\ \/ Ok /\ graph' = graph \cup Docs(history[head]) /\ UNCHANGED warned
     \/ Fault /\ warned' = TRUE
        /\ \E part \in Part(Docs(history[head])) : graph' = graph \cup part
  /\ Go("record")
  /\ UNCHANGED <<history, chroma, corpus, lastIndexed, request>>

(* Must the indices reflect the head after this ingest?  After a full one, yes.
   After an incremental one, when they reflected the commit it started from and
   the caller, if it named files, named all that differ. *)
Sound == \/ plan.full
         \/ /\ fresh # 0
            /\ \/ changed_files = NoList /\ fresh = lastIndexed
               \/ changed_files # NoList /\ Differ(fresh, head) \subseteq changed_files

(* upsert_repo_runtime moves the base only to a known head.  What the job does
   afterwards touches no index. *)
Record ==
  /\ pc = "record"
  /\ \/ /\ Ok
        /\ lastIndexed' = IF headKnown THEN head ELSE lastIndexed
        /\ pc' = "idle"
        /\ outcome' = "completed"
        /\ fresh' = IF Sound THEN head ELSE 0
     \/ Abort /\ lastIndexed' \in {lastIndexed, IF headKnown THEN head ELSE lastIndexed}
  /\ UNCHANGED <<history, chroma, corpus, graph, request, warned>>

Stage == \/ PurgeVectors \/ PurgeLexical \/ PurgeGraph
         \/ IndexSymbols \/ IndexFiles \/ IndexModules \/ IndexLexical \/ IndexGraph

Next == \/ \E t \in Tree : Push(t)
        \/ Request \/ Clone \/ Plan \/ Stage \/ Record

Spec == Init /\ [][Next]_vars

-----------------------------------------------------------------------------
Done == pc = "idle" /\ outcome = "completed"

(* The vectors and the lexical corpus hold exactly the files of the commit they
   are owed to reflect: after any full ingest, and after any chain of
   successful incremental ones from there, whatever is pushed meanwhile and
   whichever commits are asked for. *)
FreshIndex == pc \notin Writing /\ fresh # 0 =>
  symbols = Docs(history[fresh]) /\ files = symbols /\ lexical = symbols

(* Whatever failed before, a successful ingest leaves the files of its plan as
   they are in the cloned commit, in every index; after a full one the
   summaries too; and the graph, if nothing was warned about it. *)
PlanIsKept == Done =>
  /\ \A docs \in {symbols, files, lexical} :
       DocsOf(history[head], Purged(plan)) = {d \in docs : d[1] \in Purged(plan)}
  /\ plan.full => modules = Summaries(history[head]) /\ lexModules = modules
  /\ ~warned => graph = Docs(history[head])

(* What the two rest on. A head is chosen before the plan; *)
Planning == pc \in {"plan"} \cup Writing \/ Done
HeadChosen == Planning => head \in Commit

(* a full plan has every file, a deleted one is not in the commit, and an incremental
   plan has every difference with its base, or what the caller named; *)
PlanCovers ==
  /\ pc \in Writing \/ Done =>
       /\ plan.full => plan.changed = File
       /\ \A f \in plan.deleted : history[head][f] = NoFile
  /\ pc \in Writing /\ ~plan.full =>
       IF changed_files = NoList
       THEN lastIndexed # 0 /\ Differ(lastIndexed, head) \subseteq Purged(plan)
       ELSE Purged(plan) = changed_files

(* each index is free of the planned files from its purge to its writing, and holds
   them as they are in the commit from there; *)
FreeOf(docs) == Off(docs, Purged(plan)) = docs
Holds(docs)  == {d \in docs : d[1] \in Purged(plan)} = DocsOf(history[head], Purged(plan))

Toward(stages, later, docs) == /\ pc \in stages => FreeOf(docs)
                               /\ pc \in later \/ Done => Holds(docs)

IndexOfStage ==
  /\ Toward({"purgeLexical", "purgeGraph", "symbols"},
            {"files", "modules", "lexical", "graph", "record"}, symbols)
  /\ Toward({"purgeLexical", "purgeGraph", "symbols", "files"},
            {"modules", "lexical", "graph", "record"}, files)
  /\ Toward({"purgeGraph", "symbols", "files", "modules", "lexical"},
            {"graph", "record"}, lexical)

(* so do the summaries of a full plan, and the graph; *)
SummaryOfStage ==
  plan.full =>
    /\ pc \in {"purgeLexical", "purgeGraph", "symbols", "files", "modules"} => modules = NoSummary
    /\ pc \in {"lexical", "graph", "record"} \/ Done => modules = Summaries(history[head])
    /\ pc \in {"purgeGraph", "symbols", "files", "modules", "lexical"} => lexModules = NoSummary
    /\ pc \in {"graph", "record"} \/ Done => lexModules = Summaries(history[head])

GraphOfStage ==
  ~warned =>
    /\ pc \in {"symbols", "files", "modules", "lexical", "graph"} => graph = {}
    /\ pc = "record" \/ Done => graph = Docs(history[head])

(* and the other files are as they were when the ingest began. *)
OthersUntouched ==
  pc \in Writing /\ fresh # 0 =>
    \A docs \in {symbols, files, lexical} :
      Off(docs, Purged(plan)) = Off(Docs(history[fresh]), Purged(plan))

IngestIInv == /\ IngestTypeOK /\ HeadChosen /\ PlanCovers /\ IndexOfStage
              /\ SummaryOfStage /\ GraphOfStage /\ OthersUntouched /\ FreshIndex

-----------------------------------------------------------------------------
(* A successful ingest leaves the indices as the cloned commit is: the plan
   falls back to a full one whenever an incremental one could leave them
   inconsistent. *)
SuccessIsFresh == Done =>
  symbols = Docs(history[head]) /\ files = symbols /\ lexical = symbols

(* The folder summaries are recomputed by every ingest. *)
SummariesAreFresh == Done => modules = Summaries(history[head])

=============================================================================
