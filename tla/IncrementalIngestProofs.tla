----------------------- MODULE IncrementalIngestProofs -----------------------
(* Theorems about IncrementalIngest for every finite set of files, every history,
   every list of changed files and every pattern of failures; and the types of the composed
   MCBranchIngest, whose other parts, MergeEvents and GitClone, IngestProofs is about. *)
EXTENDS MCBranchIngest, IngestProofs, SequenceTheorems, FiniteSetTheorems, TLAPS

-----------------------------------------------------------------------------
(* Documents. *)
LEMMA DocShape ==
  ASSUME NEW d \in Doc
  PROVE  d[1] \in File /\ d[2] \in Content
  BY DEF Doc

(* Documents of a commit are documents. *)
LEMMA DocsAreDocs ==
  ASSUME NEW t, NEW ps
  PROVE  Docs(t) \subseteq Doc /\ DocsOf(t, ps) \subseteq Doc /\ DocsOf(t, ps) \subseteq Docs(t)
  BY DEF Docs, DocsOf

(* What is left of an index is free of the files it was purged of. *)
LEMMA OffIsFree ==
  ASSUME NEW docs \in SUBSET Doc, NEW ps
  PROVE  Off(docs, ps) \in SUBSET Doc /\ Off(Off(docs, ps), ps) = Off(docs, ps)
  BY DEF Off

(* Writing the planned documents of a commit into an index that is free of the purged
   files makes the index hold those files as they are in the commit. *)
LEMMA FreeThenHolds ==
  ASSUME NEW docs \in SUBSET Doc, NEW t \in Tree, NEW ps \in SUBSET File, NEW cs \in SUBSET ps,
         Off(docs, ps) = docs, \A f \in ps \ cs : t[f] = NoFile
  PROVE  {d \in docs \cup DocsOf(t, cs) : d[1] \in ps} = DocsOf(t, ps)
  <1>1. \A d \in docs : d[1] \notin ps
    BY DEF Off
  <1>2. \A d \in DocsOf(t, ps) : d[1] \in cs
    BY DocShape, IncrementalAssumption DEF DocsOf, Docs
  <1> QED BY <1>1, <1>2 DEF DocsOf

(* It leaves the other files as they were. *)
LEMMA WritingSparesOthers ==
  ASSUME NEW docs \in SUBSET Doc, NEW t \in Tree, NEW ps \in SUBSET File, NEW cs \in SUBSET ps
  PROVE  Off(docs \cup DocsOf(t, cs), ps) = Off(docs, ps)
  BY DEF Off, DocsOf

(* The documents of a file replace nothing in an index that is free of them. *)
LEMMA PutIntoFree ==
  ASSUME NEW docs \in SUBSET Doc, NEW t \in Tree, NEW ps \in SUBSET File, NEW cs \in SUBSET ps,
         Off(docs, ps) = docs
  PROVE  Off(docs, {d[1] : d \in DocsOf(t, cs)}) = docs
  BY DEF Off, DocsOf

(* An index that holds some files as they are in a commit, and the others as in a commit
   that differs from it in none of them, is the commit. *)
LEMMA HoldsAll ==
  ASSUME NEW docs \in SUBSET Doc, NEW t \in Tree, NEW b \in Tree, NEW ps \in SUBSET File,
         {d \in docs : d[1] \in ps} = DocsOf(t, ps),
         Off(docs, ps) = Off(Docs(b), ps),
         \A f \in File \ ps : b[f] = t[f]
  PROVE  docs = Docs(t)
  <1>1. \A d \in Doc : d \in Docs(b) /\ d[1] \notin ps <=> d \in Docs(t) /\ d[1] \notin ps
    BY DocShape DEF Docs
  <1>2. \A d \in Doc : d \in docs /\ d[1] \notin ps <=> d \in Docs(t) /\ d[1] \notin ps
    BY <1>1, DocsAreDocs DEF Off
  <1>3. \A d \in Doc : d \in docs /\ d[1] \in ps <=> d \in Docs(t) /\ d[1] \in ps
    BY DEF DocsOf
  <1>4. \A d \in Doc : d \in docs <=> d \in Docs(t)
    BY <1>2, <1>3
  <1> QED BY <1>4, DocsAreDocs

(* Summaries are summaries, and so is what replaces them. *)
LEMMA SummaryTypes ==
  /\ NoSummary \in Summary
  /\ \A t \in Tree : Summaries(t) \in Summary
  /\ \A old, new \in Summary, ms \in SUBSET Module : Over(old, new, ms) \in Summary
  /\ \A old \in Summary, ms \in SUBSET Module :
       [m \in Module |-> IF m \in ms THEN 0 ELSE old[m]] \in Summary
  <1>1. Cardinality(File) \in Nat
    BY FS_CardinalityType, IncrementalAssumption
  <1>2. ASSUME NEW t \in Tree, NEW m \in Module
        PROVE  Cardinality({f \in File : ModuleOf[f] = m /\ t[f] # NoFile}) \in 0..Cardinality(File)
    <2> DEFINE fs == {f \in File : ModuleOf[f] = m /\ t[f] # NoFile}
    <2>1. fs \subseteq File
      OBVIOUS
    <2>2. IsFiniteSet(fs) /\ Cardinality(fs) <= Cardinality(File)
      BY <2>1, FS_Subset, IncrementalAssumption
    <2>3. Cardinality(fs) \in Nat
      BY <2>2, FS_CardinalityType
    <2> QED BY <1>1, <2>2, <2>3
  <1>3. \A t \in Tree : Summaries(t) \in Summary
    BY <1>2 DEF Summaries, Summary
  <1>4. NoSummary \in Summary
    BY <1>1 DEF NoSummary, Summary
  <1>5. \A old, new \in Summary, ms \in SUBSET Module : Over(old, new, ms) \in Summary
    BY DEF Over, Summary
  <1>6. \A old \in Summary, ms \in SUBSET Module :
          [m \in Module |-> IF m \in ms THEN 0 ELSE old[m]] \in Summary
    BY <1>1 DEF Summary
  <1> QED BY <1>3, <1>4, <1>5, <1>6

(* Summaries written over none are the new ones. *)
LEMMA OverNone ==
  ASSUME NEW new \in Summary
  PROVE  Over(NoSummary, new, Module) = new
  BY DEF Over, Summary, NoSummary

-----------------------------------------------------------------------------
(* Bounds, calls that may fail, and the full plan. *)
LEMMA Bounds == MaxCommit \in Nat \ {0} /\ MaxFault \in Nat
  BY IncrementalAssumption

(* A call that works, or one that fails within its bound. *)
LEMMA FaultType ==
  ASSUME faults \in 0..MaxFault, Ok \/ Fault
  PROVE  faults' \in 0..MaxFault
  BY Bounds DEF Ok, Fault

(* The full plan is a plan. *)
LEMMA FullType == Full \in [full : BOOLEAN, changed : SUBSET File, deleted : SUBSET File]
  BY DEF Full

(* Commits. A push adds one; those that are there stay. *)
LEMMA Commits ==
  ASSUME CommitTypes
  PROVE  /\ Tip \in Nat \ {0} /\ Commit = 1..Tip /\ Tip \in Commit
         /\ \A c \in Commit : history[c] \in Tree
  BY LenProperties, ElementOfSeq DEF CommitTypes, Tip, Commit

(* A push adds a commit and leaves the others as they are. *)
LEMMA PushAdds ==
  ASSUME CommitTypes, NEW t \in Tree, Push(t)
  PROVE  /\ CommitTypes' /\ Commit \subseteq Commit'
         /\ \A c \in Commit : history'[c] = history[c]
  <1>1. /\ history' \in Seq(Tree) /\ Len(history') = Len(history) + 1
        /\ \A c \in 1..Len(history) : history'[c] = history[c]
    BY AppendProperties DEF Push, CommitTypes
  <1>2. Len(history) \in Nat /\ Len(history) < MaxCommit
    BY LenProperties DEF Push, CommitTypes
  <1>3. UNCHANGED <<lastIndexed, fresh, head>>
    BY DEF Push, request
  <1> QED BY <1>1, <1>2, <1>3, Bounds DEF CommitTypes, Tip, Commit

(* Types: the initial state and every action. *)
LEMMA InitType ==
  ASSUME Init
  PROVE  IngestTypeOK
  <1>1. PICK t \in Tree : history = <<t>>
    BY DEF Init
  <1>2. CommitTypes
    <2>1. history \in Seq(Tree) /\ Len(history) = 1
      BY <1>1
    <2>2. 1 \in 1..MaxCommit
      BY Bounds
    <2> QED BY <2>1, <2>2 DEF Init, CommitTypes, Tip
  <1>3. IndexTypes
    BY SummaryTypes DEF Init, IndexTypes
  <1>4. PlanTypes
    BY FullType DEF Init, PlanTypes
  <1>5. StageTypes
    <2>1. headKnown \in BOOLEAN /\ warned \in BOOLEAN
      BY DEF Init
    <2>2. faults \in 0..MaxFault
      BY Bounds DEF Init
    <2> QED BY <2>1, <2>2 DEF Init, StageTypes
  <1> QED BY <1>2, <1>3, <1>4, <1>5 DEF IngestTypeOK

(* What a step leaves alone keeps its type. *)
LEMMA KeptTypes ==
  /\ CommitTypes /\ UNCHANGED <<history, lastIndexed, fresh, head>> => CommitTypes'
  /\ IndexTypes /\ UNCHANGED <<chroma, corpus, graph>> => IndexTypes'
  /\ PlanTypes /\ UNCHANGED <<changed_files, plan>> => PlanTypes'
  BY DEF CommitTypes, Tip, IndexTypes, chroma, corpus, PlanTypes

(* A stage leaves the commits and the plan alone; an abort owes nothing any more. *)
LEMMA StageKeeps ==
  ASSUME CommitTypes, PlanTypes, Stage
  PROVE  CommitTypes' /\ PlanTypes'
  <1>1. /\ UNCHANGED <<history, lastIndexed, request>>
        /\ fresh' = fresh \/ fresh' = 0
    BY DEF Stage, PurgeVectors, PurgeLexical, PurgeGraph, IndexSymbols, IndexFiles,
           IndexModules, IndexLexical, IndexGraph, Abort, Go
  <1>2. Tip \in Nat
    BY Commits
  <1> QED BY <1>1, <1>2 DEF CommitTypes, Tip, PlanTypes, request

(* A stage leads to the next one, or ends the ingest. *)
LEMMA StageStages ==
  ASSUME StageTypes, Stage
  PROVE  StageTypes'
  <1>1. /\ pc' \in {"idle", "clone", "plan"} \cup Writing
        /\ outcome' \in {"none", "completed", "failed"}
        /\ UNCHANGED headKnown
        /\ warned' \in BOOLEAN
    BY DEF Stage, PurgeVectors, PurgeLexical, PurgeGraph, IndexSymbols, IndexFiles,
           IndexModules, IndexLexical, IndexGraph, Abort, Go, StageTypes, Writing, request
  <1>2. Ok \/ Fault
    BY DEF Stage, PurgeVectors, PurgeLexical, PurgeGraph, IndexSymbols, IndexFiles,
           IndexModules, IndexLexical, IndexGraph, Abort
  <1>3. faults' \in 0..MaxFault
    BY <1>2, FaultType DEF StageTypes
  <1> QED BY <1>1, <1>3 DEF StageTypes

(* A stage is a step of the writing. *)
LEMMA StageWrites ==
  ASSUME Stage
  PROVE  pc \in Writing
  <1>1. PurgeVectors \/ PurgeLexical \/ PurgeGraph => pc \in Writing
    BY DEF PurgeVectors, PurgeLexical, PurgeGraph, Writing
  <1>2. IndexSymbols \/ IndexFiles \/ IndexModules => pc \in Writing
    BY DEF IndexSymbols, IndexFiles, IndexModules, Writing
  <1>3. IndexLexical \/ IndexGraph => pc \in Writing
    BY DEF IndexLexical, IndexGraph, Writing
  <1> QED BY <1>1, <1>2, <1>3 DEF Stage

(* The indices stay sets of documents. *)
LEMMA StageIndices ==
  ASSUME IngestTypeOK, HeadChosen, Stage
  PROVE  IndexTypes'
  <1> USE DEF IngestTypeOK
  <1>0. history[head] \in Tree
    <2>1. pc \in Writing
      BY StageWrites
    <2> QED BY <2>1, Commits DEF HeadChosen, Planning
  <1>1. Planned \subseteq Doc /\ Docs(history[head]) \subseteq Doc
    BY DocsAreDocs DEF Planned
  <1>2. Summaries(history[head]) \in Summary
    BY <1>0, SummaryTypes
  <1>3. CASE PurgeVectors
    <2>1. /\ symbols' \subseteq symbols /\ files' \subseteq files
      BY <1>3 DEF PurgeVectors, Left, Part, Off
    <2>2. modules' \in Summary
      BY <1>3, SummaryTypes DEF PurgeVectors, IndexTypes
    <2> QED BY <1>3, <2>1, <2>2 DEF PurgeVectors, IndexTypes, corpus
  <1>4. CASE PurgeLexical
    BY <1>4, SummaryTypes DEF PurgeLexical, IndexTypes, Off, corpus, chroma
  <1>5. CASE PurgeGraph
    BY <1>5 DEF PurgeGraph, IndexTypes, Part, corpus, chroma
  <1>6. CASE IndexSymbols
    BY <1>1, <1>6 DEF IndexSymbols, IndexTypes, Part, corpus
  <1>7. CASE IndexFiles
    BY <1>1, <1>7 DEF IndexFiles, PutFiles, Off, IndexTypes, Part, corpus
  <1>8. CASE IndexModules
    BY <1>2, <1>8, SummaryTypes DEF IndexModules, IndexTypes, corpus
  <1>9. CASE IndexLexical
    BY <1>1, <1>2, <1>9, SummaryTypes DEF IndexLexical, IndexTypes, corpus, chroma
  <1>10. CASE IndexGraph
    BY <1>1, <1>10 DEF IndexGraph, IndexTypes, Part, corpus, chroma
  <1> QED BY <1>3, <1>4, <1>5, <1>6, <1>7, <1>8, <1>9, <1>10 DEF Stage

(* The request, the clone and the plan. *)
LEMMA SentType ==
  Sent \subseteq {NoList} \cup SUBSET File
  BY IncrementalAssumption DEF Sent, Differ

(* Every plan is one of files, and purges files. *)
LEMMA PlansType ==
  ASSUME PlanTypes, NEW p \in Plans
  PROVE  /\ p \in [full : BOOLEAN, changed : SUBSET File, deleted : SUBSET File]
         /\ Purged(p) \subseteq File
  <1>1. p = Full \/ \E c, d \in SUBSET File : p = Incremental(c, d)
    <2>1. CASE changed_files = NoList
      BY <2>1, IncrementalAssumption DEF Plans, Changed, Deleted, Differ
    <2>2. CASE changed_files # NoList
      BY <2>2 DEF Plans, PlanTypes
    <2> QED BY <2>1, <2>2
  <1>2. \A c, d \in SUBSET File :
          Incremental(c, d) \in [full : BOOLEAN, changed : SUBSET File, deleted : SUBSET File]
    BY DEF Incremental
  <1>3. p \in [full : BOOLEAN, changed : SUBSET File, deleted : SUBSET File]
    BY <1>1, <1>2, FullType
  <1> QED BY <1>3 DEF Purged

(* Every step keeps the types. *)
LEMMA StepType ==
  ASSUME IngestTypeOK, HeadChosen, [Next]_vars
  PROVE  IngestTypeOK'
  <1> USE DEF IngestTypeOK
  <1>1. ASSUME NEW t \in Tree, Push(t)
        PROVE  IngestTypeOK'
    BY <1>1, PushAdds, KeptTypes DEF Push, StageTypes, request
  <1>2. CASE Request
    <2>1. PlanTypes'
      BY <1>2, SentType DEF Request, PlanTypes
    <2>2. StageTypes'
      BY <1>2 DEF Request, Go, StageTypes
    <2> QED BY <1>2, <2>1, <2>2, KeptTypes DEF Request, Go
  <1>3. CASE Clone
    <2>1. StageTypes'
      BY <1>3, FaultType DEF Clone, Go, Abort, StageTypes
    <2>2. CommitTypes'
      <3>1. head' \in 0..Tip /\ fresh' \in {fresh, 0}
        BY <1>3, Commits DEF Clone, Go, Abort, CommitTypes
      <3> QED BY <1>3, <3>1, Commits DEF Clone, CommitTypes, Tip
    <2> QED BY <1>3, <2>1, <2>2, KeptTypes DEF Clone
  <1>4. CASE Plan
    <2>1. StageTypes'
      <3>1. (Ok \/ Fault) /\ warned' \in BOOLEAN /\ UNCHANGED headKnown
        BY <1>4 DEF Plan, Abort, StageTypes
      <3>2. /\ pc' \in {"idle", "clone", "plan"} \cup Writing
            /\ outcome' \in {"none", "completed", "failed"}
        BY <1>4 DEF Plan, Abort, Go, StageTypes, Writing
      <3> QED BY <3>1, <3>2, FaultType DEF StageTypes
    <2>2. PlanTypes'
      <3>1. plan' = plan \/ plan' = Full \/ plan' \in Plans
        BY <1>4 DEF Plan
      <3> QED BY <1>4, <3>1, FullType, PlansType DEF Plan, PlanTypes
    <2>3. CommitTypes'
      <3>1. fresh' \in {fresh, 0}
        BY <1>4 DEF Plan, Go, Abort
      <3> QED BY <1>4, <3>1, Commits DEF Plan, CommitTypes, Tip
    <2> QED BY <1>4, <2>1, <2>2, <2>3, KeptTypes DEF Plan
  <1>5. CASE Stage
    BY <1>5, StageKeeps, StageStages, StageIndices
  <1>6. CASE Record
    <2>1. StageTypes'
      BY <1>6, FaultType DEF Record, Abort, StageTypes, request
    <2>2. CommitTypes'
      <3>1. lastIndexed' \in {lastIndexed, head} /\ fresh' \in {fresh, head, 0}
        BY <1>6 DEF Record, Abort
      <3> QED BY <1>6, <3>1, Commits DEF Record, CommitTypes, Tip, request
    <2> QED BY <1>6, <2>1, <2>2, KeptTypes DEF Record, request
  <1>7. CASE UNCHANGED vars
    BY <1>7, KeptTypes DEF vars, chroma, corpus, StageTypes
  <1> QED BY <1>1, <1>2, <1>3, <1>4, <1>5, <1>6, <1>7 DEF Next

-----------------------------------------------------------------------------
(* The commits that the invariant speaks of, and the plan. *)
LEMMA Setting ==
  ASSUME IngestIInv
  PROVE  /\ Planning => head \in Commit /\ history[head] \in Tree
         /\ fresh # 0 => fresh \in Commit /\ history[fresh] \in Tree
         /\ lastIndexed # 0 => lastIndexed \in Commit /\ history[lastIndexed] \in Tree
         /\ Purged(plan) \in SUBSET File /\ plan.changed \in SUBSET Purged(plan)
         /\ pc \in Writing => \A f \in Purged(plan) \ plan.changed : history[head][f] = NoFile
  <1>1. CommitTypes /\ PlanTypes /\ HeadChosen /\ PlanCovers
    BY DEF IngestIInv, IngestTypeOK
  <1>2. Planning => head \in Commit /\ history[head] \in Tree
    BY <1>1, Commits DEF HeadChosen
  <1>3. fresh # 0 => fresh \in Commit /\ history[fresh] \in Tree
    BY <1>1, Commits DEF CommitTypes
  <1>4. lastIndexed # 0 => lastIndexed \in Commit /\ history[lastIndexed] \in Tree
    BY <1>1, Commits DEF CommitTypes
  <1>5. Purged(plan) \in SUBSET File /\ plan.changed \in SUBSET Purged(plan)
    BY <1>1 DEF PlanTypes, Purged
  <1>6. pc \in Writing => \A f \in Purged(plan) \ plan.changed : history[head][f] = NoFile
    BY <1>1 DEF PlanCovers, Purged
  <1> QED BY <1>2, <1>3, <1>4, <1>5, <1>6

(* A push changes none of the commits that are there. *)
LEMMA PushInv ==
  ASSUME IngestIInv, IngestTypeOK', NEW t \in Tree, Push(t)
  PROVE  IngestIInv'
  <1>1. /\ \A c \in Commit : history'[c] = history[c] /\ c \in Commit'
        /\ UNCHANGED <<symbols, files, modules, lexical, lexModules, graph, lastIndexed, pc,
                       changed_files, head, headKnown, plan, outcome, warned, fresh>>
    BY PushAdds DEF Push, IngestIInv, IngestTypeOK, chroma, corpus, request
  <1>2. /\ Planning => head \in Commit /\ history'[head] = history[head]
        /\ fresh # 0 => history'[fresh] = history[fresh]
        /\ lastIndexed # 0 => history'[lastIndexed] = history[lastIndexed]
    BY <1>1, Setting
  <1>3. Planning' = Planning /\ Done' = Done /\ (pc \in Writing \/ Done => Planning)
    BY <1>1 DEF Planning, Done
  <1>4. HeadChosen'
    BY <1>1, <1>2, <1>3 DEF HeadChosen
  <1>5. PlanCovers'
    BY <1>1, <1>2, <1>3 DEF IngestIInv, PlanCovers, Differ
  <1>6. IndexOfStage'
    BY <1>1, <1>2, <1>3 DEF IngestIInv, IndexOfStage, Toward, FreeOf, Holds, Writing
  <1>7. SummaryOfStage' /\ GraphOfStage'
    BY <1>1, <1>2, <1>3 DEF IngestIInv, SummaryOfStage, GraphOfStage, Writing
  <1>8. OthersUntouched' /\ FreshIndex'
    BY <1>1, <1>2 DEF IngestIInv, OthersUntouched, FreshIndex
  <1> QED BY <1>4, <1>5, <1>6, <1>7, <1>8 DEF IngestIInv

(* An ingest that ends in an exception owes nothing, or has touched nothing. *)
LEMMA AbortInv ==
  ASSUME IngestIInv, IngestTypeOK', Abort, UNCHANGED history,
         pc \in Writing \/ UNCHANGED <<symbols, files, lexical>>
  PROVE  IngestIInv'
  <1>1. pc' = "idle" /\ outcome' = "failed"
    BY DEF Abort
  <1>2. ~Planning' /\ ~Done' /\ pc' \notin Writing
    BY <1>1 DEF Planning, Done, Writing
  <1>3. FreshIndex'
    BY DEF Abort, FreshIndex, IngestIInv
  <1>4. HeadChosen' /\ PlanCovers' /\ OthersUntouched'
    BY <1>2 DEF HeadChosen, PlanCovers, OthersUntouched
  <1>5. IndexOfStage' /\ SummaryOfStage' /\ GraphOfStage'
    BY <1>1, <1>2 DEF IndexOfStage, Toward, SummaryOfStage, GraphOfStage
  <1> QED BY <1>3, <1>4, <1>5 DEF IngestIInv

(* A request and a clone touch no index. *)
LEMMA RequestInv ==
  ASSUME IngestIInv, IngestTypeOK', Request
  PROVE  IngestIInv'
  <1>1. pc = "idle" /\ pc' = "clone" /\ UNCHANGED <<history, symbols, files, lexical, fresh>>
    BY DEF Request, Go, chroma, corpus
  <1>2. ~Planning' /\ ~Done' /\ pc' \notin Writing /\ pc \notin Writing
    BY <1>1 DEF Planning, Done, Writing
  <1>3. FreshIndex'
    BY <1>1, <1>2 DEF FreshIndex, IngestIInv
  <1>4. HeadChosen' /\ PlanCovers' /\ OthersUntouched'
    BY <1>2 DEF HeadChosen, PlanCovers, OthersUntouched
  <1>5. IndexOfStage' /\ SummaryOfStage' /\ GraphOfStage'
    BY <1>1, <1>2 DEF IndexOfStage, Toward, SummaryOfStage, GraphOfStage
  <1> QED BY <1>3, <1>4, <1>5 DEF IngestIInv

(* The clone, which reads the last indexed commit. *)
LEMMA CloneInv ==
  ASSUME IngestIInv, IngestTypeOK', Clone
  PROVE  IngestIInv'
  <1>1. /\ pc = "clone" /\ UNCHANGED <<history, symbols, files, lexical>>
    BY DEF Clone, chroma, corpus
  <1>2. CASE Abort
    BY <1>1, <1>2, AbortInv
  <1>3. CASE ~Abort
    <2>1. pc' = "plan" /\ UNCHANGED fresh /\ head' \in Commit
      BY <1>3, Commits DEF Clone, Go, IngestIInv, IngestTypeOK
    <2>2. ~Done' /\ pc' \notin Writing /\ pc \notin Writing
      BY <1>1, <2>1 DEF Done, Writing
    <2>3. HeadChosen'
      BY <1>1, <2>1 DEF HeadChosen, Commit
    <2>4. PlanCovers' /\ OthersUntouched'
      BY <2>2 DEF PlanCovers, OthersUntouched
    <2>5. IndexOfStage' /\ SummaryOfStage' /\ GraphOfStage'
      BY <2>1, <2>2 DEF IndexOfStage, Toward, SummaryOfStage, GraphOfStage
    <2>6. FreshIndex'
      BY <1>1, <2>1, <2>2 DEF FreshIndex, IngestIInv
    <2> QED BY <2>3, <2>4, <2>5, <2>6 DEF IngestIInv
  <1> QED BY <1>2, <1>3

(* What a plan covers. *)
LEMMA PlansCover ==
  ASSUME IngestTypeOK, head \in Commit, NEW p \in Plans
  PROVE  /\ p.full => p = Full
         /\ \A f \in p.deleted : history[head][f] = NoFile
         /\ ~p.full => IF changed_files = NoList
                       THEN lastIndexed # 0 /\ Differ(lastIndexed, head) \subseteq Purged(p)
                       ELSE Purged(p) = changed_files
  <1>1. CASE p = Full
    BY <1>1 DEF Full
  <1>2. CASE changed_files # NoList /\ p = Incremental(changed_files, {})
    BY <1>2 DEF Incremental, Purged
  <1>3. CASE changed_files = NoList /\ lastIndexed # 0 /\ lastIndexed = head /\ p = Incremental({}, {})
    BY <1>3 DEF Incremental, Purged, Differ
  <1>4. CASE /\ changed_files = NoList /\ lastIndexed # 0
             /\ p = Incremental(Changed(lastIndexed, head), Deleted(lastIndexed, head))
    <2>1. \A f \in Deleted(lastIndexed, head) : history[head][f] = NoFile
      BY DEF Deleted
    <2>2. Differ(lastIndexed, head) \subseteq Changed(lastIndexed, head) \cup Deleted(lastIndexed, head)
      BY DEF Deleted, Changed
    <2> QED BY <1>4, <2>1, <2>2 DEF Incremental, Purged
  <1>5. p = Full \/ (changed_files # NoList /\ p = Incremental(changed_files, {}))
        \/ (changed_files = NoList /\ lastIndexed # 0 /\ lastIndexed = head /\ p = Incremental({}, {}))
        \/ (/\ changed_files = NoList /\ lastIndexed # 0
            /\ p = Incremental(Changed(lastIndexed, head), Deleted(lastIndexed, head)))
    <2>0. NoList # {}
      BY IncrementalAssumption
    <2>1. CASE changed_files = {}
      <3>1. ~(changed_files \notin {{}, NoList}) /\ changed_files # NoList
        BY <2>0, <2>1
      <3> QED BY <2>1, <3>1 DEF Plans
    <2>2. CASE changed_files \notin {{}, NoList}
      BY <2>2 DEF Plans
    <2>3. CASE changed_files = NoList /\ (lastIndexed = 0 \/ ~headKnown)
      <3>1. ~(changed_files \notin {{}, NoList}) /\ changed_files # {}
        BY <2>0, <2>3
      <3>2. ~(lastIndexed = head /\ headKnown)
        BY <2>3 DEF Commit
      <3> QED BY <2>3, <3>1, <3>2 DEF Plans
    <2>4. CASE changed_files = NoList /\ lastIndexed # 0 /\ headKnown /\ lastIndexed = head
      BY <2>0, <2>4 DEF Plans
    <2>5. CASE changed_files = NoList /\ lastIndexed # 0 /\ headKnown /\ lastIndexed # head
      BY <2>0, <2>5 DEF Plans
    <2> QED BY <2>1, <2>2, <2>3, <2>4, <2>5
  <1> QED BY <1>1, <1>2, <1>3, <1>4, <1>5

(* A repository without files has no summaries. *)
LEMMA EmptySummary ==
  ASSUME File = {}, NEW s \in Summary
  PROVE  s = NoSummary
  <1>1. Cardinality(File) = 0
    BY FS_EmptySet
  <1> QED BY <1>1 DEF Summary, NoSummary

(* The plan, full or of what differs. *)
LEMMA PlanInv ==
  ASSUME IngestIInv, IngestTypeOK', Plan
  PROVE  IngestIInv'
  <1>1. /\ pc = "plan" /\ pc \notin Writing /\ Planning
        /\ UNCHANGED <<history, symbols, files, modules, lexical, lexModules, graph, lastIndexed,
                       changed_files, head>>
    BY DEF Plan, Writing, Planning, chroma, corpus
  <1>2. CASE Abort
    BY <1>1, <1>2, AbortInv
  <1>3. CASE ~Abort
    <2>1. UNCHANGED <<fresh, outcome>> /\ head \in Commit /\ ~Done'
          /\ pc' \in {"purgeVectors", "purgeGraph", "symbols"} /\ pc' \in Writing
      BY <1>1, <1>3, Setting DEF Plan, Go, Done, Writing
    <2>2. \/ /\ plan' \in Plans
             /\ pc' = IF Purged(plan') = {} THEN "purgeGraph" ELSE "purgeVectors"
          \/ /\ plan' = Full /\ pc' = "symbols" /\ symbols = {} /\ files = {} /\ lexical = {}
             /\ modules = NoSummary /\ lexModules = NoSummary /\ (~warned' => graph = {})
      BY <1>3 DEF Plan, Go, HasData
    <2>3. HeadChosen'
      BY <1>1, <2>1 DEF HeadChosen, Commit
    <2>4. PlanCovers'
      <3>1. CASE plan' \in Plans
        BY <1>1, <2>1, <3>1, PlansCover DEF PlanCovers, IngestIInv, Full, Differ
      <3>2. CASE plan' = Full
        BY <3>2 DEF PlanCovers, Full
      <3> QED BY <2>2, <3>1, <3>2
    <2>5. IndexOfStage'
      BY <1>1, <2>1, <2>2 DEF IndexOfStage, Toward, FreeOf, Off
    <2>6. SummaryOfStage'
      <3>1. CASE pc' = "purgeGraph" /\ plan'.full
        <4>1. File = {}
          BY <2>1, <2>2, <3>1, PlansCover DEF IngestIInv, Full, Purged
        <4>2. modules = NoSummary /\ lexModules = NoSummary
          BY <4>1, EmptySummary DEF IngestIInv, IngestTypeOK, IndexTypes
        <4> QED BY <1>1, <2>1, <2>2, <4>2 DEF SummaryOfStage
      <3>2. CASE pc' = "purgeVectors"
        BY <2>1, <3>2 DEF SummaryOfStage
      <3>3. CASE pc' = "symbols"
        BY <1>1, <2>1, <2>2, <3>3 DEF SummaryOfStage
      <3>4. CASE ~plan'.full
        BY <3>4 DEF SummaryOfStage
      <3> QED BY <2>1, <3>1, <3>2, <3>3, <3>4
    <2>7. GraphOfStage'
      BY <1>1, <2>1, <2>2 DEF GraphOfStage
    <2>8. OthersUntouched' /\ FreshIndex'
      BY <1>1, <2>1 DEF IngestIInv, FreshIndex, OthersUntouched
    <2> QED BY <2>3, <2>4, <2>5, <2>6, <2>7, <2>8 DEF IngestIInv
  <1> QED BY <1>2, <1>3

-----------------------------------------------------------------------------
(* The writing, stage after stage.  What no stage changes: *)
LEMMA StageFrame ==
  ASSUME IngestIInv, Stage
  PROVE  UNCHANGED <<history, lastIndexed, changed_files, head, headKnown, plan>>
  BY DEF Stage, PurgeVectors, PurgeLexical, PurgeGraph, IndexSymbols, IndexFiles,
         IndexModules, IndexLexical, IndexGraph, request

(* A stage that does not abort stays within the writing, and what is known of the
   commits and of the plan stays known. *)
LEMMA WritingFrame ==
  ASSUME IngestIInv, Stage, ~Abort
  PROVE  /\ pc \in Writing /\ pc' \in Writing /\ ~Done' /\ UNCHANGED fresh
         /\ HeadChosen' /\ PlanCovers' /\ FreshIndex'
         /\ fresh # 0 => \A docs \in {symbols, files, lexical} :
                          Off(docs, Purged(plan)) = Off(Docs(history[fresh]), Purged(plan))
  <1>1. pc \in Writing /\ UNCHANGED <<history, lastIndexed, changed_files, head, plan>>
    BY StageWrites, StageFrame
  <1>2. UNCHANGED <<fresh, outcome>> /\ pc' \in Writing
    <2>1. PurgeVectors \/ PurgeLexical \/ PurgeGraph => UNCHANGED <<fresh,
                                                                    outcome>> /\ pc' \in Writing
      BY DEF PurgeVectors, PurgeLexical, PurgeGraph, Go, Writing
    <2>2. IndexSymbols \/ IndexFiles \/ IndexModules => UNCHANGED <<fresh,
                                                                    outcome>> /\ pc' \in Writing
      BY DEF IndexSymbols, IndexFiles, IndexModules, Go, Writing
    <2>3. IndexLexical \/ IndexGraph => UNCHANGED <<fresh, outcome>> /\ pc' \in Writing
      BY DEF IndexLexical, IndexGraph, Go, Writing
    <2> QED BY <2>1, <2>2, <2>3 DEF Stage
  <1>3. ~Done'
    BY <1>2 DEF Done, Writing
  <1>4. HeadChosen'
    BY <1>1, Setting DEF HeadChosen, Planning, Commit
  <1>5. PlanCovers'
    BY <1>1, <1>2 DEF IngestIInv, PlanCovers, Differ
  <1>6. FreshIndex'
    BY <1>2 DEF FreshIndex
  <1>7. fresh # 0 => \A docs \in {symbols, files, lexical} :
          Off(docs, Purged(plan)) = Off(Docs(history[fresh]), Purged(plan))
    BY <1>1 DEF IngestIInv, OthersUntouched
  <1> QED BY <1>1, <1>2, <1>3, <1>4, <1>5, <1>6, <1>7

(* The vectors are purged. *)
LEMMA PurgeVectorsInv ==
  ASSUME IngestIInv, IngestTypeOK', PurgeVectors, ~Abort
  PROVE  IngestIInv'
  <1>1. Stage
    BY DEF Stage
  <1>2. /\ pc' = "purgeLexical" /\ UNCHANGED <<history, head, plan, lexical, warned, fresh>>
        /\ symbols' = Off(symbols, Purged(plan)) /\ files' = Off(files, Purged(plan))
        /\ plan.full => modules' = NoSummary
    BY DEF PurgeVectors, Go, corpus, request
  <1>3. symbols \in SUBSET Doc /\ files \in SUBSET Doc
    BY DEF IngestIInv, IngestTypeOK, IndexTypes
  <1>4. Off(symbols', Purged(plan)) = symbols' /\ Off(files', Purged(plan)) = files'
    BY <1>2, <1>3, OffIsFree
  <1>5. IndexOfStage'
    BY <1>1, <1>2, <1>4, WritingFrame DEF IndexOfStage, Toward, FreeOf
  <1>6. SummaryOfStage' /\ GraphOfStage'
    BY <1>1, <1>2, WritingFrame DEF SummaryOfStage, GraphOfStage
  <1>7. OthersUntouched'
    BY <1>1, <1>2, <1>4, WritingFrame DEF OthersUntouched
  <1> QED BY <1>1, <1>5, <1>6, <1>7, WritingFrame DEF IngestIInv

(* The lexical corpus is purged. *)
LEMMA PurgeLexicalInv ==
  ASSUME IngestIInv, IngestTypeOK', PurgeLexical, ~Abort
  PROVE  IngestIInv'
  <1>1. Stage
    BY DEF Stage
  <1>2. /\ pc = "purgeLexical" /\ pc' = "purgeGraph"
        /\ UNCHANGED <<history, head, plan, symbols, files, modules, warned, fresh>>
        /\ lexical' = Off(lexical, Purged(plan))
        /\ plan.full => lexModules' = NoSummary
    BY DEF PurgeLexical, Go, chroma, request
  <1>3. Off(lexical', Purged(plan)) = lexical'
    BY <1>2, OffIsFree DEF IngestIInv, IngestTypeOK, IndexTypes
  <1>4. IndexOfStage'
    BY <1>1, <1>2, <1>3, WritingFrame DEF IngestIInv, IndexOfStage, Toward, FreeOf
  <1>5. SummaryOfStage' /\ GraphOfStage'
    BY <1>1, <1>2, WritingFrame DEF IngestIInv, SummaryOfStage, GraphOfStage
  <1>6. OthersUntouched'
    BY <1>1, <1>2, <1>3, WritingFrame DEF OthersUntouched
  <1> QED BY <1>1, <1>4, <1>5, <1>6, WritingFrame DEF IngestIInv

(* The graph is emptied. *)
LEMMA PurgeGraphInv ==
  ASSUME IngestIInv, IngestTypeOK', PurgeGraph, ~Abort
  PROVE  IngestIInv'
  <1>1. Stage
    BY DEF Stage
  <1>2. /\ pc = "purgeGraph" /\ pc' = "symbols" /\ graph' = {}
        /\ UNCHANGED <<history, head, plan, symbols, files, modules, lexical, lexModules, warned,
                       fresh>>
    BY DEF PurgeGraph, Go, chroma, corpus, request
  <1>3. IndexOfStage'
    BY <1>1, <1>2, WritingFrame DEF IngestIInv, IndexOfStage, Toward, FreeOf
  <1>4. SummaryOfStage' /\ GraphOfStage'
    BY <1>1, <1>2, WritingFrame DEF IngestIInv, SummaryOfStage, GraphOfStage
  <1>5. OthersUntouched'
    BY <1>1, <1>2, WritingFrame DEF OthersUntouched
  <1> QED BY <1>1, <1>3, <1>4, <1>5, WritingFrame DEF IngestIInv

(* The symbols of the planned files are written. *)
LEMMA IndexSymbolsInv ==
  ASSUME IngestIInv, IngestTypeOK', IndexSymbols, ~Abort
  PROVE  IngestIInv'
  <1>1. Stage
    BY DEF Stage
  <1>2. /\ pc = "symbols" /\ pc' = "files" /\ symbols' = symbols \cup Planned
        /\ UNCHANGED <<history, head, plan, files, modules, lexical, lexModules, graph, warned,
                       fresh>>
    BY DEF IndexSymbols, Go, corpus, request
  <1>3. symbols \in SUBSET Doc /\ Off(symbols, Purged(plan)) = symbols
    BY <1>2 DEF IngestIInv, IngestTypeOK, IndexTypes, IndexOfStage, Toward, FreeOf
  <1>4. /\ {d \in symbols' : d[1] \in Purged(plan)} = DocsOf(history[head], Purged(plan))
        /\ Off(symbols', Purged(plan)) = Off(symbols, Purged(plan))
    BY <1>1, <1>2, <1>3, Setting, WritingFrame, FreeThenHolds, WritingSparesOthers
       DEF Planned, Planning
  <1>5. IndexOfStage'
    BY <1>1, <1>2, <1>4, WritingFrame DEF IngestIInv, IndexOfStage, Toward, FreeOf, Holds
  <1>6. SummaryOfStage' /\ GraphOfStage'
    BY <1>1, <1>2, WritingFrame DEF IngestIInv, SummaryOfStage, GraphOfStage
  <1>7. OthersUntouched'
    BY <1>1, <1>2, <1>4, WritingFrame DEF OthersUntouched
  <1> QED BY <1>1, <1>5, <1>6, <1>7, WritingFrame DEF IngestIInv

(* The files are written: each replaces its own document, of which there is none. *)
LEMMA IndexFilesInv ==
  ASSUME IngestIInv, IngestTypeOK', IndexFiles, ~Abort
  PROVE  IngestIInv'
  <1>1. Stage
    BY DEF Stage
  <1>2. /\ pc = "files" /\ pc' = "modules" /\ PutFiles(Planned)
        /\ UNCHANGED <<history, head, plan, symbols, modules, lexical, lexModules, graph, warned,
                       fresh>>
    BY DEF IndexFiles, Go, corpus, request
  <1>3. files \in SUBSET Doc /\ Off(files, Purged(plan)) = files
    BY <1>2 DEF IngestIInv, IngestTypeOK, IndexTypes, IndexOfStage, Toward, FreeOf
  <1>4. /\ history[head] \in Tree /\ Purged(plan) \in SUBSET File
        /\ plan.changed \in SUBSET Purged(plan)
        /\ \A f \in Purged(plan) \ plan.changed : history[head][f] = NoFile
    BY <1>1, Setting, WritingFrame DEF Planning
  <1>5. files' = files \cup DocsOf(history[head], plan.changed)
    BY <1>2, <1>3, <1>4, PutIntoFree DEF PutFiles, Planned
  <1>6. /\ {d \in files' : d[1] \in Purged(plan)} = DocsOf(history[head], Purged(plan))
        /\ Off(files', Purged(plan)) = Off(files, Purged(plan))
    BY <1>3, <1>4, <1>5, FreeThenHolds, WritingSparesOthers
  <1>7. IndexOfStage'
    BY <1>1, <1>2, <1>6, WritingFrame DEF IngestIInv, IndexOfStage, Toward, FreeOf, Holds
  <1>8. SummaryOfStage' /\ GraphOfStage'
    BY <1>1, <1>2, WritingFrame DEF IngestIInv, SummaryOfStage, GraphOfStage
  <1>9. OthersUntouched'
    BY <1>1, <1>2, <1>6, WritingFrame DEF OthersUntouched
  <1> QED BY <1>1, <1>7, <1>8, <1>9, WritingFrame DEF IngestIInv

(* The summaries of every folder with files are written. *)
LEMMA IndexModulesInv ==
  ASSUME IngestIInv, IngestTypeOK', IndexModules, ~Abort
  PROVE  IngestIInv'
  <1>1. Stage
    BY DEF Stage
  <1>2. /\ pc = "modules" /\ pc' = "lexical"
        /\ modules' = Over(modules, Summaries(history[head]), Module)
        /\ UNCHANGED <<history, head, plan, symbols, files, lexical, lexModules, graph, warned,
                       fresh>>
    BY DEF IndexModules, Go, corpus, request
  <1>3. Summaries(history[head]) \in Summary
    BY <1>1, Setting, WritingFrame, SummaryTypes DEF Planning
  <1>4. plan.full => modules' = Summaries(history[head])
    BY <1>2, <1>3, OverNone DEF IngestIInv, SummaryOfStage
  <1>5. IndexOfStage'
    BY <1>1, <1>2, WritingFrame DEF IngestIInv, IndexOfStage, Toward, FreeOf, Holds
  <1>6. SummaryOfStage' /\ GraphOfStage'
    BY <1>1, <1>2, <1>4, WritingFrame DEF IngestIInv, SummaryOfStage, GraphOfStage
  <1>7. OthersUntouched'
    BY <1>1, <1>2, WritingFrame DEF OthersUntouched
  <1> QED BY <1>1, <1>5, <1>6, <1>7, WritingFrame DEF IngestIInv

(* The lexical corpus is written, with the summaries. *)
LEMMA IndexLexicalInv ==
  ASSUME IngestIInv, IngestTypeOK', IndexLexical, ~Abort
  PROVE  IngestIInv'
  <1>1. Stage
    BY DEF Stage
  <1>2. /\ pc = "lexical" /\ pc' = "graph" /\ lexical' = lexical \cup Planned
        /\ lexModules' = Over(lexModules, Summaries(history[head]), Module)
        /\ UNCHANGED <<history, head, plan, symbols, files, modules, graph, warned, fresh>>
    BY DEF IndexLexical, Go, chroma, request
  <1>3. lexical \in SUBSET Doc /\ Off(lexical, Purged(plan)) = lexical
    BY <1>2 DEF IngestIInv, IngestTypeOK, IndexTypes, IndexOfStage, Toward, FreeOf
  <1>4. /\ {d \in lexical' : d[1] \in Purged(plan)} = DocsOf(history[head], Purged(plan))
        /\ Off(lexical', Purged(plan)) = Off(lexical, Purged(plan))
    BY <1>1, <1>2, <1>3, Setting, WritingFrame, FreeThenHolds, WritingSparesOthers
       DEF Planned, Planning
  <1>5. Summaries(history[head]) \in Summary
    BY <1>1, Setting, WritingFrame, SummaryTypes DEF Planning
  <1>6. plan.full => lexModules' = Summaries(history[head])
    BY <1>2, <1>5, OverNone DEF IngestIInv, SummaryOfStage
  <1>7. IndexOfStage'
    BY <1>1, <1>2, <1>4, WritingFrame DEF IngestIInv, IndexOfStage, Toward, FreeOf, Holds
  <1>8. SummaryOfStage' /\ GraphOfStage'
    BY <1>1, <1>2, <1>6, WritingFrame DEF IngestIInv, SummaryOfStage, GraphOfStage
  <1>9. OthersUntouched'
    BY <1>1, <1>2, <1>4, WritingFrame DEF OthersUntouched
  <1> QED BY <1>1, <1>7, <1>8, <1>9, WritingFrame DEF IngestIInv

(* The graph is written whole, or the ingest has warned. *)
LEMMA IndexGraphInv ==
  ASSUME IngestIInv, IngestTypeOK', IndexGraph, ~Abort
  PROVE  IngestIInv'
  <1>1. Stage
    BY DEF Stage
  <1>2. /\ pc = "graph" /\ pc' = "record"
        /\ warned' \/ (warned' = warned /\ graph' = graph \cup Docs(history[head]))
        /\ UNCHANGED <<history, head, plan, symbols, files, modules, lexical, lexModules, fresh>>
    BY DEF IndexGraph, Go, chroma, corpus, request
  <1>3. ~warned' => graph' = Docs(history[head])
    BY <1>2 DEF IngestIInv, GraphOfStage
  <1>4. IndexOfStage'
    BY <1>1, <1>2, WritingFrame DEF IngestIInv, IndexOfStage, Toward, FreeOf, Holds
  <1>5. SummaryOfStage' /\ GraphOfStage'
    BY <1>1, <1>2, <1>3, WritingFrame DEF IngestIInv, SummaryOfStage, GraphOfStage
  <1>6. OthersUntouched'
    BY <1>1, <1>2, WritingFrame DEF OthersUntouched
  <1> QED BY <1>1, <1>4, <1>5, <1>6, WritingFrame DEF IngestIInv

(* A stage that aborts. *)
LEMMA StageInv ==
  ASSUME IngestIInv, IngestTypeOK', Stage
  PROVE  IngestIInv'
  <1>1. CASE Abort
    BY <1>1, StageFrame, StageWrites, AbortInv
  <1>2. CASE ~Abort
    BY <1>2, PurgeVectorsInv, PurgeLexicalInv, PurgeGraphInv, IndexSymbolsInv, IndexFilesInv,
       IndexModulesInv, IndexLexicalInv, IndexGraphInv DEF Stage
  <1> QED BY <1>1, <1>2

(* The end of the ingest: an index that has been brought to the head where the plan
   says so, and was that of the base elsewhere, is that of the head. *)
LEMMA SoundIsFresh ==
  ASSUME IngestIInv, pc = "record", Sound, NEW docs \in {symbols, files, lexical}
  PROVE  docs = Docs(history[head])
  <1>1. /\ pc \in Writing /\ Planning /\ docs \in SUBSET Doc
    BY DEF Writing, Planning, IngestIInv, IngestTypeOK, IndexTypes
  <1>2. {d \in docs : d[1] \in Purged(plan)} = DocsOf(history[head], Purged(plan))
    BY DEF IngestIInv, IndexOfStage, Toward, Holds
  <1>3. CASE plan.full
    <2>1. Purged(plan) = File
      BY <1>1, <1>3, Setting DEF IngestIInv, PlanCovers
    <2>2. Off(docs, Purged(plan)) = Off(Docs(history[head]), Purged(plan))
      BY <1>1, <2>1, DocShape, DocsAreDocs DEF Off
    <2> QED BY <1>1, <1>2, <2>1, <2>2, Setting, HoldsAll
  <1>4. CASE ~plan.full
    <2>1. /\ fresh # 0
          /\ Differ(fresh, head) \subseteq Purged(plan)
      BY <1>1, <1>4 DEF Sound, IngestIInv, PlanCovers
    <2>2. \A f \in File \ Purged(plan) : history[fresh][f] = history[head][f]
      BY <2>1 DEF Differ
    <2>3. Off(docs, Purged(plan)) = Off(Docs(history[fresh]), Purged(plan))
      BY <1>1, <2>1 DEF IngestIInv, OthersUntouched
    <2> QED BY <1>1, <1>2, <2>1, <2>2, <2>3, Setting, HoldsAll
  <1> QED BY <1>3, <1>4

(* The commit is recorded. *)
LEMMA RecordInv ==
  ASSUME IngestIInv, IngestTypeOK', Record
  PROVE  IngestIInv'
  <1>1. /\ pc = "record" /\ pc \in Writing /\ Planning
        /\ UNCHANGED <<history, symbols, files, modules, lexical, lexModules, graph, head, plan,
                       changed_files, warned>>
    BY DEF Record, chroma, corpus, request, Writing, Planning
  <1>2. CASE Abort
    BY <1>1, <1>2, AbortInv
  <1>3. CASE ~Abort
    <2>1. pc' = "idle" /\ fresh' = (IF Sound THEN head ELSE 0) /\ pc' \notin Writing
      BY <1>3 DEF Record, Writing
    <2>2. HeadChosen'
      BY <1>1, Setting DEF HeadChosen, Commit
    <2>3. PlanCovers'
      BY <1>1, <2>1 DEF IngestIInv, PlanCovers
    <2>4. IndexOfStage'
      BY <1>1, <2>1 DEF IngestIInv, IndexOfStage, Toward, FreeOf, Holds
    <2>5. SummaryOfStage' /\ GraphOfStage'
      BY <1>1, <2>1 DEF IngestIInv, SummaryOfStage, GraphOfStage
    <2>6. OthersUntouched'
      BY <2>1 DEF OthersUntouched
    <2>7. FreshIndex'
      BY <1>1, <2>1, SoundIsFresh DEF FreshIndex
    <2> QED BY <2>2, <2>3, <2>4, <2>5, <2>6, <2>7 DEF IngestIInv
  <1> QED BY <1>2, <1>3

-----------------------------------------------------------------------------
(* The initial state: nothing is owed yet. *)
LEMMA InitInv ==
  ASSUME Init
  PROVE  IngestIInv
  <1>1. pc = "idle" /\ outcome = "none" /\ fresh = 0
    BY DEF Init
  <1>2. ~Planning /\ ~Done /\ pc \notin Writing
    BY <1>1 DEF Planning, Done, Writing
  <1>3. HeadChosen /\ PlanCovers /\ OthersUntouched /\ FreshIndex
    BY <1>1, <1>2 DEF HeadChosen, PlanCovers, OthersUntouched, FreshIndex
  <1>4. IndexOfStage /\ SummaryOfStage /\ GraphOfStage
    BY <1>1, <1>2 DEF IndexOfStage, Toward, SummaryOfStage, GraphOfStage
  <1> QED BY <1>3, <1>4, InitType DEF IngestIInv

(* Every step keeps the invariant. *)
LEMMA StepInv ==
  ASSUME IngestIInv, [Next]_vars
  PROVE  IngestIInv'
  <1>1. IngestTypeOK'
    BY StepType DEF IngestIInv
  <1>2. CASE UNCHANGED vars
    BY <1>1, <1>2 DEF vars, IngestIInv, HeadChosen, Planning, Done, Commit, PlanCovers, Differ,
       IndexOfStage, Toward, FreeOf, Holds, SummaryOfStage, GraphOfStage, OthersUntouched, FreshIndex
  <1> QED BY <1>1, <1>2, PushInv, RequestInv, CloneInv, PlanInv, StageInv, RecordInv DEF Next

(* The inductive invariant of the ingest: for each stage, what each index holds of the
   planned files and of the others (pipeline.py). *)
THEOREM IngestInvariance == Spec => []IngestIInv
  BY InitInv, StepInv, PTL DEF Spec

(* Every variable keeps its type. *)
THEOREM IngestTypes == Spec => []IngestTypeOK
  <1>1. IngestIInv => IngestTypeOK
    BY DEF IngestIInv
  <1> QED BY <1>1, IngestInvariance, PTL

(* The vectors and the lexical corpus are those of the commit they are owed to reflect:
   the base of an incremental plan can be trusted, whatever failed or was pushed. *)
THEOREM Freshness == Spec => []FreshIndex
  <1>1. IngestIInv => FreshIndex
    BY DEF IngestIInv
  <1> QED BY <1>1, IngestInvariance, PTL

(* A successful ingest leaves the files of its plan as they are in the cloned commit in
   every index, whatever the ingests before it left behind. *)
THEOREM PlanKept == Spec => []PlanIsKept
  <1>1. IngestIInv => PlanIsKept
    BY DEF IngestIInv, IndexOfStage, Toward, Holds, SummaryOfStage, GraphOfStage, PlanIsKept
  <1> QED BY <1>1, IngestInvariance, PTL

-----------------------------------------------------------------------------
(* Of the merges, the pipeline and git one moves, and the others keep a first state: the
   types of each hold in every run (MCBranchIngest). *)
THEOREM BranchTypes == MCSpec => []BranchTypeOK
  <1> DEFINE Inv == /\ part \in {"merge", "ingest", "clone"}
                    /\ IngestIInv /\ MergeIInv /\ GitIInv
  <1>1. MCInit => Inv
    BY InitInv, MergeStarts, GitStarts DEF MCInit
  <1>2. Inv /\ [MCNext]_mcVars => Inv'
    <2> SUFFICES ASSUME Inv, [MCNext]_mcVars
                 PROVE  Inv'
      OBVIOUS
    <2>1. part' = part /\ [Next]_vars /\ [MergeNext]_mergeVars /\ [GitNext]_gitVars
      BY DEF MCNext, mcVars
    <2>2. IngestIInv' /\ MergeIInv' /\ GitIInv'
      BY <2>1, StepInv, MergeStepKeeps, GitStepKeeps
    <2> QED BY <2>1, <2>2
  <1>3. Inv => BranchTypeOK
    BY DEF BranchTypeOK, IngestIInv, MergeIInv, GitIInv
  <1> QED BY <1>1, <1>2, <1>3, PTL DEF MCSpec
=============================================================================
