---------------------------- MODULE InventoryQuery ----------------------------
(* Inventory questions ("all the services of module auth"): the module token is
   resolved to a folder of the graph through a cache of the process, the aliases
   of the term are queried in parallel threads, and the caller pages through the
   result, every page a query of its own with its own budget of time. Meanwhile the
   graph is rebuilt by ingests and may be down (api/inventory_helpers.py,
   inventory_query_flow.py).

   One token up to its case: Spelling is how callers type it, Folder the folders it
   can mean, and a folder that is typed as it is spelt is a member of both. *)
EXTENDS Integers, Sequences, FiniteSets, FiniteSetsExt, SequencesExt

CONSTANTS
    SourceFile,          \* files, ordered by path, as numbers
    Folder,        \* folders the token matches, ordered by the sort of the code
    Spelling,      \* the token as callers type it
    Alias,         \* aliases of the term
    Matches,       \* alias -> the files it matches
    FileTrees,         \* what a commit may hold: file -> its folder, or Absent
    Limit,         \* inventory_entity_limit
    PageSizes,     \* page sizes that callers ask for; 0 is the default
    DefaultSize, MaxPageSize,
    MaxIngests, MaxOutages, MaxRestarts

Absent == 0

ASSUME InventoryAssumption ==
    /\ SourceFile \subseteq Nat /\ IsFiniteSet(SourceFile)
    /\ Folder \subseteq Nat \ {0} /\ Spelling \subseteq Nat \ {0}
    /\ Matches \in [Alias -> SUBSET SourceFile]
    /\ FileTrees \subseteq [SourceFile -> Folder \union {Absent}]
    /\ Limit \in Nat \ {0} /\ DefaultSize \in Nat \ {0} /\ MaxPageSize \in Nat
    /\ PageSizes \subseteq Int

VARIABLES
    fileTree,      \* the files of the graph and their folders
    next,      \* the tree an ingest is about to write, or the present one
    graphUp, scopeCache,
    typed,     \* the spelling that decided the cached scope
    caller,    \* the caller: scope, page, and what it has collected
    pending,   \* aliases whose query has not come back
    got,       \* entities of the aliases that have
    queryFailed,    \* one of the queries raised
    quiet,     \* since the first page: no ingest, no outage
    pure,      \* since the process started: no ingest, no outage
    count      \* bounds of the environment

inventoryVars ==
    <<fileTree, next, graphUp, scopeCache, typed, caller, pending, got, queryFailed,
      quiet, pure, count>>

NoCache == -1
Known(t) == {t[f] : f \in SourceFile} \ {Absent}
InScope(t, scope) == {f \in SourceFile : t[f] = scope}

(* resolve_module_scope: the folder spelt as the token, else the first one it matches
   whatever its case, else the token itself. *)
FolderOf(folders, token) ==
    IF token \in folders \/ folders = {} THEN token ELSE Min(folders)

(* _sanitize_inventory_pagination *)
SafeSize(size) ==
    Min({IF size > 0 THEN size ELSE DefaultSize, Max({DefaultSize, MaxPageSize})})

(* A broad question ("all the files of the module") is one query of the files of a
   folder, in the place of the aliases. *)
WholeFolder == "whole folder"
AskedAliases(broad) == IF broad THEN {WholeFolder} ELSE Alias
FilesOf(a) == IF a = WholeFolder THEN SourceFile ELSE Matches[a]

NoAsk == [pc |-> "idle", token |-> NoCache, broad |-> FALSE, scope |-> NoCache,
          page |-> 0, size |-> 1, spent |-> FALSE, total |-> 0, items |-> <<>>]

InventoryInit ==
    /\ fileTree \in FileTrees /\ next = fileTree /\ graphUp = TRUE /\ scopeCache = NoCache
    /\ typed = NoCache /\ caller = NoAsk /\ pending = {} /\ got = {} /\ queryFailed = FALSE
    /\ quiet = FALSE /\ pure = TRUE
    /\ count = [ingests |-> 0, outages |-> 0, restarts |-> 0]

graph == <<fileTree, next, graphUp>>

-----------------------------------------------------------------------------
(* The first page. A scope found in the cache, whose key is the token in lower case,
   is used; otherwise the folders of the graph decide, a graph that fails knows none,
   and what is decided is kept for the life of the process. A budget that this has
   spent leaves the page empty, with its reason, and the graph unasked. *)
AskFirst ==
    /\ caller.pc = "idle"
    /\ \E size \in PageSizes, broad \in BOOLEAN, token \in Spelling :
         caller' = [NoAsk EXCEPT !.pc = "scope", !.token = token, !.broad = broad,
                                 !.page = 1, !.size = SafeSize(size)]
    /\ quiet' = (graphUp /\ next = fileTree)
    /\ UNCHANGED <<graph, scopeCache, typed, pending, got, queryFailed, pure, count>>

FolderNow == FolderOf(IF graphUp THEN Known(fileTree) ELSE {}, caller.token)

AskOver(scope, spent) ==
    /\ caller' = [caller EXCEPT !.pc = "query", !.scope = scope, !.spent = spent]
    /\ pending' = IF spent THEN {} ELSE AskedAliases(caller.broad)
    /\ got' = {} /\ queryFailed' = FALSE
    /\ typed' = IF scopeCache # NoCache THEN typed ELSE caller.token

(* Mutant: the token is cached as it was typed. *)
ResolveScopeAsTyped ==
    /\ caller.pc = "scope"
    /\ \E spent \in BOOLEAN : AskOver(FolderNow, spent)
    /\ scopeCache' = caller.token
    /\ UNCHANGED <<graph, quiet, pure, count>>

ResolveScope ==
    /\ caller.pc = "scope"
    /\ scopeCache' = IF scopeCache # NoCache THEN scopeCache ELSE FolderNow
    /\ \E spent \in BOOLEAN : AskOver(scopeCache', spent)
    /\ UNCHANGED <<graph, quiet, pure, count>>

(* query_inventory_entities: a thread per alias, each with its own query and
   limit; all are waited for, and one failure makes the whole result empty. *)
Truncated(files) == {f \in files : Cardinality({g \in files : g < f}) < Limit}

AliasAnswers ==
    /\ caller.pc = "query"
    /\ \E a \in pending :
         /\ pending' = pending \ {a}
         /\ IF graphUp
            THEN /\ got' = got \union Truncated(FilesOf(a) \intersect InScope(fileTree, caller.scope))
                 /\ queryFailed' = queryFailed
            ELSE got' = got /\ queryFailed' = TRUE
    /\ UNCHANGED <<graph, scopeCache, typed, caller, quiet, pure, count>>

(* Sorted by path, duplicates of the aliases merged, one page cut out. (The order of
   SetToSortSeq is that of an operator the prover cannot open.) *)
Sorted(files) ==
    [n \in 1 .. Cardinality(files) |->
        CHOOSE f \in files : Cardinality({g \in files : g < f}) = n - 1]
Entities == IF queryFailed THEN <<>> ELSE Sorted(got)
PageOf(all, page, size) ==
    SubSeq(all, (page - 1) * size + 1, Min({page * size, Len(all)}))

(* A page that was listed says of itself too that the budget is spent, when it is. *)
TurnPage ==
    /\ caller.pc = "query" /\ pending = {}
    /\ LET all  == Entities
           more == caller.page * caller.size < Len(all)
       IN  \E slow \in BOOLEAN :
             caller' = [caller EXCEPT !.pc = IF more THEN "scope" ELSE "read",
                                      !.page = IF more THEN @ + 1 ELSE @,
                                      !.spent = @ \/ slow,
                                      !.total = Len(all),
                                      !.items = @ \o PageOf(all, caller.page, caller.size)]
    /\ UNCHANGED <<graph, scopeCache, typed, pending, got, queryFailed, quiet, pure, count>>

Leave ==
    /\ caller.pc = "read"
    /\ caller' = NoAsk /\ got' = {} /\ queryFailed' = FALSE /\ quiet' = FALSE
    /\ UNCHANGED <<graph, scopeCache, typed, pending, pure, count>>

-----------------------------------------------------------------------------
(* An ingest empties the graph of the repository, then writes it again. *)
Nothing == [f \in SourceFile |-> Absent]

Purge ==
    /\ next = fileTree /\ fileTree # Nothing /\ count.ingests < MaxIngests /\ graphUp
    /\ next' \in FileTrees \ {fileTree} /\ fileTree' = Nothing
    /\ count' = [count EXCEPT !.ingests = @ + 1]
    /\ quiet' = FALSE /\ pure' = FALSE
    /\ UNCHANGED <<graphUp, scopeCache, typed, caller, pending, got, queryFailed>>

WriteGraph ==
    /\ next # fileTree /\ graphUp /\ fileTree' = next
    /\ UNCHANGED <<next, graphUp, scopeCache, typed, caller, pending, got, queryFailed,
                   quiet, pure, count>>

Outage ==
    /\ graphUp /\ count.outages < MaxOutages
    /\ graphUp' = FALSE /\ count' = [count EXCEPT !.outages = @ + 1]
    /\ quiet' = FALSE /\ pure' = FALSE
    /\ UNCHANGED <<fileTree, next, scopeCache, typed, caller, pending, got, queryFailed>>

Recovery ==
    /\ ~graphUp /\ graphUp' = TRUE
    /\ UNCHANGED <<fileTree, next, scopeCache, typed, caller, pending, got, queryFailed,
                   quiet, pure, count>>

(* A restart empties the cache, and ends the request in progress. *)
Restart ==
    /\ count.restarts < MaxRestarts
    /\ count' = [count EXCEPT !.restarts = @ + 1]
    /\ scopeCache' = NoCache /\ typed' = NoCache /\ caller' = NoAsk
    /\ pending' = {} /\ got' = {} /\ queryFailed' = FALSE
    /\ quiet' = FALSE /\ pure' = (graphUp /\ next = fileTree)
    /\ UNCHANGED graph

InventoryNext ==
    \/ AskFirst \/ ResolveScope \/ AliasAnswers \/ TurnPage \/ Leave
    \/ Purge \/ WriteGraph \/ Outage \/ Recovery \/ Restart

InventorySpec == InventoryInit /\ [][InventoryNext]_inventoryVars

-----------------------------------------------------------------------------
InventoryTypeOK ==
    /\ fileTree \in FileTrees \union {Nothing} /\ next \in FileTrees
    /\ scopeCache \in Folder \union Spelling \union {NoCache} 
    /\ typed \in Spelling \union {NoCache}
    /\ pending \subseteq AskedAliases(caller.broad) /\ got \subseteq SourceFile
    /\ caller.size \in 1 .. Max({DefaultSize, MaxPageSize})

(* What an alias lists, and all of them. *)
ListedBy(a) == Truncated(FilesOf(a) \intersect InScope(fileTree, caller.scope))
Listed == UNION {ListedBy(a) : a \in AskedAliases(caller.broad)}

(* The inductive invariant: a caller undisturbed holds the pages before the one it
   asks for, and the query in progress the aliases that have answered. *)
CallerTypes ==
    /\ caller \in [pc : {"idle", "scope", "query", "read"}, token : Spelling \union {NoCache},
                   broad : BOOLEAN, scope : Folder \union Spelling \union {NoCache},
                   page : Nat, size : Nat \ {0}, spent : BOOLEAN, total : Nat,
                   items : Seq(SourceFile)]
    /\ caller.pc # "idle" => caller.page > 0 /\ caller.token # NoCache
    /\ caller.pc # "query" => pending = {}
    /\ graphUp \in BOOLEAN

PagesBefore == (caller.page - 1) * caller.size

(* The whole listing is read, or the pages before the one that was left empty. *)
AllRead  == caller.items = Sorted(Listed) /\ caller.total = Cardinality(Listed)
CutShort == caller.items = SubSeq(Sorted(Listed), 1, PagesBefore) /\ caller.total = 0

ScopeHeld == scopeCache = FolderOf(Known(fileTree), typed)

CallerHolds ==
    /\ quiet \/ pure => graphUp /\ next = fileTree
    /\ pure /\ scopeCache # NoCache => ScopeHeld
    /\ caller.pc \in {"query", "read"} \/ caller.page > 1
         => caller.scope = scopeCache /\ scopeCache # NoCache
    /\ quiet /\ caller.pc \in {"scope", "query"}
         => /\ PagesBefore <= Cardinality(Listed)
            /\ caller.items = SubSeq(Sorted(Listed), 1, PagesBefore)
    /\ caller.pc = "query" /\ caller.spent => pending = {} /\ got = {} /\ ~queryFailed
    /\ quiet /\ caller.pc = "query" /\ ~caller.spent
         => /\ ~queryFailed
            /\ got = UNION {ListedBy(a) : a \in AskedAliases(caller.broad) \ pending}
    /\ quiet /\ caller.pc = "read" => AllRead \/ (caller.spent /\ CutShort)

InventoryIInv == InventoryTypeOK /\ CallerTypes /\ CallerHolds

(* Turning the pages one by one over a graph that is up and that no ingest
   touches lists every entity of the scope that an alias matches within its
   limit, once, in order, whatever page size is asked for and in whatever order
   the threads come back, and the total of the last page counts them; or the last
   page is one that says its budget of time was spent, and the pages before it are the
   beginning of that listing. *)
PagesPartition ==
    caller.pc = "read" /\ quiet => AllRead \/ (caller.spent /\ CutShort)

(* The scope cached by a process is the one the graph has for the spelling that was
   typed first, as long as nothing was ingested and the graph answered since the
   process started. *)
ScopeIsRightUntilDisturbed ==
    scopeCache # NoCache /\ pure => ScopeHeld

(* Not so: the scope a question is asked in is the one its own spelling has. The cache
   is keyed by the token in lower case, and a folder is matched by its case first. *)
ScopeIsAsTyped ==
    caller.pc = "read" /\ pure => caller.scope = FolderOf(Known(fileTree), caller.token)

(* Not so: whatever happened before, a question over a graph that is up and that no
   ingest touches is asked in a folder the graph has now. *)
ScopeIsCurrent ==
    caller.pc = "read" /\ quiet /\ Known(fileTree) # {} => caller.scope \in Known(fileTree)

(* Not so: a caller never sees an entity twice while it turns the pages forward. *)
NoEntityTwice ==
    \A i, j \in DOMAIN caller.items : i # j => caller.items[i] # caller.items[j]
=============================================================================
