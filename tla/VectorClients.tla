---------------------------- MODULE VectorClients ---------------------------
(* The Chroma client that all threads of a process share (class attributes of
   ChromaIndex), used by readiness checks, vector searches and ingests while a
   global reset deletes the collections. Deleting and creating a collection
   gives it another identity: a handle kept from before fails with "does not
   exist", and the code that meets this error opens the client again, or not.

   One repository. `gen[c]` is the identity of a collection (0: there is none),
   `holds` the collections with documents of the repository. *)
EXTENDS Naturals, FiniteSets

CONSTANTS
    Proc,
    Reader,       \* threads that answer readiness and queries
    Operator,     \* threads that ingest or reset
    ProcOf,       \* the process of each thread
    Coll,         \* the collections a query uses
    MaxGlobalResets     \* bound: global resets

Thread == Reader \union Operator

ASSUME ClientsAssumption ==
    ProcOf \in [Thread -> Proc] /\ Coll # {} /\ MaxGlobalResets \in Nat

VARIABLES
    gen, made, holds,
    lexical,      \* the lexical store has documents of the repository
    listed,       \* the repository is in the catalogue
    shared,       \* process -> the client and collections it keeps, or None
    call,         \* thread -> what it does
    globalResets

clientVars == <<gen, made, holds, lexical, listed, shared, call, globalResets>>

None == [c \in Coll |-> 0]    \* no client; a real handle has no 0
Idle == [op |-> "idle", todo |-> {}, found |-> {}, pass |-> 0, again |-> FALSE,
         handle |-> None, lexical |-> FALSE, quiet |-> FALSE, answer |-> "none"]

p_(t) == ProcOf[t]
Busy(op) == \E t \in Thread : call[t].op = op
Complete == holds = Coll /\ lexical /\ listed
Calm == ~Busy("reset") /\ ~Busy("ingest")

-----------------------------------------------------------------------------
(* ChromaIndex.__init__ under _shared_lock: the shared client, or a new one that
   gets or creates every collection. *)
Created == {c \in Coll : gen[c] = 0}
Open(p, fresh) ==    \* `fresh`: the shared state was dropped just before
    IF shared[p] # None /\ ~fresh
    THEN UNCHANGED <<gen, made, shared>>
    ELSE /\ gen' = [c \in Coll |-> IF gen[c] = 0 THEN made + 1 ELSE gen[c]]
         /\ made' = IF Created = {} THEN made ELSE made + 1
         /\ shared' = [shared EXCEPT ![p] = gen']

ClientsInit ==
    /\ gen = None /\ made = 0 /\ holds = {} /\ lexical = FALSE /\ listed = FALSE
    /\ shared = [p \in Proc |-> None]
    /\ call = [t \in Thread |-> Idle] /\ globalResets = 0

Become(t, c) == call' = [call EXCEPT ![t] = c]
(* An ingest or a reset disturbs what others are reading. *)
BecomeAndDisturb(t, c) ==
    call' = [u \in Thread |-> IF u = t THEN c ELSE [call[u] EXCEPT !.quiet = FALSE]]
Start(op) == [op |-> op, todo |-> Coll, found |-> {}, pass |-> 1, again |-> FALSE,
              handle |-> None, lexical |-> lexical, quiet |-> Complete /\ Calm,
              answer |-> "none"]

-----------------------------------------------------------------------------
(* get_repo_query_status: counts collection by collection, each through the
   shared client (`handle`: the one the last count went through); a count through a
   stale one raises, and every count is unknown. When nothing is counted where something is expected, the shared
   state is dropped and the counts are taken once more. *)
AskReadiness(t) ==
    /\ call[t].op = "idle"
    /\ Become(t, Start("ready"))
    /\ UNCHANGED <<gen, made, holds, lexical, listed, shared, globalResets>>

Count(t) ==
    /\ call[t].op = "ready" /\ call[t].answer = "none"
    /\ \E c \in call[t].todo :
         /\ Open(p_(t), FALSE)
         /\ IF shared'[p_(t)][c] = gen'[c]
            THEN Become(t, [call[t] EXCEPT !.todo = @ \ {c}, !.handle = shared'[p_(t)],
                                           !.found = @ \union (holds \intersect {c})])
            ELSE Become(t, [call[t] EXCEPT !.todo = {}, !.handle = shared'[p_(t)],
                                           !.answer = "not_ready"])
    /\ UNCHANGED <<holds, lexical, listed, globalResets>>

CountAgain(t) ==
    /\ call[t].op = "ready" /\ call[t].answer = "none"
    /\ call[t].todo = {} /\ call[t].found = {} /\ call[t].pass = 1
    /\ listed \/ call[t].lexical
    /\ shared' = [shared EXCEPT ![p_(t)] = None]
    /\ Become(t, [call[t] EXCEPT !.todo = Coll, !.pass = 2])
    /\ UNCHANGED <<gen, made, holds, lexical, listed, globalResets>>

AnswerReadiness(t) ==
    /\ call[t].op = "ready" /\ call[t].answer = "none" /\ call[t].todo = {}
    /\ \/ call[t].found # {} \/ call[t].pass = 2
       \/ ~listed /\ ~call[t].lexical
    /\ Become(t, [call[t] EXCEPT
          !.answer = IF call[t].found # {} /\ call[t].lexical THEN "ready" ELSE "not_ready"])
    /\ UNCHANGED <<gen, made, holds, lexical, listed, shared, globalResets>>

-----------------------------------------------------------------------------
(* hybrid_search: one handle, a query per collection; a missing collection is
   opened again once (query_collection); if that fails too the collections are
   queried one after another, where a failure means no result. If nothing was
   found although the lexical store has the repository, all of it once more. *)
Search(t) ==
    /\ call[t].op = "idle"
    /\ Open(p_(t), FALSE)
    /\ Become(t, [Start("search") EXCEPT !.handle = shared'[p_(t)]])
    /\ UNCHANGED <<holds, lexical, listed, globalResets>>

Searching(t) == call[t].op = "search" /\ call[t].answer = "none" /\ call[t].todo # {}

Query(t) ==
    /\ Searching(t)
    /\ \E c \in call[t].todo :
         /\ call[t].handle[c] = gen[c]
         /\ Become(t, [call[t] EXCEPT !.todo = @ \ {c}, !.again = FALSE,
                                      !.found = @ \union (holds \intersect {c})])
    /\ UNCHANGED <<gen, made, holds, lexical, listed, shared, globalResets>>

QueryMissing(t) ==
    /\ Searching(t)
    /\ \E c \in call[t].todo :
         /\ call[t].handle[c] # gen[c]
         /\ IF ~call[t].again
            THEN /\ Open(p_(t), TRUE)
                 /\ Become(t, [call[t] EXCEPT !.again = TRUE, !.handle = shared'[p_(t)]])
            ELSE /\ UNCHANGED <<gen, made, shared>>
                 /\ IF call[t].pass \in {1, 3}     \* concurrent, then sequential
                    THEN Become(t, [call[t] EXCEPT !.todo = Coll, !.found = {},
                                       !.again = FALSE, !.pass = @ + 1])
                    ELSE Become(t, [call[t] EXCEPT !.todo = @ \ {c}, !.again = FALSE])
    /\ UNCHANGED <<holds, lexical, listed, globalResets>>

SearchAgain(t) ==
    /\ call[t].op = "search" /\ call[t].answer = "none" /\ call[t].todo = {}
    /\ call[t].found = {} /\ call[t].pass <= 2 /\ lexical
    /\ Open(p_(t), TRUE)
    /\ Become(t, [call[t] EXCEPT !.todo = Coll, !.pass = 3, !.again = FALSE,
                                 !.handle = shared'[p_(t)]])
    /\ UNCHANGED <<holds, lexical, listed, globalResets>>

AnswerSearch(t) ==
    /\ call[t].op = "search" /\ call[t].answer = "none" /\ call[t].todo = {}
    /\ call[t].found # {} \/ call[t].pass > 2 \/ ~lexical
    /\ Become(t, [call[t] EXCEPT !.answer = IF call[t].found # {} THEN "found" ELSE "nothing"])
    /\ UNCHANGED <<gen, made, holds, lexical, listed, shared, globalResets>>

-----------------------------------------------------------------------------
(* An ingest: one upsert per collection through the handle of its start, each
   of them opening the client again once when its collection is gone; then the
   lexical rows and the catalogue. *)
Ingest(t) ==
    /\ call[t].op = "idle" /\ ~Busy("ingest") /\ ~listed
    /\ Open(p_(t), FALSE)
    /\ BecomeAndDisturb(t, [Start("ingest") EXCEPT !.handle = shared'[p_(t)]])
    /\ UNCHANGED <<holds, lexical, listed, globalResets>>

Upsert(t) ==
    /\ call[t].op = "ingest" /\ call[t].answer = "none"
    /\ \E c \in call[t].todo :
         IF call[t].handle[c] = gen[c]
         THEN /\ holds' = holds \union {c}
              /\ Become(t, [call[t] EXCEPT !.todo = @ \ {c}, !.again = FALSE])
              /\ UNCHANGED <<gen, made, shared>>
         ELSE /\ holds' = holds
              /\ IF call[t].again
                 THEN /\ Become(t, [call[t] EXCEPT !.answer = "failed"])
                      /\ UNCHANGED <<gen, made, shared>>
                 ELSE /\ Open(p_(t), TRUE)
                      /\ Become(t, [call[t] EXCEPT !.again = TRUE, !.todo = {c} \union @,
                                                   !.handle = shared'[p_(t)]])
    /\ UNCHANGED <<lexical, listed, globalResets>>

Record(t) ==
    /\ call[t].op = "ingest" /\ call[t].answer = "none" /\ call[t].todo = {}
    /\ lexical' = TRUE /\ listed' = TRUE
    /\ Become(t, [call[t] EXCEPT !.answer = "succeeded"])
    /\ UNCHANGED <<gen, made, holds, shared, globalResets>>

-----------------------------------------------------------------------------
(* reset_all_storage, as far as it concerns Chroma and readiness: it begins when
   no ingest is active (JobManager.reset_all_data) and holds nothing afterwards
   that would keep one from starting. *)
BeginReset(t) ==
    /\ call[t].op = "idle" /\ ~Busy("ingest") /\ ~Busy("reset") /\ globalResets < MaxGlobalResets
    /\ globalResets' = globalResets + 1 /\ lexical' = FALSE
    /\ shared' = [shared EXCEPT ![p_(t)] = None]
    /\ BecomeAndDisturb(t, Start("reset"))
    /\ UNCHANGED <<gen, made, holds, listed>>

DeleteCollection(t) ==
    /\ call[t].op = "reset" /\ call[t].answer = "none"
    /\ \E c \in call[t].todo :
         /\ gen' = [gen EXCEPT ![c] = 0] /\ holds' = holds \ {c}
         /\ Become(t, [call[t] EXCEPT !.todo = @ \ {c}])
    /\ UNCHANGED <<made, lexical, listed, shared, globalResets>>

(* Mutant: the shared client is not dropped again at the end. *)
EndResetKeeping(t) ==
    /\ call[t].op = "reset" /\ call[t].answer = "none" /\ call[t].todo = {}
    /\ listed' = FALSE
    /\ Become(t, [call[t] EXCEPT !.answer = "cleared"])
    /\ UNCHANGED <<gen, made, holds, lexical, shared, globalResets>>

EndReset(t) ==
    /\ call[t].op = "reset" /\ call[t].answer = "none" /\ call[t].todo = {}
    /\ shared' = [shared EXCEPT ![p_(t)] = None]
    /\ listed' = FALSE
    /\ Become(t, [call[t] EXCEPT !.answer = "cleared"])
    /\ UNCHANGED <<gen, made, holds, lexical, globalResets>>

Return(t) ==
    /\ call[t].answer # "none"
    /\ Become(t, Idle)
    /\ UNCHANGED <<gen, made, holds, lexical, listed, shared, globalResets>>

ReaderStep(t) ==
    \/ AskReadiness(t) \/ Count(t) \/ CountAgain(t) \/ AnswerReadiness(t)
    \/ Search(t) \/ Query(t) \/ QueryMissing(t) \/ SearchAgain(t) \/ AnswerSearch(t)
OperatorStep(t) ==
    \/ Ingest(t) \/ Upsert(t) \/ Record(t)
    \/ BeginReset(t) \/ DeleteCollection(t) \/ EndReset(t)

ClientsNext ==
    \/ \E t \in Reader : ReaderStep(t)
    \/ \E t \in Operator : OperatorStep(t)
    \/ \E t \in Thread : Return(t)

ClientsSpec == ClientsInit /\ [][ClientsNext]_clientVars

-----------------------------------------------------------------------------
ClientsTypeOK ==
    /\ gen \in [Coll -> 0 .. made] /\ holds \subseteq Coll
    /\ shared \in [Proc -> [Coll -> 0 .. made]]
    /\ \A t \in Thread : call[t].found \subseteq Coll /\ call[t].todo \subseteq Coll

(* A search over an index that was complete before it began, and that nobody
   ingests or resets meanwhile, finds it, however old the client of its process
   is: query_collection and hybrid_search open it again. *)
SearchHeals ==
    \A t \in Thread : call[t].answer = "nothing" => ~call[t].quiet

(* The final reset_shared_state matters: a thread that opened the client while
   the collections were being deleted leaves no stale client behind in the
   process that ran the reset, whatever its threads do as it returns. *)
ResetLeavesNoStaleClient ==
    \A t \in Thread : call[t].answer = "cleared"
        => \A c \in Coll : shared[p_(t)][c] \in {0, gen[c]}

(* A readiness check over such an index is wrong only because it went through a client
   that its process had kept from before a reset. *)
OnlyStaleClientMisleads ==
    \A t \in Reader : call[t].answer = "not_ready" /\ call[t].quiet
        => \E c \in Coll : call[t].handle[c] \notin {0, gen[c]}

(* Not so: readiness over an index that was complete before the check began, and that
   nobody touched meanwhile, is positive. *)
ReadyWhenComplete ==
    \A t \in Thread : call[t].answer = "not_ready" => ~call[t].quiet

(* A collection that was deleted under a kept handle costs at most one answer: a
   search opens the client again, a reset leaves none behind in its process, and
   nothing else makes a readiness check wrong. *)
ClientsHeal == SearchHeals /\ ResetLeavesNoStaleClient /\ OnlyStaleClientMisleads

-----------------------------------------------------------------------------
(* Why it is so: the inductive invariant. A client has every collection or there is none
   (Whole); documents are in collections that exist; a reader whose index nobody touches
   sees it complete (Untouched), has found or has still to ask every collection
   (SearchOnItsWay, CountOnItsWay), and whatever it opened again is current; and once a
   reset has cleared, its process keeps a current client or none (ResetDone). *)
Whole(handle) == \A c \in Coll : handle[c] # 0
Handle == [Coll -> Nat]
Call == [op : {"idle", "ready", "search", "ingest", "reset"}, todo : SUBSET Coll,
         found : SUBSET Coll, pass : Nat, again : BOOLEAN, handle : Handle,
         lexical : BOOLEAN, quiet : BOOLEAN,
         answer : {"none", "ready", "not_ready", "found", "nothing", "failed", "succeeded",
                   "cleared"}]

Untouched(t) == call[t].quiet /\ call[t].op \in {"ready", "search"} => Complete /\ Calm

SearchOnItsWay(t) ==
    call[t].op = "search" =>
        /\ Whole(call[t].handle) /\ call[t].answer \in {"none", "found", "nothing"}
        /\ call[t].quiet =>
              /\ call[t].pass = 1 /\ call[t].found \union call[t].todo = Coll
              /\ call[t].again => call[t].handle = gen
              /\ call[t].answer # "nothing"

CountOnItsWay(t) ==
    call[t].op = "ready" =>
        /\ call[t].answer \in {"none", "ready", "not_ready"}
        /\ call[t].quiet =>
              /\ call[t].lexical
              /\ call[t].answer = "none" => call[t].found \union call[t].todo = Coll
              /\ call[t].answer = "not_ready" =>
                    \E c \in Coll : call[t].handle[c] \notin {0, gen[c]}

ResetDone(t) ==
    call[t].op = "reset" =>
        /\ call[t].answer \in {"none", "cleared"}
        /\ call[t].answer = "cleared" => shared[p_(t)] \in {None, gen}

CallHolds(t) ==
    /\ Untouched(t) /\ SearchOnItsWay(t) /\ CountOnItsWay(t) /\ ResetDone(t)
    /\ call[t].op = "idle" => call[t].answer = "none"
    /\ call[t].op = "ingest" =>
          Whole(call[t].handle) /\ call[t].answer \in {"none", "failed", "succeeded"}

ClientsIInv ==
    /\ made \in Nat /\ gen \in Handle /\ shared \in [Proc -> Handle] /\ call \in [Thread -> Call]
    /\ holds \subseteq {c \in Coll : gen[c] # 0}
    /\ lexical \in BOOLEAN /\ listed \in BOOLEAN
    /\ \A p \in Proc : shared[p] = None \/ Whole(shared[p])
    /\ \A t, u \in Thread : call[t].op = "reset" /\ call[u].op = "reset" => t = u
    /\ \A t \in Thread : CallHolds(t)
=============================================================================
