---------------------------- MODULE RetrievalProofs ----------------------------
(* Theorems about what a search reads and what it computes. Read: VectorClients, for every
   set of processes, of threads and of collections; GraphStore, for every set of files and
   of trees; Embedding, for every size of a batch and every number of texts;
   InventoryQuery, for every folder, term and size of a page; ModelDiscovery, for every
   chain of sources and time to live. Computed: GraphContext, for every ranking, record and
   budget; Fusion and Rerank, for every pool and cut. The theorems that end the part of a
   component speak of the composed MCRetrieval, in which one part moves at a time. *)
EXTENDS MCRetrieval, FiniteSetTheorems, SequenceTheorems, WellFoundedInduction, TLAPS
-----------------------------------------------------------------------------
(* What a thread may do to the collections and clients beside a reader: create what is
   not there, and leave every client as it is, current, or dropped. *)
StoreGrows ==
  /\ made' \in Nat /\ gen' \in Handle /\ shared' \in [Proc -> Handle]
  /\ \A c \in Coll : gen[c] # 0 => gen'[c] = gen[c]
  /\ \A p \in Proc : shared'[p] = None \/ Whole(shared'[p])
  /\ \A p \in Proc : shared[p] \in {None, gen} => shared'[p] \in {None, gen'}

(* No client at all is not a client with every collection. *)
LEMMA NoneIsNotWhole == ~Whole(None) /\ None \in Handle
  BY ClientsAssumption DEF Whole, None, Handle

(* PersistentClient with get_or_create_collection: what was missing is made, the client the
   process keeps is whole, and where nothing was missing the collections stay. *)
LEMMA Opens ==
  ASSUME ClientsIInv, NEW p \in Proc, NEW fresh \in BOOLEAN, Open(p, fresh)
  PROVE  /\ StoreGrows /\ Whole(shared'[p]) /\ shared'[p] \in Handle
         /\ fresh => shared'[p] = gen'
         /\ (\A c \in Coll : gen[c] # 0) => gen' = gen
  <1>1. /\ made \in Nat /\ gen \in Handle /\ shared \in [Proc -> Handle]
        /\ \A q \in Proc : shared[q] = None \/ Whole(shared[q])
    BY DEF ClientsIInv
  <1>2. CASE shared[p] # None /\ ~fresh
    <2>1. UNCHANGED <<gen, made, shared>>
      BY <1>2 DEF Open
    <2> QED BY <1>1, <1>2, <2>1 DEF StoreGrows
  <1>3. CASE ~(shared[p] # None /\ ~fresh)
    <2>1. /\ gen' = [c \in Coll |-> IF gen[c] = 0 THEN made + 1 ELSE gen[c]]
          /\ made' \in {made, made + 1} /\ shared' = [shared EXCEPT ![p] = gen']
      BY <1>3 DEF Open
    <2>2. gen' \in Handle /\ \A c \in Coll : gen'[c] # 0 /\ (gen[c] # 0 => gen'[c] = gen[c])
      BY <1>1, <2>1 DEF Handle
    <2>3. shared' \in [Proc -> Handle] /\ shared'[p] = gen' /\ Whole(gen')
      BY <1>1, <2>1, <2>2 DEF Whole
    <2>4. ASSUME NEW q \in Proc, q # p
          PROVE  /\ shared'[q] = shared[q]
                 /\ shared[q] \in {None, gen} => shared'[q] \in {None, gen'}
      <3>1. shared'[q] = shared[q]
        BY <1>1, <2>1, <2>4
      <3>2. ASSUME shared[q] = gen, shared[q] # None
            PROVE  gen' = gen
        BY <1>1, <2>1, <3>2 DEF Whole, Handle
      <3> QED BY <3>1, <3>2
    <2>5. (\A c \in Coll : gen[c] # 0) => gen' = gen
      BY <1>1, <2>1 DEF Handle
    <2> QED BY <1>1, <2>1, <2>2, <2>3, <2>4, <2>5 DEF StoreGrows
  <1> QED BY <1>2, <1>3

(* Where the index is complete, every collection exists. *)
LEMMA CompleteExists ==
  ASSUME ClientsIInv, Complete
  PROVE  /\ \A c \in Coll : gen[c] # 0
         /\ StoreGrows => gen' = gen
  BY DEF ClientsIInv, Complete, StoreGrows, Handle

(* A thread beside a reader keeps what it knows: readers only add what is missing, which
   nothing is where an index is complete. *)
LEMMA OtherReads ==
  ASSUME ClientsIInv, NEW u \in Thread, StoreGrows, UNCHANGED <<holds, lexical, listed>>,
         Calm => Calm', call'[u] = call[u]
  PROVE  CallHolds(u)'
  <1>1. CallHolds(u) /\ call[u] \in Call /\ p_(u) \in Proc
    BY ClientsAssumption DEF ClientsIInv, p_
  <1>2. Untouched(u)' /\ (call[u].quiet /\ call[u].op \in {"ready", "search"} => gen' = gen)
    BY <1>1, CompleteExists DEF CallHolds, Untouched, Complete
  <1>3. ResetDone(u)'
    BY <1>1 DEF CallHolds, ResetDone, StoreGrows, p_
  <1>4. SearchOnItsWay(u)'
    BY <1>1, <1>2 DEF CallHolds, SearchOnItsWay, Whole
  <1>5. CountOnItsWay(u)'
    <2>1. CountOnItsWay(u)
      BY <1>1 DEF CallHolds
    <2> QED BY <1>2, <2>1 DEF CountOnItsWay
  <1> QED BY <1>1, <1>2, <1>3, <1>4, <1>5 DEF CallHolds, Whole

(* A thread beside an ingest or a reset: a reader is told that its index was touched. *)
LEMMA OtherDisturbed ==
  ASSUME ClientsIInv, NEW u \in Thread,
         call'[u] \in {call[u], [call[u] EXCEPT !.quiet = FALSE]},
         call[u].op \in {"ready", "search"} => ~call'[u].quiet,
         call[u].op = "reset" =>
            (shared[p_(u)] \in {None, gen} => shared'[p_(u)] \in {None, gen'})
  PROVE  call'[u] \in Call /\ call'[u].op = call[u].op /\ CallHolds(u)'
  <1>1. CallHolds(u) /\ call[u] \in Call
    BY DEF ClientsIInv
  <1>2. /\ call'[u] \in Call /\ call'[u].op = call[u].op /\ call'[u].answer = call[u].answer
        /\ call'[u].handle = call[u].handle
    BY <1>1 DEF Call
  <1>4. Untouched(u)' /\ SearchOnItsWay(u)' /\ CountOnItsWay(u)' /\ ResetDone(u)'
    BY <1>1, <1>2 DEF CallHolds, Untouched, SearchOnItsWay, CountOnItsWay, ResetDone, Whole, p_
  <1> QED BY <1>1, <1>2, <1>4 DEF CallHolds, Whole

(* A thread that reads, asks or returns. *)
LEMMA ReaderMoves ==
  ASSUME ClientsIInv, NEW t \in Thread, NEW c \in Call, Become(t, c),
         c.op \in {"idle", "ready", "search"},
         StoreGrows, UNCHANGED <<holds, lexical, listed>>, CallHolds(t)'
  PROVE  ClientsIInv'
  <1>1. /\ call' \in [Thread -> Call] /\ call'[t] = c
        /\ \A u \in Thread \ {t} : call'[u] = call[u]
    BY DEF Become, ClientsIInv
  <1>2. Calm => Calm'
    BY <1>1 DEF Calm, Busy
  <1>3. \A u \in Thread : CallHolds(u)'
    BY <1>1, <1>2, OtherReads
  <1>4. \A u, v \in Thread : call'[u].op = "reset" /\ call'[v].op = "reset" => u = v
    BY <1>1 DEF ClientsIInv
  <1>5. (holds \subseteq {k \in Coll : gen[k] # 0})'
    BY DEF ClientsIInv, StoreGrows
  <1> QED BY <1>1, <1>3, <1>4, <1>5 DEF ClientsIInv, StoreGrows

(* Nothing moves but the call of a thread. *)
LEMMA StoreStays ==
  ASSUME ClientsIInv, UNCHANGED <<gen, made, shared>>
  PROVE  StoreGrows
  BY DEF ClientsIInv, StoreGrows, Handle

(* The fields of a call. *)
LEMMA FieldsOfCall ==
  ASSUME NEW k \in Call
  PROVE  /\ k.op \in {"idle", "ready", "search", "ingest", "reset"}
         /\ k.todo \subseteq Coll /\ k.found \subseteq Coll /\ k.pass \in Nat
         /\ k.again \in BOOLEAN /\ k.handle \in Handle /\ k.lexical \in BOOLEAN
         /\ k.quiet \in BOOLEAN
  BY DEF Call

(* A call that starts: all collections to do, nothing found, quiet when the index is
   complete and nobody writes it. *)
LEMMA StartIsCall ==
  ASSUME ClientsIInv, NEW op \in {"idle", "ready", "search", "ingest", "reset"}
  PROVE  /\ Start(op) \in Call /\ Start(op).op = op /\ Start(op).todo = Coll
         /\ Start(op).found = {} /\ Start(op).pass = 1 /\ ~Start(op).again
         /\ Start(op).answer = "none" /\ Start(op).lexical = lexical
         /\ Start(op).quiet = (Complete /\ Calm)
  <1> DEFINE b == Complete /\ Calm
  <1>1. b \in BOOLEAN
    BY Zenon
  <1> HIDE DEF b
  <1>2. Start(op) = [op |-> op, todo |-> Coll, found |-> {}, pass |-> 1, again |-> FALSE,
                        handle |-> None, lexical |-> lexical, quiet |-> b, answer |-> "none"]
    BY DEF Start, b
  <1>3. lexical \in BOOLEAN /\ None \in Handle
    BY NoneIsNotWhole DEF ClientsIInv
  <1> QED BY <1>1, <1>2, <1>3 DEF Call, b

(* What one thread may do to its own call leaves the others alone. *)
LEMMA Moved ==
  ASSUME ClientsIInv, NEW t \in Thread, NEW k \in Call, Become(t, k),
         k.op \in {"idle", "ready", "search"}
  PROVE  /\ call'[t] = k /\ (Calm => Calm') /\ p_(t) \in Proc
         /\ call[t] \in Call /\ CallHolds(t)
  <1>1. /\ call'[t] = k /\ \A u \in Thread \ {t} : call'[u] = call[u]
        /\ call[t] \in Call /\ CallHolds(t)
    BY DEF Become, ClientsIInv
  <1>2. ASSUME Calm
        PROVE  Calm'
    BY <1>1, <1>2 DEF Calm, Busy
  <1> QED BY <1>1, <1>2, ClientsAssumption DEF p_

(* A readiness check begins. *)
LEMMA AskReadinessKeeps ==
  ASSUME ClientsIInv, NEW t \in Thread, AskReadiness(t)
  PROVE  ClientsIInv'
  <1> DEFINE k == Start("ready")
  <1>1. /\ k \in Call /\ k.op = "ready" /\ k.todo = Coll /\ k.answer = "none"
        /\ k.lexical = lexical /\ k.quiet = (Complete /\ Calm) /\ k.found = {}
    BY StartIsCall
  <1> HIDE DEF k
  <1>2. call' = [call EXCEPT ![t] = k] /\ StoreGrows /\ UNCHANGED <<holds, lexical, listed>>
    BY StoreStays DEF AskReadiness, Become, k
  <1>3. call'[t] = k /\ (Calm => Calm') /\ (Complete => Complete')
    BY <1>1, <1>2, Moved DEF Become, Complete
  <1>4. CallHolds(t)'
    BY <1>1, <1>3 DEF CallHolds, Untouched, SearchOnItsWay, CountOnItsWay, ResetDone, Complete
  <1> QED BY <1>1, <1>2, <1>4, ReaderMoves DEF Become

(* It counts the documents of a collection, or fails at a client from before a reset. *)
LEMMA CountKeeps ==
  ASSUME ClientsIInv, NEW t \in Thread, Count(t)
  PROVE  ClientsIInv'
  <1> DEFINE p == p_(t)
  <1>0. p \in Proc
    BY ClientsAssumption DEF p_
  <1> HIDE DEF p
  <1>1. /\ StoreGrows /\ Whole(shared'[p]) /\ shared'[p] \in Handle
        /\ (\A c \in Coll : gen[c] # 0) => gen' = gen
    BY <1>0, Opens DEF Count, p
  <1>2. PICK c \in call[t].todo :
            IF shared'[p][c] = gen'[c]
            THEN Become(t, [call[t] EXCEPT !.todo = @ \ {c}, !.handle = shared'[p],
                                           !.found = @ \union (holds \intersect {c})])
            ELSE Become(t, [call[t] EXCEPT !.todo = {}, !.handle = shared'[p],
                                           !.answer = "not_ready"])
    BY DEF Count, p
  <1>3. /\ call[t].op = "ready" /\ call[t].answer = "none" /\ call[t] \in Call
        /\ CallHolds(t) /\ UNCHANGED <<holds, lexical, listed>> /\ c \in Coll
    BY <1>2 DEF Count, ClientsIInv, Call
  <1>4. CASE shared'[p][c] = gen'[c]
    <2> DEFINE k == [call[t] EXCEPT !.todo = @ \ {c}, !.handle = shared'[p],
                                    !.found = @ \union (holds \intersect {c})]
    <2>1. /\ k \in Call /\ k.op = "ready" /\ k.answer = "none" /\ k.quiet = call[t].quiet
          /\ k.lexical = call[t].lexical /\ k.todo = call[t].todo \ {c}
          /\ k.found = call[t].found \union (holds \intersect {c})
      BY <1>1, <1>3 DEF Call
    <2>2. Become(t, k)
      BY <1>2, <1>4
    <2> HIDE DEF k
    <2>3. call'[t] = k /\ (Calm => Calm')
      BY <1>3, <2>1, <2>2 DEF Become, ClientsIInv, Calm, Busy
    <2>4. CallHolds(t)'
      BY <1>3, <2>1, <2>3
         DEF CallHolds, Untouched, SearchOnItsWay, CountOnItsWay, ResetDone, Complete
    <2> QED BY <1>1, <1>3, <2>1, <2>2, <2>4, ReaderMoves
  <1>5. CASE shared'[p][c] # gen'[c]
    <2> DEFINE k == [call[t] EXCEPT !.todo = {}, !.handle = shared'[p], !.answer = "not_ready"]
    <2>1. /\ k \in Call /\ k.op = "ready" /\ k.answer = "not_ready" /\ k.quiet = call[t].quiet
          /\ k.lexical = call[t].lexical /\ k.handle = shared'[p]
      BY <1>1, <1>3 DEF Call
    <2>2. Become(t, k)
      BY <1>2, <1>5
    <2> HIDE DEF k
    <2>3. call'[t] = k /\ (Calm => Calm')
      BY <1>3, <2>1, <2>2 DEF Become, ClientsIInv, Calm, Busy
    <2>4. k.handle[c] \notin {0, gen'[c]}
      BY <1>1, <1>3, <1>5, <2>1 DEF Whole
    <2>5. CallHolds(t)'
      BY <1>3, <2>1, <2>3, <2>4
         DEF CallHolds, Untouched, SearchOnItsWay, CountOnItsWay, ResetDone, Complete
    <2> QED BY <1>1, <1>3, <2>1, <2>2, <2>5, ReaderMoves
  <1> QED BY <1>4, <1>5

(* Nothing counted: it opens the client again, which only an index that somebody touched
   asks for. *)
LEMMA CountAgainKeeps ==
  ASSUME ClientsIInv, NEW t \in Thread, CountAgain(t)
  PROVE  ClientsIInv'
  <1> DEFINE k == [call[t] EXCEPT !.todo = Coll, !.pass = 2]
  <1>1. call[t] \in Call /\ CallHolds(t) /\ p_(t) \in Proc
    BY ClientsAssumption DEF ClientsIInv, p_
  <1>2. /\ k \in Call /\ k.op = "ready" /\ k.answer = "none" /\ k.quiet = call[t].quiet
    BY <1>1 DEF CountAgain, Call
  <1>3. ~call[t].quiet
    BY <1>1, ClientsAssumption DEF CountAgain, CallHolds, CountOnItsWay
  <1>4. Become(t, k)
    BY DEF CountAgain
  <1> HIDE DEF k
  <1>5. call'[t] = k
    BY <1>2, <1>4, Moved
  <1>6. CallHolds(t)'
    BY <1>2, <1>3, <1>5
       DEF CallHolds, Untouched, SearchOnItsWay, CountOnItsWay, ResetDone, Complete
  <1>7. StoreGrows
    BY <1>1, NoneIsNotWhole DEF CountAgain, ClientsIInv, StoreGrows
  <1> QED BY <1>2, <1>4, <1>6, <1>7, ReaderMoves DEF CountAgain

(* It answers: with documents found and the lexical index there, it is ready. *)
LEMMA AnswerReadinessKeeps ==
  ASSUME ClientsIInv, NEW t \in Thread, AnswerReadiness(t)
  PROVE  ClientsIInv'
  <1> DEFINE verdict == IF call[t].found # {} /\ call[t].lexical THEN "ready" ELSE "not_ready"
  <1> DEFINE k == [call[t] EXCEPT !.answer = verdict]
  <1>1. /\ call[t] \in Call /\ CallHolds(t) /\ verdict \in {"ready", "not_ready"}
        /\ call[t].op = "ready" /\ call[t].answer = "none" /\ call[t].todo = {}
    BY DEF ClientsIInv, AnswerReadiness
  <1>2. call[t].quiet => verdict = "ready"
    BY <1>1, ClientsAssumption DEF CallHolds, CountOnItsWay
  <1>3. Become(t, k)
    BY DEF AnswerReadiness
  <1> HIDE DEF verdict
  <1>4. k \in Call /\ k.op = "ready" /\ k.answer = verdict /\ k.quiet = call[t].quiet
        /\ k.lexical = call[t].lexical
    BY <1>1 DEF Call
  <1> HIDE DEF k
  <1>5. call'[t] = k /\ (Calm => Calm')
    BY <1>3, <1>4, Moved
  <1>6. StoreGrows /\ UNCHANGED <<holds, lexical, listed>>
    BY StoreStays DEF AnswerReadiness
  <1>7. CallHolds(t)'
    BY <1>1, <1>2, <1>4, <1>5, <1>6
       DEF CallHolds, Untouched, SearchOnItsWay, CountOnItsWay, ResetDone, Complete
  <1> QED BY <1>3, <1>4, <1>6, <1>7, ReaderMoves

(* A search opens the client of its process. *)
LEMMA SearchKeeps ==
  ASSUME ClientsIInv, NEW t \in Thread, Search(t)
  PROVE  ClientsIInv'
  <1> DEFINE s == Start("search")
             h == shared'[p_(t)]
             k == [s EXCEPT !.handle = h]
  <1>1. p_(t) \in Proc
    BY ClientsAssumption DEF p_
  <1>2. StoreGrows /\ Whole(h) /\ h \in Handle /\ UNCHANGED <<holds, lexical, listed>>
    BY <1>1, Opens DEF Search
  <1>3. /\ s \in Call /\ s.op = "search" /\ s.todo = Coll /\ s.answer = "none" /\ s.pass = 1
        /\ ~s.again /\ s.quiet = (Complete /\ Calm) /\ s.found = {}
    BY StartIsCall
  <1>4. Become(t, k)
    BY DEF Search
  <1> HIDE DEF s, h
  <1>5. /\ k \in Call /\ k.op = "search" /\ k.todo = Coll /\ k.answer = "none" /\ k.pass = 1
        /\ ~k.again /\ k.quiet = s.quiet /\ k.found = {} /\ k.handle = h
    BY <1>2, <1>3 DEF Call
  <1> HIDE DEF k
  <1>6. call'[t] = k /\ (Calm => Calm')
    BY <1>4, <1>5, Moved
  <1>7. CallHolds(t)'
    BY <1>2, <1>3, <1>5, <1>6
       DEF CallHolds, Untouched, SearchOnItsWay, CountOnItsWay, ResetDone, Complete, Whole
  <1> QED BY <1>2, <1>4, <1>5, <1>7, ReaderMoves

(* It queries a collection that its client still has. *)
LEMMA QueryKeeps ==
  ASSUME ClientsIInv, NEW t \in Thread, Query(t)
  PROVE  ClientsIInv'
  <1>1. /\ call[t] \in Call /\ CallHolds(t)
        /\ call[t].op = "search" /\ call[t].answer = "none"
    BY DEF ClientsIInv, Query, Searching
  <1>2. PICK c \in call[t].todo :
            Become(t, [call[t] EXCEPT !.todo = @ \ {c}, !.again = FALSE,
                                      !.found = @ \union (holds \intersect {c})])
    BY DEF Query
  <1> DEFINE k == [call[t] EXCEPT !.todo = @ \ {c}, !.again = FALSE,
                                  !.found = @ \union (holds \intersect {c})]
  <1>3. /\ k \in Call /\ k.op = "search" /\ k.answer = "none" /\ k.quiet = call[t].quiet
        /\ k.todo = call[t].todo \ {c} /\ ~k.again /\ k.pass = call[t].pass
        /\ k.found = call[t].found \union (holds \intersect {c}) /\ k.handle = call[t].handle
        /\ c \in Coll
    BY <1>1, <1>2 DEF Call
  <1>4. Become(t, k)
    BY <1>2
  <1> HIDE DEF k
  <1>5. call'[t] = k /\ (Calm => Calm')
    BY <1>3, <1>4, Moved
  <1>6. StoreGrows /\ UNCHANGED <<holds, lexical, listed>>
    BY StoreStays DEF Query
  <1>7. CallHolds(t)'
    BY <1>1, <1>3, <1>5, <1>6
       DEF CallHolds, Untouched, SearchOnItsWay, CountOnItsWay, ResetDone, Complete, Whole
  <1> QED BY <1>3, <1>4, <1>6, <1>7, ReaderMoves

(* Its client is stale: it is opened again once, then the pass is given up, which the
   index of a quiet search never asks for. *)
LEMMA QueryMissingKeeps ==
  ASSUME ClientsIInv, NEW t \in Thread, QueryMissing(t)
  PROVE  ClientsIInv'
  <1>1. /\ call[t] \in Call /\ CallHolds(t) /\ UNCHANGED <<holds, lexical, listed>>
        /\ call[t].op = "search" /\ call[t].answer = "none" /\ p_(t) \in Proc
    BY ClientsAssumption DEF ClientsIInv, QueryMissing, Searching, p_
  <1>2. PICK c \in call[t].todo :
          /\ call[t].handle[c] # gen[c]
          /\ IF ~call[t].again
             THEN /\ Open(p_(t), TRUE)
                  /\ Become(t, [call[t] EXCEPT !.again = TRUE, !.handle = shared'[p_(t)]])
             ELSE /\ UNCHANGED <<gen, made, shared>>
                  /\ IF call[t].pass \in {1, 3}
                     THEN Become(t, [call[t] EXCEPT !.todo = Coll, !.found = {},
                                        !.again = FALSE, !.pass = @ + 1])
                     ELSE Become(t, [call[t] EXCEPT !.todo = @ \ {c}, !.again = FALSE])
    BY DEF QueryMissing
  <1>3. CASE ~call[t].again
    <2> DEFINE h == shared'[p_(t)]
               k == [call[t] EXCEPT !.again = TRUE, !.handle = h]
    <2>1. StoreGrows /\ Whole(h) /\ h \in Handle /\ h = gen'
      BY <1>1, <1>2, <1>3, Opens
    <2>2. Become(t, k)
      BY <1>2, <1>3
    <2> HIDE DEF h
    <2>3. /\ k \in Call /\ k.op = "search" /\ k.answer = "none" /\ k.quiet = call[t].quiet
          /\ k.todo = call[t].todo /\ k.pass = call[t].pass
          /\ k.found = call[t].found /\ k.handle = h
      BY <1>1, <2>1 DEF Call
    <2> HIDE DEF k
    <2>4. call'[t] = k /\ (Calm => Calm')
      BY <2>2, <2>3, Moved
    <2>5. CallHolds(t)'
      BY <1>1, <2>1, <2>3, <2>4
         DEF CallHolds, Untouched, SearchOnItsWay, CountOnItsWay, ResetDone, Complete, Whole
    <2> QED BY <1>1, <2>1, <2>2, <2>3, <2>5, ReaderMoves
  <1>4. CASE call[t].again
    <2>1. ~call[t].quiet
      BY <1>1, <1>2, <1>4 DEF CallHolds, SearchOnItsWay
    <2>2. PICK k \in {[call[t] EXCEPT !.todo = Coll, !.found = {}, !.again = FALSE, !.pass = @ + 1],
                      [call[t] EXCEPT !.todo = @ \ {c}, !.again = FALSE]} : Become(t, k)
      BY <1>2, <1>4
    <2>3. /\ k \in Call /\ k.op = "search" /\ k.answer = "none" /\ k.quiet = call[t].quiet
          /\ k.handle = call[t].handle
      <3>1. CASE k = [call[t] EXCEPT !.todo = Coll, !.found = {}, !.again = FALSE, !.pass = @ + 1]
        <4> DEFINE n == call[t].pass + 1
        <4>1. n \in Nat
          BY <1>1, FieldsOfCall
        <4>2. k = [call[t] EXCEPT !.todo = Coll, !.found = {}, !.again = FALSE, !.pass = n]
          BY <3>1
        <4> HIDE DEF n
        <4> QED BY <1>1, <4>1, <4>2 DEF Call
      <3>2. CASE k = [call[t] EXCEPT !.todo = @ \ {c}, !.again = FALSE]
        BY <1>1, <3>2 DEF Call
      <3> QED BY <2>2, <3>1, <3>2
    <2>4. call'[t] = k /\ StoreGrows
      BY <1>2, <1>4, <2>2, <2>3, Moved, StoreStays
    <2>5. CallHolds(t)'
      BY <1>1, <2>1, <2>3, <2>4
         DEF CallHolds, Untouched, SearchOnItsWay, CountOnItsWay, ResetDone, Complete, Whole
    <2> QED BY <1>1, <2>2, <2>3, <2>4, <2>5, ReaderMoves
  <1> QED BY <1>1, <1>3, <1>4, FieldsOfCall

(* Nothing found: the search opens the client again, whole index anew. *)
LEMMA SearchAgainKeeps ==
  ASSUME ClientsIInv, NEW t \in Thread, SearchAgain(t)
  PROVE  ClientsIInv'
  <1>1. /\ call[t] \in Call /\ CallHolds(t) /\ UNCHANGED <<holds, lexical, listed>>
        /\ call[t].op = "search" /\ call[t].answer = "none" /\ p_(t) \in Proc
    BY ClientsAssumption DEF ClientsIInv, SearchAgain, p_
  <1>2. ~call[t].quiet
    BY <1>1, ClientsAssumption DEF SearchAgain, CallHolds, SearchOnItsWay
  <1> DEFINE h == shared'[p_(t)]
             k == [call[t] EXCEPT !.todo = Coll, !.pass = 3, !.again = FALSE, !.handle = h]
  <1>3. StoreGrows /\ Whole(h) /\ h \in Handle
    BY <1>1, Opens DEF SearchAgain
  <1>4. Become(t, k)
    BY DEF SearchAgain
  <1> HIDE DEF h
  <1>5. /\ k \in Call /\ k.op = "search" /\ k.answer = "none" /\ k.quiet = call[t].quiet
        /\ k.handle = h
    BY <1>1, <1>3 DEF Call
  <1> HIDE DEF k
  <1>6. call'[t] = k
    BY <1>4, <1>5, Moved
  <1>7. CallHolds(t)'
    BY <1>1, <1>2, <1>3, <1>5, <1>6
       DEF CallHolds, Untouched, SearchOnItsWay, CountOnItsWay, ResetDone, Complete, Whole
  <1> QED BY <1>1, <1>3, <1>4, <1>5, <1>7, ReaderMoves

(* A search answers with what it found. *)
LEMMA AnswerSearchKeeps ==
  ASSUME ClientsIInv, NEW t \in Thread, AnswerSearch(t)
  PROVE  ClientsIInv'
  <1> DEFINE verdict == IF call[t].found # {} THEN "found" ELSE "nothing"
  <1> DEFINE k == [call[t] EXCEPT !.answer = verdict]
  <1>1. /\ call[t] \in Call /\ CallHolds(t) /\ verdict \in {"found", "nothing"}
        /\ call[t].op = "search" /\ call[t].answer = "none" /\ call[t].todo = {}
    BY DEF ClientsIInv, AnswerSearch
  <1>2. call[t].quiet => verdict = "found"
    BY <1>1, ClientsAssumption DEF CallHolds, SearchOnItsWay
  <1>3. Become(t, k)
    BY DEF AnswerSearch
  <1> HIDE DEF verdict
  <1>4. k \in Call /\ k.op = "search" /\ k.answer = verdict /\ k.quiet = call[t].quiet
        /\ k.handle = call[t].handle /\ k.pass = call[t].pass /\ k.found = call[t].found
        /\ k.todo = call[t].todo /\ k.again = call[t].again
    BY <1>1 DEF Call
  <1> HIDE DEF k
  <1>5. call'[t] = k /\ (Calm => Calm')
    BY <1>3, <1>4, Moved
  <1>6. StoreGrows /\ UNCHANGED <<holds, lexical, listed, gen>>
    BY StoreStays DEF AnswerSearch
  <1>7. CallHolds(t)'
    BY <1>1, <1>2, <1>4, <1>5, <1>6
       DEF CallHolds, Untouched, SearchOnItsWay, CountOnItsWay, ResetDone, Complete, Whole
  <1> QED BY <1>3, <1>4, <1>6, <1>7, ReaderMoves

(* A call returns and its thread is free. *)
LEMMA ReturnKeeps ==
  ASSUME ClientsIInv, NEW t \in Thread, Return(t)
  PROVE  ClientsIInv'
  <1>1. Idle \in Call /\ Idle.op = "idle" /\ Idle.answer = "none"
    BY NoneIsNotWhole DEF Idle, Call
  <1>2. Become(t, Idle) /\ StoreGrows /\ UNCHANGED <<holds, lexical, listed>>
    BY StoreStays DEF Return
  <1>3. call'[t] = Idle
    BY <1>1, <1>2, Moved
  <1>4. CallHolds(t)'
    BY <1>1, <1>3 DEF CallHolds, Untouched, SearchOnItsWay, CountOnItsWay, ResetDone, Complete
  <1> QED BY <1>1, <1>2, <1>4, ReaderMoves

(* An ingest or a reset moves: every reader is disturbed, or there is none whose index
   nobody touches. *)
LEMMA OperatorMoves ==
  ASSUME ClientsIInv, NEW t \in Thread, call' \in [Thread -> Call],
         \A u \in Thread \ {t} :
            /\ call'[u] \in {call[u], [call[u] EXCEPT !.quiet = FALSE]}
            /\ call[u].op \in {"ready", "search"} => ~call'[u].quiet
            /\ call[u].op = "reset" =>
                  (shared[p_(u)] \in {None, gen} => shared'[p_(u)] \in {None, gen'}),
         call'[t].op = "reset" => \A u \in Thread \ {t} : call[u].op # "reset",
         made' \in Nat, gen' \in Handle, shared' \in [Proc -> Handle],
         \A p \in Proc : shared'[p] = None \/ Whole(shared'[p]),
         holds' \subseteq {c \in Coll : gen'[c] # 0},
         lexical' \in BOOLEAN, listed' \in BOOLEAN,
         CallHolds(t)'
  PROVE  ClientsIInv'
  <1>1. \A u \in Thread \ {t} : call'[u].op = call[u].op /\ CallHolds(u)'
    BY OtherDisturbed
  <1>2. \A u, v \in Thread : call'[u].op = "reset" /\ call'[v].op = "reset" => u = v
    BY <1>1 DEF ClientsIInv
  <1> QED BY <1>1, <1>2 DEF ClientsIInv

(* Beside an ingest or a reset nobody reads an index that nobody touches. *)
LEMMA NobodyReadsBeside ==
  ASSUME ClientsIInv, NEW t \in Thread, call[t].op \in {"ingest", "reset"}
  PROVE  \A u \in Thread : call[u].op \in {"ready", "search"} => ~call[u].quiet
  <1>1. ~Calm
    BY DEF Calm, Busy
  <1> QED BY <1>1 DEF ClientsIInv, CallHolds, Untouched

(* The thread of an ingest or a reset moves alone, and what others rely on stays. *)
LEMMA OperatorMovesAlone ==
  ASSUME ClientsIInv, NEW t \in Thread, NEW k \in Call, Become(t, k),
         call[t].op \in {"ingest", "reset"}, k.op = call[t].op,
         StoreGrows \/ (call[t].op = "reset" /\ made' \in Nat /\ gen' \in Handle
                          /\ shared' \in [Proc -> Handle]
                          /\ \A p \in Proc : shared'[p] = None \/ Whole(shared'[p])),
         holds' \subseteq {c \in Coll : gen'[c] # 0},
         lexical' \in BOOLEAN, listed' \in BOOLEAN,
         CallHolds(t)'
  PROVE  ClientsIInv'
  <1>1. /\ call' \in [Thread -> Call] /\ call'[t] = k
        /\ \A u \in Thread \ {t} : call'[u] = call[u]
    BY DEF Become, ClientsIInv
  <1>2. \A u \in Thread : call[u].op \in {"ready", "search"} => ~call[u].quiet
    BY NobodyReadsBeside
  <1>3. call[t].op = "reset" => \A u \in Thread \ {t} : call[u].op # "reset"
    BY DEF ClientsIInv
  <1>4. /\ made' \in Nat /\ gen' \in Handle /\ shared' \in [Proc -> Handle]
        /\ \A p \in Proc : shared'[p] = None \/ Whole(shared'[p])
    BY DEF StoreGrows
  <1>5. \A u \in Thread \ {t} : call[u].op = "reset" =>
            (shared[p_(u)] \in {None, gen} => shared'[p_(u)] \in {None, gen'})
    BY <1>3, ClientsAssumption DEF StoreGrows, p_
  <1> QED BY <1>1, <1>2, <1>3, <1>4, <1>5, OperatorMoves

(* An ingest or a reset that begins tells every other thread. *)
LEMMA Disturbs ==
  ASSUME ClientsIInv, NEW t \in Thread, NEW k \in Call, BecomeAndDisturb(t, k)
  PROVE  /\ call' \in [Thread -> Call] /\ call'[t] = k
         /\ \A u \in Thread \ {t} : call'[u] = [call[u] EXCEPT !.quiet = FALSE] /\ ~call'[u].quiet
  <1>1. \A u \in Thread : call[u] \in Call
    BY DEF ClientsIInv
  <1>2. \A u \in Thread : [call[u] EXCEPT !.quiet = FALSE] \in Call
                          /\ ~[call[u] EXCEPT !.quiet = FALSE].quiet
    BY <1>1 DEF Call
  <1> QED BY <1>2 DEF BecomeAndDisturb

(* An ingest begins and opens its client. *)
LEMMA IngestKeeps ==
  ASSUME ClientsIInv, NEW t \in Thread, Ingest(t)
  PROVE  ClientsIInv'
  <1> DEFINE s == Start("ingest")
             h == shared'[p_(t)]
             k == [s EXCEPT !.handle = h]
  <1>1. p_(t) \in Proc
    BY ClientsAssumption DEF p_
  <1>2. StoreGrows /\ Whole(h) /\ h \in Handle /\ UNCHANGED <<holds, lexical, listed>>
    BY <1>1, Opens DEF Ingest
  <1>3. s \in Call /\ s.op = "ingest" /\ s.answer = "none"
    BY StartIsCall
  <1>4. BecomeAndDisturb(t, k)
    BY DEF Ingest
  <1> HIDE DEF s, h
  <1>5. k \in Call /\ k.op = "ingest" /\ k.answer = "none" /\ k.handle = h
    BY <1>2, <1>3 DEF Call
  <1> HIDE DEF k
  <1>6. CallHolds(t)'
    BY <1>2, <1>4, <1>5, Disturbs
       DEF CallHolds, Untouched, SearchOnItsWay, CountOnItsWay, ResetDone, Whole
  <1>7. holds' \subseteq {c \in Coll : gen'[c] # 0} /\ lexical' \in BOOLEAN /\ listed' \in BOOLEAN
    BY <1>2 DEF ClientsIInv, StoreGrows
  <1>8. \A u \in Thread \ {t} : call[u].op = "reset" =>
            (shared[p_(u)] \in {None, gen} => shared'[p_(u)] \in {None, gen'})
    BY <1>2, ClientsAssumption DEF StoreGrows, p_
  <1>9. /\ made' \in Nat /\ gen' \in Handle /\ shared' \in [Proc -> Handle]
        /\ \A p \in Proc : shared'[p] = None \/ Whole(shared'[p])
    BY <1>2 DEF StoreGrows
  <1>10. call'[t].op # "reset"
    BY <1>4, <1>5, Disturbs
  <1> QED BY <1>4, <1>5, <1>6, <1>7, <1>8, <1>9, <1>10, Disturbs, OperatorMoves

(* A reset begins: the client of its process is dropped, the lexical index is gone. *)
LEMMA BeginResetKeeps ==
  ASSUME ClientsIInv, NEW t \in Thread, BeginReset(t)
  PROVE  ClientsIInv'
  <1> DEFINE k == Start("reset")
  <1>1. k \in Call /\ k.op = "reset" /\ k.answer = "none"
    BY StartIsCall
  <1>2. BecomeAndDisturb(t, k)
    BY DEF BeginReset
  <1> HIDE DEF k
  <1>3. /\ UNCHANGED <<gen, made, holds, listed>> /\ lexical' = FALSE
        /\ shared' = [shared EXCEPT ![p_(t)] = None]
        /\ \A u \in Thread : call[u].op # "reset"
    BY DEF BeginReset, Busy
  <1>4. /\ shared' \in [Proc -> Handle] /\ \A p \in Proc : shared'[p] = None \/ Whole(shared'[p])
    BY <1>3, NoneIsNotWhole DEF ClientsIInv
  <1>5. CallHolds(t)'
    BY <1>1, <1>2, Disturbs
       DEF CallHolds, Untouched, SearchOnItsWay, CountOnItsWay, ResetDone
  <1>6. /\ made' \in Nat /\ gen' \in Handle /\ holds' \subseteq {c \in Coll : gen'[c] # 0}
        /\ lexical' \in BOOLEAN /\ listed' \in BOOLEAN
    BY <1>3 DEF ClientsIInv, Handle
  <1> QED BY <1>2, <1>1, <1>3, <1>4, <1>5, <1>6, Disturbs, OperatorMoves

(* An ingest writes a collection; a stale client is opened again once, then it fails. *)
LEMMA WritesDocumentsKeeps ==
  ASSUME ClientsIInv, NEW t \in Thread, Upsert(t)
  PROVE  ClientsIInv'
  <1>1. /\ call[t] \in Call /\ CallHolds(t) /\ UNCHANGED <<lexical, listed>>
        /\ call[t].op = "ingest" /\ call[t].answer = "none" /\ p_(t) \in Proc
        /\ lexical \in BOOLEAN /\ listed \in BOOLEAN
    BY ClientsAssumption DEF ClientsIInv, Upsert, p_
  <1>2. PICK c \in call[t].todo :
         IF call[t].handle[c] = gen[c]
         THEN /\ holds' = holds \union {c}
              /\ Become(t, [call[t] EXCEPT !.todo = @ \ {c}, !.again = FALSE])
              /\ UNCHANGED <<gen, made, shared>>
         ELSE /\ holds' = holds
              /\ IF call[t].again
                 THEN /\ Become(t, [call[t] EXCEPT !.answer = "failed"])
                      /\ UNCHANGED <<gen, made, shared>>
                 ELSE /\ Open(p_(t), TRUE)
                      /\ Become(t, [call[t] EXCEPT !.again = TRUE, !.todo = {c} \union @,
                                                   !.handle = shared'[p_(t)]])
    BY DEF Upsert
  <1>3. c \in Coll /\ Whole(call[t].handle)
    BY <1>1, <1>2, FieldsOfCall DEF CallHolds
  <1>4. ASSUME NEW k \in Call, Become(t, k), k.op = "ingest",
               k.answer \in {"none", "failed"}, Whole(k.handle), StoreGrows,
               holds' \subseteq {e \in Coll : gen'[e] # 0}
        PROVE  ClientsIInv'
    <2>1. call'[t] = k
      BY <1>4 DEF Become, ClientsIInv
    <2>2. CallHolds(t)'
      BY <1>4, <2>1 DEF CallHolds, Untouched, SearchOnItsWay, CountOnItsWay, ResetDone, Whole
    <2> QED BY <1>1, <1>4, <2>2, OperatorMovesAlone
  <1>5. CASE call[t].handle[c] = gen[c]
    <2> DEFINE k == [call[t] EXCEPT !.todo = @ \ {c}, !.again = FALSE]
    <2>1. k \in Call /\ k.op = "ingest" /\ k.answer = "none" /\ k.handle = call[t].handle
      BY <1>1 DEF Call
    <2>2. Become(t, k) /\ StoreGrows
      BY <1>2, <1>5, StoreStays
    <2> HIDE DEF k
    <2>3. holds' \subseteq {e \in Coll : gen'[e] # 0}
      BY <1>2, <1>3, <1>5 DEF ClientsIInv, Whole
    <2> QED BY <1>3, <1>4, <2>1, <2>2, <2>3
  <1>6. CASE call[t].handle[c] # gen[c] /\ call[t].again
    <2> DEFINE k == [call[t] EXCEPT !.answer = "failed"]
    <2>1. k \in Call /\ k.op = "ingest" /\ k.answer = "failed" /\ k.handle = call[t].handle
      BY <1>1 DEF Call
    <2>2. Become(t, k) /\ StoreGrows
      BY <1>2, <1>6, StoreStays
    <2> HIDE DEF k
    <2>3. holds' \subseteq {e \in Coll : gen'[e] # 0}
      BY <1>2, <1>6 DEF ClientsIInv
    <2> QED BY <1>3, <1>4, <2>1, <2>2, <2>3
  <1>7. CASE call[t].handle[c] # gen[c] /\ ~call[t].again
    <2> DEFINE h == shared'[p_(t)]
               k == [call[t] EXCEPT !.again = TRUE, !.todo = {c} \union @, !.handle = h]
    <2>1. Become(t, k) /\ Open(p_(t), TRUE) /\ holds' = holds
      BY <1>2, <1>7
    <2>2. StoreGrows /\ Whole(h) /\ h \in Handle
      BY <1>1, <2>1, Opens
    <2> HIDE DEF h
    <2>3. k \in Call /\ k.op = "ingest" /\ k.answer = "none" /\ k.handle = h
      BY <1>1, <1>3, <2>2 DEF Call
    <2> HIDE DEF k
    <2>4. holds' \subseteq {e \in Coll : gen'[e] # 0}
      BY <2>1, <2>2 DEF ClientsIInv, StoreGrows
    <2> QED BY <1>4, <2>1, <2>2, <2>3, <2>4
  <1> QED BY <1>1, <1>5, <1>6, <1>7, FieldsOfCall

(* An ingest records what it stored. *)
LEMMA RecordKeeps ==
  ASSUME ClientsIInv, NEW t \in Thread, Record(t)
  PROVE  ClientsIInv'
  <1> DEFINE k == [call[t] EXCEPT !.answer = "succeeded"]
  <1>1. call[t] \in Call /\ CallHolds(t) /\ call[t].op = "ingest"
    BY DEF ClientsIInv, Record
  <1>2. k \in Call /\ k.op = "ingest" /\ k.answer = "succeeded" /\ k.handle = call[t].handle
    BY <1>1 DEF Call
  <1>3. Become(t, k)
    BY DEF Record
  <1> HIDE DEF k
  <1>4. call'[t] = k
    BY <1>3 DEF Become, ClientsIInv
  <1>5. CallHolds(t)'
    BY <1>1, <1>2, <1>4 DEF CallHolds, Untouched, SearchOnItsWay, CountOnItsWay, ResetDone, Whole
  <1>6. StoreGrows /\ lexical' \in BOOLEAN /\ listed' \in BOOLEAN /\ UNCHANGED <<holds, gen>>
    BY StoreStays DEF Record
  <1> QED BY <1>1, <1>2, <1>3, <1>5, <1>6, OperatorMovesAlone DEF ClientsIInv

(* A reset deletes a collection. *)
LEMMA DeleteCollectionKeeps ==
  ASSUME ClientsIInv, NEW t \in Thread, DeleteCollection(t)
  PROVE  ClientsIInv'
  <1>1. /\ call[t] \in Call /\ call[t].op = "reset" /\ call[t].answer = "none"
        /\ UNCHANGED <<made, lexical, listed, shared>>
    BY DEF ClientsIInv, DeleteCollection
  <1>2. PICK c \in call[t].todo :
         /\ gen' = [gen EXCEPT ![c] = 0] /\ holds' = holds \ {c}
         /\ Become(t, [call[t] EXCEPT !.todo = @ \ {c}])
    BY DEF DeleteCollection
  <1> DEFINE k == [call[t] EXCEPT !.todo = @ \ {c}]
  <1>3. k \in Call /\ k.op = "reset" /\ k.answer = "none"
    BY <1>1 DEF Call
  <1>4. Become(t, k)
    BY <1>2
  <1> HIDE DEF k
  <1>5. call'[t] = k
    BY <1>4 DEF Become, ClientsIInv
  <1>6. CallHolds(t)'
    BY <1>3, <1>5 DEF CallHolds, Untouched, SearchOnItsWay, CountOnItsWay, ResetDone
  <1>7. gen' \in Handle /\ holds' \subseteq {e \in Coll : gen'[e] # 0}
    BY <1>2 DEF ClientsIInv, Handle
  <1>8. /\ made' \in Nat /\ shared' \in [Proc -> Handle] /\ lexical' \in BOOLEAN
        /\ listed' \in BOOLEAN /\ \A p \in Proc : shared'[p] = None \/ Whole(shared'[p])
    BY <1>1 DEF ClientsIInv
  <1> QED BY <1>1, <1>3, <1>4, <1>6, <1>7, <1>8, OperatorMovesAlone

(* The final reset_shared_state of a reset. *)
LEMMA EndResetKeeps ==
  ASSUME ClientsIInv, NEW t \in Thread, EndReset(t)
  PROVE  ClientsIInv'
  <1> DEFINE k == [call[t] EXCEPT !.answer = "cleared"]
  <1>1. /\ call[t] \in Call /\ call[t].op = "reset" /\ call[t].answer = "none"
        /\ UNCHANGED <<made, lexical, gen, holds>> /\ listed' = FALSE /\ p_(t) \in Proc
        /\ shared' = [shared EXCEPT ![p_(t)] = None]
    BY ClientsAssumption DEF ClientsIInv, EndReset, p_
  <1>2. k \in Call /\ k.op = "reset" /\ k.answer = "cleared"
    BY <1>1 DEF Call
  <1>3. Become(t, k)
    BY DEF EndReset
  <1> HIDE DEF k
  <1>4. call'[t] = k
    BY <1>3 DEF Become, ClientsIInv
  <1>5. /\ shared' \in [Proc -> Handle] /\ \A p \in Proc : shared'[p] = None \/ Whole(shared'[p])
        /\ shared'[p_(t)] = None
    BY <1>1, NoneIsNotWhole DEF ClientsIInv
  <1>6. CallHolds(t)'
    BY <1>2, <1>4, <1>5 DEF CallHolds, Untouched, SearchOnItsWay, CountOnItsWay, ResetDone, p_
  <1>7. /\ made' \in Nat /\ lexical' \in BOOLEAN /\ listed' \in BOOLEAN /\ gen' \in Handle
        /\ holds' \subseteq {e \in Coll : gen'[e] # 0}
    BY <1>1 DEF ClientsIInv, Handle
  <1> QED BY <1>1, <1>2, <1>3, <1>5, <1>6, <1>7, OperatorMovesAlone

(* Nothing opened, nobody calling. *)
LEMMA ClientsStarts == ClientsInit => ClientsIInv
  <1> SUFFICES ASSUME ClientsInit
               PROVE  ClientsIInv
    OBVIOUS
  <1>1. Idle \in Call /\ Idle.op = "idle" /\ Idle.answer = "none"
    BY NoneIsNotWhole DEF Idle, Call
  <1>2. call \in [Thread -> Call] /\ \A t \in Thread : call[t] = Idle
    BY <1>1 DEF ClientsInit
  <1>3. \A t \in Thread : CallHolds(t)
    BY <1>1, <1>2 DEF CallHolds, Untouched, SearchOnItsWay, CountOnItsWay, ResetDone
  <1>4. \A t, u \in Thread : call[t].op = "reset" /\ call[u].op = "reset" => t = u
    BY <1>1, <1>2
  <1> QED BY <1>2, <1>3, <1>4, NoneIsNotWhole DEF ClientsInit, ClientsIInv

(* Every step of every thread keeps the invariant. *)
LEMMA ClientsKeeps == ClientsIInv /\ [ClientsNext]_clientVars => ClientsIInv'
  <1>1. ASSUME ClientsIInv, UNCHANGED clientVars
        PROVE  ClientsIInv'
    BY <1>1 DEF clientVars, ClientsIInv, CallHolds, Untouched, SearchOnItsWay, CountOnItsWay,
                ResetDone, Complete, Calm, Busy, Whole, Handle, p_
  <1>2. ASSUME ClientsIInv, NEW t \in Thread, ReaderStep(t) \/ OperatorStep(t) \/ Return(t)
        PROVE  ClientsIInv'
    <2>1. CASE ReaderStep(t)
      BY <1>2, <2>1, AskReadinessKeeps, CountKeeps, CountAgainKeeps, AnswerReadinessKeeps,
         SearchKeeps, QueryKeeps, QueryMissingKeeps, SearchAgainKeeps, AnswerSearchKeeps
         DEF ReaderStep
    <2>2. CASE OperatorStep(t)
      BY <1>2, <2>2, IngestKeeps, WritesDocumentsKeeps, RecordKeeps, BeginResetKeeps,
         DeleteCollectionKeeps, EndResetKeeps DEF OperatorStep
    <2> QED BY <1>2, <2>1, <2>2, ReturnKeeps
  <1> QED BY <1>1, <1>2 DEF ClientsNext, Thread

(* ChromaIndex with its shared client: the inductive invariant holds in every run, for
   every set of processes, threads and collections, and every number of resets. *)
THEOREM ClientsInvariance == ClientsSpec => []ClientsIInv
  BY ClientsStarts, ClientsKeeps, PTL DEF ClientsSpec

(* A collection that a reset deletes under the client of another process misleads at most a
   readiness check of that process (ChromaIndex.reset_shared_state, query_collection). *)
THEOREM ClientsHealEverywhere == ClientsSpec => []ClientsHeal
  <1>1. ASSUME ClientsIInv
        PROVE  ClientsHeal
    <2>1. SearchHeals
      BY <1>1
         DEF ClientsIInv, CallHolds, SearchOnItsWay, CountOnItsWay, ResetDone, SearchHeals, Call
    <2>2. ResetLeavesNoStaleClient
      BY <1>1, ClientsAssumption DEF ClientsIInv, CallHolds, SearchOnItsWay, CountOnItsWay,
               ResetDone, ResetLeavesNoStaleClient, Call, None
    <2>3. OnlyStaleClientMisleads
      BY <1>1 DEF ClientsIInv, CallHolds, SearchOnItsWay, CountOnItsWay, ResetDone,
               OnlyStaleClientMisleads, Call, Thread
    <2> QED BY <2>1, <2>2, <2>3 DEF ClientsHeal
  <1> QED BY <1>1, ClientsInvariance, PTL
-----------------------------------------------------------------------------
(* What an extraction leaves of a tree is a tree. *)
LEMMA ExtractedIsWellFormed ==
  ASSUME NEW t \in Trees, NEW u \in Extracted(t)
  PROVE  WellFormed(u)
  <1>1. WellFormed(t)
    BY GraphAssumption
  <1>2. CASE u = t
    BY <1>1, <1>2
  <1>3. ASSUME NEW S \in SUBSET t.files,
               u = [files |-> t.files, calls |-> {}, unresolved |-> {},
                    imports |-> From(t.imports, S), externals |-> From(t.externals, S)]
        PROVE  WellFormed(u)
    <2>1. From(t.imports, S) \subseteq t.imports /\ From(t.externals, S) \subseteq t.externals
      BY DEF From
    <2> QED BY <1>1, <1>3, <2>1 DEF WellFormed
  <1> QED BY <1>2, <1>3 DEF Extracted

(* The parts of a tree. *)
LEMMA TreeParts ==
  ASSUME NEW t, WellFormed(t)
  PROVE  /\ t.files \subseteq File
         /\ t.calls \subseteq t.files \X t.files /\ t.imports \subseteq t.files \X t.files
         /\ t.unresolved \subseteq t.files \X Reference
         /\ t.externals \subseteq t.files \X Reference
         /\ DeriveFileEdges(t) \subseteq t.files \X t.files
  BY DEF WellFormed, DeriveFileEdges

(* An erased graph has no loose ends. *)
LEMMA ErasedIsClean ==
  ASSUME Erase, WellFormed(tree)'
  PROVE  /\ EdgesHaveEnds' /\ (symbols \subseteq files)' /\ NothingElse'
         /\ files' \subseteq File /\ symbols' \subseteq File
         /\ relations' \subseteq File \X File /\ fileEdges' \subseteq File \X File
         /\ unresolved' \subseteq File \X Reference /\ externalEdges' \subseteq File \X Reference
  BY DEF Erase, EdgesHaveEnds, NothingElse

(* A graph without files is empty. *)
LEMMA NoFilesNothing ==
  ASSUME GraphIInv, files = {}
  PROVE  /\ symbols = {} /\ relations = {} /\ unresolved = {}
         /\ fileEdges = {} /\ externalEdges = {}
  BY DEF GraphIInv, EdgesHaveEnds

(* An upsert begins, over an erased graph or over the one that is there. *)
LEMMA BeginUpsertKeeps ==
  ASSUME GraphIInv, BeginUpsert
  PROVE  GraphIInv'
  <1>1. WellFormed(tree)'
    BY ExtractedIsWellFormed DEF BeginUpsert
  <1>2. stage' = "files" /\ upserts' = upserts + 1 /\ upserts' \in Nat /\ disturbed' = FALSE
    BY DEF BeginUpsert, GraphIInv
  <1>3. WrittenUpTo'
    BY <1>2 DEF WrittenUpTo, Wrote
  <1>4. CASE Erase /\ clean' = TRUE
    BY <1>1, <1>2, <1>3, <1>4, ErasedIsClean DEF GraphIInv, GraphTypeOK
  <1>5. CASE UNCHANGED graphTables /\ clean' = (files = {} \/ (clean /\ tree' = tree))
    <2>1. clean' \in BOOLEAN
      BY ONLY <1>5, Zenon
    <2>2. GraphTypeOK' /\ EdgesHaveEnds' /\ (symbols \subseteq files)'
      BY <1>2, <1>5 DEF GraphIInv, GraphTypeOK, EdgesHaveEnds, graphTables
    <2>3. ASSUME files = {}
          PROVE  NothingElse'
      BY <1>5, <2>3, NoFilesNothing DEF NothingElse, graphTables
    <2>4. ASSUME clean, tree' = tree
          PROVE  NothingElse'
      BY <1>5, <2>4 DEF NothingElse, graphTables, GraphIInv, DeriveFileEdges
    <2>5. clean' => NothingElse'
      BY ONLY <1>5, <2>3, <2>4, Zenon
    <2> QED BY <1>1, <1>2, <1>3, <2>1, <2>2, <2>5 DEF GraphIInv
  <1> QED BY <1>4, <1>5 DEF BeginUpsert

(* What every write keeps: the tree, and that it wrote of the tree only. *)
LEMMA WriteKeeps ==
  ASSUME GraphIInv, NEW from,
         NEW to \in {"idle", "files", "symbols", "relations", "unresolved", "fileEdges",
                     "externals"},
         Write(from, to),
         files' \in {files} \union
                      {F \in SUBSET File : files \subseteq F /\ F \subseteq files \union tree.files},
         symbols' \in {symbols, symbols \union tree.files}, symbols' \subseteq files',
         relations' \in {relations, relations \union Between(tree.calls, symbols)},
         unresolved' \in {unresolved, unresolved \union From(tree.unresolved, symbols)},
         fileEdges' \in {fileEdges, fileEdges \union Between(DeriveFileEdges(tree), files)},
         externalEdges' \in {externalEdges, externalEdges \union From(tree.externals, files)},
         WrittenUpTo'
  PROVE  GraphIInv'
  <1>1. UNCHANGED <<tree, clean, upserts, faults, disturbed>> /\ stage' = to
    BY DEF Write
  <1>2. WellFormed(tree)' /\ WellFormed(tree)
    BY <1>1 DEF GraphIInv, WellFormed
  <1>3. /\ files \subseteq files' /\ symbols \subseteq symbols'
        /\ files' \subseteq files \union tree.files
    OBVIOUS
  <1>4. /\ Between(tree.calls, symbols) \subseteq symbols \X symbols
        /\ Between(tree.calls, symbols) \subseteq tree.calls
        /\ Between(DeriveFileEdges(tree), files) \subseteq files \X files
        /\ Between(DeriveFileEdges(tree), files) \subseteq DeriveFileEdges(tree)
        /\ From(tree.externals, files) \subseteq files \X Reference
        /\ From(tree.externals, files) \subseteq tree.externals
        /\ From(tree.unresolved, symbols) \subseteq symbols \X Reference
        /\ From(tree.unresolved, symbols) \subseteq tree.unresolved
    BY <1>2, TreeParts DEF Between, From
  <1>5. EdgesHaveEnds'
    BY <1>3, <1>4 DEF GraphIInv, EdgesHaveEnds
  <1>6. GraphTypeOK'
    <2>1. files' \subseteq File /\ symbols' \subseteq File
      BY <1>2, TreeParts DEF GraphIInv, GraphTypeOK
    <2> QED BY <1>1, <1>5, <2>1 DEF GraphTypeOK, EdgesHaveEnds
  <1>7. clean => NothingElse'
    <2> SUFFICES ASSUME clean PROVE NothingElse'
      OBVIOUS
    <2>1. NothingElse
      BY DEF GraphIInv
    <2>2. DeriveFileEdges(tree)' = DeriveFileEdges(tree)
      BY <1>1 DEF DeriveFileEdges
    <2> QED BY <1>1, <1>3, <1>4, <2>1, <2>2 DEF NothingElse
  <1> QED BY <1>1, <1>2, <1>5, <1>6, <1>7 DEF GraphIInv

(* Every stage of an upsert, from the files to the external edges, writes of the tree only
   and all of it. *)
LEMMA UpsertKeeps ==
  ASSUME GraphIInv,
         \/ UpsertFile \/ FilesWritten \/ UpsertSymbols \/ UpsertRelations
         \/ UpsertUnresolved \/ UpsertFileEdges \/ UpsertExternals
  PROVE  GraphIInv'
  <1>0. WellFormed(tree) /\ files \subseteq File /\ symbols \subseteq files
    BY DEF GraphIInv, GraphTypeOK
  <1>1. CASE UpsertFile
    <2>1. stage = "files" /\ stage' = "files" /\ UNCHANGED <<tree, upserts, disturbed>>
      BY <1>1 DEF UpsertFile, Write
    <2>2. WrittenUpTo'
      BY <2>1 DEF WrittenUpTo, Wrote
    <2> QED BY <1>0, <1>1, <2>2, TreeParts, WriteKeeps DEF UpsertFile
  <1>2. CASE FilesWritten
    <2>1. WrittenUpTo'
      BY <1>2 DEF FilesWritten, Write, WrittenUpTo, Wrote, graphTables
    <2> QED BY <1>0, <1>2, <2>1, WriteKeeps DEF FilesWritten, graphTables
  <1>3. CASE UpsertSymbols
    <2>1. WrittenUpTo'
      BY <1>3 DEF UpsertSymbols, Write, WrittenUpTo, Wrote
    <2> QED BY <1>0, <1>3, <2>1, TreeParts, WriteKeeps DEF UpsertSymbols
  <1>4. CASE UpsertRelations
    <2>1. upserts > 0 /\ ~disturbed => tree.files \subseteq files /\ tree.files \subseteq symbols
      BY <1>4 DEF UpsertRelations, Write, GraphIInv, WrittenUpTo, Wrote
    <2>2. tree.files \subseteq symbols => Between(tree.calls, tree.files) \subseteq relations'
      BY <1>4 DEF UpsertRelations, Between
    <2>3. WrittenUpTo'
      BY <1>4, <2>1, <2>2 DEF UpsertRelations, Write, WrittenUpTo, Wrote, Between
    <2> QED BY <1>0, <1>4, <2>3, WriteKeeps DEF UpsertRelations
  <1>5. CASE UpsertUnresolved
    <2>1. upserts > 0 /\ ~disturbed =>
            /\ tree.files \subseteq files /\ tree.files \subseteq symbols
            /\ Between(tree.calls, tree.files) \subseteq relations
      BY <1>5 DEF UpsertUnresolved, Write, GraphIInv, WrittenUpTo, Wrote
    <2>2. tree.files \subseteq symbols => tree.unresolved \subseteq unresolved'
      BY <1>0, <1>5, TreeParts DEF UpsertUnresolved, From
    <2>3. WrittenUpTo'
      BY <1>5, <2>1, <2>2 DEF UpsertUnresolved, Write, WrittenUpTo, Wrote, Between
    <2> QED BY <1>0, <1>5, <2>3, WriteKeeps DEF UpsertUnresolved
  <1>6. CASE UpsertFileEdges
    <2>1. upserts > 0 /\ ~disturbed =>
            /\ tree.files \subseteq files /\ tree.files \subseteq symbols
            /\ Between(tree.calls, tree.files) \subseteq relations
            /\ tree.unresolved \subseteq unresolved
      BY <1>6 DEF UpsertFileEdges, Write, GraphIInv, WrittenUpTo, Wrote
    <2>2. tree.files \subseteq files => DeriveFileEdges(tree) \subseteq fileEdges'
      BY <1>0, <1>6, TreeParts DEF UpsertFileEdges, Between
    <2>3. WrittenUpTo'
      BY <1>6, <2>1, <2>2 DEF UpsertFileEdges, Write, WrittenUpTo, Wrote, Between, DeriveFileEdges
    <2> QED BY <1>0, <1>6, <2>3, WriteKeeps DEF UpsertFileEdges
  <1>7. CASE UpsertExternals
    <2>1. upserts > 0 /\ ~disturbed =>
            /\ tree.files \subseteq files /\ tree.files \subseteq symbols
            /\ Between(tree.calls, tree.files) \subseteq relations
            /\ tree.unresolved \subseteq unresolved
            /\ DeriveFileEdges(tree) \subseteq fileEdges
      BY <1>7 DEF UpsertExternals, Write, GraphIInv, WrittenUpTo, Wrote
    <2>2. tree.files \subseteq files => tree.externals \subseteq externalEdges'
      BY <1>0, <1>7, TreeParts DEF UpsertExternals, From
    <2>3. WrittenUpTo'
      BY <1>7, <2>1, <2>2 DEF UpsertExternals, Write, WrittenUpTo, Wrote, Between, DeriveFileEdges
    <2> QED BY <1>0, <1>7, <2>3, WriteKeeps DEF UpsertExternals
  <1> QED BY <1>1, <1>2, <1>3, <1>4, <1>5, <1>6, <1>7

(* A write that fails half-way, and the deletion of a repository. *)
LEMMA DisturbanceKeeps ==
  ASSUME GraphIInv, Interrupt \/ DeleteSubgraph
  PROVE  GraphIInv'
  <1>1. disturbed' = TRUE /\ UNCHANGED <<tree, clean, upserts>>
    BY DEF Interrupt, DeleteSubgraph
  <1>2. WellFormed(tree)' /\ WrittenUpTo'
    BY <1>1 DEF GraphIInv, WellFormed, WrittenUpTo
  <1>3. CASE Interrupt
    BY <1>1, <1>2, <1>3 DEF Interrupt, graphTables, GraphIInv, GraphTypeOK, EdgesHaveEnds,
                            NothingElse, DeriveFileEdges
  <1>4. CASE DeleteSubgraph
    BY <1>1, <1>2, <1>4, ErasedIsClean DEF DeleteSubgraph, GraphIInv, GraphTypeOK
  <1> QED BY <1>3, <1>4

(* An empty graph. *)
LEMMA GraphStarts == GraphInit => GraphIInv
  <1> SUFFICES ASSUME GraphInit
               PROVE  GraphIInv
    OBVIOUS
  <1>1. WellFormed(tree)
    BY DEF GraphInit, WellFormed, EmptyTree
  <1>2. GraphTypeOK /\ EdgesHaveEnds /\ symbols \subseteq files
    BY DEF GraphInit, GraphTypeOK, EdgesHaveEnds
  <1>3. NothingElse /\ WrittenUpTo
    BY DEF GraphInit, NothingElse, WrittenUpTo
  <1> QED BY <1>1, <1>2, <1>3 DEF GraphInit, GraphIInv

(* Every step of an upsert, and every disturbance, keeps the invariant. *)
LEMMA GraphKeeps == GraphIInv /\ [GraphNext]_graphVars => GraphIInv'
  <1>1. ASSUME GraphIInv, UNCHANGED graphVars
        PROVE  GraphIInv'
    BY <1>1 DEF graphVars, GraphIInv, GraphTypeOK, WellFormed, EdgesHaveEnds, NothingElse,
                WrittenUpTo, Wrote, DeriveFileEdges, Between
  <1> QED BY <1>1, BeginUpsertKeeps, UpsertKeeps, DisturbanceKeeps DEF GraphNext

(* GraphBuilder: the inductive invariant holds in every run, for every set of files and
   references, every tree extracted from them and every number of upserts and faults. *)
THEOREM GraphInvariance == GraphSpec => []GraphIInv
  BY GraphStarts, GraphKeeps, PTL DEF GraphSpec

(* What an upsert that nothing disturbed leaves in a clean graph is its tree. *)
LEMMA Converges == GraphIInv => UpsertConverges
  <1> SUFFICES ASSUME GraphIInv, Finished, clean
               PROVE  /\ files = tree.files /\ symbols = tree.files
                      /\ relations = Between(tree.calls, tree.files)
                      /\ unresolved = tree.unresolved
                      /\ fileEdges = DeriveFileEdges(tree) /\ externalEdges = tree.externals
    BY DEF UpsertConverges
  <1>1. /\ tree.files \subseteq files /\ tree.files \subseteq symbols
        /\ Between(tree.calls, tree.files) \subseteq relations
        /\ tree.unresolved \subseteq unresolved
        /\ DeriveFileEdges(tree) \subseteq fileEdges /\ tree.externals \subseteq externalEdges
    BY DEF GraphIInv, WrittenUpTo, Wrote, Finished
  <1>2. NothingElse /\ WellFormed(tree)
    BY DEF GraphIInv
  <1>3. tree.calls \subseteq Between(tree.calls, tree.files)
    BY <1>2, TreeParts DEF Between
  <1> QED BY <1>1, <1>2, <1>3 DEF NothingElse

(* The impact of a file is one for its importers and two for theirs. *)
LEMMA ImpactFollows == GraphIInv => ImpactIsExact
  <1> SUFFICES ASSUME GraphIInv, Finished, clean
               PROVE  ImpactIsExact
    BY DEF ImpactIsExact
  <1> DEFINE Uses == (tree.calls \union tree.imports) \ {<<f, f>> : f \in File}
  <1>1. fileEdges = Uses
    <2>1. fileEdges = DeriveFileEdges(tree)
      BY Converges DEF UpsertConverges
    <2>2. tree.calls \union tree.imports \subseteq File \X File
      BY TreeParts DEF GraphIInv
    <2> QED BY <2>1, <2>2 DEF DeriveFileEdges
  <1>2. ASSUME NEW t \in File, NEW f \in File \ {t}
        PROVE  /\ <<f, t>> \in Uses <=> f \in DOMAIN Impact({t}) /\ Impact({t})[f] = 1
               /\ <<f, t>> \notin Uses =>
                    ((\E g \in File : <<f, g>> \in Uses /\ <<g, t>> \in Uses)
                       <=> f \in DOMAIN Impact({t}) /\ Impact({t})[f] = 2)
    <2> HIDE DEF Uses
    <2> DEFINE direct == Importers({t})
               further == Importers(direct) \ {t}
    <2>1. Impact({t}) = [g \in direct \union further |-> IF g \in direct THEN 1 ELSE 2]
      BY DEF Impact
    <2>2. f \in direct <=> <<f, t>> \in Uses
      BY <1>1 DEF Importers
    <2>3. f \in further <=> \E g \in File : <<f, g>> \in Uses /\ <<g, t>> \in Uses
      BY <1>1, <1>2 DEF Importers
    <2> HIDE DEF direct, further
    <2> QED BY <2>1, <2>2, <2>3
  <1> QED BY <1>2 DEF ImpactIsExact

(* A node tells its kind and whose it is. *)
LEMMA Kinds ==
  ASSUME NEW a, NEW b
  PROVE  /\ SymbolNode(a) = SymbolNode(b) => a = b
         /\ FileNode(a) = FileNode(b) => a = b
         /\ External(a) = External(b) => a = b
         /\ SymbolNode(a) # FileNode(b) /\ SymbolNode(a) # External(b) /\ FileNode(a) # External(b)
  BY DEF SymbolNode, FileNode, External

(* An edge of the walk, from either end. *)
Touch(n, m, structural) == <<n, m>> \in Edges(structural) \/ <<m, n>> \in Edges(structural)
DependsOn(a, b) == <<a, b>> \in DeriveFileEdges(tree) \/ <<b, a>> \in DeriveFileEdges(tree)

(* What ties a node to the symbol of f. *)
Tied(f, n, structural) ==
    /\ \A g \in File : n = SymbolNode(g) => Linked(f, g)
    /\ \A r \in Reference :
         n = External(r) => Names(f, r) \/ (structural /\ <<f, r>> \in tree.externals)
    /\ \A g \in File : n = FileNode(g) =>
         /\ structural
         /\ \/ f = g \/ Calls(f, g) \/ DependsOn(f, g)
            \/ \E r \in Reference : <<f, r>> \in tree.unresolved /\ <<g, r>> \in tree.externals

(* A node that an expansion shows is one or two edges away. *)
LEMMA Walked ==
  ASSUME NEW f, NEW structural, NEW n
  PROVE  n \in ExpandSymbols(f, structural) <=>
           /\ n # SymbolNode(f)
           /\ \/ Touch(SymbolNode(f), n, structural)
              \/ \E m : Touch(SymbolNode(f), m, structural) /\ Touch(m, n, structural)
  <1>1. ASSUME NEW N, NEW m
        PROVE  m \in Around(N, Edges(structural)) <=> \E k \in N : Touch(k, m, structural)
    <2>1. ASSUME NEW k, Touch(k, m, structural)
          PROVE  m \in Ends(Edges(structural))
      <3>1. <<k, m>>[2] = m /\ <<m, k>>[1] = m
        OBVIOUS
      <3> QED BY <2>1, <3>1, Zenon DEF Ends, Touch
    <2> QED BY <2>1, Zenon DEF Around, Touch
  <1> DEFINE near == Around({SymbolNode(f)}, Edges(structural))
  <1>2. \A m : m \in near <=> Touch(SymbolNode(f), m, structural)
    BY <1>1
  <1>3. n \in Around(near, Edges(structural)) <=> \E k \in near : Touch(k, n, structural)
    BY <1>1
  <1> HIDE DEF near
  <1>4. ExpandSymbols(f, structural) =
          (near \union Around(near, Edges(structural))) \ {SymbolNode(f)}
    BY DEF ExpandSymbols, near
  <1> QED BY ONLY <1>2, <1>3, <1>4

(* What may join two nodes. *)
EdgeOf(n, m, structural) ==
    \/ \E a, b \in File : n = SymbolNode(a) /\ m = SymbolNode(b) /\ Calls(a, b)
    \/ \E a \in File, r \in Reference :
         /\ \/ n = SymbolNode(a) /\ m = External(r)
            \/ m = SymbolNode(a) /\ n = External(r)
         /\ <<a, r>> \in tree.unresolved
    \/ structural /\ \E a \in File :
         \/ n = SymbolNode(a) /\ m = FileNode(a)
         \/ m = SymbolNode(a) /\ n = FileNode(a)
    \/ structural /\ \E a, b \in File :
         n = FileNode(a) /\ m = FileNode(b) /\ DependsOn(a, b)
    \/ structural /\ \E a \in File, r \in Reference :
         /\ \/ n = FileNode(a) /\ m = External(r)
            \/ m = FileNode(a) /\ n = External(r)
         /\ <<a, r>> \in tree.externals

(* An edge of the walk joins what the tree ties. *)
LEMMA Touched ==
  ASSUME GraphIInv, clean, NEW structural \in BOOLEAN, NEW n, NEW m, Touch(n, m, structural)
  PROVE  EdgeOf(n, m, structural)
  <1>1. /\ relations \subseteq tree.calls /\ unresolved \subseteq tree.unresolved
        /\ fileEdges \subseteq DeriveFileEdges(tree) /\ externalEdges \subseteq tree.externals
        /\ symbols \subseteq File /\ relations \subseteq File \X File
        /\ unresolved \subseteq File \X Reference /\ fileEdges \subseteq File \X File
        /\ externalEdges \subseteq File \X Reference
    BY DEF GraphIInv, NothingElse, GraphTypeOK
  <1>2. CASE <<n, m>> \in SemanticEdges \/ <<m, n>> \in SemanticEdges
    BY <1>1, <1>2 DEF SemanticEdges, Calls, EdgeOf
  <1>3. CASE structural /\ (<<n, m>> \in StructuralEdges \/ <<m, n>> \in StructuralEdges)
    <2>1. ASSUME NEW a, NEW b, <<a, b>> \in StructuralEdges
          PROVE  \/ \E f \in File : a = FileNode(f) /\ b = SymbolNode(f)
                 \/ \E f, g \in File :
                      a = FileNode(f) /\ b = FileNode(g) /\ <<f, g>> \in DeriveFileEdges(tree)
                 \/ \E f \in File, r \in Reference :
                      a = FileNode(f) /\ b = External(r) /\ <<f, r>> \in tree.externals
      BY <1>1, <2>1 DEF StructuralEdges
    <2>2. CASE <<n, m>> \in StructuralEdges
      BY <1>3, <2>1, <2>2 DEF DependsOn, EdgeOf
    <2>3. CASE <<m, n>> \in StructuralEdges
      BY <1>3, <2>1, <2>3 DEF DependsOn, EdgeOf
    <2> QED BY <1>3, <2>2, <2>3
  <1>4. \/ <<n, m>> \in SemanticEdges \/ <<m, n>> \in SemanticEdges
        \/ structural /\ (<<n, m>> \in StructuralEdges \/ <<m, n>> \in StructuralEdges)
    <2>1. CASE structural
      BY <2>1 DEF Touch, Edges
    <2>2. CASE ~structural
      BY <2>2 DEF Touch, Edges
    <2> QED BY <2>1, <2>2
  <1> QED BY ONLY <1>2, <1>3, <1>4, Zenon

(* What is one edge from a symbol. *)
LEMMA SymbolTouches ==
  ASSUME GraphIInv, clean, NEW structural \in BOOLEAN, NEW f, NEW m,
         Touch(SymbolNode(f), m, structural)
  PROVE  \/ \E g \in File : m = SymbolNode(g) /\ Calls(f, g)
         \/ \E r \in Reference : m = External(r) /\ <<f, r>> \in tree.unresolved
         \/ structural /\ m = FileNode(f)
  <1>1. EdgeOf(SymbolNode(f), m, structural)
    BY Touched
  <1> QED BY <1>1, Kinds DEF EdgeOf

(* What is one edge from a reference. *)
LEMMA ReferenceTouches ==
  ASSUME GraphIInv, clean, NEW structural \in BOOLEAN, NEW r, NEW m,
         Touch(External(r), m, structural)
  PROVE  \/ \E g \in File : m = SymbolNode(g) /\ <<g, r>> \in tree.unresolved
         \/ structural /\ \E g \in File : m = FileNode(g) /\ <<g, r>> \in tree.externals
  <1>1. EdgeOf(External(r), m, structural)
    BY Touched
  <1> QED BY <1>1, Kinds DEF EdgeOf

(* What is one edge from a file. *)
LEMMA FileTouches ==
  ASSUME GraphIInv, clean, NEW structural \in BOOLEAN, NEW f, NEW m,
         Touch(FileNode(f), m, structural)
  PROVE  \/ m = SymbolNode(f)
         \/ \E g \in File : m = FileNode(g) /\ DependsOn(f, g)
         \/ \E r \in Reference : m = External(r) /\ <<f, r>> \in tree.externals
  <1>1. EdgeOf(FileNode(f), m, structural)
    BY Touched
  <1> QED BY <1>1, Kinds DEF EdgeOf

(* What a walk shows is tied in the tree. *)
LEMMA ShownIsTied ==
  ASSUME GraphIInv, clean, NEW f \in File
  PROVE  OnlyWhatIsTied(f)
  <1>1. ASSUME NEW structural \in BOOLEAN, NEW n, n \in ExpandSymbols(f, structural)
        PROVE  Tied(f, n, structural)
    <2>0. ASSUME NEW k, Touch(SymbolNode(f), k, structural)
          PROVE  \/ \E g \in File : k = SymbolNode(g) /\ Calls(f, g)
                 \/ \E r \in Reference : k = External(r) /\ <<f, r>> \in tree.unresolved
                 \/ structural /\ k = FileNode(f)
      BY <2>0, SymbolTouches
    <2>1. CASE Touch(SymbolNode(f), n, structural)
      <3>1. \/ \E g \in File : n = SymbolNode(g) /\ Calls(f, g)
            \/ \E r \in Reference : n = External(r) /\ <<f, r>> \in tree.unresolved
            \/ structural /\ n = FileNode(f)
        BY <2>0, <2>1
      <3> QED BY <3>1, Kinds DEF Linked, Names, Tied
    <2>2. ASSUME NEW m, Touch(SymbolNode(f), m, structural), Touch(m, n, structural),
                 n # SymbolNode(f)
          PROVE  Tied(f, n, structural)
      <3>1. ASSUME NEW h \in File, m = SymbolNode(h), Calls(f, h)
            PROVE  Tied(f, n, structural)
        <4>1. \/ \E g \in File : n = SymbolNode(g) /\ Calls(h, g)
              \/ \E r \in Reference : n = External(r) /\ <<h, r>> \in tree.unresolved
              \/ structural /\ n = FileNode(h)
          BY <2>2, <3>1, SymbolTouches
        <4> QED BY <3>1, <4>1, Kinds DEF Linked, Names, Tied
      <3>2. ASSUME NEW r \in Reference, m = External(r), <<f, r>> \in tree.unresolved
            PROVE  Tied(f, n, structural)
        <4>1. \/ \E g \in File : n = SymbolNode(g) /\ <<g, r>> \in tree.unresolved
              \/ structural /\ \E g \in File : n = FileNode(g) /\ <<g, r>> \in tree.externals
          BY <2>2, <3>2, ReferenceTouches
        <4> QED BY <3>2, <4>1, Kinds DEF Linked, Tied
      <3>3. ASSUME structural, m = FileNode(f)
            PROVE  Tied(f, n, structural)
        <4>1. \/ n = SymbolNode(f)
              \/ \E g \in File : n = FileNode(g) /\ DependsOn(f, g)
              \/ \E r \in Reference : n = External(r) /\ <<f, r>> \in tree.externals
          BY <2>2, <3>3, FileTouches
        <4> QED BY <2>2, <3>3, <4>1, Kinds DEF Tied
      <3> QED BY <2>0, <2>2, <3>1, <3>2, <3>3
    <2> QED BY <1>1, <2>1, <2>2, Walked
  <1> QED BY <1>1 DEF OnlyWhatIsTied, DependsOn, Tied

(* A graph that is complete shows all that is tied. *)
LEMMA TiedIsShown ==
  ASSUME GraphIInv, clean, Finished, NEW f \in File
  PROVE  AllThatIsTied(f)
  <1>1. tree.calls \subseteq relations /\ tree.unresolved \subseteq unresolved
    <2>1. tree.calls \subseteq Between(tree.calls, tree.files)
      BY TreeParts DEF GraphIInv, Between
    <2> QED BY <2>1, Converges DEF UpsertConverges
  <1>2. ASSUME NEW structural \in BOOLEAN, NEW a, NEW b, Calls(a, b)
        PROVE  Touch(SymbolNode(a), SymbolNode(b), structural)
    BY <1>1, <1>2 DEF Calls, Touch, Edges, SemanticEdges
  <1>3. ASSUME NEW structural \in BOOLEAN, NEW a, NEW r, <<a, r>> \in tree.unresolved
        PROVE  /\ Touch(SymbolNode(a), External(r), structural)
               /\ Touch(External(r), SymbolNode(a), structural)
    BY <1>1, <1>3 DEF Touch, Edges, SemanticEdges
  <1>4. ASSUME NEW structural \in BOOLEAN, NEW g \in File \ {f}, Linked(f, g)
        PROVE  SymbolNode(g) \in ExpandSymbols(f, structural)
    <2>1. CASE Calls(f, g)
      BY <1>2, <2>1, Walked, Kinds
    <2>2. ASSUME NEW h \in File, Calls(f, h), Calls(h, g)
          PROVE  SymbolNode(g) \in ExpandSymbols(f, structural)
      BY <1>2, <2>2, Walked, Kinds
    <2>3. ASSUME NEW r \in Reference, {<<f, r>>, <<g, r>>} \subseteq tree.unresolved
          PROVE  SymbolNode(g) \in ExpandSymbols(f, structural)
      <3>1. Touch(SymbolNode(f), External(r), structural) /\ Touch(External(r), SymbolNode(g), structural)
        BY <1>3, <2>3
      <3> QED BY <3>1, Walked, Kinds
    <2> QED BY <1>4, <2>1, <2>2, <2>3 DEF Linked
  <1>5. ASSUME NEW structural \in BOOLEAN, NEW r \in Reference, Names(f, r)
        PROVE  External(r) \in ExpandSymbols(f, structural)
    BY <1>2, <1>3, <1>5, Walked, Kinds DEF Names
  <1> QED BY <1>4, <1>5 DEF AllThatIsTied

(* What is read off the edges is in the tree. *)
LEMMA ExpansionFollows == GraphIInv => ExpansionIsSound
  <1> SUFFICES ASSUME GraphIInv, clean
               PROVE  ExpansionIsSound
    BY DEF ExpansionIsSound
  <1>1. NothingElse /\ EdgesHaveEnds /\ WellFormed(tree) /\ symbols \subseteq files
    BY DEF GraphIInv
  <1>2. Dependencies = UNION {FileContext({f}) : f \in files}
    BY <1>1 DEF Dependencies, FileContext, Targets, From, EdgesHaveEnds
  <1>3. ASSUME NEW f \in symbols
        PROVE  OnlyWhatIsTied(f) /\ (Finished => AllThatIsTied(f))
    BY <1>1, ShownIsTied, TiedIsShown DEF WellFormed, GraphIInv, GraphTypeOK
  <1>4. ASSUME NEW f \in File
        PROVE  /\ SymbolContext({f}) \subseteq FileContext({f})
               /\ FileContext({f}) \subseteq
                     Targets(DeriveFileEdges(tree) \union tree.externals, {f})
    BY <1>1 DEF SymbolContext, FileContext, Targets, From, NothingElse
  <1>5. ASSUME NEW f \in File, NEW ref \in Reference
        PROVE  f \in ExternalSources({ref}) <=> ref \in FileContext({f})
    BY <1>1, GraphAssumption
       DEF ExternalSources, FileContext, Targets, From, EdgesHaveEnds, GraphIInv, GraphTypeOK
  <1> QED BY <1>2, <1>3, <1>4, <1>5 DEF ExpansionIsSound

(* The graph of a repository is sound: it converges to the tree that was ingested, and
   what queries read off it is so (graph_builder.py). *)
THEOREM GraphHolds == GraphSpec => []GraphIsSound
  <1>1. GraphIInv => GraphIsSound
    BY Converges, ImpactFollows, ExpansionFollows DEF GraphIsSound, GraphIInv
  <1> QED BY <1>1, GraphInvariance, PTL
-----------------------------------------------------------------------------
(* Natural numbers multiply to one. *)
LEMMA Products ==
  ASSUME NEW a \in Nat, NEW b \in Nat
  PROVE  a * b \in Nat
  OBVIOUS

(* The number of writes of an upsert. *)
LEMMA WritesIsNat ==
  ASSUME texts \in Nat
  PROVE  Writes \in Nat
  BY EmbeddingAssumption DEF Writes

(* The ids of a write are texts of the call. *)
LEMMA IdsInRange ==
  ASSUME texts \in Nat, NEW w \in Nat, w > 0, NEW i \in IdsOf(w)
  PROVE  i \in 1 .. texts
  <1>1. (w - 1) * IdsPerWrite \in Nat /\ w * IdsPerWrite \in Nat /\ IdsPerWrite \in Nat
    BY EmbeddingAssumption, Products
  <1>2. AtMost(w * IdsPerWrite, texts) <= texts
    BY <1>1 DEF AtMost
  <1> QED BY <1>1, <1>2 DEF IdsOf, AtMost

(* A function over 1 .. n is a sequence of length n. *)
LEMMA SequenceOf ==
  ASSUME NEW S, NEW n \in Nat, NEW f, f = [k \in 1 .. n |-> f[k]], \A k \in 1 .. n : f[k] \in S
  PROVE  f \in Seq(S) /\ Len(f) = n
  <1>1. f \in [1 .. n -> S]
    OBVIOUS
  <1>2. f \in Seq(S)
    BY <1>1, SeqDef
  <1>3. Len(f) \in Nat /\ 1 .. n = 1 .. Len(f)
    BY <1>1, <1>2, LenProperties
  <1> DEFINE m == Len(f)
  <1>4. m \in Nat /\ 1 .. n = 1 .. m
    BY <1>3
  <1> HIDE DEF m
  <1>5. (n \in 1 .. m \/ n = 0) /\ (m \in 1 .. n \/ m = 0)
    BY <1>4
  <1>6. n = m
    BY <1>4, <1>5
  <1> QED BY <1>2, <1>6 DEF m

(* A batch is never empty and ends within the texts. *)
LEMMA BatchSizes ==
  ASSUME EmbeddingIInv, InLoop
  PROVE  /\ BatchEnd \in sent + 1 .. texts /\ BatchEnd - sent \in Nat
         /\ sent \in Nat /\ texts \in Nat
         /\ DOMAIN BatchTexts = 1 .. BatchEnd - sent
         /\ \A k \in 1 .. BatchEnd - sent : BatchTexts[k] = sent + k
  <1>1. /\ sent \in Nat /\ texts \in Nat /\ sent < texts /\ TextsPerRequest \in Nat \ {0}
    BY EmbeddingAssumption DEF EmbeddingIInv, InLoop
  <1>2. BatchEnd \in sent + 1 .. texts
    BY <1>1 DEF BatchEnd, AtMost
  <1> QED BY <1>1, <1>2 DEF BatchTexts

(* The dimensions a call knows. *)
LEMMA Dimensions ==
  ASSUME EmbeddingIInv
  PROVE  /\ nativeDim \in Nat \ {0} /\ DefaultDim \in Nat \ {0} /\ Unset = 0
         /\ targetDim \in {Unset, nativeDim, DefaultDim} /\ targetDim \in Nat
  BY EmbeddingAssumption DEF EmbeddingIInv, OfTheCall, Unset

(* A batch adds one vector for each of its texts, or of its first ones where the answer was
   short, in their order and of one dimension. *)
LEMMA BatchKeeps ==
  ASSUME EmbeddingIInv, InLoop, Advance,
         UNCHANGED <<usable, nativeDim, texts, outcome, collectionDim>>,
         NEW m \in 1 .. BatchEnd - sent, shortfall' \in BOOLEAN,
         ~shortfall' => ~shortfall /\ m = BatchEnd - sent,
         NEW d \in {nativeDim, DefaultDim}, NEW real \in BOOLEAN,
         targetDim' = d, targetDim \in {Unset, d},
         vectors' = vectors \o [k \in 1 .. m |-> Vector(BatchTexts[k], d, real)],
         failedBatch \subseteq failedBatch',
         nativeDim = DefaultDim /\ usable /\ ~real => ToSet(BatchTexts) \subseteq failedBatch'
  PROVE  EmbeddingIInv'
  <1> DEFINE n == m
             more == [k \in 1 .. m |-> Vector(BatchTexts[k], d, real)]
  <1>1. /\ n \in Nat /\ BatchEnd \in sent + 1 .. texts /\ sent \in Nat /\ texts \in Nat
        /\ sent + n <= BatchEnd
        /\ ~shortfall' => ~shortfall /\ sent + n = BatchEnd
    BY BatchSizes
  <1>2. more = [k \in 1 .. n |-> Vector(sent + k, d, real)]
    <2>1. \A k \in 1 .. m : BatchTexts[k] = sent + k
      BY BatchSizes
    <2> QED BY <2>1
  <1>3. d \in Nat \ {0}
    BY Dimensions
  <1>4. \A k \in 1 .. n : sent + k \in ToSet(BatchTexts)
    <2>1. \A k \in 1 .. m : k \in DOMAIN BatchTexts /\ BatchTexts[k] = sent + k
      BY BatchSizes
    <2> QED BY <2>1 DEF ToSet
  <1>5. vectors \in Seq(EmbeddedVector) /\ Len(vectors) \in Nat /\ vectors' = vectors \o more
    BY DEF EmbeddingIInv
  <1> HIDE DEF n, more
  <1>6. /\ vectors' \in Seq(EmbeddedVector)
        /\ Len(vectors') = Len(vectors) + n
        /\ \A i \in 1 .. Len(vectors) : vectors'[i] = vectors[i]
        /\ \A i \in Len(vectors) + 1 .. Len(vectors) + n :
              /\ vectors'[i].text = sent + (i - Len(vectors))
              /\ vectors'[i].dim = d /\ vectors'[i].real = real
    <2>1. \A k \in 1 .. n : /\ more[k] \in EmbeddedVector /\ more[k].text = sent + k
                             /\ more[k].dim = d /\ more[k].real = real
      BY <1>1, <1>2, <1>3 DEF Vector, EmbeddedVector
    <2>2. more \in Seq(EmbeddedVector) /\ Len(more) = n
      <3>1. more = [k \in 1 .. n |-> more[k]]
        BY <1>2
      <3>2. \A k \in 1 .. n : more[k] \in EmbeddedVector
        BY <2>1
      <3> QED BY <1>1, <3>1, <3>2, SequenceOf
    <2>3. /\ vectors' \in Seq(EmbeddedVector) /\ Len(vectors') = Len(vectors) + n
          /\ \A i \in 1 .. Len(vectors) + n :
                vectors'[i] = IF i <= Len(vectors) THEN vectors[i] ELSE more[i - Len(vectors)]
      <3> DEFINE a == vectors
                 c == vectors'
      <3>1. a \in Seq(EmbeddedVector) /\ c = a \o more
        BY <1>5
      <3> HIDE DEF a, c
      <3>2. /\ c \in Seq(EmbeddedVector) /\ Len(c) = Len(a) + Len(more)
            /\ \A i \in 1 .. Len(a) + Len(more) :
                  c[i] = IF i <= Len(a) THEN a[i] ELSE more[i - Len(a)]
        BY ONLY <3>1, <2>2, ConcatProperties
      <3> QED BY <2>2, <3>2 DEF a, c
    <2>4. ASSUME NEW i \in 1 .. Len(vectors)
          PROVE  vectors'[i] = vectors[i]
      BY <1>1, <1>5, <2>3
    <2>5. ASSUME NEW i \in Len(vectors) + 1 .. Len(vectors) + n
          PROVE  /\ vectors'[i].text = sent + (i - Len(vectors))
                 /\ vectors'[i].dim = d /\ vectors'[i].real = real
      <3>1. i - Len(vectors) \in 1 .. n /\ i \in 1 .. Len(vectors) + n /\ ~(i <= Len(vectors))
        BY <1>1, <1>5
      <3>2. vectors'[i] = more[i - Len(vectors)]
        BY <2>3, <3>1
      <3> QED BY <2>1, <3>1, <3>2
    <2> QED BY <2>3, <2>4, <2>5
  <1>7. /\ sent' = BatchEnd /\ reported' = BatchEnd /\ BatchEnd \in 0 .. texts
        /\ ~shortfall' => sent' = sent + n
    BY <1>1 DEF Advance
  <1>8. SentHasVectors'
    <2>1. Len(vectors) <= sent /\ (~shortfall => Len(vectors) = sent)
      BY DEF EmbeddingIInv, SentHasVectors
    <2>2. Len(vectors') <= sent'
      BY <1>1, <1>5, <1>6, <1>7, <2>1
    <2>3. ASSUME ~shortfall', NEW i \in 1 .. sent'
          PROVE  vectors'[i].text = i
      <3>1. CASE i <= sent
        <4>1. i \in 1 .. sent /\ i \in 1 .. Len(vectors)
          BY <1>1, <1>7, <2>1, <2>3, <3>1
        <4> QED BY <1>1, <1>6, <2>3, <4>1 DEF EmbeddingIInv, SentHasVectors
      <3>2. CASE i > sent
        <4>1. /\ i \in Len(vectors) + 1 .. Len(vectors) + n
              /\ sent + (i - Len(vectors)) = i
          BY <1>1, <1>7, <2>1, <2>3, <3>2, SMTT(30)
        <4> QED BY <1>6, <4>1
      <3>3. i <= sent \/ i > sent
        BY <1>1, <1>7, <2>3
      <3> QED BY ONLY <3>1, <3>2, <3>3, Zenon
    <2> QED BY <1>1, <1>6, <1>7, <2>1, <2>2, <2>3 DEF SentHasVectors
  <1>9. OfTheCall'
    <2>1. ASSUME NEW i \in 1 .. Len(vectors')
          PROVE  /\ d # Unset /\ vectors'[i].dim = d
                 /\ nativeDim = DefaultDim /\ usable =>
                       vectors'[i].real \/ vectors'[i].text \in failedBatch'
      <3>1. d # Unset
        BY <1>3 DEF Unset
      <3>2. CASE i <= Len(vectors)
        <4>1. i \in 1 .. Len(vectors)
          BY <1>1, <1>5, <1>6, <3>2
        <4>2. /\ vectors[i].dim = targetDim /\ targetDim # Unset
              /\ nativeDim = DefaultDim /\ usable =>
                    vectors[i].real \/ vectors[i].text \in failedBatch
          BY <4>1 DEF EmbeddingIInv, OfTheCall
        <4> QED BY <1>6, <3>1, <4>1, <4>2
      <3>3. CASE ~(i <= Len(vectors))
        <4>1. i \in Len(vectors) + 1 .. Len(vectors) + n /\ i - Len(vectors) \in 1 .. n
          BY <1>1, <1>5, <1>6, <3>3
        <4>2. sent + (i - Len(vectors)) \in ToSet(BatchTexts)
          BY <1>4, <4>1
        <4> QED BY <1>6, <3>1, <4>1, <4>2
      <3> QED BY <3>2, <3>3
    <2> QED BY <2>1 DEF OfTheCall
  <1> QED BY <1>6, <1>7, <1>8, <1>9 DEF EmbeddingIInv, InLoop

(* An answer, a failed request and a short answer. *)
LEMMA BatchStepsKeep ==
  ASSUME EmbeddingIInv, BatchAnswered \/ BatchFails \/ BatchShort
  PROVE  EmbeddingIInv'
  <1> DEFINE n == BatchEnd - sent
  <1>1. CASE BatchAnswered
    <2>1. InLoop /\ Advance
          /\ UNCHANGED <<usable, nativeDim, texts, outcome, shortfall, failedBatch, collectionDim>>
      BY <1>1 DEF BatchAnswered, collectionVars
    <2>2. n \in 1 .. BatchEnd - sent /\ DOMAIN BatchTexts = 1 .. n /\ shortfall \in BOOLEAN
      BY <2>1, BatchSizes DEF EmbeddingIInv
    <2>3. CASE targetDim \in {Unset, nativeDim}
      <3>1. /\ targetDim' = nativeDim
            /\ vectors' = vectors \o [k \in 1 .. n |-> Vector(BatchTexts[k], nativeDim, TRUE)]
        BY <1>1, <2>2, <2>3 DEF BatchAnswered
      <3> HIDE DEF n
      <3> QED BY <2>1, <2>2, <2>3, <3>1, BatchKeeps DEF n
    <2>4. CASE targetDim \notin {Unset, nativeDim}
      <3>1. targetDim = DefaultDim /\ DefaultDim # nativeDim /\ FallbackDim = DefaultDim
        BY <2>4, Dimensions DEF FallbackDim
      <3>2. FallBack
        BY <1>1, <2>4 DEF BatchAnswered
      <3>3. /\ targetDim' = DefaultDim
            /\ vectors' = vectors \o [k \in 1 .. n |-> Vector(BatchTexts[k], DefaultDim, FALSE)]
        BY <2>2, <3>1, <3>2 DEF FallBack
      <3> QED BY <2>1, <2>2, <3>1, <3>3, BatchKeeps
    <2> QED BY <2>3, <2>4
  <1>2. CASE BatchFails
    <2>1. /\ InLoop /\ Advance /\ FallBack /\ failedBatch' = failedBatch \union ToSet(BatchTexts)
          /\ UNCHANGED <<usable, nativeDim, texts, outcome, shortfall, collectionDim>>
      BY <1>2 DEF BatchFails, collectionVars
    <2>2. FallbackDim \in {nativeDim, DefaultDim} /\ targetDim \in {Unset, FallbackDim}
      BY Dimensions DEF FallbackDim
    <2>3. n \in 1 .. BatchEnd - sent /\ DOMAIN BatchTexts = 1 .. n /\ shortfall \in BOOLEAN
      BY <2>1, BatchSizes DEF EmbeddingIInv
    <2> DEFINE d == FallbackDim
    <2>4. targetDim' = d
          /\ vectors' = vectors \o [k \in 1 .. n |-> Vector(BatchTexts[k], d, FALSE)]
      BY <2>1, <2>3 DEF FallBack
    <2> HIDE DEF d
    <2>5. d \in {nativeDim, DefaultDim} /\ targetDim \in {Unset, d}
      BY <2>2 DEF d
    <2> QED BY <2>1, <2>3, <2>4, <2>5, BatchKeeps
  <1>3. CASE BatchShort
    <2>1. /\ InLoop /\ Advance /\ shortfall' = TRUE
          /\ UNCHANGED <<usable, nativeDim, texts, failedBatch, outcome, collectionDim>>
      BY <1>3 DEF BatchShort, collectionVars
    <2>2. CASE UNCHANGED <<vectors, targetDim>>
      <3>1. sent' \in 0 .. texts /\ reported' = sent' /\ sent <= sent' /\ sent \in Nat
        BY <2>1, BatchSizes DEF Advance
      <3>2. Len(vectors) <= sent' /\ Len(vectors) \in Nat
        BY <3>1 DEF EmbeddingIInv, SentHasVectors
      <3>3. SentHasVectors' /\ OfTheCall'
        BY <2>1, <2>2, <3>2 DEF EmbeddingIInv, SentHasVectors, OfTheCall
      <3> QED BY <2>1, <2>2, <3>1, <3>3 DEF EmbeddingIInv, InLoop
    <2>3. CASE ~UNCHANGED <<vectors, targetDim>>
      <3>1. targetDim \in {Unset, nativeDim} /\ targetDim' = nativeDim
        BY <1>3, <2>3 DEF BatchShort
      <3>2. PICK m \in 1 .. BatchEnd - sent - 1 :
              vectors' = vectors \o [k \in 1 .. m |-> Vector(BatchTexts[k], nativeDim, TRUE)]
        BY <1>3, <2>3 DEF BatchShort
      <3>3. m \in 1 .. BatchEnd - sent
        BY <2>1, <3>2, BatchSizes
      <3> QED BY <2>1, <3>1, <3>2, <3>3, BatchKeeps
    <2> QED BY <2>2, <2>3
  <1> QED BY <1>1, <1>2, <1>3

(* A call of embed_texts begins, or is over at once where the provider cannot be used. *)
LEMMA EmbedTextsKeeps ==
  ASSUME EmbeddingIInv, EmbedTexts
  PROVE  EmbeddingIInv'
  <1>1. /\ texts' \in 1 .. MaxTexts /\ texts' \in Nat /\ reported' = 0 /\ shortfall' = FALSE
        /\ failedBatch' = {} /\ UNCHANGED <<usable, nativeDim, collectionDim>>
        /\ MaxTexts \in Nat
    BY EmbeddingAssumption DEF EmbedTexts, collectionVars
  <1>2. CASE usable
    <2>1. vectors' = <<>> /\ targetDim' = Unset /\ sent' = 0 /\ outcome' = "embedding"
      BY <1>2 DEF EmbedTexts
    <2>2. SentHasVectors' /\ OfTheCall'
      BY <1>1, <2>1 DEF SentHasVectors, OfTheCall
    <2>3. vectors' \in Seq(EmbeddedVector)
      BY <2>1, EmptySeq
    <2>4. /\ texts' \in 0 .. MaxTexts /\ sent' \in 0 .. texts' /\ reported' \in 0 .. texts'
          /\ reported' = sent' /\ shortfall' \in BOOLEAN
      <3>1. sent' = 0 /\ reported' = 0 /\ shortfall' \in BOOLEAN
        BY <1>1, <2>1
      <3>2. texts' \in 0 .. MaxTexts /\ 0 \in 0 .. texts'
        BY <1>1
      <3> QED BY <3>1, <3>2
    <2> QED BY <1>1, <2>1, <2>2, <2>3, <2>4 DEF EmbeddingIInv, Outcomes
  <1>3. CASE ~usable
    <2>1. /\ vectors' = [i \in 1 .. texts' |-> Vector(i, DefaultDim, FALSE)]
          /\ targetDim' = DefaultDim /\ sent' = texts' /\ outcome' = "embedded"
      BY <1>3 DEF EmbedTexts
    <2>2. \A i \in 1 .. texts' : /\ vectors'[i] \in EmbeddedVector /\ vectors'[i].text = i
                                 /\ vectors'[i].dim = DefaultDim
      BY <1>1, <2>1, EmbeddingAssumption DEF Vector, EmbeddedVector
    <2>3. vectors' \in Seq(EmbeddedVector) /\ Len(vectors') = texts'
      <3> DEFINE v == vectors'
                 n == texts'
      <3>1. v = [i \in 1 .. n |-> v[i]] /\ \A i \in 1 .. n : v[i] \in EmbeddedVector
        BY <2>1, <2>2
      <3>2. n \in Nat
        BY <1>1
      <3> HIDE DEF v, n
      <3>3. v \in Seq(EmbeddedVector) /\ Len(v) = n
        BY <3>1, <3>2, SequenceOf
      <3> QED BY <3>3 DEF v, n
    <2>4. SentHasVectors'
      <3>1. (Len(vectors) <= sent /\ Len(vectors) = sent)'
        BY <1>1, <2>1, <2>3
      <3>2. (\A i \in 1 .. sent : vectors[i].text = i)'
        BY <2>1, <2>2
      <3> QED BY <3>1, <3>2 DEF SentHasVectors
    <2>5. OfTheCall'
      BY <1>1, <1>3, <2>1, <2>2, <2>3, EmbeddingAssumption DEF OfTheCall, Unset
    <2>6. /\ texts' \in 0 .. MaxTexts /\ sent' \in 0 .. texts' /\ reported' \in 0 .. texts'
          /\ shortfall' \in BOOLEAN /\ sent' = texts'
      <3>1. sent' = texts' /\ reported' = 0 /\ shortfall' \in BOOLEAN
        BY <1>1, <2>1
      <3>2. texts' \in 0 .. MaxTexts /\ 0 \in 0 .. texts' /\ texts' \in 0 .. texts'
        BY <1>1
      <3> QED BY <3>1, <3>2
    <2>7. usable' = FALSE
      BY <1>1, <1>3 DEF EmbeddingIInv
    <2> QED BY <1>1, <2>1, <2>3, <2>4, <2>5, <2>6, <2>7 DEF EmbeddingIInv, Outcomes
  <1> QED BY <1>2, <1>3

(* The upsert of the vectors: with the dimension of the default model the collection never
   refuses one. *)
LEMMA StoreKeeps ==
  ASSUME EmbeddingIInv, Store
  PROVE  EmbeddingIInv'
  <1>1. /\ outcome = "embedded" /\ sent = texts /\ texts \in Nat /\ Writes \in Nat
        /\ UNCHANGED <<usable, nativeDim, texts, sent, vectors, targetDim, reported, shortfall,
                       failedBatch>>
        /\ vectors \in Seq(EmbeddedVector) /\ Len(vectors) \in Nat
    BY EmbeddingAssumption, WritesIsNat DEF Store, EmbeddingIInv
  <1>2. PICK taken \in 0 .. Writes :
          LET ids == UNION {IdsOf(w) : w \in 1 .. taken}
          IN  /\ \A w \in 1 .. taken : Takes(w)
              /\ taken = Writes \/ ~Takes(taken + 1)
              /\ collectionDim' = IF ids = {} THEN collectionDim ELSE vectors[1].dim
              /\ outcome' = CASE taken = Writes           -> "stored"
                              [] taken # Writes /\ Len(vectors) < texts -> "too_few"
                              [] OTHER                    -> "wrong_dimension"
    BY DEF Store
  <1>3. \A i \in 1 .. Len(vectors) : vectors[i].dim = targetDim
    BY DEF EmbeddingIInv, OfTheCall
  <1>4. collectionDim' \in {Unset, nativeDim, DefaultDim}
    <2> DEFINE ids == UNION {IdsOf(w) : w \in 1 .. taken}
    <2>1. CASE ids = {}
      BY <1>2, <2>1 DEF EmbeddingIInv
    <2>2. CASE ids # {}
      <3>0. PICK w \in 1 .. taken : IdsOf(w) # {}
        BY <2>2
      <3>1. PICK i \in IdsOf(w) : TRUE
        BY <3>0
      <3>2. i \in 1 .. texts /\ i <= Len(vectors)
        BY <1>1, <1>2, <3>0, <3>1, IdsInRange DEF Takes
      <3>3. 1 \in 1 .. Len(vectors)
        BY <1>1, <3>2
      <3>4. vectors[1].dim \in {nativeDim, DefaultDim}
        BY <1>3, <3>3, Dimensions DEF EmbeddingIInv, OfTheCall
      <3> QED BY <1>2, <2>2, <3>4
    <2> QED BY <2>1, <2>2
  <1>5. outcome' \in {"stored", "too_few", "wrong_dimension"}
    BY <1>2
  <1>6. ASSUME nativeDim = DefaultDim
        PROVE  outcome' # "wrong_dimension"
    <2> SUFFICES ASSUME taken # Writes, Len(vectors) >= texts
                 PROVE  FALSE
      BY <1>1, <1>2
    <2>1. taken + 1 \in Nat /\ taken + 1 > 0
      BY <1>1
    <2>2. ASSUME NEW i \in IdsOf(taken + 1)
          PROVE  /\ i <= Len(vectors) /\ collectionDim \in {Unset, vectors[i].dim}
                 /\ vectors[i].dim = vectors[1].dim
      <3>1. i \in 1 .. texts /\ i \in 1 .. Len(vectors) /\ 1 \in 1 .. Len(vectors)
        <4>1. i \in 1 .. texts
          BY <1>1, <2>1, IdsInRange
        <4> QED BY <1>1, <4>1
      <3>2. vectors[i].dim = targetDim /\ vectors[1].dim = targetDim /\ targetDim = nativeDim
        BY <1>3, <1>6, <3>1, Dimensions DEF EmbeddingIInv, OfTheCall
      <3>3. collectionDim \in {Unset, nativeDim}
        BY <1>6 DEF EmbeddingIInv
      <3> QED BY <3>1, <3>2, <3>3
    <2>3. Takes(taken + 1)
      BY <2>2 DEF Takes
    <2> QED BY <1>2, <2>3
  <1>7. SentHasVectors' /\ OfTheCall'
    BY <1>1 DEF EmbeddingIInv, SentHasVectors, OfTheCall
  <1> QED BY <1>1, <1>4, <1>5, <1>6, <1>7 DEF EmbeddingIInv, Outcomes

(* Nothing asked of the provider yet. *)
LEMMA EmbeddingStarts == EmbeddingInit => EmbeddingIInv
  <1> SUFFICES ASSUME EmbeddingInit
               PROVE  EmbeddingIInv
    OBVIOUS
  <1>1. SentHasVectors /\ OfTheCall
    BY DEF EmbeddingInit, SentHasVectors, OfTheCall
  <1>2. vectors \in Seq(EmbeddedVector)
    BY EmptySeq DEF EmbeddingInit
  <1>3. texts \in 0 .. MaxTexts /\ sent \in 0 .. texts /\ reported \in 0 .. texts
    BY EmbeddingAssumption DEF EmbeddingInit
  <1>4. /\ usable \in BOOLEAN /\ nativeDim \in NativeDims /\ shortfall \in BOOLEAN
        /\ collectionDim \in {Unset, nativeDim, DefaultDim} /\ outcome = "none"
        /\ sent = texts /\ reported = sent
    BY DEF EmbeddingInit
  <1> QED BY <1>1, <1>2, <1>3, <1>4 DEF EmbeddingIInv, Outcomes

(* Every batch, and the upsert, keep the invariant. *)
LEMMA EmbeddingKeeps == EmbeddingIInv /\ [EmbeddingNext]_embeddingVars => EmbeddingIInv'
  <1> SUFFICES ASSUME EmbeddingIInv, [EmbeddingNext]_embeddingVars
               PROVE  EmbeddingIInv'
    OBVIOUS
  <1>1. CASE Embedded
    <2>1. SentHasVectors' /\ OfTheCall'
      BY <1>1 DEF Embedded, EmbeddingIInv, SentHasVectors, OfTheCall
    <2> QED BY <1>1, <2>1 DEF Embedded, EmbeddingIInv, Outcomes, collectionVars
  <1>2. CASE UNCHANGED embeddingVars
    BY <1>2 DEF embeddingVars, EmbeddingIInv, SentHasVectors, OfTheCall
  <1> QED BY <1>1, <1>2, EmbedTextsKeeps, BatchStepsKeep, StoreKeeps DEF EmbeddingNext

(* EmbeddingClient.embed_texts and the upsert of its vectors: the inductive invariant holds
   in every run, for every batch size, number of texts, set of dimensions and faults. *)
THEOREM EmbeddingInvariance == EmbeddingSpec => []EmbeddingIInv
  BY EmbeddingStarts, EmbeddingKeeps, PTL DEF EmbeddingSpec

(* Every text gets its own vector, of one dimension, and a fault stays in its batch
   (EmbeddingClient.embed_texts). *)
THEOREM VectorsHold == EmbeddingSpec => []VectorsAreTrue
  <1>1. ASSUME EmbeddingIInv
        PROVE  VectorsAreTrue
    <2>1. Len(vectors) \in Nat /\ DOMAIN vectors = 1 .. Len(vectors)
      BY <1>1, LenProperties DEF EmbeddingIInv
    <2>2. VectorsFollowTexts
      BY <1>1 DEF EmbeddingIInv, SentHasVectors, VectorsFollowTexts
    <2>3. OneDimension
      BY <1>1, <2>1 DEF EmbeddingIInv, OfTheCall, OneDimension
    <2>4. FaultsStayInTheirBatch
      BY <1>1, <2>1 DEF EmbeddingIInv, OfTheCall, FaultsStayInTheirBatch
    <2>5. ProgressIsComplete
      BY <1>1 DEF EmbeddingIInv, ProgressIsComplete
    <2> QED BY <2>2, <2>3, <2>4, <2>5 DEF VectorsAreTrue
  <1> QED BY <1>1, EmbeddingInvariance, PTL
-----------------------------------------------------------------------------
(* What a request can hold. *)
LookupRecord ==
  [pc : {"idle", "asking", "fetched"}, age : 0 .. SlowestLookup,
   place : 1 .. Len(Chain[vendor]) + 1, version : 0 .. MaxPublications + 1]

(* The sources of a provider, and the numbers of ModelDiscovery. *)
LEMMA ChainOf ==
  ASSUME DiscoveryTypes
  PROVE  /\ Len(Chain[vendor]) \in Nat /\ DOMAIN Chain[vendor] = 1 .. Len(Chain[vendor])
         /\ \A i \in 1 .. Len(Chain[vendor]) : Chain[vendor][i] \in RemoteSource
         /\ TooOld \in Nat /\ CacheTtl < TooOld /\ SlowestLookup < TooOld
         /\ CacheTtl \in Nat /\ SlowestLookup \in Nat /\ MaxPublications \in Nat
  <1>1. Chain[vendor] \in Seq(RemoteSource)
    BY DiscoveryAssumption DEF DiscoveryTypes
  <1>2. /\ Len(Chain[vendor]) \in Nat /\ DOMAIN Chain[vendor] = 1 .. Len(Chain[vendor])
        /\ \A i \in 1 .. Len(Chain[vendor]) : Chain[vendor][i] \in RemoteSource
    BY <1>1, LenProperties, ElementOfSeq
  <1> QED BY <1>2, DiscoveryAssumption DEF TooOld

(* A request moves and everything else stays: what it then knows must be true. *)
LEMMA LookupKeeps ==
  ASSUME DiscoveryIInv, NEW r \in Lookup, NEW l \in LookupRecord,
         lookups' = [lookups EXCEPT ![r] = l], UNCHANGED sourceVars,
         kept' \in [version : 0 .. MaxPublications + 1, age : 0 .. TooOld],
         TrueWithin(kept'.version, kept'.age),
         l.pc = "asking" => \A i \in 1 .. l.place - 1 : sinceBad[Chain[vendor][i]] <= l.age,
         l.pc = "fetched" => TrueWithin(l.version, l.age)
  PROVE  DiscoveryIInv'
  <1>1. DiscoveryTypes'
    BY DEF DiscoveryIInv, DiscoveryTypes, sourceVars, LookupRecord
  <1>2. PresentHasNoAge'
    BY DEF DiscoveryIInv, PresentHasNoAge, sourceVars, Bad
  <1>3. ASSUME NEW v, NEW a, TrueWithin(v, a)
        PROVE  TrueWithin(v, a)'
    BY <1>3 DEF TrueWithin, sourceVars
  <1>4. TrueWithin(kept.version, kept.age)'
    BY DEF TrueWithin, sourceVars
  <1>5. ASSUME NEW q \in Lookup
        PROVE  /\ lookups'[q].pc = "asking" => \A i \in 1 .. lookups'[q].place - 1 :
                                                  sinceBad'[Chain[vendor'][i]] <= lookups'[q].age
               /\ lookups'[q].pc = "fetched" => TrueWithin(lookups[q].version, lookups[q].age)'
    <2>1. CASE q = r
      <3>1. lookups'[q] = l
        BY <2>1 DEF DiscoveryIInv, DiscoveryTypes
      <3> QED BY <3>1 DEF TrueWithin, sourceVars
    <2>2. CASE q # r
      <3>1. lookups'[q] = lookups[q]
        BY <2>2 DEF DiscoveryIInv, DiscoveryTypes
      <3> QED BY <3>1 DEF DiscoveryIInv, TrueWithin, sourceVars
    <2> QED BY <2>1, <2>2
  <1> QED BY <1>1, <1>2, <1>4, <1>5 DEF DiscoveryIInv

(* The first request of a chain knows of no source. *)
LEMMA RestingIsFree ==
  ASSUME DiscoveryTypes
  PROVE  /\ Resting \in LookupRecord /\ [Resting EXCEPT !.pc = "asking"] \in LookupRecord
         /\ Resting.pc = "idle" /\ [Resting EXCEPT !.pc = "asking"].pc = "asking"
         /\ [Resting EXCEPT !.pc = "asking"].place = 1
  BY ChainOf DEF Resting, LookupRecord, Local

(* A request with one of its parts changed. *)
LEMMA WithPart ==
  ASSUME NEW l \in LookupRecord
  PROVE  /\ \A v \in 0 .. MaxPublications + 1 :
              LET m == [l EXCEPT !.pc = "fetched", !.version = v]
              IN  m \in LookupRecord /\ m.pc = "fetched" /\ m.version = v /\ m.age = l.age
         /\ \A p \in 1 .. Len(Chain[vendor]) + 1 :
              LET m == [l EXCEPT !.place = p]
              IN  m \in LookupRecord /\ m.place = p /\ m.pc = l.pc /\ m.age = l.age
  BY DEF LookupRecord

(* A step of a request keeps what the requests and the entry know. *)
LEMMA LookupStepKeeps ==
  ASSUME DiscoveryIInv, NEW r \in Lookup, LookupStep(r)
  PROVE  DiscoveryIInv'
  <1>0. /\ DiscoveryTypes /\ TrueWithin(kept.version, kept.age)
        /\ kept \in [version : 0 .. MaxPublications + 1, age : 0 .. TooOld]
        /\ lookups[r] \in LookupRecord
    BY DEF DiscoveryIInv, DiscoveryTypes, LookupRecord
  <1>1. CASE AskCatalogue(r)
    <2>1. /\ lookups' = [lookups EXCEPT ![r] = [Resting EXCEPT !.pc = "asking"]]
          /\ UNCHANGED kept /\ UNCHANGED sourceVars
      BY <1>1 DEF AskCatalogue
    <2>2. \A i \in 1 .. 1 - 1 : FALSE
      OBVIOUS
    <2> DEFINE l == [Resting EXCEPT !.pc = "asking"]
    <2>3. l \in LookupRecord /\ l.pc = "asking" /\ l.place = 1
      BY <1>0, RestingIsFree
    <2>4. lookups' = [lookups EXCEPT ![r] = l]
      BY <2>1
    <2> HIDE DEF l
    <2>5. \A i \in 1 .. l.place - 1 : sinceBad[Chain[vendor][i]] <= l.age
      BY <2>2, <2>3
    <2> QED BY <1>0, <2>1, <2>3, <2>4, <2>5, LookupKeeps
  <1>2. CASE TokenRefused(r)
    <2>1. /\ lookups' = [lookups EXCEPT ![r] = Resting]
          /\ UNCHANGED <<vendor, listing, answering, sinceListed, sinceBad, publications, kept>>
          /\ sourceFaults' = sourceFaults + 1
      BY <1>2 DEF TokenRefused
    <2>2. DiscoveryTypes'
      BY <1>0, <2>1, RestingIsFree DEF DiscoveryTypes, LookupRecord
    <2>3. PresentHasNoAge' /\ TrueWithin(kept.version, kept.age)'
      BY <2>1 DEF DiscoveryIInv, PresentHasNoAge, Bad, TrueWithin
    <2>4. ASSUME NEW q \in Lookup
          PROVE  /\ lookups'[q].pc = "asking" => \A i \in 1 .. lookups'[q].place - 1 :
                                                  sinceBad'[Chain[vendor'][i]] <= lookups'[q].age
                 /\ lookups'[q].pc = "fetched" => TrueWithin(lookups[q].version, lookups[q].age)'
      <3>1. CASE q = r
        <4>1. lookups'[q].pc = "idle"
          BY <2>1, <3>1, <1>0, RestingIsFree DEF DiscoveryTypes
        <4> QED BY <4>1
      <3>2. CASE q # r
        <4>1. lookups'[q] = lookups[q]
          BY <2>1, <3>2, <1>0 DEF DiscoveryTypes
        <4> QED BY <2>1, <4>1 DEF DiscoveryIInv, TrueWithin
      <3> QED BY <3>1, <3>2
    <2> QED BY <2>2, <2>3, <2>4 DEF DiscoveryIInv
  <1>3. CASE SourceAnswers(r)
    <2> DEFINE s == SourceOf(r)
               l == [lookups[r] EXCEPT !.pc = "fetched", !.version = listing[s]]
    <2>1. /\ lookups' = [lookups EXCEPT ![r] = l]
          /\ UNCHANGED kept /\ UNCHANGED sourceVars /\ Asking(r) /\ ~Bad(s)
      BY <1>3, <1>0 DEF SourceAnswers, DiscoveryTypes
    <2>2. s \in RemoteSource
      BY <1>0, <2>1, ChainOf DEF Asking, SourceOf, LookupRecord
    <2>3. listing[s] \in 1 .. MaxPublications + 1 /\ sinceListed[listing[s]] = 0
      <3>1. listing[s] # 0
        BY <2>1 DEF Bad
      <3>2. /\ listing[s] \in 0 .. publications + 1 /\ publications \in 0 .. MaxPublications
            /\ MaxPublications \in Nat
        BY <1>0, <2>2, ChainOf DEF DiscoveryTypes
      <3>3. sinceListed[listing[s]] = 0
        BY <2>2, <3>1 DEF DiscoveryIInv, PresentHasNoAge
      <3> QED BY <3>1, <3>2, <3>3
    <2> HIDE DEF s
    <2>4. l \in LookupRecord /\ l.pc = "fetched" /\ l.version = listing[s] /\ l.age = lookups[r].age
      <3>1. listing[s] \in 0 .. MaxPublications + 1
        BY <1>0, <2>3, ChainOf
      <3> QED BY <1>0, <3>1, WithPart
    <2> HIDE DEF l
    <2>5. TrueWithin(l.version, l.age)
      BY <1>0, <2>3, <2>4, ChainOf DEF TrueWithin, Local, LookupRecord
    <2> QED BY <1>0, <2>1, <2>4, <2>5, LookupKeeps
  <1>4. CASE SourcePassed(r)
    <2> DEFINE s == SourceOf(r)
               l == [lookups[r] EXCEPT !.place = lookups[r].place + 1]
    <2>1. /\ lookups' = [lookups EXCEPT ![r] = l]
          /\ UNCHANGED kept /\ UNCHANGED sourceVars /\ Asking(r) /\ Bad(s)
      BY <1>4, <1>0 DEF SourcePassed, DiscoveryTypes
    <2>2. s \in RemoteSource /\ sinceBad[s] = 0 /\ s = Chain[vendor][lookups[r].place]
      <3>1. s \in RemoteSource
        BY <1>0, <2>1, ChainOf DEF Asking, SourceOf, LookupRecord
      <3> QED BY <2>1, <3>1 DEF SourceOf, DiscoveryIInv, PresentHasNoAge
    <2> HIDE DEF s
    <2>4. /\ l \in LookupRecord /\ l.pc = "asking" /\ l.place = lookups[r].place + 1
          /\ l.age = lookups[r].age /\ lookups[r].place \in Nat /\ l.age \in Nat
      <3>1. /\ lookups[r].place \in 1 .. Len(Chain[vendor]) + 1 /\ Len(Chain[vendor]) \in Nat
            /\ lookups[r].place <= Len(Chain[vendor]) /\ lookups[r].pc = "asking"
            /\ lookups[r].age \in Nat
        BY <1>0, <2>1, ChainOf DEF LookupRecord, Asking
      <3>2. lookups[r].place + 1 \in 1 .. Len(Chain[vendor]) + 1
        BY <3>1
      <3> DEFINE p == lookups[r].place + 1
                 old == lookups[r]
      <3>3. l.place = p /\ l \in LookupRecord /\ l.pc = lookups[r].pc /\ l.age = lookups[r].age
        <4>1. p \in 1 .. Len(Chain[vendor]) + 1 /\ l = [old EXCEPT !.place = p]
              /\ old \in LookupRecord
          BY <1>0, <3>2
        <4> HIDE DEF p, l, old
        <4>2. l.place = p /\ l \in LookupRecord /\ l.pc = old.pc /\ l.age = old.age
          BY <4>1, WithPart
        <4> QED BY <4>2 DEF old
      <3> QED BY <3>1, <3>3
    <2> HIDE DEF l
    <2>5. \A i \in 1 .. l.place - 1 : sinceBad[Chain[vendor][i]] <= l.age
      <3>1. ASSUME NEW i \in 1 .. l.place - 1, i # lookups[r].place
            PROVE  sinceBad[Chain[vendor][i]] <= l.age
        <4>1. i \in 1 .. lookups[r].place - 1
          BY <2>4, <3>1
        <4> QED BY <2>1, <2>4, <4>1 DEF DiscoveryIInv, Asking
      <3> QED BY <2>2, <2>4, <3>1
    <2> QED BY <1>0, <2>1, <2>4, <2>5, LookupKeeps
  <1>5. CASE LocalList(r)
    <2> DEFINE l == [lookups[r] EXCEPT !.pc = "fetched", !.version = Local]
    <2>1. /\ lookups' = [lookups EXCEPT ![r] = l]
          /\ UNCHANGED kept /\ UNCHANGED sourceVars
          /\ lookups[r].pc = "asking" /\ lookups[r].place > Len(Chain[vendor])
      BY <1>5, <1>0 DEF LocalList, DiscoveryTypes
    <2>2. /\ l \in LookupRecord /\ l.pc = "fetched" /\ l.version = Local
          /\ l.age = lookups[r].age
      <3>1. Local \in 0 .. MaxPublications + 1
        BY <1>0, ChainOf DEF Local
      <3> QED BY <1>0, <3>1, WithPart
    <2> HIDE DEF l
    <2>3. \A i \in DOMAIN Chain[vendor] : sinceBad[Chain[vendor][i]] <= l.age
      <3>1. lookups[r].place - 1 = Len(Chain[vendor])
        <4>1. lookups[r].place \in 1 .. Len(Chain[vendor]) + 1
          BY <1>0 DEF LookupRecord
        <4>2. Len(Chain[vendor]) \in Nat
          BY <1>0, ChainOf
        <4> QED BY <2>1, <4>1, <4>2
      <3> QED BY <1>0, <2>1, <2>2, <3>1, ChainOf DEF DiscoveryIInv
    <2>4. TrueWithin(l.version, l.age)
      BY <2>2, <2>3 DEF TrueWithin
    <2> QED BY <1>0, <2>1, <2>2, <2>4, LookupKeeps
  <1>6. CASE Keep(r)
    <2>1. /\ kept' = [version |-> lookups[r].version, age |-> lookups[r].age]
          /\ lookups' = [lookups EXCEPT ![r] = Resting] /\ UNCHANGED sourceVars
          /\ lookups[r].pc = "fetched"
      BY <1>6 DEF Keep
    <2>2. /\ kept' \in [version : 0 .. MaxPublications + 1, age : 0 .. TooOld]
          /\ kept'.version = lookups[r].version /\ kept'.age = lookups[r].age
      BY <1>0, <2>1, ChainOf DEF LookupRecord
    <2>3. TrueWithin(kept'.version, kept'.age)
      BY <2>1, <2>2 DEF DiscoveryIInv
    <2>4. Resting \in LookupRecord /\ Resting.pc = "idle"
      BY <1>0, RestingIsFree
    <2> QED BY <2>1, <2>2, <2>3, <2>4, LookupKeeps
  <1> QED BY <1>1, <1>2, <1>3, <1>4, <1>5, <1>6 DEF LookupStep

(* What is true within an age stays so while the sources grow no older. *)
LEMMA YoungerKeeps ==
  ASSUME DiscoveryIInv, UNCHANGED <<vendor, kept, lookups>>,
         \A v \in 1 .. MaxPublications + 1 : sinceListed'[v] \in {0, sinceListed[v]},
         \A s \in RemoteSource : sinceBad'[s] \in {0, sinceBad[s]},
         DiscoveryTypes', PresentHasNoAge'
  PROVE  DiscoveryIInv'
  <1>1. ASSUME NEW v \in 0 .. MaxPublications + 1, NEW a \in Nat, TrueWithin(v, a)
        PROVE  TrueWithin(v, a)'
    <2>1. CASE v # Local
      <3>1. v \in 1 .. MaxPublications + 1
        BY <2>1, ChainOf DEF DiscoveryIInv, Local
      <3> QED BY <1>1, <2>1, <3>1 DEF TrueWithin
    <2>2. CASE v = Local
      BY <1>1, <2>2, ChainOf DEF TrueWithin, DiscoveryIInv
    <2> QED BY <2>1, <2>2
  <1>2. TrueWithin(kept.version, kept.age)'
    <2>1. kept.version \in 0 .. MaxPublications + 1 /\ kept.age \in Nat
          /\ TrueWithin(kept.version, kept.age) /\ kept' = kept
      BY DEF DiscoveryIInv, DiscoveryTypes
    <2> DEFINE v == kept.version
               a == kept.age
    <2>2. v \in 0 .. MaxPublications + 1 /\ a \in Nat /\ TrueWithin(v, a) /\ v' = v /\ a' = a
      BY <2>1
    <2> HIDE DEF v, a
    <2>3. TrueWithin(v, a)'
      BY <1>1, <2>2 DEF TrueWithin
    <2> QED BY <2>3 DEF v, a
  <1>3. ASSUME NEW r \in Lookup
        PROVE  /\ lookups'[r].pc = "asking" => \A i \in 1 .. lookups'[r].place - 1 :
                                                 sinceBad'[Chain[vendor'][i]] <= lookups'[r].age
               /\ lookups'[r].pc = "fetched" => TrueWithin(lookups[r].version, lookups[r].age)'
    <2>0. lookups[r] \in LookupRecord /\ lookups'[r] = lookups[r] /\ DiscoveryTypes
      BY DEF DiscoveryIInv, DiscoveryTypes, LookupRecord
    <2>1. ASSUME lookups[r].pc = "asking", NEW i \in 1 .. lookups[r].place - 1
          PROVE  sinceBad'[Chain[vendor][i]] <= lookups[r].age
      <3>1. i \in 1 .. Len(Chain[vendor]) /\ lookups[r].age \in Nat
        BY <2>0, <2>1, ChainOf DEF LookupRecord
      <3>2. Chain[vendor][i] \in RemoteSource
        BY <2>0, <3>1, ChainOf
      <3>3. sinceBad[Chain[vendor][i]] <= lookups[r].age
        BY <2>1 DEF DiscoveryIInv
      <3> QED BY <3>1, <3>2, <3>3
    <2>2. ASSUME lookups[r].pc = "fetched"
          PROVE  TrueWithin(lookups[r].version, lookups[r].age)'
      <3> DEFINE v == lookups[r].version
                 a == lookups[r].age
      <3>1. v \in 0 .. MaxPublications + 1 /\ a \in Nat /\ TrueWithin(v, a) /\ v' = v /\ a' = a
        BY <2>0, <2>2 DEF DiscoveryIInv, LookupRecord
      <3> HIDE DEF v, a
      <3>2. TrueWithin(v, a)'
        BY <1>1, <3>1 DEF TrueWithin
      <3> QED BY <3>2 DEF v, a
    <2> QED BY <2>0, <2>1, <2>2
  <1> QED BY <1>2, <1>3 DEF DiscoveryIInv

(* A model is published, a source fails, a source recovers. *)
LEMMA SourceStepKeeps ==
  ASSUME DiscoveryIInv, Publish \/ SourceFails \/ SourceRecovers
  PROVE  DiscoveryIInv'
  <1>0. DiscoveryTypes /\ PresentHasNoAge /\ MaxPublications \in Nat /\ TooOld \in Nat
    BY ChainOf DEF DiscoveryIInv
  <1>1. CASE Publish
    <2>1. /\ publications' = publications + 1 /\ publications' \in 0 .. MaxPublications
          /\ listing' = [s \in RemoteSource |-> IF listing[s] = 0 THEN 0 ELSE publications' + 1]
          /\ sinceListed' = [v \in 1 .. MaxPublications + 1 |->
               IF \E s \in RemoteSource : listing'[s] = v THEN 0 ELSE sinceListed[v]]
          /\ UNCHANGED <<vendor, answering, sinceBad, kept, lookups, sourceFaults>>
      BY <1>0, <1>1 DEF Publish, ListedNow, DiscoveryTypes
    <2>2. listing' \in [RemoteSource -> 0 .. publications' + 1]
      BY <2>1
    <2>3. sinceListed' \in [1 .. MaxPublications + 1 -> 0 .. TooOld]
      BY <1>0, <2>1 DEF DiscoveryTypes
    <2>4. DiscoveryTypes'
      BY <1>0, <2>1, <2>2, <2>3 DEF DiscoveryTypes, TooOld
    <2>5. PresentHasNoAge'
      <3> SUFFICES ASSUME NEW s \in RemoteSource
                   PROVE  /\ Bad(s)' => sinceBad'[s] = 0
                          /\ listing'[s] # 0 => sinceListed'[listing'[s]] = 0
        BY DEF PresentHasNoAge
      <3>1. Bad(s)' => Bad(s)
        BY <1>0, <2>1 DEF Bad, DiscoveryTypes
      <3>2. listing'[s] # 0 => listing'[s] \in 1 .. MaxPublications + 1
        BY <1>0, <2>1
      <3> QED BY <1>0, <2>1, <3>1, <3>2 DEF PresentHasNoAge
    <2> QED BY <2>1, <2>4, <2>5, YoungerKeeps
  <1>2. CASE SourceFails
    <2>1. /\ answering' \subseteq answering
          /\ sinceBad' = [s \in RemoteSource |->
               IF s \notin answering' \/ listing[s] = 0 THEN 0 ELSE sinceBad[s]]
          /\ UNCHANGED <<vendor, listing, sinceListed, publications, kept, lookups>>
      BY <1>2 DEF SourceFails, BadNow
    <2>2. DiscoveryTypes'
      BY <1>0, <2>1 DEF DiscoveryTypes
    <2>3. PresentHasNoAge'
      BY <1>0, <2>1 DEF PresentHasNoAge, Bad
    <2> QED BY <2>1, <2>2, <2>3, YoungerKeeps DEF DiscoveryIInv, DiscoveryTypes
  <1>3. CASE SourceRecovers
    <2>1. /\ answering \subseteq answering' /\ answering' \subseteq RemoteSource
          /\ UNCHANGED <<vendor, listing, sinceListed, sinceBad, publications, sourceFaults, kept,
                   lookups>>
      BY <1>0, <1>3 DEF SourceRecovers, DiscoveryTypes
    <2>2. DiscoveryTypes'
      BY <1>0, <2>1 DEF DiscoveryTypes
    <2>3. PresentHasNoAge'
      BY <1>0, <2>1 DEF PresentHasNoAge, Bad
    <2> QED BY <2>1, <2>2, <2>3, YoungerKeeps
  <1> QED BY <1>1, <1>2, <1>3

(* A tick ages what is no longer true, and every request, by one. *)
LEMMA TimeKeeps ==
  ASSUME DiscoveryIInv, TimePasses
  PROVE  DiscoveryIInv'
  <1>0. /\ DiscoveryTypes /\ PresentHasNoAge /\ MaxPublications \in Nat /\ TooOld \in Nat
        /\ SlowestLookup \in Nat /\ SlowestLookup < TooOld
    BY ChainOf DEF DiscoveryIInv
  <1>1. /\ \A r \in Lookup : lookups[r].pc # "idle" => lookups[r].age < SlowestLookup
        /\ sinceListed' = [v \in 1 .. MaxPublications + 1 |->
             IF \E s \in RemoteSource : listing[s] = v THEN 0 ELSE Older(sinceListed[v])]
        /\ sinceBad' = [s \in RemoteSource |-> IF Bad(s) THEN 0 ELSE Older(sinceBad[s])]
        /\ kept' = [kept EXCEPT !.age = Older(kept.age)]
        /\ lookups' = [r \in Lookup |-> IF lookups[r].pc = "idle" THEN lookups[r]
                                        ELSE [lookups[r] EXCEPT !.age = lookups[r].age + 1]]
        /\ UNCHANGED <<vendor, listing, answering, publications, sourceFaults>>
    BY <1>0 DEF TimePasses, DiscoveryTypes
  <1>2. \A n \in 0 .. TooOld : Older(n) \in 0 .. TooOld /\ Older(n) <= n + 1
    BY <1>0 DEF Older
  <1>3. /\ sinceListed' \in [1 .. MaxPublications + 1 -> 0 .. TooOld]
        /\ sinceBad' \in [RemoteSource -> 0 .. TooOld]
    BY <1>0, <1>1, <1>2 DEF DiscoveryTypes
  <1>4. /\ \A v \in 1 .. MaxPublications + 1 : sinceListed'[v] <= sinceListed[v] + 1
        /\ \A s \in RemoteSource : sinceBad'[s] <= sinceBad[s] + 1
    <2>1. ASSUME NEW v \in 1 .. MaxPublications + 1
          PROVE  sinceListed'[v] <= sinceListed[v] + 1
      <3>1. sinceListed[v] \in 0 .. TooOld /\ sinceListed'[v] \in {0, Older(sinceListed[v])}
        BY <1>0, <1>1 DEF DiscoveryTypes
      <3> QED BY <1>0, <1>2, <3>1
    <2>2. ASSUME NEW s \in RemoteSource
          PROVE  sinceBad'[s] <= sinceBad[s] + 1
      <3>1. sinceBad[s] \in 0 .. TooOld /\ sinceBad'[s] \in {0, Older(sinceBad[s])}
        BY <1>0, <1>1 DEF DiscoveryTypes
      <3> QED BY <1>0, <1>2, <3>1
    <2> QED BY <2>1, <2>2
  <1>5. /\ kept \in [version : 0 .. MaxPublications + 1, age : 0 .. TooOld]
        /\ kept' \in [version : 0 .. MaxPublications + 1, age : 0 .. TooOld]
        /\ kept'.version = kept.version /\ kept'.age = Older(kept.age)
    BY <1>0, <1>1, <1>2 DEF DiscoveryTypes
  <1>6. ASSUME NEW r \in Lookup
        PROVE  /\ lookups[r] \in LookupRecord /\ lookups'[r] \in LookupRecord
               /\ lookups'[r].pc = lookups[r].pc /\ lookups'[r].place = lookups[r].place
               /\ lookups'[r].version = lookups[r].version
               /\ lookups[r].pc # "idle" => lookups'[r].age = lookups[r].age + 1
    <2>1. lookups[r] \in LookupRecord
      BY <1>0 DEF DiscoveryTypes, LookupRecord
    <2>2. CASE lookups[r].pc = "idle"
      <3>1. lookups'[r] = lookups[r]
        BY <1>1, <2>2
      <3> QED BY <2>1, <2>2, <3>1
    <2>3. CASE lookups[r].pc # "idle"
      <3>1. lookups'[r] = [lookups[r] EXCEPT !.age = lookups[r].age + 1]
        BY <1>1, <2>3
      <3>2. lookups[r].age + 1 \in 0 .. SlowestLookup
        BY <1>0, <1>1, <2>1, <2>3 DEF LookupRecord
      <3> QED BY <2>1, <3>1, <3>2 DEF LookupRecord
    <2> QED BY <2>2, <2>3
  <1>7. DiscoveryTypes'
    <2>1. lookups' \in [Lookup -> LookupRecord]
      BY <1>1, <1>6
    <2> QED BY <1>0, <1>1, <1>3, <1>5, <2>1 DEF DiscoveryTypes, LookupRecord, TooOld
  <1>8. PresentHasNoAge'
    <2> SUFFICES ASSUME NEW s \in RemoteSource
                 PROVE  /\ Bad(s)' => sinceBad'[s] = 0
                        /\ listing'[s] # 0 => sinceListed'[listing'[s]] = 0
      BY DEF PresentHasNoAge
    <2>1. Bad(s)' => Bad(s)
      BY <1>1 DEF Bad
    <2>2. listing[s] # 0 => listing[s] \in 1 .. MaxPublications + 1
      BY <1>0 DEF DiscoveryTypes
    <2> QED BY <1>1, <2>1, <2>2
  <1>9. ASSUME NEW v \in 0 .. MaxPublications + 1, NEW a \in Nat, TrueWithin(v, a)
        PROVE  IF v # Local THEN sinceListed'[v] <= a + 1
               ELSE \A i \in DOMAIN Chain[vendor'] : sinceBad'[Chain[vendor'][i]] <= a + 1
    <2>1. CASE v # Local
      <3>1. v \in 1 .. MaxPublications + 1
        BY <1>0, <2>1 DEF Local
      <3>2. /\ sinceListed[v] <= a /\ sinceListed'[v] <= sinceListed[v] + 1
            /\ sinceListed[v] \in Nat /\ sinceListed'[v] \in Nat
        BY <1>0, <1>3, <1>4, <1>9, <2>1, <3>1 DEF TrueWithin, DiscoveryTypes
      <3>3. sinceListed'[v] <= a + 1
        BY <3>2
      <3> QED BY <2>1, <3>3
    <2>2. CASE v = Local
      <3>1. ASSUME NEW i \in DOMAIN Chain[vendor]
            PROVE  sinceBad'[Chain[vendor][i]] <= a + 1
        <4> DEFINE s == Chain[vendor][i]
        <4>1. s \in RemoteSource
          BY <1>0, <3>1, ChainOf
        <4>2. sinceBad[s] <= a
          BY <1>9, <2>2, <3>1 DEF TrueWithin
        <4> HIDE DEF s
        <4>3. sinceBad[s] \in Nat /\ sinceBad'[s] \in Nat /\ sinceBad'[s] <= sinceBad[s] + 1
          BY <1>0, <1>3, <1>4, <4>1 DEF DiscoveryTypes
        <4>4. sinceBad'[s] <= a + 1
          BY <4>2, <4>3
        <4> QED BY <4>4 DEF s
      <3> QED BY <1>1, <2>2, <3>1
    <2> QED BY <2>1, <2>2
  <1>10. TrueWithin(kept.version, kept.age)'
    <2> DEFINE v == kept.version
               a == kept.age
    <2>1. /\ v \in 0 .. MaxPublications + 1 /\ a \in 0 .. TooOld /\ a \in Nat
          /\ TrueWithin(v, a) /\ v' = v /\ a' = Older(a)
      BY <1>5 DEF DiscoveryIInv
    <2> HIDE DEF v, a
    <2>2. CASE a < TooOld
      <3>1. a' = a + 1
        BY <2>1, <2>2 DEF Older
      <3>2. TrueWithin(v, a)'
        BY <1>9, <2>1, <3>1 DEF TrueWithin
      <3> QED BY <3>2 DEF v, a
    <2>3. CASE a = TooOld
      <3>1. a' = TooOld
        BY <1>0, <2>1, <2>3 DEF Older
      <3>2. v # Local => sinceListed'[v'] <= a'
        <4>1. v # Local => v \in 1 .. MaxPublications + 1
          BY <1>0, <2>1 DEF Local
        <4> QED BY <1>0, <1>3, <2>1, <3>1, <4>1
      <3>3. \A i \in DOMAIN Chain[vendor'] : sinceBad'[Chain[vendor'][i]] <= a'
        <4>1. \A s \in RemoteSource : sinceBad'[s] <= TooOld
          BY <1>0, <1>3
        <4> QED BY <1>7, <3>1, <4>1, <1>0, <1>1, ChainOf
      <3>4. TrueWithin(v, a)'
        BY <3>2, <3>3, <2>1 DEF TrueWithin
      <3> QED BY <3>4 DEF v, a
    <2> QED BY <1>0, <2>1, <2>2, <2>3
  <1>11. ASSUME NEW r \in Lookup
         PROVE  /\ lookups'[r].pc = "asking" => \A i \in 1 .. lookups'[r].place - 1 :
                                                 sinceBad'[Chain[vendor'][i]] <= lookups'[r].age
                /\ lookups'[r].pc = "fetched" => TrueWithin(lookups[r].version, lookups[r].age)'
    <2>1. ASSUME lookups[r].pc = "asking", NEW i \in 1 .. lookups[r].place - 1
          PROVE  sinceBad'[Chain[vendor][i]] <= lookups'[r].age
      <3>1. i \in 1 .. Len(Chain[vendor]) /\ lookups[r].age \in Nat
        BY <1>0, <1>6, ChainOf DEF LookupRecord
      <3> DEFINE s == Chain[vendor][i]
      <3>2. s \in RemoteSource /\ sinceBad[s] <= lookups[r].age
        BY <1>0, <2>1, <3>1, ChainOf DEF DiscoveryIInv
      <3> HIDE DEF s
      <3>3. sinceBad[s] \in Nat /\ sinceBad'[s] \in Nat /\ sinceBad'[s] <= sinceBad[s] + 1
        BY <1>0, <1>3, <1>4, <3>2 DEF DiscoveryTypes
      <3>4. lookups'[r].age = lookups[r].age + 1
        BY <1>6, <2>1
      <3>5. sinceBad'[s] <= lookups'[r].age
        BY <3>1, <3>2, <3>3, <3>4
      <3> QED BY <3>5 DEF s
    <2>2. ASSUME lookups[r].pc = "fetched"
          PROVE  TrueWithin(lookups[r].version, lookups[r].age)'
      <3> DEFINE v == lookups[r].version
                 a == lookups[r].age
      <3>1. /\ v \in 0 .. MaxPublications + 1 /\ a \in Nat /\ TrueWithin(v, a) /\ v' = v
            /\ a' = a + 1
        BY <1>6, <2>2 DEF DiscoveryIInv, LookupRecord
      <3> HIDE DEF v, a
      <3>3. TrueWithin(v, a)'
        BY <1>9, <3>1 DEF TrueWithin
      <3> QED BY <3>3 DEF v, a
    <2> QED BY <1>1, <1>6, <2>1, <2>2
  <1> QED BY <1>7, <1>8, <1>10, <1>11 DEF DiscoveryIInv

LEMMA DiscoveryStarts == DiscoveryInit => DiscoveryIInv
  <1> SUFFICES ASSUME DiscoveryInit
               PROVE  DiscoveryIInv
    OBVIOUS
  <1>1. TooOld \in Nat /\ MaxPublications \in Nat /\ SlowestLookup \in Nat
    BY DiscoveryAssumption DEF TooOld
  <1>2. Chain[vendor] \in Seq(RemoteSource) /\ Len(Chain[vendor]) \in Nat
    BY DiscoveryAssumption, LenProperties DEF DiscoveryInit
  <1>3. DiscoveryTypes
    <2>1. listing \in [RemoteSource -> 0 .. publications + 1]
      BY DEF DiscoveryInit
    <2>2. sinceListed \in [1 .. MaxPublications + 1 -> 0 .. TooOld]
      BY <1>1 DEF DiscoveryInit
    <2>3. sinceBad \in [RemoteSource -> 0 .. TooOld]
      BY <1>1 DEF DiscoveryInit
    <2>4. kept \in [version : 0 .. MaxPublications + 1, age : 0 .. TooOld]
      BY <1>1 DEF DiscoveryInit, NothingKept, Local
    <2>5. lookups \in [Lookup -> LookupRecord]
      BY <1>1, <1>2 DEF DiscoveryInit, Resting, Local, LookupRecord
    <2> QED BY <1>1, <2>1, <2>2, <2>3, <2>4, <2>5 DEF DiscoveryTypes, DiscoveryInit, LookupRecord
  <1>4. PresentHasNoAge
    <2> SUFFICES ASSUME NEW s \in RemoteSource
                 PROVE  /\ Bad(s) => sinceBad[s] = 0
                        /\ listing[s] # 0 => sinceListed[listing[s]] = 0
      BY DEF PresentHasNoAge
    <2>1. listing[s] # 0 => listing[s] \in 1 .. MaxPublications + 1
      BY <1>1 DEF DiscoveryInit
    <2> QED BY <2>1 DEF DiscoveryInit, Bad
  <1>5. TrueWithin(kept.version, kept.age)
    <2>1. kept.version = Local /\ kept.age = TooOld
      BY DEF DiscoveryInit, NothingKept
    <2>2. \A i \in DOMAIN Chain[vendor] : sinceBad[Chain[vendor][i]] <= TooOld
      BY <1>1, <1>3, ChainOf DEF DiscoveryTypes
    <2> QED BY <2>1, <2>2 DEF TrueWithin
  <1>6. \A r \in Lookup : lookups[r].pc = "idle"
    BY DEF DiscoveryInit, Resting
  <1> QED BY <1>3, <1>4, <1>5, <1>6 DEF DiscoveryIInv

LEMMA DiscoveryKeeps ==
  ASSUME DiscoveryIInv, [DiscoveryNext]_discoveryVars
  PROVE  DiscoveryIInv'
  <1>1. CASE UNCHANGED discoveryVars
    BY <1>1 DEF discoveryVars, DiscoveryIInv, DiscoveryTypes, PresentHasNoAge, Bad, TrueWithin
  <1> QED BY <1>1, LookupStepKeeps, SourceStepKeeps, TimeKeeps DEF DiscoveryNext

(* discover_models: the inductive invariant holds in every run, for every chain of sources,
   number of requests, time to live and slowest request. *)
THEOREM DiscoveryInvariance == DiscoverySpec => []DiscoveryIInv
  BY DiscoveryStarts, DiscoveryKeeps, PTL DEF DiscoverySpec

(* What the catalogue of models promises follows from it. *)
LEMMA DiscoveryIsTrue ==
  ASSUME DiscoveryIInv
  PROVE  DiscoveryTypeOK /\ ServedIsRecent /\ LocalIsTheLastResort
  <1>1. DiscoveryTypes /\ TrueWithin(kept.version, kept.age)
    BY DEF DiscoveryIInv
  <1>2. DiscoveryTypeOK
    BY <1>1 DEF DiscoveryTypes, DiscoveryTypeOK
  <1>3. ServedIsRecent
    <2> SUFFICES ASSUME kept.age <= CacheTtl
                 PROVE  IF kept.version # Local
                        THEN sinceListed[kept.version] <= CacheTtl
                        ELSE \A i \in DOMAIN Chain[vendor] :
                                sinceBad[Chain[vendor][i]] <= CacheTtl
      BY DEF ServedIsRecent, Cached
    <2>1. kept.age \in Nat /\ CacheTtl \in Nat /\ kept.version \in 0 .. MaxPublications + 1
      BY <1>1, DiscoveryAssumption DEF DiscoveryTypes
    <2>2. CASE kept.version # Local
      <3>1. kept.version \in 1 .. MaxPublications + 1
        BY <2>1, <2>2, DiscoveryAssumption DEF Local
      <3>2. sinceListed[kept.version] \in Nat /\ sinceListed[kept.version] <= kept.age
        BY <1>1, <2>2, <3>1, ChainOf DEF DiscoveryTypes, TrueWithin
      <3> QED BY <2>1, <2>2, <3>2
    <2>3. CASE kept.version = Local
      <3>1. ASSUME NEW i \in DOMAIN Chain[vendor]
            PROVE  sinceBad[Chain[vendor][i]] <= CacheTtl
        <4>1. /\ sinceBad[Chain[vendor][i]] \in Nat
              /\ sinceBad[Chain[vendor][i]] <= kept.age
          BY <1>1, <2>3, <3>1, ChainOf DEF DiscoveryTypes, TrueWithin
        <4> QED BY <2>1, <4>1
      <3> QED BY <2>3, <3>1
    <2> QED BY <2>2, <2>3
  <1>4. LocalIsTheLastResort
    <2> SUFFICES ASSUME NEW r \in Lookup, lookups[r].pc = "fetched", lookups[r].version = Local,
                        NEW i \in DOMAIN Chain[vendor]
                 PROVE  sinceBad[Chain[vendor][i]] <= SlowestLookup
      BY DEF LocalIsTheLastResort
    <2>1. TrueWithin(lookups[r].version, lookups[r].age)
      BY DEF DiscoveryIInv
    <2>2. /\ sinceBad[Chain[vendor][i]] \in Nat /\ sinceBad[Chain[vendor][i]] <= lookups[r].age
      BY <1>1, <2>1, ChainOf DEF DiscoveryTypes, TrueWithin
    <2>3. lookups[r].age \in 0 .. SlowestLookup /\ SlowestLookup \in Nat
      BY <1>1, DiscoveryAssumption DEF DiscoveryTypes
    <2> QED BY <2>2, <2>3
  <1> QED BY <1>2, <1>3, <1>4
-----------------------------------------------------------------------------
(* Min finds the smallest of a set of numbers. *)
LEMMA SmallestOf ==
  ASSUME NEW T \in SUBSET Nat, T # {}
  PROVE  Min(T) \in T /\ \A y \in T : Min(T) <= y
  <1>1. PICK x \in T : \A y \in T : ~(<<y, x>> \in OpToRel(<, Nat))
    BY NatLessThanWellFounded, WFMin, Zenon
  <1>2. \A y \in T : ~(y < x)
    <2> SUFFICES ASSUME NEW y \in T, y < x PROVE FALSE
      OBVIOUS
    <2>1. <<y, x>> \in Nat \X Nat /\ <<y, x>>[1] = y /\ <<y, x>>[2] = x
      OBVIOUS
    <2>2. <<y, x>> \in OpToRel(<, Nat)
      BY <2>1 DEF OpToRel
    <2> QED BY <1>1, <2>2
  <1>3. \E z \in T : \A y \in T : z <= y
    BY <1>2
  <1> QED BY <1>3 DEF Min

(* Different places in a finite set, as many as it has elements, are all of them. *)
LEMMA PlacesAreTaken ==
  ASSUME NEW S, IsFiniteSet(S), NEW seat \in [S -> 1 .. Cardinality(S)],
         \A x, y \in S : x # y => seat[x] # seat[y]
  PROVE  \A n \in 1 .. Cardinality(S) : \E x \in S : seat[x] = n
  <1> DEFINE T == 1 .. Cardinality(S)
  <1>1. Cardinality(S) \in Nat
    BY FS_CardinalityType
  <1>2. IsFiniteSet(T) /\ Cardinality(T) = Cardinality(S)
    BY <1>1, FS_Interval
  <1>3. seat \in Injection(S, T)
    BY DEF Injection, IsInjective
  <1>4. seat \in Surjection(S, T)
    BY <1>2, <1>3, FS_Injection
  <1> QED BY <1>4 DEF Surjection

(* The files before a file: fewer, the smaller it is. *)
LEMMA FilesBefore ==
  ASSUME NEW S \in SUBSET Nat, IsFiniteSet(S), NEW f \in S
  PROVE  /\ IsFiniteSet({g \in S : g < f})
         /\ Cardinality({g \in S : g < f}) \in 0 .. Cardinality(S) - 1
         /\ \A h \in S : h < f => Cardinality({g \in S : g < h}) < Cardinality({g \in S : g < f})
  <1>1. \A T \in SUBSET S : IsFiniteSet(T) /\ Cardinality(T) \in Nat
    BY FS_Subset, FS_CardinalityType
  <1>2. ASSUME NEW T \in SUBSET S, NEW U \in SUBSET T, T # U
        PROVE  Cardinality(U) < Cardinality(T)
    <2>1. Cardinality(U) <= Cardinality(T) /\ (Cardinality(T) = Cardinality(U) => T = U)
      BY <1>1, <1>2, FS_Subset
    <2> QED BY <1>1, <1>2, <2>1
  <1> DEFINE B(x) == {g \in S : g < x}
  <1>3. B(f) \in SUBSET S /\ B(f) # S
    OBVIOUS
  <1>4. ASSUME NEW h \in S, h < f
        PROVE  B(h) \in SUBSET B(f) /\ B(h) # B(f)
    <2>1. h \in B(f) /\ h \notin B(h)
      BY <1>4
    <2>2. \A g \in S : g < h => g < f
      BY <1>4
    <2> QED BY <2>1, <2>2
  <1>5. Cardinality(B(f)) < Cardinality(S) /\ Cardinality(S) \in Nat /\ Cardinality(B(f)) \in Nat
    BY <1>1, <1>2, <1>3
  <1>6. \A h \in S : h < f => Cardinality(B(h)) < Cardinality(B(f))
    BY <1>2, <1>3, <1>4
  <1> QED BY <1>1, <1>3, <1>5, <1>6

(* The sorted list of a set of files holds each of them once, in order. *)
LEMMA SortedIsRight ==
  ASSUME NEW S \in SUBSET Nat, IsFiniteSet(S)
  PROVE  /\ Cardinality(S) \in Nat
         /\ Sorted(S) \in Seq(S) /\ Len(Sorted(S)) = Cardinality(S)
         /\ \A i, j \in 1 .. Cardinality(S) : i < j => Sorted(S)[i] < Sorted(S)[j]
         /\ \A f \in S : \E i \in 1 .. Cardinality(S) : Sorted(S)[i] = f
  <1> DEFINE n == Cardinality(S)
             Under(f) == Cardinality({g \in S : g < f})
             seat == [f \in S |-> Under(f) + 1]
             Q == [k \in 1 .. n |-> CHOOSE f \in S : Under(f) = k - 1]
  <1>1. n \in Nat
    BY FS_CardinalityType
  <1>2. \A f \in S : Under(f) \in 0 .. n - 1 /\ \A h \in S : h < f => Under(h) < Under(f)
    BY FilesBefore
  <1> HIDE DEF Under, n
  <1>3. \A x, y \in S : x # y => Under(x) # Under(y)
    BY <1>2
  <1>4. seat \in [S -> 1 .. n] /\ \A x, y \in S : x # y => seat[x] # seat[y]
    BY <1>1, <1>2, <1>3
  <1>5. \A k \in 1 .. n : \E x \in S : Under(x) = k - 1
    <2>1. \A k \in 1 .. n : \E x \in S : seat[x] = k
      BY <1>4, PlacesAreTaken DEF n
    <2>2. ASSUME NEW k \in 1 .. n
          PROVE  \E x \in S : Under(x) = k - 1
      <3>1. PICK x \in S : seat[x] = k
        BY <2>1
      <3>2. Under(x) + 1 = k /\ Under(x) \in Nat /\ k \in Nat
        BY <1>1, <1>2, <3>1
      <3> QED BY <3>2
    <2> QED BY <2>2
  <1>6. \A k \in 1 .. n : Q[k] \in S /\ Under(Q[k]) = k - 1
    BY <1>5
  <1>7. Sorted(S) = Q
    BY DEF Sorted, Under, n
  <1> HIDE DEF Q
  <1>8. Q \in Seq(S) /\ Len(Q) = n
    <2>1. Q = [k \in 1 .. n |-> Q[k]]
      BY DEF Q
    <2>2. Q \in [1 .. n -> S]
      BY <1>6, <2>1
    <2>3. Q \in Seq(S) /\ DOMAIN Q = 1 .. n
      BY <1>1, <2>2, SeqDef
    <2>4. Len(Q) \in Nat /\ 1 .. n = 1 .. Len(Q)
      BY <2>3, LenProperties
    <2> DEFINE m == Len(Q)
    <2>5. m \in Nat /\ 1 .. n = 1 .. m
      BY <2>4
    <2> HIDE DEF m
    <2>6. (n \in 1 .. m \/ n = 0) /\ (m \in 1 .. n \/ m = 0)
      BY <1>1, <2>5
    <2>7. n = m
      BY <1>1, <2>5, <2>6
    <2> QED BY <2>3, <2>7 DEF m
  <1>9. ASSUME NEW i \in 1 .. n, NEW j \in 1 .. n, i < j
        PROVE  Q[i] < Q[j]
    <2>1. /\ Q[i] \in S /\ Q[j] \in S /\ Under(Q[i]) = i - 1 /\ Under(Q[j]) = j - 1
          /\ Q[i] \in Nat /\ Q[j] \in Nat
      BY <1>6
    <2>2. Q[i] # Q[j]
      BY <1>1, <1>9, <2>1
    <2>3. ~(Q[j] < Q[i])
      <3>1. Q[j] < Q[i] => Under(Q[j]) < Under(Q[i])
        BY <1>2, <2>1
      <3> QED BY <1>1, <1>9, <2>1, <3>1
    <2> QED BY <2>1, <2>2, <2>3
  <1>10. ASSUME NEW f \in S
         PROVE  \E i \in 1 .. n : Q[i] = f
    <2>1. Under(f) + 1 \in 1 .. n
      BY <1>1, <1>2
    <2>2. Q[Under(f) + 1] \in S /\ Under(Q[Under(f) + 1]) = Under(f)
      <3>1. Under(Q[Under(f) + 1]) = (Under(f) + 1) - 1 /\ Under(f) \in Nat /\ Q[Under(f) + 1] \in S
        BY <1>1, <1>2, <1>6, <2>1
      <3> QED BY <3>1
    <2> QED BY <1>3, <2>1, <2>2
  <1> QED BY <1>1, <1>7, <1>8, <1>9, <1>10 DEF n

(* Every list of a scope is a finite set of files. *)
LEMMA ListsAreFinite ==
  ASSUME NEW S, S \subseteq SourceFile
  PROVE  S \in SUBSET Nat /\ IsFiniteSet(S)
  BY InventoryAssumption, FS_Subset

LEMMA ListedIsOfFiles ==
  /\ \A a : ListedBy(a) \subseteq SourceFile
  /\ Listed \subseteq SourceFile
  <1>1. \A a : ListedBy(a) \subseteq SourceFile
    BY DEF ListedBy, Truncated, InScope
  <1> QED BY <1>1 DEF Listed

(* A page put after the pages before it. *)
LEMMA OnePageMore ==
  ASSUME NEW s \in Seq(SourceFile), NEW page \in Nat \ {0}, NEW size \in Nat \ {0},
         (page - 1) * size <= Len(s)
  PROVE  LET before == SubSeq(s, 1, (page - 1) * size)
             more   == page * size < Len(s)
         IN  /\ more => /\ before \o PageOf(s, page, size) = SubSeq(s, 1, (page + 1 - 1) * size)
                        /\ (page + 1 - 1) * size <= Len(s)
             /\ ~more => before \o PageOf(s, page, size) = s
             /\ before \o PageOf(s, page, size) \in Seq(SourceFile)
  <1> DEFINE k == (page - 1) * size
             n == Len(s)
             m == page * size
  <1>1. k \in Nat /\ m \in Nat /\ n \in Nat /\ k < m /\ k <= n /\ (page + 1 - 1) * size = m
    <2>1. m = k + size /\ page + 1 - 1 = page
      OBVIOUS
    <2>2. k \in Nat
      OBVIOUS
    <2>3. Len(s) \in Nat
      BY LenProperties
    <2> QED BY <2>1, <2>2, <2>3
  <1>2. PageOf(s, page, size) = SubSeq(s, k + 1, Min({m, n}))
    BY DEF PageOf
  <1> HIDE DEF k, n, m
  <1>3. /\ m < n => Min({m, n}) = m
        /\ ~(m < n) => Min({m, n}) = n
    <2>1. Min({m, n}) \in {m, n} /\ \A y \in {m, n} : Min({m, n}) <= y
      BY <1>1, SmallestOf
    <2> QED BY <1>1, <2>1
  <1>4. CASE m < n
    <2>1. 1 \in 1 .. n + 1 /\ k \in 0 .. n /\ m \in k .. n
      BY <1>1, <1>4
    <2>2. SubSeq(s, 1, k) \o SubSeq(s, k + 1, m) = SubSeq(s, 1, m)
      BY <2>1, ConcatAdjacentSubSeq DEF n
    <2>3. SubSeq(s, 1, m) \in Seq(SourceFile)
      <3>1. \A i \in 1 .. m : s[i] \in SourceFile
        BY <1>1, <1>4, ElementOfSeq DEF n
      <3> QED BY <1>1, <3>1, SubSeqProperties
    <2>4. PageOf(s, page, size) = SubSeq(s, k + 1, m)
      BY <1>2, <1>3, <1>4
    <2> QED BY <1>1, <1>4, <2>2, <2>3, <2>4 DEF k, n, m
  <1>5. CASE ~(m < n)
    <2>1. 1 \in 1 .. n + 1 /\ k \in 0 .. n /\ n \in k .. n
      BY <1>1, <1>5
    <2>2. SubSeq(s, 1, k) \o SubSeq(s, k + 1, n) = SubSeq(s, 1, n)
      <3>1. 1 \in 1 .. Len(s) + 1 /\ k \in 1 - 1 .. Len(s) /\ n \in k .. Len(s)
        BY <1>1, <1>5 DEF n
      <3> QED BY <3>1, ConcatAdjacentSubSeq
    <2>3. SubSeq(s, 1, n) = s
      BY SubSeqFull DEF n
    <2>4. PageOf(s, page, size) = SubSeq(s, k + 1, n)
      BY <1>2, <1>3, <1>5
    <2> QED BY <1>1, <1>5, <2>2, <2>3, <2>4 DEF k, n, m
  <1> QED BY <1>4, <1>5

(* What the caller and the cache hold is of its kind. *)
LEMMA ScopeKinds ==
  /\ NoCache \notin Folder \union Spelling /\ {} \in SUBSET Folder
  /\ \A folders \in SUBSET Folder, token \in Spelling :
        FolderOf(folders, token) \in Folder \union Spelling
  /\ \A t : t \in FileTrees \union {Nothing} => Known(t) \in SUBSET Folder
  <1>1. NoCache \notin Folder \union Spelling
    BY InventoryAssumption DEF NoCache
  <1>2. ASSUME NEW folders \in SUBSET Folder, NEW token \in Spelling
        PROVE  FolderOf(folders, token) \in Folder \union Spelling
    <2>1. CASE folders # {} /\ token \notin folders
      <3>1. folders \in SUBSET Nat
        BY InventoryAssumption
      <3> QED BY <2>1, <3>1, SmallestOf DEF FolderOf
    <2>2. CASE token \in folders \/ folders = {}
      BY <2>2 DEF FolderOf
    <2> QED BY <2>1, <2>2
  <1>3. ASSUME NEW t, t \in FileTrees \union {Nothing}
        PROVE  Known(t) \in SUBSET Folder
    <2>1. t \in [SourceFile -> Folder \union {Absent}]
      BY <1>3, InventoryAssumption DEF Nothing
    <2> QED BY <2>1 DEF Known
  <1> QED BY <1>1, <1>2, <1>3

(* _sanitize_inventory_pagination: a page holds at least one entity, and at most the
   larger of the two limits. *)
LEMMA SafeSizes ==
  ASSUME NEW size \in PageSizes
  PROVE  SafeSize(size) \in 1 .. Max({DefaultSize, MaxPageSize})
  <1> DEFINE m == Max({DefaultSize, MaxPageSize})
             n == IF size > 0 THEN size ELSE DefaultSize
  <1>1. DefaultSize \in Nat \ {0} /\ MaxPageSize \in Nat /\ size \in Int
    BY InventoryAssumption
  <1>2. m \in Nat \ {0}
    <2>1. \E x \in {DefaultSize, MaxPageSize} : \A y \in {DefaultSize, MaxPageSize} : x >= y
      BY <1>1
    <2>2. m \in {DefaultSize, MaxPageSize} /\ \A y \in {DefaultSize, MaxPageSize} : m >= y
      BY <2>1 DEF Max
    <2> QED BY <1>1, <2>2
  <1>3. n \in Nat \ {0}
    BY <1>1
  <1> HIDE DEF m, n
  <1>4. Min({n, m}) \in {n, m} /\ \A y \in {n, m} : Min({n, m}) <= y
    BY <1>2, <1>3, SmallestOf
  <1>5. Min({n, m}) \in 1 .. m
    BY <1>2, <1>3, <1>4
  <1> QED BY <1>5 DEF SafeSize, m, n

(* What the caller holds at any time. *)
CallerRecord ==
  [pc : {"idle", "scope", "query", "read"}, token : Spelling \union {NoCache},
   broad : BOOLEAN, scope : Folder \union Spelling \union {NoCache}, page : Nat,
   size : Nat \ {0}, spent : BOOLEAN, total : Nat, items : Seq(SourceFile)]

LEMMA NoAskIsIdle == NoAsk \in CallerRecord /\ NoAsk.pc = "idle" /\ NoAsk.page = 0
                     /\ NoAsk.size \in 1 .. Max({DefaultSize, MaxPageSize})
  <1>1. DefaultSize \in Nat \ {0} /\ MaxPageSize \in Nat
    BY InventoryAssumption
  <1>2. Max({DefaultSize, MaxPageSize}) \in Nat \ {0}
    <2>1. \E x \in {DefaultSize, MaxPageSize} : \A y \in {DefaultSize, MaxPageSize} : x >= y
      BY <1>1
    <2>2. /\ Max({DefaultSize, MaxPageSize}) \in {DefaultSize, MaxPageSize}
          /\ \A y \in {DefaultSize, MaxPageSize} : Max({DefaultSize, MaxPageSize}) >= y
      BY <2>1 DEF Max
    <2> QED BY <1>1, <2>2
  <1>3. <<>> \in Seq(SourceFile)
    BY EmptySeq
  <1> QED BY <1>2, <1>3 DEF NoAsk, CallerRecord

(* The first page is asked for. *)
LEMMA AskFirstKeeps ==
  ASSUME InventoryIInv, AskFirst
  PROVE  InventoryIInv'
  <1>0. InventoryTypeOK /\ CallerTypes /\ CallerHolds
    BY DEF InventoryIInv
  <1>1. PICK size \in PageSizes, broad \in BOOLEAN, token \in Spelling :
          caller' = [NoAsk EXCEPT !.pc = "scope", !.token = token, !.broad = broad,
                                  !.page = 1, !.size = SafeSize(size)]
    BY DEF AskFirst
  <1>2. /\ caller.pc = "idle" /\ quiet' = (graphUp /\ next = fileTree)
        /\ UNCHANGED <<fileTree, next, graphUp, scopeCache, typed, pending, got, queryFailed,
                       pure, count>>
    BY DEF AskFirst, graph
  <1>3. /\ caller' \in CallerRecord /\ caller'.pc = "scope" /\ caller'.page = 1
        /\ caller'.size = SafeSize(size) /\ caller'.items = <<>> /\ caller'.token = token
    <2>1. SafeSize(size) \in Nat \ {0}
      BY SafeSizes
    <2>2. <<>> \in Seq(SourceFile)
      BY EmptySeq
    <2> QED BY <1>1, <2>1, <2>2 DEF NoAsk, CallerRecord
  <1>4. pending' = {}
    BY <1>0, <1>2 DEF CallerTypes
  <1>5. InventoryTypeOK'
    BY <1>0, <1>2, <1>3, <1>4, SafeSizes DEF InventoryTypeOK, Nothing
  <1>6. CallerTypes'
    BY <1>0, <1>2, <1>3, <1>4, ScopeKinds DEF CallerTypes, CallerRecord
  <1>7. PagesBefore' = 0 /\ Cardinality(Listed') \in Nat
    <2>1. PagesBefore' = 0
      <3>1. caller'.size \in Nat
        BY <1>3 DEF CallerRecord
      <3> QED BY <1>3, <3>1 DEF PagesBefore
    <2>2. (Listed \subseteq SourceFile)'
      BY ListedIsOfFiles, PTL
    <2> QED BY <2>1, <2>2, ListsAreFinite, FS_CardinalityType
  <1>8. SubSeq(Sorted(Listed)', 1, PagesBefore') = <<>>
    BY <1>7, SubSeqEmpty
  <1>9. CallerHolds'
    <2>1. /\ caller'.pc \notin {"query", "read"} /\ ~(caller'.page > 1)
          /\ PagesBefore' <= Cardinality(Listed')
          /\ caller'.items = SubSeq(Sorted(Listed'), 1, PagesBefore')
      BY <1>3, <1>7, <1>8
    <2>2. (quiet \/ pure => graphUp /\ next = fileTree)'
      BY <1>0, <1>2 DEF CallerHolds
    <2>3. (pure /\ scopeCache # NoCache => ScopeHeld)'
      BY <1>0, <1>2 DEF CallerHolds, ScopeHeld, Known, FolderOf
    <2>4. caller'.pc = "scope"
      BY <1>3
    <2> QED BY <2>1, <2>2, <2>3, <2>4 DEF CallerHolds
  <1> QED BY <1>5, <1>6, <1>9 DEF InventoryIInv

(* The scope is had from the cache, or of the folders of the graph and kept. *)
LEMMA ResolveScopeKeeps ==
  ASSUME InventoryIInv, ResolveScope
  PROVE  InventoryIInv'
  <1> DEFINE resolved == IF scopeCache # NoCache THEN scopeCache ELSE FolderNow
  <1>0. InventoryTypeOK /\ CallerTypes /\ CallerHolds /\ caller \in CallerRecord
    BY DEF InventoryIInv, CallerTypes, CallerRecord
  <1>1. PICK spent \in BOOLEAN :
          /\ caller.pc = "scope" /\ scopeCache' = resolved
          /\ caller' = [caller EXCEPT !.pc = "query", !.scope = resolved, !.spent = spent]
          /\ pending' = (IF spent THEN {} ELSE AskedAliases(caller.broad))
          /\ got' = {} /\ queryFailed' = FALSE
          /\ typed' = (IF scopeCache # NoCache THEN typed ELSE caller.token)
          /\ UNCHANGED <<fileTree, next, graphUp, quiet, pure, count>>
    BY DEF ResolveScope, AskOver, graph
  <1>2. resolved \in Folder \union Spelling /\ resolved # NoCache /\ caller.token \in Spelling
    <2>1. (IF graphUp THEN Known(fileTree) ELSE {}) \in SUBSET Folder
      BY <1>0, ScopeKinds DEF InventoryTypeOK
    <2>2. caller.token \in Spelling
      BY <1>0, <1>1 DEF CallerTypes, CallerRecord
    <2>3. FolderNow \in Folder \union Spelling
      BY <2>1, <2>2, ScopeKinds DEF FolderNow
    <2> QED BY <1>0, <2>2, <2>3, ScopeKinds DEF InventoryTypeOK
  <1>3. pure => resolved = FolderOf(Known(fileTree), typed')
    <2>1. CASE scopeCache # NoCache
      BY <1>0, <1>1, <2>1 DEF CallerHolds, ScopeHeld
    <2>2. CASE scopeCache = NoCache
      BY <1>0, <1>1, <2>2 DEF CallerHolds, FolderNow
    <2> QED BY <2>1, <2>2
  <1>4. caller.page > 1 => resolved = caller.scope
    BY <1>0 DEF CallerHolds
  <1> HIDE DEF resolved
  <1>5. /\ caller' \in CallerRecord /\ caller'.pc = "query" /\ caller'.scope = resolved
        /\ caller'.page = caller.page /\ caller'.size = caller.size /\ caller'.broad = caller.broad
        /\ caller'.items = caller.items /\ caller'.page \in Nat /\ caller'.page > 0
        /\ caller'.spent = spent /\ caller'.token = caller.token
    BY <1>0, <1>1, <1>2 DEF CallerRecord, CallerTypes
  <1>6. InventoryTypeOK'
    BY <1>0, <1>1, <1>2, <1>5 DEF InventoryTypeOK, Nothing
  <1>7. CallerTypes'
    BY <1>0, <1>1, <1>2, <1>5, ScopeKinds DEF CallerTypes, CallerRecord
  <1>8. PagesBefore' = PagesBefore /\ PagesBefore \in Nat /\ (caller.page = 1 => PagesBefore = 0)
    <2>1. caller.page \in Nat /\ caller.page > 0 /\ caller.size \in Nat
      BY <1>0, <1>5 DEF CallerRecord
    <2>2. PagesBefore \in Nat /\ (caller.page = 1 => PagesBefore = 0)
      BY <2>1 DEF PagesBefore
    <2> QED BY <1>5, <2>2 DEF PagesBefore
  <1>9. ASSUME quiet
        PROVE  /\ PagesBefore' <= Cardinality(Listed')
               /\ caller'.items = SubSeq(Sorted(Listed'), 1, PagesBefore')
    <2>1. /\ PagesBefore <= Cardinality(Listed)
          /\ caller.items = SubSeq(Sorted(Listed), 1, PagesBefore)
      BY <1>0, <1>1, <1>9 DEF CallerHolds
    <2>2. CASE caller.page > 1
      <3>1. Listed' = Listed
        BY <1>1, <1>4, <1>5, <2>2 DEF Listed, ListedBy, InScope
      <3> QED BY <1>5, <1>8, <2>1, <3>1
    <2>3. CASE caller.page = 1
      <3>1. caller'.items = <<>> /\ SubSeq(Sorted(Listed'), 1, PagesBefore') = <<>>
        BY <1>5, <1>8, <2>1, <2>3, SubSeqEmpty
      <3>2. (Listed \subseteq SourceFile)'
        BY ListedIsOfFiles, PTL
      <3>3. Cardinality(Listed') \in Nat
        BY <3>2, ListsAreFinite, FS_CardinalityType
      <3> QED BY <1>8, <2>3, <3>1, <3>3
    <2> QED BY <1>5, <2>2, <2>3
  <1>10. ~spent => UNION {ListedBy(a)' : a \in AskedAliases(caller'.broad) \ pending'} = {}
    BY <1>1, <1>5
  <1>11. ScopeHeld' \/ ~pure'
    BY <1>1, <1>3 DEF Known, FolderOf, ScopeHeld
  <1>12. CallerHolds'
    <2>1. (quiet \/ pure => graphUp /\ next = fileTree)'
      BY <1>0, <1>1 DEF CallerHolds
    <2>2. (caller.scope = scopeCache /\ scopeCache # NoCache)'
      BY <1>1, <1>2, <1>5 DEF NoCache
    <2>3. (quiet /\ caller.pc \in {"scope", "query"}
       => /\ PagesBefore <= Cardinality(Listed)
          /\ caller.items = SubSeq(Sorted(Listed), 1, PagesBefore))'
      BY <1>1, <1>9
    <2>4. (quiet /\ caller.pc = "query" /\ ~caller.spent
       => /\ ~queryFailed
          /\ got = UNION {ListedBy(a) : a \in AskedAliases(caller.broad) \ pending})'
      BY <1>1, <1>5, <1>10
    <2>5. (caller.pc = "query" /\ caller.spent => pending = {} /\ got = {} /\ ~queryFailed)'
      BY <1>1, <1>5
    <2> QED BY <1>5, <1>11, <2>1, <2>2, <2>3, <2>4, <2>5 DEF CallerHolds
  <1> QED BY <1>6, <1>7, <1>12 DEF InventoryIInv

(* An alias answers with its files within the limit. *)
LEMMA AliasAnswersKeeps ==
  ASSUME InventoryIInv, AliasAnswers
  PROVE  InventoryIInv'
  <1>0. InventoryTypeOK /\ CallerTypes /\ CallerHolds
    BY DEF InventoryIInv
  <1>1. PICK a \in pending :
          /\ pending' = pending \ {a}
          /\ IF graphUp THEN got' = got \union ListedBy(a) /\ queryFailed' = queryFailed
             ELSE got' = got /\ queryFailed' = TRUE
    BY DEF AliasAnswers, ListedBy
  <1>2. /\ caller.pc = "query"
        /\ UNCHANGED <<fileTree, next, graphUp, scopeCache, typed, caller, quiet, pure, count>>
        /\ ~caller.spent
    BY <1>0 DEF AliasAnswers, graph, CallerHolds
  <1>3. got' \subseteq SourceFile
    BY <1>0, <1>1, ListedIsOfFiles DEF InventoryTypeOK
  <1>4. InventoryTypeOK'
    BY <1>0, <1>1, <1>2, <1>3 DEF InventoryTypeOK, Nothing
  <1>5. CallerTypes'
    BY <1>0, <1>1, <1>2 DEF CallerTypes
  <1>6. Listed' = Listed /\ PagesBefore' = PagesBefore /\ \A b : ListedBy(b)' = ListedBy(b)
    BY <1>2 DEF Listed, ListedBy, InScope, PagesBefore
  <1>7. ASSUME quiet
        PROVE  /\ ~queryFailed'
               /\ got' = UNION {ListedBy(b) : b \in AskedAliases(caller.broad) \ pending'}
    <2>1. /\ graphUp /\ ~queryFailed
          /\ got = UNION {ListedBy(b) : b \in AskedAliases(caller.broad) \ pending}
      BY <1>0, <1>2, <1>7 DEF CallerHolds
    <2>2. a \in AskedAliases(caller.broad)
      BY <1>0, <1>1 DEF InventoryTypeOK
    <2>3. AskedAliases(caller.broad) \ pending' = (AskedAliases(caller.broad) \ pending) \union {a}
      BY <1>1, <2>2
    <2>4. got' = got \union ListedBy(a) /\ ~queryFailed'
      BY <1>1, <2>1
    <2>5. UNION {ListedBy(b) : b \in (AskedAliases(caller.broad) \ pending) \union {a}}
            = (UNION {ListedBy(b) : b \in AskedAliases(caller.broad) \ pending}) \union ListedBy(a)
      OBVIOUS
    <2> QED BY <2>1, <2>3, <2>4, <2>5
  <1>8. (quiet /\ caller.pc = "query" /\ ~caller.spent
       => /\ ~queryFailed
          /\ got = UNION {ListedBy(b) : b \in AskedAliases(caller.broad) \ pending})'
    BY <1>2, <1>6, <1>7
  <1>9. (quiet /\ caller.pc \in {"scope", "query"}
       => /\ PagesBefore <= Cardinality(Listed)
          /\ caller.items = SubSeq(Sorted(Listed), 1, PagesBefore))'
    BY <1>0, <1>2, <1>6 DEF CallerHolds
  <1>10. (pure /\ scopeCache # NoCache => ScopeHeld)'
    BY <1>0, <1>2 DEF CallerHolds, ScopeHeld, Known, FolderOf
  <1>11. CallerHolds'
    BY <1>0, <1>2, <1>8, <1>9, <1>10 DEF CallerHolds
  <1> QED BY <1>4, <1>5, <1>11 DEF InventoryIInv

(* A page holds files. *)
LEMMA PageIsOfFiles ==
  ASSUME NEW s \in Seq(SourceFile), NEW page \in Nat \ {0}, NEW size \in Nat \ {0}
  PROVE  PageOf(s, page, size) \in Seq(SourceFile)
  <1> DEFINE k == (page - 1) * size
             m == page * size
             n == Len(s)
             last == Min({m, n})
  <1>1. k \in Nat /\ m \in Nat
    OBVIOUS
  <1>2. n \in Nat
    BY LenProperties
  <1>3. PageOf(s, page, size) = SubSeq(s, k + 1, last)
    BY DEF PageOf
  <1> HIDE DEF k, m
  <1>4. last \in Nat /\ last <= n
    <2>1. last \in {m, n} /\ \A y \in {m, n} : last <= y
      BY <1>1, <1>2, SmallestOf
    <2> QED BY <1>1, <1>2, <2>1
  <1> HIDE DEF last
  <1>5. \A i \in k + 1 .. last : s[i] \in SourceFile
    BY <1>1, <1>2, <1>4, ElementOfSeq
  <1>6. SubSeq(s, k + 1, last) \in Seq(SourceFile)
    BY <1>1, <1>4, <1>5, SubSeqProperties
  <1> QED BY <1>3, <1>6

(* A page is cut out; the next one is asked for, or the caller reads. *)
LEMMA TurnPageKeeps ==
  ASSUME InventoryIInv, TurnPage
  PROVE  InventoryIInv'
  <1> DEFINE all  == Entities
             more == caller.page * caller.size < Len(all)
             held == caller.items \o PageOf(all, caller.page, caller.size)
  <1>0. InventoryTypeOK /\ CallerTypes /\ CallerHolds /\ caller \in CallerRecord
    BY DEF InventoryIInv, CallerTypes, CallerRecord
  <1>1. PICK slow \in BOOLEAN :
          /\ caller.pc = "query" /\ pending = {}
          /\ caller' = [caller EXCEPT !.pc = IF more THEN "scope" ELSE "read",
                                !.page = IF more THEN caller.page + 1 ELSE caller.page,
                                !.spent = caller.spent \/ slow,
                                !.total = Len(all), !.items = held]
          /\ UNCHANGED <<fileTree, next, graphUp, scopeCache, typed, pending, got, queryFailed,
                         quiet, pure, count>>
    BY DEF TurnPage, graph
  <1>2. got \in SUBSET Nat /\ IsFiniteSet(got) /\ got \subseteq SourceFile
    BY <1>0, ListsAreFinite DEF InventoryTypeOK
  <1>3. all \in Seq(SourceFile) /\ Len(all) \in Nat
    <2>1. Sorted(got) \in Seq(SourceFile)
      <3>1. Sorted(got) \in Seq(got)
        BY <1>2, SortedIsRight
      <3>2. Seq(got) \subseteq Seq(SourceFile)
        BY <1>2, SeqMonotonic
      <3> QED BY <3>1, <3>2
    <2>2. <<>> \in Seq(SourceFile)
      BY EmptySeq
    <2>3. all \in Seq(SourceFile)
      BY <2>1, <2>2 DEF Entities
    <2> QED BY <2>3, LenProperties
  <1>4. /\ caller.page \in Nat \ {0} /\ caller.size \in Nat \ {0}
        /\ caller.items \in Seq(SourceFile)
    BY <1>0, <1>1 DEF CallerRecord, CallerTypes
  <1>5. held \in Seq(SourceFile)
    <2>1. PageOf(all, caller.page, caller.size) \in Seq(SourceFile)
      BY <1>3, <1>4, PageIsOfFiles
    <2> QED BY <1>4, <2>1, ConcatProperties
  <1>6. more \in BOOLEAN
    OBVIOUS
  <1> HIDE DEF held, more
  <1>7. /\ caller' \in CallerRecord /\ caller'.pc = (IF more THEN "scope" ELSE "read")
        /\ caller'.page = (IF more THEN caller.page + 1 ELSE caller.page)
        /\ caller'.total = Len(all) /\ caller'.items = held /\ caller'.page > 0
        /\ caller'.scope = caller.scope /\ caller'.size = caller.size
        /\ caller'.broad = caller.broad /\ caller'.token = caller.token
        /\ caller.spent => caller'.spent
    <2> DEFINE pc == IF more THEN "scope" ELSE "read"
               page == IF more THEN caller.page + 1 ELSE caller.page
               total == Len(all)
               spent == caller.spent \/ slow
    <2>1. /\ pc \in {"idle", "scope", "query", "read"} /\ page \in Nat /\ page > 0
          /\ total \in Nat /\ spent \in BOOLEAN /\ (caller.spent => spent)
      BY <1>0, <1>3, <1>4 DEF CallerRecord
    <2>2. caller' = [caller EXCEPT !.pc = pc, !.page = page, !.spent = spent, !.total = total,
                                   !.items = held]
      BY <1>1
    <2> HIDE DEF pc, page, total, spent
    <2>3. /\ caller' \in CallerRecord /\ caller'.pc = pc /\ caller'.page = page
          /\ caller'.total = total /\ caller'.items = held /\ caller'.scope = caller.scope
          /\ caller'.size = caller.size /\ caller'.broad = caller.broad
          /\ caller'.token = caller.token /\ caller'.spent = spent
      BY <1>0, <1>5, <2>1, <2>2 DEF CallerRecord
    <2> QED BY <2>1, <2>3 DEF pc, page, total
  <1>8. InventoryTypeOK'
    BY <1>0, <1>1, <1>7 DEF InventoryTypeOK, Nothing
  <1>9. CallerTypes'
    BY <1>0, <1>1, <1>7 DEF CallerTypes, CallerRecord
  <1>10. Listed' = Listed /\ \A b : ListedBy(b)' = ListedBy(b)
    BY <1>1, <1>7 DEF Listed, ListedBy, InScope
  <1>11. ASSUME quiet, ~caller.spent
         PROVE  /\ more => /\ PagesBefore' <= Cardinality(Listed)
                           /\ caller'.items = SubSeq(Sorted(Listed), 1, PagesBefore')
                /\ ~more => caller'.items = Sorted(Listed) /\ caller'.total = Cardinality(Listed)
    <2>1. got = Listed /\ ~queryFailed
      BY <1>0, <1>1, <1>11 DEF CallerHolds, Listed
    <2>2. all = Sorted(Listed) /\ Len(all) = Cardinality(Listed)
      BY <1>2, <2>1, SortedIsRight DEF Entities
    <2>3. /\ PagesBefore <= Len(all)
          /\ caller.items = SubSeq(all, 1, (caller.page - 1) * caller.size)
      BY <1>0, <1>1, <1>11, <2>2 DEF CallerHolds, PagesBefore
    <2>4. /\ more => /\ held = SubSeq(all, 1, (caller.page + 1 - 1) * caller.size)
                     /\ (caller.page + 1 - 1) * caller.size <= Len(all)
          /\ ~more => held = all
      <3> DEFINE s == all
                 page == caller.page
                 size == caller.size
      <3>1. /\ s \in Seq(SourceFile) /\ page \in Nat \ {0} /\ size \in Nat \ {0}
            /\ (page - 1) * size <= Len(s) /\ caller.items = SubSeq(s, 1, (page - 1) * size)
        BY <1>3, <1>4, <2>3 DEF PagesBefore
      <3>2. held = SubSeq(s, 1, (page - 1) * size) \o PageOf(s, page, size)
        BY <3>1 DEF held
      <3>3. more = (page * size < Len(s))
        BY DEF more
      <3> HIDE DEF s, page, size
      <3>4. /\ more => /\ held = SubSeq(s, 1, (page + 1 - 1) * size)
                       /\ (page + 1 - 1) * size <= Len(s)
            /\ ~more => held = s
        BY <3>1, <3>2, <3>3, OnePageMore
      <3> QED BY <3>4 DEF s, page, size
    <2>5. more => PagesBefore' = (caller.page + 1 - 1) * caller.size
      <3>1. PagesBefore' = (caller'.page - 1) * caller'.size
        BY DEF PagesBefore
      <3>2. more => caller'.page = caller.page + 1
        BY <1>7
      <3>3. caller'.size = caller.size
        BY <1>7
      <3> DEFINE p == caller'.page - 1
                 z == caller'.size
      <3>4. PagesBefore' = p * z
        BY <3>1
      <3>5. more => p = caller.page + 1 - 1
        BY <1>4, <3>2
      <3>6. z = caller.size
        BY <3>3
      <3> HIDE DEF p, z
      <3> QED BY <3>4, <3>5, <3>6
    <2> QED BY <1>7, <2>2, <2>4, <2>5
  <1>12. ASSUME quiet, caller.spent
         PROVE  ~more /\ caller'.items = SubSeq(Sorted(Listed), 1, PagesBefore') /\ caller'.total = 0
    <2>1. all = <<>> /\ Len(all) = 0
      <3>1. got = {} /\ Cardinality(got) = 0
        BY <1>0, <1>1, <1>12, FS_EmptySet DEF CallerHolds
      <3>2. Len(all) = 0
        BY <1>2, <3>1, SortedIsRight DEF Entities
      <3> QED BY <1>3, <3>2, EmptySeq
    <2>2. ~more
      BY <1>4, <2>1 DEF more
    <2>3. PageOf(all, caller.page, caller.size) = <<>>
      <3> DEFINE k == (caller.page - 1) * caller.size
                 m == caller.page * caller.size
      <3>1. k \in Nat /\ m \in Nat
        BY <1>4
      <3>2. PageOf(all, caller.page, caller.size) = SubSeq(all, k + 1, Min({m, Len(all)}))
        BY DEF PageOf
      <3> HIDE DEF k, m
      <3>3. Min({m, Len(all)}) = 0
        <4>1. Min({m, 0}) \in {m, 0} /\ \A y \in {m, 0} : Min({m, 0}) <= y
          BY <3>1, SmallestOf
        <4> QED BY <2>1, <3>1, <4>1
      <3> QED BY <3>1, <3>2, <3>3
    <2>4. held = caller.items
      BY <1>4, <2>3 DEF held
    <2>5. caller.items = SubSeq(Sorted(Listed), 1, PagesBefore) /\ PagesBefore' = PagesBefore
      BY <1>0, <1>1, <1>7, <1>12, <2>2 DEF CallerHolds, PagesBefore
    <2> QED BY <1>7, <2>1, <2>2, <2>4, <2>5
  <1>13. CallerHolds'
    <2>1. (quiet \/ pure => graphUp /\ next = fileTree)'
      BY <1>0, <1>1 DEF CallerHolds
    <2>2. (pure /\ scopeCache # NoCache => ScopeHeld)'
      BY <1>0, <1>1 DEF CallerHolds, ScopeHeld, Known, FolderOf
    <2>3. (caller.scope = scopeCache /\ scopeCache # NoCache)'
      BY <1>0, <1>1, <1>7 DEF CallerHolds, NoCache
    <2>4. (quiet /\ caller.pc \in {"scope", "query"}
       => /\ PagesBefore <= Cardinality(Listed)
          /\ caller.items = SubSeq(Sorted(Listed), 1, PagesBefore))'
      BY <1>1, <1>7, <1>10, <1>11, <1>12
    <2>5. (quiet /\ caller.pc = "read" => AllRead \/ (caller.spent /\ CutShort))'
      BY <1>1, <1>7, <1>10, <1>11, <1>12 DEF AllRead, CutShort
    <2>6. caller'.pc # "query"
      BY <1>7
    <2> QED BY <2>1, <2>2, <2>3, <2>4, <2>5, <2>6 DEF CallerHolds
  <1> QED BY <1>8, <1>9, <1>13 DEF InventoryIInv

(* The caller leaves, or a restart ends its request. *)
LEMMA LeavingKeeps ==
  ASSUME InventoryIInv, Leave \/ Restart
  PROVE  InventoryIInv'
  <1>0. InventoryTypeOK /\ CallerTypes /\ CallerHolds
    BY DEF InventoryIInv
  <1>1. /\ caller' = NoAsk /\ got' = {} /\ queryFailed' = FALSE /\ quiet' = FALSE
        /\ pending' = {} /\ scopeCache' \in {scopeCache, NoCache}
        /\ UNCHANGED <<fileTree, next, graphUp>>
        /\ \/ UNCHANGED <<scopeCache, typed, pure>>
           \/ /\ scopeCache' = NoCache /\ typed' = NoCache
              /\ pure' = (graphUp /\ next = fileTree)
    BY <1>0 DEF Leave, Restart, CallerTypes, graph
  <1>2. InventoryTypeOK'
    BY <1>0, <1>1, NoAskIsIdle DEF InventoryTypeOK, Nothing
  <1>3. CallerTypes'
    BY <1>0, <1>1, NoAskIsIdle DEF CallerTypes, CallerRecord, NoCache
  <1>4. caller'.pc = "idle" /\ ~(caller'.page > 1)
    BY <1>1, NoAskIsIdle
  <1>5. (pure /\ scopeCache # NoCache => ScopeHeld)'
    BY <1>0, <1>1 DEF CallerHolds, ScopeHeld, Known, FolderOf, NoCache
  <1>6. (quiet \/ pure => graphUp /\ next = fileTree)'
    BY <1>0, <1>1 DEF CallerHolds
  <1>7. CallerHolds'
    BY <1>1, <1>4, <1>5, <1>6 DEF CallerHolds
  <1> QED BY <1>2, <1>3, <1>7 DEF InventoryIInv

(* What happens to the graph: nothing is quiet or pure that was disturbed. *)
LEMMA GraphStepKeeps ==
  ASSUME InventoryIInv, Purge \/ WriteGraph \/ Outage \/ Recovery
  PROVE  InventoryIInv'
  <1>0. InventoryTypeOK /\ CallerTypes /\ CallerHolds
    BY DEF InventoryIInv
  <1>1. /\ UNCHANGED <<scopeCache, typed, caller, pending, got, queryFailed>>
        /\ fileTree' \in FileTrees \union {Nothing} /\ next' \in FileTrees /\ graphUp' \in BOOLEAN
        /\ quiet' \in BOOLEAN \/ quiet' = quiet
    BY <1>0 DEF Purge, WriteGraph, Outage, Recovery, InventoryTypeOK, CallerTypes
  <1>2. ~quiet' /\ ~pure'
    BY <1>0 DEF Purge, WriteGraph, Outage, Recovery, CallerHolds
  <1>3. InventoryTypeOK'
    BY <1>0, <1>1 DEF InventoryTypeOK, Nothing
  <1>4. CallerTypes'
    BY <1>0, <1>1 DEF CallerTypes
  <1>5. CallerHolds'
    BY <1>0, <1>1, <1>2 DEF CallerHolds, NoCache
  <1> QED BY <1>3, <1>4, <1>5 DEF InventoryIInv

LEMMA InventoryStarts == InventoryInit => InventoryIInv
  <1> SUFFICES ASSUME InventoryInit
               PROVE  InventoryIInv
    OBVIOUS
  <1>1. /\ fileTree \in FileTrees /\ next = fileTree /\ graphUp = TRUE /\ scopeCache = NoCache
        /\ typed = NoCache /\ caller = NoAsk /\ pending = {} /\ got = {} /\ quiet = FALSE
    BY DEF InventoryInit
  <1>2. InventoryTypeOK
    BY <1>1, NoAskIsIdle DEF InventoryTypeOK
  <1>3. CallerTypes
    BY <1>1, NoAskIsIdle DEF CallerTypes, CallerRecord
  <1>4. CallerHolds
    BY <1>1, NoAskIsIdle DEF CallerHolds
  <1> QED BY <1>2, <1>3, <1>4 DEF InventoryIInv

LEMMA InventoryKeeps ==
  ASSUME InventoryIInv, [InventoryNext]_inventoryVars
  PROVE  InventoryIInv'
  <1>1. CASE UNCHANGED inventoryVars
    <2>1. InventoryTypeOK' /\ CallerTypes'
      BY <1>1 DEF inventoryVars, InventoryIInv, InventoryTypeOK, CallerTypes, Nothing
    <2>2. /\ Listed' = Listed /\ PagesBefore' = PagesBefore /\ Known(fileTree)' = Known(fileTree)
          /\ \A a : ListedBy(a)' = ListedBy(a)
      BY <1>1 DEF inventoryVars, Listed, ListedBy, InScope, PagesBefore, Known
    <2>3. CallerHolds'
      BY <1>1, <2>2 DEF inventoryVars, InventoryIInv, CallerHolds, AllRead, CutShort, ScopeHeld,
                        FolderOf
    <2> QED BY <2>1, <2>3 DEF InventoryIInv
  <1> QED BY <1>1, AskFirstKeeps, ResolveScopeKeeps, AliasAnswersKeeps, TurnPageKeeps,
             LeavingKeeps, GraphStepKeeps DEF InventoryNext

(* The pages of an inventory: the inductive invariant holds in every run, for every set of
   files, folders and aliases, every size of a page and every limit. *)
THEOREM InventoryInvariance == InventorySpec => []InventoryIInv
  BY InventoryStarts, InventoryKeeps, PTL DEF InventorySpec

(* What the two listings promise follows. *)
LEMMA PagesAreTrue == InventoryIInv => PagesPartition /\ ScopeIsRightUntilDisturbed
  BY DEF InventoryIInv, CallerHolds, PagesPartition, ScopeIsRightUntilDisturbed
-----------------------------------------------------------------------------
(* Of the parts of a search one moves, and the others keep their first state: a step is a
   step of the catalogue and of the inventory, or leaves them as they are. *)
LEMMA ListingsStep ==
  ASSUME [MCNext]_mcVars
  PROVE  [DiscoveryNext]_discoveryVars /\ [InventoryNext]_inventoryVars
  BY DEF MCNext, mcVars

(* What is listed from a cache or in pages is true: the pages of an inventory divide it, its
   scope is right until the folders change, and a catalogue of models is recent, the local
   one only when no source answers (discover_models, inventory_query_flow). *)
THEOREM ListingsHold == MCSpec => []ListingsAreTrue
  <1>1. MCInit => DiscoveryIInv /\ InventoryIInv
    BY DiscoveryStarts, InventoryStarts DEF MCInit
  <1>2. DiscoveryIInv /\ InventoryIInv /\ [MCNext]_mcVars => (DiscoveryIInv /\ InventoryIInv)'
    BY ListingsStep, DiscoveryKeeps, InventoryKeeps
  <1>3. DiscoveryIInv /\ InventoryIInv => ListingsAreTrue
    BY DiscoveryIsTrue, PagesAreTrue DEF ListingsAreTrue
  <1> QED BY <1>1, <1>2, <1>3, PTL DEF MCSpec
-----------------------------------------------------------------------------
(* Rel puts the places P one behind the other. *)
Orders(Rel, P) ==
    /\ \A i, j \in P : i # j => <<i, j>> \in Rel \/ <<j, i>> \in Rel
    /\ \A i \in P : <<i, i>> \notin Rel
    /\ \A i, j, k \in P : <<i, j>> \in Rel /\ <<j, k>> \in Rel => <<i, k>> \in Rel

(* The sequence A takes each of the places P of s once. *)
TakesPlaces(A, s, P) ==
    \E p \in Bijection(1 .. Cardinality(P), P) : A = [n \in 1 .. Cardinality(P) |-> s[p[n]]]

LEMMA Arrangement ==
  ASSUME NEW s, NEW P, IsFiniteSet(P), NEW Rel, Orders(Rel, P)
  PROVE  TakesPlaces(Arranged(s, P, Rel), s, P)
  <1> DEFINE B(i) == {j \in P : <<j, i>> \in Rel}
             N == 1 .. Cardinality(P)
             seat == [i \in P |-> Cardinality(B(i)) + 1]
             taken(n) == CHOOSE i \in P : Cardinality(B(i)) = n - 1
             p == [n \in N |-> taken(n)]
  <1>1. \A T \in SUBSET P : IsFiniteSet(T) /\ Cardinality(T) \in Nat
    BY FS_Subset, FS_CardinalityType
  <1>2. ASSUME NEW T \in SUBSET P, NEW U \in SUBSET T, T # U
        PROVE  Cardinality(U) < Cardinality(T)
    <2>1. Cardinality(U) <= Cardinality(T) /\ (Cardinality(T) = Cardinality(U) => T = U)
      BY <1>1, <1>2, FS_Subset
    <2> QED BY <1>1, <1>2, <2>1
  <1>3. ASSUME NEW i \in P
        PROVE  seat[i] \in N
    <2>1. B(i) \in SUBSET P /\ B(i) # P /\ P \in SUBSET P
      BY DEF Orders
    <2>2. Cardinality(B(i)) < Cardinality(P) /\ Cardinality(B(i)) \in Nat /\ Cardinality(P) \in Nat
      BY <1>1, <1>2, <2>1
    <2> HIDE DEF B
    <2> QED BY <2>2
  <1>4. ASSUME NEW i \in P, NEW j \in P, <<i, j>> \in Rel
        PROVE  Cardinality(B(i)) < Cardinality(B(j))
    <2>1. B(j) \in SUBSET P /\ B(i) \in SUBSET B(j)
      BY <1>4 DEF Orders
    <2>2. i \in B(j) /\ i \notin B(i)
      BY <1>4 DEF Orders
    <2> HIDE DEF B
    <2> QED BY <1>2, <2>1, <2>2
  <1>5. ASSUME NEW i \in P, NEW j \in P, i # j
        PROVE  seat[i] # seat[j]
    <2>1. Cardinality(B(i)) # Cardinality(B(j))
      <3>1. Cardinality(B(i)) \in Nat /\ Cardinality(B(j)) \in Nat
        BY <1>1
      <3>2. Cardinality(B(i)) < Cardinality(B(j)) \/ Cardinality(B(j)) < Cardinality(B(i))
        BY <1>4, <1>5 DEF Orders
      <3> HIDE DEF B
      <3> QED BY <3>1, <3>2
    <2>2. Cardinality(B(i)) \in Nat /\ Cardinality(B(j)) \in Nat
      BY <1>1
    <2> HIDE DEF B
    <2> QED BY <2>1, <2>2
  <1>6. seat \in [P -> N]
    BY <1>3
  <1>7. \A n \in N : \E i \in P : seat[i] = n
    <2> HIDE DEF seat
    <2> QED BY <1>5, <1>6, PlacesAreTaken
  <1>8. \A n \in N : p[n] \in P /\ Cardinality(B(p[n])) = n - 1
    <2> SUFFICES ASSUME NEW n \in N
                 PROVE  \E i \in P : Cardinality(B(i)) = n - 1
      BY Zenon
    <2>1. PICK i \in P : seat[i] = n
      BY <1>7
    <2>2. Cardinality(B(i)) \in Nat /\ Cardinality(B(i)) + 1 = n
      BY <1>1, <2>1
    <2> HIDE DEF B
    <2> QED BY <2>2
  <1>9. p \in [N -> P]
    <2>1. \A n \in N : taken(n) \in P
      BY <1>8
    <2> HIDE DEF taken
    <2> QED BY <2>1
  <1>10. ASSUME NEW m \in N, NEW n \in N, p[m] = p[n]
         PROVE  m = n
    <2> DEFINE before(i) == Cardinality(B(i))
    <2>1. before(p[m]) = m - 1 /\ before(p[n]) = n - 1
      BY <1>8
    <2>2. m \in Int /\ n \in Int
      OBVIOUS
    <2> HIDE DEF before, p
    <2> QED BY <1>10, <2>1, <2>2
  <1>11. ASSUME NEW i \in P
         PROVE  \E n \in N : p[n] = i
    <2>1. seat[i] \in N /\ Cardinality(B(i)) \in Nat
      BY <1>1, <1>3
    <2>2. seat[i] - 1 = Cardinality(B(i))
      <3>1. seat[i] = Cardinality(B(i)) + 1
        OBVIOUS
      <3> HIDE DEF B, seat
      <3> QED BY <2>1, <3>1
    <2>3. p[seat[i]] \in P /\ Cardinality(B(p[seat[i]])) = Cardinality(B(i))
      BY <1>8, <2>1, <2>2
    <2>4. p[seat[i]] = i
      <3>1. p[seat[i]] # i => Cardinality(B(p[seat[i]])) # Cardinality(B(i))
        <4>1. seat[p[seat[i]]] = Cardinality(B(p[seat[i]])) + 1 /\ seat[i] = Cardinality(B(i)) + 1
          BY <2>3
        <4> HIDE DEF p, seat, B
        <4> QED BY <1>5, <2>3, <4>1
      <3> QED BY <2>3, <3>1
    <2> QED BY <2>1, <2>4
  <1>12. p \in Bijection(N, P)
    <2> HIDE DEF p, N
    <2> QED BY <1>9, <1>10, <1>11 DEF Bijection, Injection, Surjection, IsInjective
  <1>13. Arranged(s, P, Rel) = [n \in N |-> s[p[n]]]
    BY DEF Arranged
  <1> HIDE DEF p
  <1> QED BY <1>12, <1>13 DEF TakesPlaces

(* So it holds what is at those places, each of them once. *)
OnceEach(A, s, P) ==
    /\ Cardinality(P) \in Nat /\ DOMAIN A = 1 .. Cardinality(P)
    /\ \A n \in DOMAIN A : \E i \in P : A[n] = s[i]
    /\ \A i \in P : \E n \in DOMAIN A : A[n] = s[i]
    /\ \A m, n \in DOMAIN A : m # n => \E i, j \in P : i # j /\ A[m] = s[i] /\ A[n] = s[j]

LEMMA ArrangedIs ==
  ASSUME NEW s, NEW P, IsFiniteSet(P), NEW Rel, Orders(Rel, P)
  PROVE  OnceEach(Arranged(s, P, Rel), s, P)
  <1> DEFINE A == Arranged(s, P, Rel)
             N == 1 .. Cardinality(P)
  <1>a. TakesPlaces(A, s, P)
    BY Arrangement
  <1>1. PICK p \in Bijection(N, P) : A = [n \in N |-> s[p[n]]]
    BY <1>a DEF TakesPlaces
  <1>2. /\ p \in [N -> P] /\ \A m, n \in N : p[m] = p[n] => m = n
        /\ \A i \in P : \E n \in N : p[n] = i
    BY DEF Bijection, Injection, Surjection, IsInjective
  <1>3. Cardinality(P) \in Nat
    BY FS_CardinalityType
  <1> HIDE DEF A, N
  <1>4. DOMAIN A = N /\ \A n \in N : A[n] = s[p[n]] /\ p[n] \in P
    BY <1>1, <1>2
  <1>5. \A m, n \in N : m # n => p[m] # p[n]
    BY <1>2
  <1>6. \A m, n \in N : m # n => \E i, j \in P : i # j /\ A[m] = s[i] /\ A[n] = s[j]
    BY <1>4, <1>5
  <1>7. \A i \in P : \E n \in N : A[n] = s[i]
    BY <1>2, <1>4
  <1>8. N = 1 .. Cardinality(P)
    BY DEF N
  <1>9. OnceEach(A, s, P)
    <2>1. \A n \in DOMAIN A : \E i \in P : A[n] = s[i]
      BY <1>4
    <2>2. \A i \in P : \E n \in DOMAIN A : A[n] = s[i]
      BY <1>4, <1>7
    <2>3. \A m, n \in DOMAIN A : m # n => \E i, j \in P : i # j /\ A[m] = s[i] /\ A[n] = s[j]
      BY <1>4, <1>6
    <2>4. Cardinality(P) \in Nat /\ DOMAIN A = 1 .. Cardinality(P)
      BY <1>3, <1>4, <1>8
    <2> QED BY <2>1, <2>2, <2>3, <2>4, Zenon DEF OnceEach
  <1> QED BY <1>9 DEF A

LEMMA ArrangedSequence ==
  ASSUME NEW s, NEW P, IsFiniteSet(P), NEW Rel, Orders(Rel, P), NEW X, \A i \in P : s[i] \in X
  PROVE  Arranged(s, P, Rel) \in Seq(X) /\ Len(Arranged(s, P, Rel)) = Cardinality(P)
  <1> DEFINE A == Arranged(s, P, Rel)
             N == 1 .. Cardinality(P)
             item(n) == s[CHOOSE i \in P : Cardinality({j \in P : <<j, i>> \in Rel}) = n - 1]
  <1>1. A = [n \in N |-> item(n)]
    BY DEF Arranged
  <1>2. Cardinality(P) \in Nat /\ DOMAIN A = N /\ \A n \in N : A[n] \in X
    <2>1. Cardinality(P) \in Nat /\ DOMAIN A = N /\ \A n \in N : \E i \in P : A[n] = s[i]
      <3>1. OnceEach(A, s, P)
        BY ArrangedIs
      <3> HIDE DEF A
      <3> QED BY <3>1 DEF OnceEach
    <2> QED BY <2>1
  <1> HIDE DEF A, item
  <1>3. \A n \in N : item(n) \in X
    BY <1>1, <1>2
  <1>4. A \in [N -> X]
    BY <1>1, <1>3
  <1>5. A \in Seq(X)
    BY <1>2, <1>4
  <1>6. Len(A) = Cardinality(P)
    BY <1>2, <1>5
  <1> QED BY <1>5, <1>6 DEF A

(* The places of a sequence, one behind the other, or by the score of what is there. *)
LEMMA PlacesAreOrdered ==
  ASSUME NEW X, NEW s \in Seq(X), NEW P \in SUBSET (DOMAIN s)
  PROVE  /\ IsFiniteSet(P) /\ Orders(AsTheyCome(s), P)
         /\ (\A i \in DOMAIN s : s[i].score \in Int) => Orders(BestFirst(s), P)
  <1>1. DOMAIN s = 1 .. Len(s) /\ Len(s) \in Nat
    OBVIOUS
  <1>2. IsFiniteSet(P)
    <2>1. IsFiniteSet(1 .. Len(s))
      BY <1>1, FS_Interval
    <2> QED BY <1>1, <2>1, FS_Subset
  <1>3. \A i, j \in P : <<i, j>> \in AsTheyCome(s) <=> i < j
    <2> SUFFICES ASSUME NEW i \in P, NEW j \in P
                 PROVE  <<i, j>> \in AsTheyCome(s) <=> i < j
      OBVIOUS
    <2>1. <<i, j>> \in Places(s)
      BY DEF Places
    <2> QED BY <2>1 DEF AsTheyCome
  <1>4. P \in SUBSET Nat
    BY <1>1
  <1>5. Orders(AsTheyCome(s), P)
    <2> HIDE DEF AsTheyCome
    <2> QED BY <1>3, <1>4 DEF Orders
  <1>6. ASSUME \A i \in DOMAIN s : s[i].score \in Int
        PROVE  Orders(BestFirst(s), P)
    <2> DEFINE v == [i \in P |-> s[i].score]
    <2>1. \A i \in P : v[i] \in Int /\ i \in Nat
      BY <1>4, <1>6
    <2>2. ASSUME NEW i \in P, NEW j \in P
          PROVE  <<i, j>> \in BestFirst(s) <=> v[i] > v[j] \/ (v[i] = v[j] /\ i < j)
      <3>1. <<i, j>> \in Places(s)
        BY DEF Places
      <3> QED BY <3>1 DEF BestFirst
    <2> HIDE DEF v
    <2> QED BY <2>1, <2>2 DEF Orders
  <1> QED BY <1>2, <1>5, <1>6

(* What holds of 0, and of n + 1 with n, holds of every number. *)
LEMMA NumbersFollow ==
  ASSUME NEW H \in SUBSET Nat, 0 \in H, \A n \in H : n + 1 \in H
  PROVE  H = Nat
  <1> SUFFICES ASSUME H # Nat PROVE FALSE
    OBVIOUS
  <1> DEFINE T == Nat \ H
             x == Min(T)
  <1>1. T \in SUBSET Nat /\ T # {}
    OBVIOUS
  <1>2. x \in T /\ \A y \in T : x <= y
    BY <1>1, SmallestOf
  <1> HIDE DEF x
  <1>3. x # 0 /\ x - 1 \in Nat /\ ~(x <= x - 1) /\ (x - 1) + 1 = x
    BY <1>2
  <1>4. x - 1 \in H
    BY <1>2, <1>3
  <1> QED BY <1>2, <1>3, <1>4

(* The sum of numbers adds them up one after the other. *)
LEMMA SumIs ==
  ASSUME NEW f \in Seq(Nat)
  PROVE  \E t \in [0 .. Len(f) -> Nat] :
            /\ t[0] = 0 /\ \A n \in 1 .. Len(f) : t[n] = t[n - 1] + f[n]
            /\ Sum(f) = t[Len(f)]
  <1> DEFINE L == Len(f)
             D == 0 .. L
             Value(g, n) == IF n = 0 THEN 0 ELSE g[n - 1] + f[n]
             total == CHOOSE g : g = [n \in D |-> Value(g, n)]
  <1>1. L \in Nat /\ \A n \in D : n # 0 => f[n] \in Nat
    OBVIOUS
  <1>2. \E g : g = [n \in D |-> Value(g, n)]
    <2> DEFINE H == {k \in Nat : \E g \in [D -> Nat] :
                        \A n \in D : n <= k => g[n] = Value(g, n)}
    <2>1. 0 \in H
      <3> DEFINE g == [n \in D |-> 0]
      <3>1. g \in [D -> Nat] /\ \A n \in D : n <= 0 => g[n] = Value(g, n)
        BY <1>1
      <3> QED BY <3>1
    <2>2. ASSUME NEW k \in H PROVE k + 1 \in H
      <3>1. PICK g \in [D -> Nat] : \A n \in D : n <= k => g[n] = Value(g, n)
        OBVIOUS
      <3> DEFINE h == [n \in D |-> Value(g, n)]
      <3>2. ASSUME NEW n \in D PROVE Value(g, n) \in Nat
        <4>1. n # 0 => n - 1 \in D /\ f[n] \in Nat
          BY <1>1
        <4>2. n # 0 => g[n - 1] \in Nat
          BY <4>1
        <4>3. n # 0 => g[n - 1] + f[n] \in Nat
          BY <4>1, <4>2
        <4> QED BY <4>3
      <3>3. ASSUME NEW n \in D, n <= k + 1 PROVE h[n] = Value(h, n)
        <4>1. CASE n = 0
          BY <4>1
        <4>2. CASE n # 0
          <5>1. n - 1 \in D /\ n - 1 <= k
            BY <1>1, <3>3, <4>2
          <5>2. h[n - 1] = g[n - 1]
            BY <3>1, <5>1
          <5> QED BY <4>2, <5>2
        <4> QED BY <4>1, <4>2
      <3>4. h \in [D -> Nat]
        BY <3>2
      <3> HIDE DEF h
      <3>5. \E e \in [D -> Nat] : \A n \in D : n <= k + 1 => e[n] = Value(e, n)
        BY <3>3, <3>4
      <3>6. k + 1 \in Nat
        OBVIOUS
      <3> HIDE DEF Value
      <3> QED BY <3>5, <3>6, Zenon
    <2>3. L \in H
      <3> HIDE DEF H
      <3>1. H \in SUBSET Nat
        BY DEF H
      <3> QED BY <1>1, <2>1, <2>2, <3>1, NumbersFollow
    <2>4. PICK g \in [D -> Nat] : \A n \in D : n <= L => g[n] = Value(g, n)
      BY <2>3
    <2>5. g = [n \in D |-> Value(g, n)]
      BY <1>1, <2>4
    <2> QED BY <2>5
  <1>3. total = [n \in D |-> Value(total, n)]
    BY <1>2
  <1>4. Sum(f) = total[L]
    BY DEF Sum
  <1> HIDE DEF total
  <1>5. \A n \in D : total[n] = Value(total, n)
    BY <1>3
  <1>6. \A n \in D : total[n] \in Nat
    <2> DEFINE H == {k \in Nat : k \in D => total[k] \in Nat}
    <2>1. 0 \in H
      BY <1>1, <1>5
    <2>2. ASSUME NEW k \in H PROVE k + 1 \in H
      <3> SUFFICES ASSUME k + 1 \in D PROVE total[k + 1] \in Nat
        OBVIOUS
      <3>1. k \in D /\ total[k] \in Nat /\ (k + 1) - 1 = k
        BY <1>1
      <3>2. total[k + 1] = total[k] + f[k + 1]
        BY <1>5, <3>1
      <3> QED BY <1>1, <3>1, <3>2
    <2> HIDE DEF H
    <2>3. H \in SUBSET Nat
      BY DEF H
    <2>4. H = Nat
      BY <2>1, <2>2, <2>3, NumbersFollow
    <2> QED BY <1>1, <2>4 DEF H
  <1>7. total \in [D -> Nat]
    <2>1. DOMAIN total = D /\ total = [n \in D |-> total[n]]
      BY <1>3
    <2> QED BY <1>6, <2>1
  <1>8. total[0] = 0 /\ \A n \in 1 .. L : total[n] = total[n - 1] + f[n]
    BY <1>1, <1>5
  <1> QED BY <1>4, <1>7, <1>8

(* The sum of nothing, and of one number. *)
LEMMA SmallSums ==
  /\ Sum(<<>>) = 0
  /\ \A x \in Nat : Sum(<<x>>) = x
  /\ \A f \in Seq(Nat) : Sum(f) \in Nat
  <1>1. Sum(<<>>) = 0
    <2>1. <<>> \in Seq(Nat) /\ Len(<<>>) = 0
      OBVIOUS
    <2> QED BY <2>1, SumIs
  <1>2. ASSUME NEW x \in Nat PROVE Sum(<<x>>) = x
    <2>1. <<x>> \in Seq(Nat) /\ Len(<<x>>) = 1 /\ <<x>>[1] = x
      OBVIOUS
    <2>2. PICK t \in [0 .. 1 -> Nat] :
             t[0] = 0 /\ (\A n \in 1 .. 1 : t[n] = t[n - 1] + <<x>>[n]) /\ Sum(<<x>>) = t[1]
      BY <2>1, SumIs
    <2>3. t[1] = t[1 - 1] + x /\ 1 - 1 = 0
      BY <2>1, <2>2
    <2> QED BY <2>2, <2>3
  <1>3. ASSUME NEW f \in Seq(Nat) PROVE Sum(f) \in Nat
    <2>1. Len(f) \in 0 .. Len(f)
      OBVIOUS
    <2> QED BY <2>1, SumIs
  <1> QED BY <1>1, <1>2, <1>3
-----------------------------------------------------------------------------
(* What the citations are taken from. *)
Cited == [path : STRING, span : {"file", "symbol", "first_line"}, score : Int,
          reason : {"hybrid_rag_match", "graph_file_dependency_match"}]
ChunkPaths == {chunks[j].path : j \in DOMAIN chunks}
OfGraph(c) == c.reason = "graph_file_dependency_match"

LEMMA CitationsAre ==
  /\ \A q \in STRING : GraphCitation(q) \in Cited /\ OfGraph(GraphCitation(q))
                       /\ GraphCitation(q).path = q
  /\ \A c \in RankedChunk : ChunkCitation(c) \in Cited /\ ~OfGraph(ChunkCitation(c))
                      /\ ChunkCitation(c).path = c.path
  BY DEF GraphCitation, ChunkCitation, Cited, OfGraph, RankedChunk

(* The citations of the graph: of each file it leads to, one. *)
LEMMA GraphCitationsAre ==
  ASSUME ContextSequences
  PROVE  /\ GraphCitations \in Seq(Cited)
         /\ \A i \in DOMAIN GraphCitations :
              OfGraph(GraphCitations[i]) /\ GraphCitations[i].path \in GraphPaths
         /\ \A q \in GraphPaths : \E i \in DOMAIN GraphCitations : GraphCitations[i].path = q
         /\ \A i, j \in DOMAIN GraphCitations :
              i # j => GraphCitations[i].path # GraphCitations[j].path
  <1> DEFINE s == [i \in DOMAIN selected |-> GraphCitation(selected[i].path)]
             P == FirstOfFile
             A == GraphCitations
  <1>1. /\ selected \in Seq(GraphRecord) /\ DOMAIN selected = 1 .. Len(selected)
        /\ \A i \in DOMAIN selected : selected[i].path \in STRING
    <2>1. selected \in Seq(GraphRecord)
      BY DEF ContextSequences
    <2>2. \A r \in GraphRecord : r.path \in STRING
      BY DEF GraphRecord
    <2> QED BY <2>1, <2>2
  <1>2. P \in SUBSET (DOMAIN selected)
    BY DEF FirstOfFile
  <1>3. IsFiniteSet(P) /\ Orders(AsTheyCome(selected), P)
    BY <1>1, <1>2, PlacesAreOrdered
  <1>4. \A i \in P : s[i] \in Cited /\ OfGraph(s[i]) /\ s[i].path = selected[i].path
    BY <1>1, <1>2, CitationsAre
  <1>5. A = Arranged(s, P, AsTheyCome(selected))
    BY DEF GraphCitations
  <1> HIDE DEF s, P, A
  <1>6. OnceEach(A, s, P) /\ A \in Seq(Cited)
    BY <1>3, <1>4, <1>5, ArrangedIs, ArrangedSequence
  <1>7. \A i \in P : selected[i].path \in GraphPaths
    BY <1>2 DEF FirstOfFile, GraphPaths, P
  <1>8. ASSUME NEW q \in GraphPaths
        PROVE  \E i \in P : selected[i].path = q
    <2> DEFINE T == {i \in DOMAIN selected : selected[i].path = q}
               f == Min(T)
    <2>1. T \in SUBSET Nat /\ T # {} /\ q # "none"
      BY <1>1 DEF GraphPaths
    <2>2. f \in T /\ \A y \in T : f <= y
      BY <2>1, SmallestOf
    <2> HIDE DEF f
    <2>3. \A j \in 1 .. f - 1 : selected[j].path # selected[f].path
      BY <1>1, <2>2
    <2> QED BY <2>1, <2>2, <2>3 DEF FirstOfFile, P
  <1>9. \A i, j \in P : i # j => selected[i].path # selected[j].path
    <2> SUFFICES ASSUME NEW i \in P, NEW j \in P, i < j
                 PROVE  selected[i].path # selected[j].path
      BY <1>1, <1>2
    <2>1. i \in 1 .. j - 1
      BY <1>1, <1>2
    <2> QED BY <2>1 DEF FirstOfFile, P
  <1>10. \A i \in DOMAIN A : OfGraph(A[i]) /\ A[i].path \in GraphPaths
    <2> SUFFICES ASSUME NEW i \in DOMAIN A
                 PROVE  OfGraph(A[i]) /\ A[i].path \in GraphPaths
      OBVIOUS
    <2>1. PICK k \in P : A[i] = s[k]
      BY <1>6 DEF OnceEach
    <2> QED BY <1>4, <1>7, <2>1
  <1>11. \A q \in GraphPaths : \E i \in DOMAIN A : A[i].path = q
    BY <1>4, <1>6, <1>8 DEF OnceEach
  <1>12. \A i, j \in DOMAIN A : i # j => A[i].path # A[j].path
    <2> SUFFICES ASSUME NEW i \in DOMAIN A, NEW j \in DOMAIN A, i # j
                 PROVE  A[i].path # A[j].path
      OBVIOUS
    <2>1. PICK k \in P, l \in P : k # l /\ A[i] = s[k] /\ A[j] = s[l]
      BY <1>6 DEF OnceEach
    <2> QED BY <1>4, <1>9, <2>1
  <1> QED BY <1>6, <1>10, <1>11, <1>12 DEF A

(* All citations there are: of each ranked chunk, then those of the graph. *)
LEMMA RawCitationsAre ==
  ASSUME ContextSequences
  PROVE  /\ RawCitations \in Seq(Cited)
         /\ \A i \in DOMAIN RawCitations : RawCitations[i].path \in ChunkPaths \union GraphPaths
         /\ \A q \in ChunkPaths \union GraphPaths :
              \E i \in DOMAIN RawCitations : RawCitations[i].path = q
         /\ \A i, j \in DOMAIN RawCitations :
              i # j /\ OfGraph(RawCitations[i]) => RawCitations[i] # RawCitations[j]
  <1> DEFINE CC == [i \in DOMAIN chunks |-> ChunkCitation(chunks[i])]
             GC == GraphCitations
             m == Len(chunks)
             RC == RawCitations
  <1>1. chunks \in Seq(RankedChunk) /\ DOMAIN chunks = 1 .. m /\ m \in Nat
    BY DEF ContextSequences
  <1>2. CC \in Seq(Cited) /\ Len(CC) = m
    BY <1>1, CitationsAre
  <1>3. GC \in Seq(Cited) /\ DOMAIN GC = 1 .. Len(GC) /\ Len(GC) \in Nat
    BY GraphCitationsAre
  <1>4. \A i \in 1 .. m : ~OfGraph(CC[i]) /\ CC[i].path = chunks[i].path
    BY <1>1, CitationsAre
  <1>5. RC = CC \o GC
    BY DEF RawCitations
  <1> HIDE DEF CC, GC, RC, m
  <1>6. /\ RC \in Seq(Cited) /\ Len(RC) = m + Len(GC) /\ DOMAIN RC = 1 .. m + Len(GC)
        /\ \A i \in 1 .. m : RC[i] = CC[i]
        /\ \A i \in 1 .. Len(GC) : RC[m + i] = GC[i]
    <2>1. Len(CC) = m /\ CC \in Seq(Cited) /\ GC \in Seq(Cited)
      BY <1>2, <1>3
    <2>2. CC \o GC \in Seq(Cited) /\ Len(CC \o GC) = Len(CC) + Len(GC)
      BY <2>1
    <2>3. \A i \in 1 .. Len(CC) : (CC \o GC)[i] = CC[i]
      BY <2>1
    <2>4. \A i \in 1 .. Len(GC) : (CC \o GC)[Len(CC) + i] = GC[i]
      BY <1>1, <1>3, <2>1
    <2> QED BY <1>2, <1>5, <2>2, <2>3, <2>4
  <1>7. \A i \in DOMAIN RC : i \in 1 .. m \/ (i - m \in 1 .. Len(GC) /\ RC[i] = GC[i - m])
    <2> SUFFICES ASSUME NEW i \in DOMAIN RC, i \notin 1 .. m
                 PROVE  i - m \in 1 .. Len(GC) /\ RC[i] = GC[i - m]
      OBVIOUS
    <2>1. i - m \in 1 .. Len(GC) /\ m + (i - m) = i
      BY <1>1, <1>3, <1>6
    <2>2. RC[m + (i - m)] = GC[i - m]
      BY <1>6, <2>1
    <2> QED BY <2>1, <2>2
  <1>8. \A i \in DOMAIN RC : RC[i].path \in ChunkPaths \union GraphPaths
    <2>1. \A i \in 1 .. m : RC[i].path \in ChunkPaths
      BY <1>1, <1>4, <1>6 DEF ChunkPaths
    <2>2. \A i \in 1 .. Len(GC) : GC[i].path \in GraphPaths
      BY <1>3, GraphCitationsAre DEF GC
    <2> QED BY <1>7, <2>1, <2>2
  <1>9. \A q \in ChunkPaths : \E i \in DOMAIN RC : RC[i].path = q
    <2> SUFFICES ASSUME NEW j \in DOMAIN chunks
                 PROVE  j \in DOMAIN RC /\ RC[j].path = chunks[j].path
      BY DEF ChunkPaths
    <2> QED BY <1>1, <1>3, <1>4, <1>6
  <1>10. \A q \in GraphPaths : \E i \in DOMAIN RC : RC[i].path = q
    <2> SUFFICES ASSUME NEW j \in 1 .. Len(GC)
                 PROVE  m + j \in DOMAIN RC /\ RC[m + j] = GC[j]
      <3>1. \A q \in GraphPaths : \E j \in 1 .. Len(GC) : GC[j].path = q
        BY <1>3, GraphCitationsAre DEF GC
      <3> QED BY <3>1
    <2>1. RC[m + j] = GC[j]
      BY <1>6
    <2>2. m + j \in 1 .. m + Len(GC)
      BY <1>1, <1>3
    <2> QED BY <1>6, <2>1, <2>2
  <1>11. ASSUME NEW i \in DOMAIN RC, NEW j \in DOMAIN RC, i # j, OfGraph(RC[i])
         PROVE  RC[i] # RC[j]
    <2>1. i \notin 1 .. m
      BY <1>4, <1>6, <1>11
    <2>2. i - m \in 1 .. Len(GC) /\ RC[i] = GC[i - m]
      BY <1>7, <2>1
    <2>3. CASE j \in 1 .. m
      BY <1>4, <1>6, <1>11, <2>3
    <2>4. CASE j \notin 1 .. m
      <3>1. j - m \in 1 .. Len(GC) /\ RC[j] = GC[j - m]
        BY <1>7, <2>4
      <3>2. i - m # j - m
        BY <1>1, <1>6, <1>11
      <3>3. GC[i - m].path # GC[j - m].path
        BY <1>3, <2>2, <3>1, <3>2, GraphCitationsAre DEF GC
      <3> QED BY <2>2, <3>1, <3>3
    <2> QED BY <2>3, <2>4
  <1> QED BY <1>6, <1>8, <1>9, <1>10, <1>11 DEF RC

(* All there is to cite: the files of the ranked chunks and of the graph. *)
Evidence == ChunkPaths \union GraphPaths

(* The citations in their order: of every file, noise aside, and noise only when there
   is nothing else. *)
SortedOnes(s) ==
    /\ s \in Seq(Cited)
    /\ \A i \in DOMAIN s : s[i].path \in Evidence
    /\ (\E i \in DOMAIN s : s[i].path \in NoisyPath) => Evidence \subseteq NoisyPath
    /\ \A q \in Evidence : q \notin NoisyPath \/ Evidence \subseteq NoisyPath
                             => \E i \in DOMAIN s : s[i].path = q
    /\ \A i, j \in DOMAIN s : i # j /\ OfGraph(s[i]) => s[i] # s[j]

LEMMA SortedAre ==
  ASSUME ContextSequences
  PROVE  SortedOnes(SortedCitations)
  <1> DEFINE RC == RawCitations
             S == SortedCitations
             P == IF Clear = {} THEN DOMAIN RC ELSE Clear
  <1>1. /\ RC \in Seq(Cited)
        /\ \A i \in DOMAIN RC : RC[i].path \in Evidence
        /\ \A q \in Evidence : \E i \in DOMAIN RC : RC[i].path = q
        /\ \A i, j \in DOMAIN RC : i # j /\ OfGraph(RC[i]) => RC[i] # RC[j]
    BY RawCitationsAre DEF Evidence
  <1>2. Clear = {i \in DOMAIN RC : RC[i].path \notin NoisyPath}
    BY DEF Clear
  <1>3. P \in SUBSET (DOMAIN RC) /\ (\A i \in P : RC[i].path \in NoisyPath => Clear = {})
        /\ (Clear = {} => P = DOMAIN RC)
        /\ (\A i \in DOMAIN RC : RC[i].path \notin NoisyPath => i \in P)
    BY <1>2
  <1>4. S = Arranged(RC, P, BestFirst(RC))
    BY DEF SortedCitations, Ranked
  <1> HIDE DEF RC, S, P
  <1>5. \A i \in DOMAIN RC : RC[i] \in Cited /\ RC[i].score \in Int
    <2>1. \A c \in Cited : c.score \in Int
      BY DEF Cited
    <2> QED BY <1>1, <2>1
  <1>6. IsFiniteSet(P) /\ Orders(BestFirst(RC), P)
    BY <1>1, <1>3, <1>5, PlacesAreOrdered
  <1>7. OnceEach(S, RC, P) /\ S \in Seq(Cited)
    BY <1>3, <1>4, <1>5, <1>6, ArrangedIs, ArrangedSequence
  <1>8. \A i \in DOMAIN S : \E k \in P : S[i] = RC[k]
    BY <1>7 DEF OnceEach
  <1>9. \A i \in DOMAIN S : S[i].path \in Evidence
    BY <1>1, <1>3, <1>8
  <1>10. Clear = {} => Evidence \subseteq NoisyPath
    BY <1>1, <1>2
  <1>11. ASSUME NEW i \in DOMAIN S, S[i].path \in NoisyPath
         PROVE  Evidence \subseteq NoisyPath
    BY <1>3, <1>8, <1>10, <1>11
  <1>12. ASSUME NEW q \in Evidence, q \notin NoisyPath \/ Evidence \subseteq NoisyPath
         PROVE  \E i \in DOMAIN S : S[i].path = q
    <2>1. PICK k \in DOMAIN RC : RC[k].path = q
      BY <1>1
    <2>2. k \in P
      <3>1. CASE q \notin NoisyPath
        BY <1>3, <2>1, <3>1
      <3>2. CASE Evidence \subseteq NoisyPath
        BY <1>1, <1>2, <1>3, <2>1, <3>2
      <3> QED BY <1>12, <3>1, <3>2
    <2>3. PICK n \in DOMAIN S : S[n] = RC[k]
      BY <1>7, <2>2 DEF OnceEach
    <2> QED BY <2>1, <2>3
  <1>13. ASSUME NEW i \in DOMAIN S, NEW j \in DOMAIN S, i # j, OfGraph(S[i])
         PROVE  S[i] # S[j]
    <2>1. PICK k \in P, l \in P : k # l /\ S[i] = RC[k] /\ S[j] = RC[l]
      BY <1>7, <1>13 DEF OnceEach
    <2> QED BY <1>1, <1>3, <1>13, <2>1
  <1> QED BY <1>7, <1>9, <1>11, <1>12, <1>13 DEF SortedOnes, S

(* The files whose citation comes first are the first file that is shown, noise aside. *)
ShowsTop(best) ==
    \A i \in DOMAIN chunks :
        /\ chunks[i].path \notin NoisyPath
        /\ \A j \in 1 .. i - 1 : chunks[j].path \in NoisyPath
        => best.path = chunks[i].path

LEMMA BestIs ==
  ASSUME ContextSequences, NEW s, SortedOnes(s)
  PROVE  /\ s = <<>> => HighSignal(s) = <<>>
         /\ s # <<>> => \E j \in DOMAIN s : HighSignal(s) = <<s[j]>> /\ ShowsTop(s[j])
  <1> DEFINE paths == [i \in DOMAIN chunks |-> chunks[i].path]
             cited == {i \in DOMAIN paths : \E j \in DOMAIN s : s[j].path = paths[i]}
             f == Min(cited)
             those == {j \in DOMAIN s : s[j].path = paths[f]}
             g == Min(those)
  <1>1. chunks \in Seq(RankedChunk) /\ DOMAIN chunks = 1 .. Len(chunks) /\ Len(chunks) \in Nat
    BY DEF ContextSequences
  <1>2. s \in Seq(Cited) /\ DOMAIN s = 1 .. Len(s) /\ Len(s) \in Nat
    BY DEF SortedOnes
  <1>3. HighSignal(s) = IF s = <<>> THEN <<>> ELSE IF cited = {} THEN <<s[1]>> ELSE <<s[g]>>
    BY DEF HighSignal, Min
  <1>4. cited \in SUBSET Nat /\ those \in SUBSET Nat /\ DOMAIN paths = DOMAIN chunks
    BY <1>1, <1>2
  <1>5. \A i \in DOMAIN chunks : paths[i] = chunks[i].path
    OBVIOUS
  <1>6. cited # {} => f \in cited /\ (\A y \in cited : f <= y) /\ those # {}
    <2> SUFFICES ASSUME cited # {} PROVE f \in cited /\ (\A y \in cited : f <= y) /\ those # {}
      OBVIOUS
    <2>1. f \in cited /\ \A y \in cited : f <= y
      BY <1>4, SmallestOf
    <2> HIDE DEF f
    <2> QED BY <2>1
  <1>7. cited # {} => g \in those
    <2> SUFFICES ASSUME cited # {} PROVE g \in those
      OBVIOUS
    <2>1. those # {}
      BY <1>6
    <2> HIDE DEF those
    <2> QED BY <1>4, <2>1, SmallestOf
  <1>8. \A j \in DOMAIN s : \A i \in DOMAIN chunks : s[j].path = chunks[i].path => i \in cited
    BY <1>4, <1>5
  <1>9. \A i \in cited : i \in DOMAIN chunks /\ \E j \in DOMAIN s : s[j].path = chunks[i].path
    BY <1>4, <1>5
  <1>10. cited # {} => g \in DOMAIN s /\ s[g].path = chunks[f].path
    <2> HIDE DEF f, cited
    <2>1. cited # {} => g \in DOMAIN s /\ s[g].path = paths[f]
      BY <1>7
    <2> QED BY <1>5, <1>6, <1>9, <2>1
  <1> HIDE DEF paths, cited, f, those, g
  <1>11. ASSUME NEW i \in DOMAIN chunks, chunks[i].path \notin NoisyPath,
                \A j \in 1 .. i - 1 : chunks[j].path \in NoisyPath
         PROVE  i \in cited /\ f = i
    <2>1. chunks[i].path \in Evidence
      BY DEF Evidence, ChunkPaths
    <2>2. \E j \in DOMAIN s : s[j].path = chunks[i].path
      BY <1>11, <2>1 DEF SortedOnes
    <2>3. i \in cited
      BY <1>8, <2>2
    <2>4. f \in DOMAIN chunks /\ f <= i
      BY <1>6, <1>9, <2>3
    <2>5. chunks[f].path \notin NoisyPath
      BY <1>6, <1>9, <1>11, <2>1, <2>3 DEF SortedOnes
    <2>6. f \in 1 .. i - 1 \/ f = i
      BY <1>1, <2>4
    <2> QED BY <1>11, <2>3, <2>5, <2>6
  <1>12. s # <<>> => 1 \in DOMAIN s
    BY <1>2
  <1>13. CASE s # <<>> /\ cited = {}
    <2>1. ShowsTop(s[1])
      BY <1>11, <1>13 DEF ShowsTop
    <2> QED BY <1>3, <1>12, <1>13, <2>1
  <1>14. CASE s # <<>> /\ cited # {}
    <2>1. ShowsTop(s[g])
      BY <1>10, <1>11, <1>14 DEF ShowsTop
    <2> QED BY <1>3, <1>10, <1>14, <2>1
  <1> QED BY <1>3, <1>13, <1>14

(* One sequence behind another. *)
LEMMA BehindIs ==
  ASSUME NEW X, NEW a \in Seq(X), NEW b \in Seq(X)
  PROVE  /\ a \o b \in Seq(X) /\ Len(a \o b) = Len(a) + Len(b)
         /\ \A i \in DOMAIN (a \o b) :
              \/ i \in DOMAIN a /\ (a \o b)[i] = a[i]
              \/ i \notin DOMAIN a /\ i - Len(a) \in DOMAIN b /\ (a \o b)[i] = b[i - Len(a)]
  <1>1. a \o b \in Seq(X) /\ Len(a \o b) = Len(a) + Len(b) /\ Len(a) \in Nat /\ Len(b) \in Nat
    OBVIOUS
  <1>2. \A i \in 1 .. Len(a) : (a \o b)[i] = a[i]
    OBVIOUS
  <1>3. \A i \in 1 .. Len(b) : (a \o b)[Len(a) + i] = b[i]
    OBVIOUS
  <1>4. ASSUME NEW i \in 1 .. Len(a) + Len(b), i \notin 1 .. Len(a)
        PROVE  i - Len(a) \in 1 .. Len(b) /\ (a \o b)[i] = b[i - Len(a)]
    <2>1. i - Len(a) \in 1 .. Len(b) /\ Len(a) + (i - Len(a)) = i
      BY <1>1, <1>4
    <2> QED BY <1>3, <2>1
  <1>5. DOMAIN (a \o b) = 1 .. Len(a) + Len(b) /\ DOMAIN a = 1 .. Len(a) /\ DOMAIN b = 1 .. Len(b)
    BY <1>1
  <1> QED BY <1>1, <1>2, <1>4, <1>5

(* The citations returned: the best one, and those of the graph behind it. *)
LEMMA CitesTheEvidence ==
  ASSUME ContextSequences, Cite
  PROVE  /\ citations' \in Seq(Cited)
         /\ \A i \in DOMAIN citations' : citations'[i].path \in Evidence
         /\ (\E i \in DOMAIN citations' : citations'[i].path \in NoisyPath)
              => Evidence \subseteq NoisyPath
         /\ Evidence # {} => citations' # <<>> /\ ShowsTop(citations'[1])
         /\ \A i, j \in DOMAIN citations' : i # j => citations'[i] # citations'[j]
  <1> DEFINE S == SortedCitations
             B == HighSignal(S)
             others == {i \in DOMAIN S : OfGraph(S[i]) /\ S[i] \notin ToSet(B)}
             A == Arranged(S, others, AsTheyCome(S))
             Z == citations'
  <1>1. Z = B \o A
    BY DEF Cite, OfGraph
  <1>2. SortedOnes(S)
    BY SortedAre
  <1> HIDE DEF S, Z
  <1>3. S \in Seq(Cited) /\ DOMAIN S = 1 .. Len(S) /\ Len(S) \in Nat
    BY <1>2 DEF SortedOnes
  <1>4. others \in SUBSET (DOMAIN S) /\ \A i \in others : OfGraph(S[i]) /\ S[i] \notin ToSet(B)
    OBVIOUS
  <1> HIDE DEF others
  <1>5. IsFiniteSet(others) /\ Orders(AsTheyCome(S), others)
    BY <1>3, <1>4, PlacesAreOrdered
  <1>6. \A i \in others : S[i] \in Cited
    BY <1>3, <1>4
  <1>7. OnceEach(A, S, others) /\ A \in Seq(Cited)
    BY <1>5, <1>6, ArrangedIs, ArrangedSequence
  <1> HIDE DEF A
  <1>8. /\ S = <<>> => B = <<>>
        /\ S # <<>> => \E j \in DOMAIN S : B = <<S[j]>> /\ ShowsTop(S[j])
    BY <1>2, BestIs
  <1> HIDE DEF B
  <1>9. B \in Seq(Cited) /\ (Len(B) = 0 <=> S = <<>>) /\ (Len(B) = 1 <=> S # <<>>)
        /\ DOMAIN B = 1 .. Len(B)
    <2>1. CASE S = <<>>
      BY <1>8, <2>1
    <2>2. CASE S # <<>>
      <3>1. PICK j \in DOMAIN S : B = <<S[j]>>
        BY <1>8, <2>2
      <3>2. S[j] \in Cited
        BY <1>3
      <3> QED BY <2>2, <3>1, <3>2
    <2> QED BY <2>1, <2>2
  <1>10. /\ Z \in Seq(Cited) /\ Len(Z) = Len(B) + Len(A)
         /\ \A i \in DOMAIN Z :
              \/ i \in DOMAIN B /\ Z[i] = B[i]
              \/ i \notin DOMAIN B /\ i - Len(B) \in DOMAIN A /\ Z[i] = A[i - Len(B)]
    BY <1>1, <1>7, <1>9, BehindIs
  <1>11. \A i \in DOMAIN B : i = 1 /\ \E j \in DOMAIN S : B[i] = S[j]
    <2> SUFFICES ASSUME NEW i \in DOMAIN B PROVE i = 1 /\ \E j \in DOMAIN S : B[i] = S[j]
      OBVIOUS
    <2>1. i = 1 /\ S # <<>>
      BY <1>9
    <2> QED BY <1>8, <2>1
  <1>12. \A i \in DOMAIN A : \E k \in others : A[i] = S[k]
    BY <1>7 DEF OnceEach
  <1>13. \A i \in DOMAIN Z : \E j \in DOMAIN S : Z[i] = S[j]
    BY <1>4, <1>10, <1>11, <1>12
  <1>14. \A i \in DOMAIN Z : Z[i].path \in Evidence
    BY <1>2, <1>13 DEF SortedOnes
  <1>15. (\E i \in DOMAIN Z : Z[i].path \in NoisyPath) => Evidence \subseteq NoisyPath
    BY <1>2, <1>13 DEF SortedOnes
  <1>16. ASSUME Evidence # {} PROVE Z # <<>> /\ ShowsTop(Z[1])
    <2>1. \E q \in Evidence : q \notin NoisyPath \/ Evidence \subseteq NoisyPath
      BY <1>16
    <2>2. \E j \in DOMAIN S : TRUE
      BY <1>2, <2>1 DEF SortedOnes
    <2>3. S # <<>>
      BY <1>3, <2>2
    <2>4. PICK j \in DOMAIN S : B = <<S[j]>> /\ ShowsTop(S[j])
      BY <1>8, <2>3
    <2>5. 1 \in DOMAIN Z /\ 1 \in DOMAIN B
      <3>1. Len(B) = 1 /\ Len(A) \in Nat /\ DOMAIN Z = 1 .. Len(Z)
        BY <1>7, <1>9, <1>10, <2>3
      <3> QED BY <1>9, <1>10, <3>1
    <2>6. Z[1] = B[1] /\ B[1] = S[j]
      BY <1>10, <2>4, <2>5
    <2> QED BY <2>4, <2>5, <2>6
  <1>17. ASSUME NEW i \in DOMAIN Z, NEW j \in DOMAIN Z, i \in DOMAIN B, j \notin DOMAIN B
         PROVE  Z[i] # Z[j]
    <2>1. Z[i] = B[i] /\ j - Len(B) \in DOMAIN A /\ Z[j] = A[j - Len(B)]
      BY <1>10, <1>17
    <2>2. Z[i] \in ToSet(B)
      BY <1>17, <2>1 DEF ToSet
    <2>3. Z[j] \notin ToSet(B)
      BY <1>4, <1>12, <2>1
    <2> QED BY <2>2, <2>3
  <1>18. ASSUME NEW i \in DOMAIN Z, NEW j \in DOMAIN Z, i # j, i \notin DOMAIN B, j \notin DOMAIN B
         PROVE  Z[i] # Z[j]
    <2>1. /\ i - Len(B) \in DOMAIN A /\ Z[i] = A[i - Len(B)]
          /\ j - Len(B) \in DOMAIN A /\ Z[j] = A[j - Len(B)]
      BY <1>10, <1>18
    <2>2. i - Len(B) # j - Len(B)
      <3>1. i \in Int /\ j \in Int /\ Len(B) \in Int
        BY <1>9, <1>10
      <3> QED BY <1>18, <3>1
    <2>3. PICK k \in others, l \in others : k # l /\ Z[i] = S[k] /\ Z[j] = S[l]
      <3>1. \A u, v \in DOMAIN A : u # v => \E k, l \in others : k # l /\ A[u] = S[k] /\ A[v] = S[l]
        BY <1>7 DEF OnceEach
      <3> QED BY <2>1, <2>2, <3>1
    <2> QED BY <1>2, <1>4, <2>3 DEF SortedOnes
  <1>19. \A i, j \in DOMAIN Z : i # j => Z[i] # Z[j]
    BY <1>11, <1>17, <1>18
  <1> QED BY <1>10, <1>14, <1>15, <1>16, <1>19 DEF Z
-----------------------------------------------------------------------------
LEMMA CiteKeeps ==
  ASSUME ContextIInv, Cite
  PROVE  ContextIInv'
  <1>1. ContextSequences /\ Cite
    BY DEF ContextIInv
  <1>2. /\ citations' \in Seq(Cited)
        /\ \A i \in DOMAIN citations' : citations'[i].path \in Evidence
        /\ (\E i \in DOMAIN citations' : citations'[i].path \in NoisyPath)
              => Evidence \subseteq NoisyPath
        /\ Evidence # {} => citations' # <<>> /\ ShowsTop(citations'[1])
        /\ \A i, j \in DOMAIN citations' : i # j => citations'[i] # citations'[j]
    BY <1>1, CitesTheEvidence
  <1>3. /\ at = "cite" /\ at' = "refine" /\ chunks' = chunks /\ raw' = raw /\ file' = file
        /\ semantic' = semantic /\ late' = late /\ place' = place /\ selected' = selected
        /\ edgesUsed' = edgesUsed /\ fallback' = fallback /\ context' = context
    BY DEF Cite
  <1>4. /\ Evidence = {chunks[j].path : j \in DOMAIN chunks} \union GraphPaths
        /\ GraphPaths' = GraphPaths /\ (Keys(selected))' = Keys(selected)
    BY <1>3 DEF Evidence, ChunkPaths, GraphPaths, Keys
  <1>5. chunks \in Seq(RankedChunk) /\ DOMAIN chunks = 1 .. Len(chunks)
    BY <1>1 DEF ContextSequences
  <1>6. CitationsAreEvidence'
    <2>1. Evidence = {} <=> chunks = <<>> /\ GraphPaths = {}
      BY <1>4, <1>5
    <2>2. citations' = <<>> <=> Evidence = {}
      <3>1. citations' # <<>> => \E i \in DOMAIN citations' : citations'[i].path \in Evidence
        <4>1. citations' # <<>> => 1 \in DOMAIN citations'
          BY <1>2
        <4> QED BY <1>2, <4>1
      <3> QED BY <1>2, <3>1
    <2>3. \A i \in DOMAIN citations' :
             citations'[i].path \in {chunks[j].path : j \in DOMAIN chunks} \union GraphPaths
      BY <1>2, <1>4
    <2> QED BY <1>3, <1>4, <2>1, <2>2, <2>3 DEF CitationsAreEvidence
  <1>7. CitationsAreClean'
    <2>1. (IsInjective(citations))'
      BY <1>2 DEF IsInjective
    <2> QED BY <1>2, <1>3, <1>4, <2>1 DEF CitationsAreClean
  <1>8. TopFileIsCited'
    <2>1. \A i \in DOMAIN chunks : Evidence # {}
      BY <1>4
    <2> QED BY <1>2, <1>3, <2>1 DEF TopFileIsCited, ShowsTop
  <1>9. BudgetsHold' /\ GraphIsNotLost' /\ ContextFits'
    BY <1>3, <1>4 DEF ContextIInv, EvidenceIsKept, BudgetsHold, GraphIsNotLost, ContextFits
  <1>10. ContextSequences' /\ ContextTypeOK' /\ LoopsStayInside' /\ UnboundedTakesAll'
    BY <1>3 DEF ContextIInv, ContextSequences, ContextTypeOK, LoopsStayInside, UnboundedTakesAll
  <1> QED BY <1>6, <1>7, <1>8, <1>9, <1>10 DEF ContextIInv, EvidenceIsKept
-----------------------------------------------------------------------------
(* Nothing is promised of citations and context before they are there. *)
LEMMA NothingCitedYet ==
  ASSUME at' \in {"raw", "file", "fallback", "boost", "cite"}
  PROVE  CitationsAreEvidence' /\ CitationsAreClean' /\ TopFileIsCited' /\ ContextFits'
  BY DEF CitationsAreEvidence, CitationsAreClean, TopFileIsCited, ContextFits

(* A record with a new key makes one more key. *)
LEMMA OneMoreKey ==
  ASSUME NEW s \in Seq(GraphRecord), NEW r \in GraphRecord, r.key \notin Keys(s),
         Cardinality(Keys(s)) = Len(s)
  PROVE  Cardinality(Keys(Append(s, r))) = Len(Append(s, r)) /\ Len(Append(s, r)) = Len(s) + 1
  <1>1. DOMAIN s = 1 .. Len(s) /\ Len(s) \in Nat
    OBVIOUS
  <1>2. /\ Append(s, r) \in Seq(GraphRecord) /\ Len(Append(s, r)) = Len(s) + 1
        /\ DOMAIN Append(s, r) = 1 .. Len(s) + 1
    OBVIOUS
  <1>3. Append(s, r)[Len(s) + 1] = r /\ \A i \in 1 .. Len(s) : Append(s, r)[i] = s[i]
    OBVIOUS
  <1>4. Keys(Append(s, r)) = Keys(s) \union {r.key}
    <2> DEFINE t == Append(s, r)
    <2>1. DOMAIN t = (DOMAIN s) \union {Len(s) + 1} /\ t[Len(s) + 1] = r
          /\ \A i \in DOMAIN s : t[i] = s[i]
      BY <1>1, <1>2, <1>3
    <2> HIDE DEF t
    <2>2. Keys(t) = Keys(s) \union {r.key}
      BY <2>1 DEF Keys
    <2> QED BY <2>2 DEF t
  <1>5. IsFiniteSet(Keys(s))
    <2>1. IsFiniteSet(DOMAIN s)
      BY <1>1, FS_Interval
    <2> DEFINE key == [i \in DOMAIN s |-> s[i].key]
    <2>2. key \in Surjection(DOMAIN s, Keys(s))
      BY DEF Surjection, Keys
    <2> QED BY <2>1, <2>2, FS_Surjection
  <1>6. Cardinality(Keys(s) \union {r.key}) = Cardinality(Keys(s)) + 1
    BY <1>5, FS_AddElement
  <1> QED BY <1>2, <1>4, <1>6

(* The first loop. *)
LEMMA TakeRawKeeps ==
  ASSUME ContextIInv, TakeRaw
  PROVE  ContextIInv'
  <1> DEFINE r == raw[place]
  <1>1. /\ at = "raw" /\ chunks' = chunks /\ raw' = raw /\ file' = file /\ semantic' = semantic
        /\ late' = late /\ fallback' = fallback /\ citations' = citations /\ context' = context
    BY DEF TakeRaw
  <1>2. /\ chunks \in Seq(RankedChunk) /\ raw \in Seq(GraphRecord) /\ file \in Seq(GraphRecord)
        /\ selected \in Seq(GraphRecord) /\ Len(raw) \in Nat /\ Len(file) \in Nat
        /\ place \in 1 .. Len(raw) + Len(file) + 1 /\ edgesUsed \in Nat
        /\ {semantic, late, fallback} \subseteq BOOLEAN
        /\ place <= Len(raw) + 1 /\ ~fallback
    BY <1>1 DEF ContextIInv, ContextSequences, ContextTypeOK, LoopsStayInside
  <1>3. MaxNodes \in Nat /\ MaxEdges \in Nat
    BY ContextAssumption
  <1>4. BudgetsHold /\ UnboundedTakesAll
    BY DEF ContextIInv, EvidenceIsKept
  <1>5. CASE place > Len(raw)
    <2>1. at' = "file" /\ place' = 1 /\ selected' = selected /\ edgesUsed' = edgesUsed
      BY <1>5 DEF TakeRaw
    <2>2. ContextSequences' /\ ContextTypeOK' /\ LoopsStayInside'
      BY <1>1, <1>2, <2>1 DEF ContextSequences, ContextTypeOK, LoopsStayInside
    <2>3. UnboundedTakesAll'
      <3>1. raw # <<>> => Len(raw) > 0
        BY <1>2
      <3>2. raw # <<>> => place > 1
        BY <1>2, <1>5, <3>1
      <3> QED BY <1>1, <1>4, <2>1, <3>2 DEF UnboundedTakesAll
    <2>4. BudgetsHold' /\ GraphIsNotLost'
      BY <1>1, <1>4, <2>1 DEF BudgetsHold, GraphIsNotLost, Keys
    <2> QED BY <2>1, <2>2, <2>3, <2>4, NothingCitedYet DEF ContextIInv, EvidenceIsKept
  <1>6. CASE ~(place > Len(raw))
    <2>1. at' = "raw" /\ place' = place + 1
      BY <1>1, <1>6 DEF TakeRaw
    <2>2. /\ place \in 1 .. Len(raw) /\ place + 1 <= Len(raw) + 1
          /\ place + 1 \in 1 .. Len(raw) + Len(file) + 1
      BY <1>2, <1>6
    <2>3. r \in GraphRecord /\ r.edges \in Nat
      <3>1. r \in GraphRecord
        BY <1>2, <2>2
      <3> HIDE DEF r
      <3> QED BY <3>1 DEF GraphRecord
    <2>4. LoopsStayInside'
      BY <1>1, <1>2, <2>1, <2>2 DEF LoopsStayInside
    <2>5. CASE OverBudget(r) \/ r.key \in Keys(selected)
      <3>1. selected' = selected /\ edgesUsed' = edgesUsed
        BY <1>6, <2>5 DEF TakeRaw
      <3>2. ContextSequences' /\ ContextTypeOK'
        BY <1>1, <1>2, <2>1, <2>2, <3>1 DEF ContextSequences, ContextTypeOK
      <3>3. UnboundedTakesAll'
        <4>1. ~semantic => selected # <<>>
          BY <2>5 DEF OverBudget, Keys
        <4> QED BY <1>1, <3>1, <4>1 DEF UnboundedTakesAll
      <3>4. BudgetsHold' /\ GraphIsNotLost'
        BY <1>1, <1>4, <2>1, <3>1 DEF BudgetsHold, GraphIsNotLost, Keys
      <3> QED BY <2>1, <2>4, <3>2, <3>3, <3>4, NothingCitedYet DEF ContextIInv, EvidenceIsKept
    <2>6. CASE ~(OverBudget(r) \/ r.key \in Keys(selected))
      <3>1. selected' = Append(selected, r) /\ edgesUsed' = edgesUsed + r.edges
        BY <1>6, <2>6 DEF TakeRaw
      <3>2. semantic => Len(selected) < MaxNodes /\ edgesUsed + r.edges <= MaxEdges
        <4>1. semantic => ~(Len(selected) >= MaxNodes) /\ ~(edgesUsed + r.edges > MaxEdges)
          BY <2>6 DEF OverBudget
        <4>2. Len(selected) \in Nat
          BY <1>2
        <4> HIDE DEF r
        <4> QED BY <1>2, <1>3, <2>3, <4>1, <4>2
      <3> HIDE DEF r
      <3>3. selected' \in Seq(GraphRecord) /\ Len(selected') = Len(selected) + 1
            /\ edgesUsed' \in Nat /\ selected' # <<>> /\ Len(selected) \in Nat
        BY <1>2, <2>3, <3>1
      <3>4. ContextSequences' /\ ContextTypeOK'
        BY <1>1, <1>2, <2>1, <2>2, <3>3 DEF ContextSequences, ContextTypeOK
      <3>5. UnboundedTakesAll' /\ GraphIsNotLost'
        BY <2>1, <3>3 DEF UnboundedTakesAll, GraphIsNotLost
      <3>6. BudgetsHold'
        <4>1. semantic => Cardinality(Keys(selected')) = Len(selected')
          BY <1>2, <1>4, <2>3, <2>6, <3>1, OneMoreKey DEF BudgetsHold
        <4>2. semantic => Len(selected') <= MaxNodes /\ edgesUsed' <= MaxEdges
          BY <1>3, <3>1, <3>2, <3>3
        <4>3. (Keys(selected))' = Keys(selected')
          BY DEF Keys
        <4> QED BY <1>1, <4>1, <4>2, <4>3 DEF BudgetsHold
      <3> QED BY <2>1, <2>4, <3>4, <3>5, <3>6, NothingCitedYet DEF ContextIInv, EvidenceIsKept
    <2> QED BY <2>5, <2>6
  <1> QED BY <1>5, <1>6

(* The second loop. *)
LEMMA TakeFileKeeps ==
  ASSUME ContextIInv, TakeFile
  PROVE  ContextIInv'
  <1> DEFINE r == file[place]
  <1>1. /\ at = "file" /\ chunks' = chunks /\ raw' = raw /\ file' = file /\ semantic' = semantic
        /\ late' = late /\ edgesUsed' = edgesUsed /\ fallback' = fallback
        /\ citations' = citations /\ context' = context
    BY DEF TakeFile
  <1>2. /\ chunks \in Seq(RankedChunk) /\ raw \in Seq(GraphRecord) /\ file \in Seq(GraphRecord)
        /\ selected \in Seq(GraphRecord) /\ Len(raw) \in Nat /\ Len(file) \in Nat
        /\ place \in 1 .. Len(raw) + Len(file) + 1 /\ edgesUsed \in Nat
        /\ {semantic, late, fallback} \subseteq BOOLEAN
        /\ place <= Len(file) + 1 /\ ~fallback
    BY <1>1 DEF ContextIInv, ContextSequences, ContextTypeOK, LoopsStayInside
  <1>3. MaxNodes \in Nat
    BY ContextAssumption
  <1>4. BudgetsHold /\ UnboundedTakesAll
    BY DEF ContextIInv, EvidenceIsKept
  <1>5. ASSUME selected' = selected, at' \in {"file", "fallback"}
        PROVE  UnboundedTakesAll' /\ BudgetsHold' /\ GraphIsNotLost'
    <2>1. at' # "raw" /\ at' \notin {"boost", "cite", "refine", "assemble", "end"}
      BY <1>5
    <2> QED BY <1>1, <1>4, <1>5, <2>1 DEF UnboundedTakesAll, BudgetsHold, GraphIsNotLost, Keys
  <1>6. CASE place > Len(file) \/ (semantic /\ (late \/ Len(selected) >= MaxNodes))
    <2>1. at' = "fallback" /\ place' = place /\ selected' = selected
      BY <1>6 DEF TakeFile
    <2>2. ContextSequences' /\ ContextTypeOK' /\ LoopsStayInside'
      BY <1>1, <1>2, <2>1 DEF ContextSequences, ContextTypeOK, LoopsStayInside
    <2> QED BY <1>5, <2>1, <2>2, NothingCitedYet DEF ContextIInv, EvidenceIsKept
  <1>7. CASE ~(place > Len(file) \/ (semantic /\ (late \/ Len(selected) >= MaxNodes)))
    <2>1. /\ at' = "file" /\ place' = place + 1
          /\ selected' = IF r.key \in Keys(selected) THEN selected ELSE Append(selected, r)
      BY <1>1, <1>7 DEF TakeFile
    <2>2. /\ place \in 1 .. Len(file) /\ place + 1 <= Len(file) + 1
          /\ place + 1 \in 1 .. Len(raw) + Len(file) + 1
      BY <1>2, <1>7
    <2>3. r \in GraphRecord
      BY <1>2, <2>2
    <2>4. semantic => Len(selected) < MaxNodes
      <3>1. Len(selected) \in Nat
        BY <1>2
      <3> QED BY <1>3, <1>7, <3>1
    <2>5. LoopsStayInside'
      BY <1>1, <1>2, <2>1, <2>2 DEF LoopsStayInside
    <2> HIDE DEF r
    <2>6. selected' \in Seq(GraphRecord)
      BY <1>2, <2>1, <2>3
    <2>7. ContextSequences' /\ ContextTypeOK'
      BY <1>1, <1>2, <2>1, <2>2, <2>6 DEF ContextSequences, ContextTypeOK
    <2>8. CASE r.key \in Keys(selected)
      BY <1>5, <2>1, <2>5, <2>7, <2>8, NothingCitedYet DEF ContextIInv, EvidenceIsKept
    <2>9. CASE r.key \notin Keys(selected)
      <3>1. selected' = Append(selected, r) /\ selected' # <<>> /\ Len(selected) \in Nat
            /\ Len(selected') = Len(selected) + 1
        BY <1>2, <2>1, <2>3, <2>9
      <3>2. UnboundedTakesAll' /\ GraphIsNotLost'
        BY <3>1 DEF UnboundedTakesAll, GraphIsNotLost
      <3>3. semantic => Cardinality(Keys(selected')) = Len(selected')
        BY <1>2, <1>4, <2>3, <2>9, <3>1, OneMoreKey DEF BudgetsHold
      <3>4. semantic => Len(selected') <= MaxNodes
        BY <1>3, <2>4, <3>1
      <3>5. (Keys(selected))' = Keys(selected')
        BY DEF Keys
      <3>6. BudgetsHold'
        BY <1>1, <1>2, <1>4, <3>3, <3>4, <3>5 DEF BudgetsHold
      <3> QED BY <2>1, <2>5, <2>7, <3>2, <3>6, NothingCitedYet DEF ContextIInv, EvidenceIsKept
    <2> QED BY <2>8, <2>9
  <1> QED BY <1>6, <1>7

(* The structural expansion that stands in when everything was pruned. *)
LEMMA ChunkFallbackKeeps ==
  ASSUME ContextIInv, ChunkFallback
  PROVE  ContextIInv'
  <1>1. /\ at = "fallback" /\ at' = "boost" /\ chunks' = chunks /\ raw' = raw /\ file' = file
        /\ semantic' = semantic /\ late' = late /\ place' = place
        /\ citations' = citations /\ context' = context
    BY DEF ChunkFallback
  <1>2. /\ chunks \in Seq(RankedChunk) /\ raw \in Seq(GraphRecord) /\ file \in Seq(GraphRecord)
        /\ selected \in Seq(GraphRecord)
        /\ place \in 1 .. Len(raw) + Len(file) + 1 /\ edgesUsed \in Nat
        /\ {semantic, late, fallback} \subseteq BOOLEAN /\ ~fallback
    BY <1>1 DEF ContextIInv, ContextSequences, ContextTypeOK, LoopsStayInside
  <1>3. MaxNodes \in Nat /\ MaxNodes > 0
    BY ContextAssumption
  <1>4. BudgetsHold /\ UnboundedTakesAll
    BY DEF ContextIInv, EvidenceIsKept
  <1>5. LoopsStayInside'
    BY <1>1 DEF LoopsStayInside
  <1>6. CASE semantic /\ selected = <<>> /\ raw # <<>>
    <2> DEFINE few == IF Len(raw) < MaxNodes THEN Len(raw) ELSE MaxNodes
               weights == [i \in DOMAIN selected' |-> selected'[i].edges]
    <2>1. fallback' = TRUE /\ selected' = SubSeq(raw, 1, few) /\ edgesUsed' = Sum(weights)
      BY <1>6 DEF ChunkFallback
    <2>2. Len(raw) \in Nat /\ Len(raw) > 0
      BY <1>2, <1>6
    <2>3. few \in 1 .. Len(raw) /\ few <= MaxNodes
      BY <1>3, <2>2
    <2> HIDE DEF few
    <2>4. selected' \in Seq(GraphRecord) /\ Len(selected') = few
      <3>1. \A n \in 1 .. Len(raw) : SubSeq(raw, 1, n) \in Seq(GraphRecord) /\ Len(SubSeq(raw, 1, n)) = n
        BY <1>2
      <3> QED BY <2>1, <2>3, <3>1
    <2>5. weights \in Seq(Nat)
      <3>1. \A e \in GraphRecord : e.edges \in Nat
        BY DEF GraphRecord
      <3>2. \A i \in DOMAIN selected' : selected'[i].edges \in Nat
        BY <2>4, <3>1
      <3> QED BY <2>4, <3>2
    <2> HIDE DEF weights
    <2>6. edgesUsed' \in Nat
      BY <2>1, <2>5, SmallSums
    <2>7. ContextSequences' /\ ContextTypeOK'
      BY <1>1, <1>2, <2>1, <2>4, <2>6 DEF ContextSequences, ContextTypeOK
    <2>8. selected' # <<>>
      BY <2>3, <2>4
    <2>9. UnboundedTakesAll' /\ GraphIsNotLost' /\ BudgetsHold'
      BY <2>1, <2>3, <2>4, <2>8 DEF UnboundedTakesAll, GraphIsNotLost, BudgetsHold
    <2> QED BY <1>1, <1>5, <2>7, <2>9, NothingCitedYet DEF ContextIInv, EvidenceIsKept
  <1>7. CASE ~(semantic /\ selected = <<>> /\ raw # <<>>)
    <2>1. selected' = selected /\ edgesUsed' = edgesUsed /\ fallback' = fallback
      BY <1>7 DEF ChunkFallback
    <2>2. ContextSequences' /\ ContextTypeOK'
      BY <1>1, <1>2, <2>1 DEF ContextSequences, ContextTypeOK
    <2>3. raw # <<>> => selected # <<>>
      BY <1>1, <1>2, <1>4, <1>7 DEF UnboundedTakesAll
    <2>4. UnboundedTakesAll' /\ GraphIsNotLost' /\ BudgetsHold'
      BY <1>1, <1>4, <2>1, <2>3 DEF UnboundedTakesAll, GraphIsNotLost, BudgetsHold, Keys
    <2> QED BY <1>1, <1>5, <2>2, <2>4, NothingCitedYet DEF ContextIInv, EvidenceIsKept
  <1> QED BY <1>6, <1>7

(* Time passes, and the chunks are put in their order. *)
LEMMA LateKeeps ==
  ASSUME ContextIInv, Late
  PROVE  ContextIInv'
  <1>1. /\ at \in {"raw", "file"} /\ at' = at /\ chunks' = chunks /\ raw' = raw /\ file' = file
        /\ semantic' = semantic /\ late' = TRUE /\ place' = place /\ edgesUsed' = edgesUsed
        /\ selected' = selected /\ fallback' = fallback
    BY DEF Late
  <1>2. ContextSequences' /\ ContextTypeOK' /\ LoopsStayInside' /\ UnboundedTakesAll'
    BY <1>1 DEF ContextIInv, ContextSequences, ContextTypeOK, LoopsStayInside, UnboundedTakesAll
  <1>3. BudgetsHold' /\ GraphIsNotLost'
    BY <1>1 DEF ContextIInv, EvidenceIsKept, BudgetsHold, GraphIsNotLost, Keys
  <1> QED BY <1>1, <1>2, <1>3, NothingCitedYet DEF ContextIInv, EvidenceIsKept

LEMMA BoostFilesKeeps ==
  ASSUME ContextIInv, BoostFiles
  PROVE  ContextIInv'
  <1>1. /\ at = "boost" /\ at' = "cite" /\ raw' = raw /\ file' = file
        /\ semantic' = semantic /\ late' = late /\ place' = place /\ edgesUsed' = edgesUsed
        /\ selected' = selected /\ fallback' = fallback
        /\ chunks' = IF selected = <<>> THEN chunks ELSE Ranked(Boosted, DOMAIN chunks)
    BY DEF BoostFiles
  <1>2. chunks \in Seq(RankedChunk) /\ raw \in Seq(GraphRecord) /\ file \in Seq(GraphRecord)
        /\ selected \in Seq(GraphRecord)
    BY DEF ContextIInv, ContextSequences
  <1>3. Boosted \in Seq(RankedChunk) /\ DOMAIN Boosted = DOMAIN chunks
    <2>1. \A c \in RankedChunk : [c EXCEPT !.score = @ + 28] \in RankedChunk
      BY DEF RankedChunk
    <2>2. \A i \in DOMAIN chunks : Boosted[i] \in RankedChunk
      BY <1>2, <2>1 DEF Boosted
    <2>3. DOMAIN Boosted = DOMAIN chunks /\ Boosted = [i \in DOMAIN chunks |-> Boosted[i]]
      BY DEF Boosted
    <2> QED BY <1>2, <2>2, <2>3
  <1>4. Ranked(Boosted, DOMAIN chunks) \in Seq(RankedChunk)
    <2>1. \A c \in RankedChunk : c.score \in Int
      BY DEF RankedChunk
    <2>2. \A i \in DOMAIN Boosted : Boosted[i].score \in Int /\ Boosted[i] \in RankedChunk
      BY <1>3, <2>1
    <2>3. DOMAIN chunks \in SUBSET (DOMAIN Boosted)
      BY <1>3
    <2>4. IsFiniteSet(DOMAIN chunks) /\ Orders(BestFirst(Boosted), DOMAIN chunks)
      BY <1>3, <2>2, <2>3, PlacesAreOrdered
    <2>5. \A i \in DOMAIN chunks : Boosted[i] \in RankedChunk
      BY <1>3, <2>2
    <2> QED BY <2>4, <2>5, ArrangedSequence DEF Ranked
  <1>5. ContextSequences'
    BY <1>1, <1>2, <1>4 DEF ContextSequences
  <1>6. ContextTypeOK' /\ LoopsStayInside' /\ UnboundedTakesAll'
    BY <1>1 DEF ContextIInv, ContextTypeOK, LoopsStayInside, UnboundedTakesAll
  <1>7. BudgetsHold' /\ GraphIsNotLost'
    BY <1>1 DEF ContextIInv, EvidenceIsKept, BudgetsHold, GraphIsNotLost, Keys
  <1> QED BY <1>1, <1>5, <1>6, <1>7, NothingCitedYet DEF ContextIInv, EvidenceIsKept

(* The lines of a symbol in the place of a whole file: the files shown stay the same. *)
LEMMA RefineKeeps ==
  ASSUME ContextIInv, Refine
  PROVE  ContextIInv'
  <1>1. /\ at = "refine" /\ at' = "assemble" /\ raw' = raw /\ file' = file
        /\ semantic' = semantic /\ late' = late /\ place' = place /\ edgesUsed' = edgesUsed
        /\ selected' = selected /\ fallback' = fallback /\ citations' = citations
    BY DEF Refine
  <1>2. chunks \in Seq(RankedChunk) /\ raw \in Seq(GraphRecord) /\ file \in Seq(GraphRecord)
        /\ selected \in Seq(GraphRecord)
    BY DEF ContextIInv, ContextSequences
  <1>3. /\ chunks' \in Seq(RankedChunk) /\ DOMAIN chunks' = DOMAIN chunks
        /\ (chunks' = <<>> <=> chunks = <<>>)
        /\ \A i \in DOMAIN chunks : chunks'[i].path = chunks[i].path
    <2>1. CASE chunks' = chunks
      BY <1>2, <2>1
    <2>2. CASE chunks # <<>> /\ chunks' = [chunks EXCEPT ![1].span = "symbol", ![1].size = 1]
      <3> DEFINE c == [chunks[1] EXCEPT !.span = "symbol", !.size = 1]
      <3>1. 1 \in DOMAIN chunks /\ chunks[1] \in RankedChunk
        BY <1>2, <2>2
      <3>2. \A q \in RankedChunk : LET w == [q EXCEPT !.span = "symbol", !.size = 1]
                                   IN  w \in RankedChunk /\ w.path = q.path
        BY DEF RankedChunk
      <3>3. c \in RankedChunk /\ c.path = chunks[1].path
        BY <3>1, <3>2
      <3>4. chunks' = [chunks EXCEPT ![1] = c]
        BY <2>2, <3>1
      <3> HIDE DEF c
      <3>5. DOMAIN chunks' = DOMAIN chunks /\ chunks'[1] = c
            /\ \A i \in DOMAIN chunks : i # 1 => chunks'[i] = chunks[i]
        BY <3>1, <3>4
      <3>6. chunks' \in Seq(RankedChunk) /\ chunks' # <<>>
        BY <1>2, <3>1, <3>3, <3>4
      <3> QED BY <2>2, <3>3, <3>5, <3>6
    <2> QED BY <2>1, <2>2 DEF Refine
  <1>4. ContextSequences'
    BY <1>1, <1>2, <1>3 DEF ContextSequences
  <1>5. ContextTypeOK' /\ LoopsStayInside' /\ UnboundedTakesAll'
    BY <1>1 DEF ContextIInv, ContextTypeOK, LoopsStayInside, UnboundedTakesAll
  <1>6. BudgetsHold' /\ GraphIsNotLost' /\ ContextFits'
    BY <1>1 DEF ContextIInv, EvidenceIsKept, BudgetsHold, GraphIsNotLost, ContextFits, Keys
  <1>7. /\ {chunks'[j].path : j \in DOMAIN chunks'} = {chunks[j].path : j \in DOMAIN chunks}
        /\ GraphPaths' = GraphPaths
    BY <1>1, <1>3 DEF GraphPaths
  <1>8. CitationsAreEvidence' /\ CitationsAreClean'
    BY <1>1, <1>3, <1>7 DEF ContextIInv, EvidenceIsKept, CitationsAreEvidence, CitationsAreClean, IsInjective
  <1>9. TopFileIsCited'
    <2>1. TopFileIsCited
      BY DEF ContextIInv, EvidenceIsKept
    <2>2. \A i \in DOMAIN chunks : 1 .. i - 1 \subseteq DOMAIN chunks
      BY <1>2
    <2> QED BY <1>1, <1>3, <2>1, <2>2 DEF TopFileIsCited
  <1> QED BY <1>4, <1>5, <1>6, <1>8, <1>9 DEF ContextIInv, EvidenceIsKept
-----------------------------------------------------------------------------
(* The parts of a context: chunks, then a header and the records of the graph. *)
Part == [of : STRING \union {"header", "record"}, size : Nat]

LEMMA SectionsAre == ContextSequences => Sections \in Seq(Part)
  <1> SUFFICES ASSUME ContextSequences PROVE Sections \in Seq(Part)
    OBVIOUS
  <1> DEFINE CS == [i \in DOMAIN chunks |-> [of |-> chunks[i].path, size |-> chunks[i].size]]
             few == IF Len(selected) < 50 THEN Len(selected) ELSE 50
             GS == [i \in 1 .. few |-> [of |-> "record", size |-> RecordSize]]
             HS == <<[of |-> "header", size |-> RecordSize]>>
  <1>1. chunks \in Seq(RankedChunk) /\ selected \in Seq(GraphRecord)
    BY DEF ContextSequences
  <1>2. RecordSize \in Nat
    BY ContextAssumption
  <1>3. CS \in Seq(Part)
    <2>1. \A c \in RankedChunk : [of |-> c.path, size |-> c.size] \in Part
      BY DEF RankedChunk, Part
    <2>2. \A i \in DOMAIN chunks : CS[i] \in Part
      BY <1>1, <2>1
    <2>3. DOMAIN CS = 1 .. Len(chunks) /\ CS = [i \in 1 .. Len(chunks) |-> CS[i]]
      BY <1>1
    <2> QED BY <1>1, <2>2, <2>3
  <1>4. [of |-> "header", size |-> RecordSize] \in Part /\ [of |-> "record", size |-> RecordSize] \in Part
    BY <1>2 DEF Part
  <1>5. few \in Nat
    BY <1>1
  <1> HIDE DEF few, CS
  <1>6. GS \in Seq(Part) /\ HS \in Seq(Part) /\ <<>> \in Seq(Part)
    BY <1>4, <1>5
  <1>7. Sections = CS \o (IF selected = <<>> THEN <<>> ELSE HS \o GS)
    BY DEF Sections, CS, few
  <1> HIDE DEF GS, HS
  <1> QED BY <1>3, <1>6, <1>7

(* The length of sections put together. *)
LEMMA JoinedIs ==
  /\ Joined(<<>>) = 0
  /\ \A e \in Part : Joined(<<e>>) = e.size
  /\ \A s \in Seq(Part) : Joined(s) \in Nat
  <1>1. Separator \in Nat
    BY ContextAssumption
  <1>2. Joined(<<>>) = 0
    <2>1. [i \in DOMAIN <<>> |-> <<>>[i].size] = <<>>
      OBVIOUS
    <2> QED BY <2>1, SmallSums DEF Joined
  <1>3. ASSUME NEW e \in Part PROVE Joined(<<e>>) = e.size
    <2>1. [i \in DOMAIN <<e>> |-> <<e>>[i].size] = <<e.size>>
      OBVIOUS
    <2>2. e.size \in Nat
      BY DEF Part
    <2>3. Sum(<<e.size>>) = e.size
      BY <2>2, SmallSums
    <2>4. <<e>> # <<>> /\ Separator * (Len(<<e>>) - 1) = 0
      <3>1. Len(<<e>>) - 1 = 0 /\ Separator * 0 = 0
        BY <1>1
      <3> QED BY <3>1
    <2>5. Joined(<<e>>) = Sum(<<e.size>>) + Separator * (Len(<<e>>) - 1)
      BY <2>1, <2>4 DEF Joined
    <2> QED BY <2>2, <2>3, <2>4, <2>5
  <1>4. ASSUME NEW s \in Seq(Part) PROVE Joined(s) \in Nat
    <2> DEFINE f == [i \in DOMAIN s |-> s[i].size]
               joints == IF s = <<>> THEN 0 ELSE Separator * (Len(s) - 1)
    <2>1. f \in Seq(Nat)
      <3>1. \A e \in Part : e.size \in Nat
        BY DEF Part
      <3>2. \A i \in DOMAIN s : s[i].size \in Nat
        BY <3>1
      <3> QED BY <3>2
    <2>2. joints \in Nat
      <3>1. s # <<>> => Len(s) - 1 \in Nat
        OBVIOUS
      <3>2. \A a, b \in Nat : a * b \in Nat
        OBVIOUS
      <3> QED BY <1>1, <3>1, <3>2
    <2>3. Joined(s) = Sum(f) + joints
      BY DEF Joined
    <2> HIDE DEF f, joints
    <2>4. Sum(f) \in Nat
      BY <2>1, SmallSums
    <2> QED BY <2>2, <2>3, <2>4
  <1> QED BY <1>2, <1>3, <1>4

(* The sections that are kept of too many: as many as fit. *)
LEMMA KeptIs ==
  ASSUME ContextSequences, Joined(Sections) > MaxChars
  PROVE  /\ Sections # <<>> /\ Kept \in 0 .. Len(Sections)
         /\ Joined(SubSeq(Sections, 1, Kept)) <= MaxChars
  <1> DEFINE S == Sections
             L == Len(S)
             over == {n \in 0 .. L : Joined(SubSeq(S, 1, n)) > MaxChars}
             m == Min(over)
  <1>1. S \in Seq(Part) /\ L \in Nat
    BY SectionsAre
  <1>2. MaxChars \in Nat
    BY ContextAssumption
  <1>3. S # <<>>
    BY <1>2, JoinedIs
  <1> HIDE DEF S
  <1>4. SubSeq(S, 1, L) = S /\ SubSeq(S, 1, 0) = <<>>
    BY <1>1
  <1>5. Joined(S) > MaxChars
    BY DEF S
  <1>6. L \in over /\ 0 \notin over
    <2>1. L \in 0 .. L /\ 0 \in 0 .. L
      BY <1>1
    <2>2. Joined(SubSeq(S, 1, L)) > MaxChars
      BY <1>4, <1>5
    <2>3. ~(Joined(SubSeq(S, 1, 0)) > MaxChars)
      <3>1. Joined(SubSeq(S, 1, 0)) = 0
        BY <1>4, JoinedIs, Zenon
      <3> QED BY <1>2, <3>1
    <2> QED BY <2>1, <2>2, <2>3
  <1>7. over \in SUBSET Nat /\ over # {}
    BY <1>6
  <1>8. m \in over /\ \A y \in over : m <= y
    BY <1>7, SmallestOf
  <1> HIDE DEF m, over
  <1>9. m \in 0 .. L /\ m # 0
    BY <1>6, <1>8 DEF over
  <1>10. m - 1 \in 0 .. L /\ m - 1 \notin over /\ (m - 1) + 1 = m
    BY <1>1, <1>7, <1>8, <1>9
  <1>11. \A n \in 0 .. L : SubSeq(S, 1, n) \in Seq(Part) /\ Joined(SubSeq(S, 1, n)) \in Nat
    <2> SUFFICES ASSUME NEW n \in 0 .. L
                 PROVE  SubSeq(S, 1, n) \in Seq(Part) /\ Joined(SubSeq(S, 1, n)) \in Nat
      OBVIOUS
    <2>1. SubSeq(S, 1, n) \in Seq(Part)
      BY <1>1
    <2> QED BY <2>1, JoinedIs
  <1>12. Joined(SubSeq(S, 1, m - 1)) <= MaxChars
    <2>1. ~(Joined(SubSeq(S, 1, m - 1)) > MaxChars)
      BY <1>10 DEF over
    <2> QED BY <1>2, <1>10, <1>11, <2>1
  <1>13. Joined(SubSeq(S, 1, (m - 1) + 1)) > MaxChars
    BY <1>8, <1>10 DEF over
  <1>14. \E n \in 0 .. L : /\ Joined(SubSeq(S, 1, n)) <= MaxChars
                           /\ n = L \/ Joined(SubSeq(S, 1, n + 1)) > MaxChars
    BY <1>10, <1>12, <1>13
  <1>15. Kept \in 0 .. L /\ Joined(SubSeq(S, 1, Kept)) <= MaxChars
    BY <1>14 DEF Kept, S
  <1> QED BY <1>3, <1>15 DEF S

(* The context that is built fits. *)
LEMMA AssembleKeeps ==
  ASSUME ContextIInv, AssembleContext
  PROVE  ContextIInv'
  <1>1. /\ at = "assemble" /\ at' = "end" /\ chunks' = chunks /\ raw' = raw /\ file' = file
        /\ semantic' = semantic /\ late' = late /\ place' = place /\ edgesUsed' = edgesUsed
        /\ selected' = selected /\ fallback' = fallback /\ citations' = citations
    BY DEF AssembleContext
  <1>2. Sections' = Sections
    BY <1>1 DEF Sections
  <1>3. ContextSequences
    BY DEF ContextIInv
  <1>4. Sections \in Seq(Part) /\ DOMAIN Sections = 1 .. Len(Sections) /\ Len(Sections) \in Nat
    BY <1>3, SectionsAre
  <1>5. MaxChars \in Nat
    BY ContextAssumption
  <1>6. /\ Joined(context') <= MaxChars
        /\ \A i \in DOMAIN context' : context'[i].of = Sections[i].of
        /\ context' = <<>> => Sections = <<>> \/ MaxChars = 0
    <2>1. CASE Joined(Sections) <= MaxChars
      BY <2>1 DEF AssembleContext
    <2>2. CASE ~(Joined(Sections) <= MaxChars) /\ MaxChars = 0
      <3>1. context' = <<>>
        BY <2>2 DEF AssembleContext
      <3>2. Joined(context') = 0 /\ DOMAIN context' = {}
        BY <3>1, JoinedIs
      <3> QED BY <2>2, <3>2
    <2>3. CASE ~(Joined(Sections) <= MaxChars) /\ MaxChars # 0
      <3>1. Joined(Sections) > MaxChars
        <4>1. Joined(Sections) \in Nat
          BY <1>4, JoinedIs
        <4> QED BY <1>5, <2>3, <4>1
      <3>2. /\ Sections # <<>> /\ Kept \in 0 .. Len(Sections)
            /\ Joined(SubSeq(Sections, 1, Kept)) <= MaxChars
        BY <1>3, <3>1, KeptIs
      <3>3. CASE Kept > 0
        <4>1. context' = SubSeq(Sections, 1, Kept)
          BY <2>3, <3>3 DEF AssembleContext
        <4>2. /\ Len(context') = Kept /\ DOMAIN context' = 1 .. Kept /\ Kept \in Nat
              /\ \A i \in 1 .. Kept : context'[i] = Sections[i]
          BY <1>4, <3>2, <4>1
        <4>3. context' # <<>>
          BY <3>3, <4>2
        <4> QED BY <3>2, <4>1, <4>2, <4>3
      <3>4. CASE ~(Kept > 0)
        <4> DEFINE e == [Sections[1] EXCEPT !.size = MaxChars]
        <4>1. context' = <<e>>
          BY <2>3, <3>4 DEF AssembleContext
        <4>2. Sections[1] \in Part
          BY <1>4, <3>2
        <4>3. e \in Part /\ e.of = Sections[1].of /\ e.size = MaxChars
          BY <1>5, <4>2 DEF Part
        <4> HIDE DEF e
        <4>4. Joined(context') = MaxChars
          BY <4>1, <4>3, JoinedIs
        <4>5. DOMAIN context' = {1} /\ context'[1] = e /\ context' # <<>>
          BY <4>1
        <4> QED BY <1>5, <4>3, <4>4, <4>5
      <3> QED BY <3>3, <3>4
    <2> QED BY <2>1, <2>2, <2>3
  <1>7. ContextFits'
    <2>1. Joined(context)' = Joined(context')
      BY DEF Joined, Sum
    <2> QED BY <1>2, <1>6, <2>1 DEF ContextFits
  <1>8. ContextSequences' /\ ContextTypeOK' /\ LoopsStayInside' /\ UnboundedTakesAll'
    BY <1>1 DEF ContextIInv, ContextSequences, ContextTypeOK, LoopsStayInside, UnboundedTakesAll
  <1>9. BudgetsHold' /\ GraphIsNotLost'
    BY <1>1 DEF ContextIInv, EvidenceIsKept, BudgetsHold, GraphIsNotLost, Keys
  <1>10. CitationsAreEvidence' /\ CitationsAreClean' /\ TopFileIsCited'
    BY <1>1 DEF ContextIInv, EvidenceIsKept, CitationsAreEvidence, CitationsAreClean,
                TopFileIsCited, GraphPaths, IsInjective
  <1> QED BY <1>7, <1>8, <1>9, <1>10 DEF ContextIInv, EvidenceIsKept

LEMMA ContextKeeps ==
  ASSUME ContextIInv, [ContextNext]_contextVars
  PROVE  ContextIInv'
  <1>1. CASE UNCHANGED contextVars
    <2>0. /\ chunks' = chunks /\ raw' = raw /\ file' = file /\ semantic' = semantic
          /\ late' = late /\ place' = place /\ selected' = selected /\ edgesUsed' = edgesUsed
          /\ fallback' = fallback /\ citations' = citations /\ context' = context /\ at' = at
      BY <1>1 DEF contextVars
    <2>1. ContextSequences' /\ ContextTypeOK' /\ LoopsStayInside' /\ UnboundedTakesAll'
      BY <2>0 DEF ContextIInv, ContextSequences, ContextTypeOK, LoopsStayInside,
                  UnboundedTakesAll
    <2>2. BudgetsHold' /\ GraphIsNotLost'
      BY <2>0 DEF ContextIInv, EvidenceIsKept, BudgetsHold, GraphIsNotLost, Keys
    <2>3. CitationsAreEvidence' /\ CitationsAreClean' /\ TopFileIsCited'
      <3>1. GraphPaths' = GraphPaths /\ (IsInjective(citations))' = IsInjective(citations)
        BY <2>0 DEF GraphPaths, IsInjective
      <3> QED BY <2>0, <3>1 DEF ContextIInv, EvidenceIsKept, CitationsAreEvidence,
                    CitationsAreClean, TopFileIsCited
    <2>4. ContextFits'
      <3>1. Sections' = Sections
        BY <2>0 DEF Sections
      <3>2. (Joined(context))' = Joined(context')
        BY DEF Joined, Sum
      <3> QED BY <2>0, <3>1, <3>2 DEF ContextIInv, EvidenceIsKept, ContextFits
    <2> QED BY <2>1, <2>2, <2>3, <2>4 DEF ContextIInv, EvidenceIsKept
  <1> QED BY <1>1, LateKeeps, TakeRawKeeps, TakeFileKeeps, ChunkFallbackKeeps, BoostFilesKeeps,
             CiteKeeps, RefineKeeps, AssembleKeeps DEF ContextNext

LEMMA ContextStarts ==
  ASSUME ContextInit \/ ContextStart(<<>>, <<>>, <<>>, FALSE)
  PROVE  ContextIInv
  <1>1. PICK c \in Seq(RankedChunk), r \in Seq(GraphRecord), f \in Seq(GraphRecord),
             s \in BOOLEAN : ContextStart(c, r, f, s)
    <2>1. <<>> \in Seq(RankedChunk) /\ <<>> \in Seq(GraphRecord)
      OBVIOUS
    <2>2. Rankings \subseteq Seq(RankedChunk) /\ RawRecords \subseteq Seq(GraphRecord)
          /\ FileRecords \subseteq Seq(GraphRecord)
      BY ContextAssumption
    <2>3. ContextInit => \E c \in Rankings, r \in RawRecords, f \in FileRecords, s \in BOOLEAN :
                            ContextStart(c, r, f, s)
      BY DEF ContextInit
    <2> QED BY <2>1, <2>2, <2>3
  <1>2. /\ chunks = c /\ raw = r /\ file = f /\ semantic = s /\ late = FALSE /\ place = 1
        /\ selected = <<>> /\ edgesUsed = 0 /\ fallback = FALSE /\ at = "raw"
    BY <1>1 DEF ContextStart
  <1>3. Len(raw) \in Nat /\ Len(file) \in Nat
    BY <1>2
  <1>4. ContextSequences /\ ContextTypeOK /\ LoopsStayInside /\ UnboundedTakesAll
    <2>1. 1 \in 1 .. Len(raw) + Len(file) + 1 /\ 1 <= Len(raw) + 1 /\ ~(1 > 1)
      BY <1>3
    <2>2. ContextSequences /\ ContextTypeOK
      <3>1. <<>> \in Seq(GraphRecord)
        OBVIOUS
      <3> QED BY <1>2, <2>1, <3>1 DEF ContextSequences, ContextTypeOK
    <2> QED BY <1>2, <2>1, <2>2 DEF LoopsStayInside, UnboundedTakesAll
  <1>5. BudgetsHold
    <2>1. Keys(<<>>) = {} /\ Len(<<>>) = 0
      BY DEF Keys
    <2>2. Cardinality({}) = 0
      BY FS_EmptySet
    <2>3. MaxNodes \in Nat /\ MaxEdges \in Nat
      BY ContextAssumption
    <2>4. 0 <= MaxNodes /\ 0 <= MaxEdges
      BY <2>3
    <2> QED BY <1>2, <2>1, <2>2, <2>4 DEF BudgetsHold
  <1> QED BY <1>2, <1>4, <1>5 DEF ContextIInv, EvidenceIsKept, GraphIsNotLost,
        CitationsAreEvidence, CitationsAreClean, TopFileIsCited, ContextFits

(* The evidence of an answer: its inductive invariant holds in every run, for every ranking,
   every answer of the graph, every budget and every size. *)
THEOREM ContextInvariance == ContextSpec => []ContextIInv
  BY ContextStarts, ContextKeeps, PTL DEF ContextSpec

(* What a question answers with is kept: the expansion over the graph stays in its budgets
   without losing the graph, the citations are of chunks or of records of the graph, once each,
   clear of noise where they can be and with the best file first, and the context fits
   (expand_symbols, finalize_graph_enrichment, select_high_signal_citations,
   assemble_context). *)
THEOREM EvidenceHolds == MCSpec => []EvidenceIsKept
  <1>1. MCInit => ContextIInv
    BY ContextStarts DEF MCInit
  <1>2. [MCNext]_mcVars => [ContextNext]_contextVars
    BY DEF MCNext, mcVars
  <1>3. ContextIInv /\ [MCNext]_mcVars => ContextIInv'
    BY <1>2, ContextKeeps
  <1>4. ContextIInv => EvidenceIsKept
    BY DEF ContextIInv
  <1> QED BY <1>1, <1>3, <1>4, PTL DEF MCSpec

-----------------------------------------------------------------------------
(* A finite set of numbers has a greatest one. *)
LEMMA GreatestOf ==
  ASSUME NEW T \in SUBSET Nat, IsFiniteSet(T), T # {}
  PROVE  MaxOf(T) \in T /\ \A x \in T : x <= MaxOf(T)
  <1> DEFINE HasMax(S) == \E m \in S : \A x \in S : x <= m
             H == {n \in Nat : \A S \in SUBSET Nat :
                      IsFiniteSet(S) /\ Cardinality(S) = n + 1 => HasMax(S)}
  <1>1. 0 \in H
    <2> SUFFICES ASSUME NEW S \in SUBSET Nat, IsFiniteSet(S), Cardinality(S) = 1
                 PROVE  HasMax(S)
      OBVIOUS
    <2>1. \E x : S = {x}
      BY FS_Singleton
    <2> QED BY <2>1
  <1>2. ASSUME NEW n \in H PROVE n + 1 \in H
    <2> SUFFICES ASSUME NEW S \in SUBSET Nat, IsFiniteSet(S), Cardinality(S) = (n + 1) + 1
                 PROVE  HasMax(S)
      OBVIOUS
    <2>1. S # {}
      BY FS_EmptySet
    <2>2. PICK x \in S : TRUE
      BY <2>1
    <2>3. IsFiniteSet(S \ {x}) /\ Cardinality(S \ {x}) = Cardinality(S) - 1
      BY FS_RemoveElement
    <2>4. S \ {x} \in SUBSET Nat /\ Cardinality(S \ {x}) = n + 1
      BY <2>3
    <2>5. HasMax(S \ {x})
      BY <2>3, <2>4
    <2>6. PICK m \in S \ {x} : \A y \in S \ {x} : y <= m
      BY <2>5
    <2>7. CASE x <= m
      BY <2>6, <2>7
    <2>8. CASE ~(x <= m)
      <3>1. \A y \in S : y <= x
        BY <2>6, <2>8
      <3> QED BY <3>1
    <2> QED BY <2>7, <2>8
  <1> HIDE DEF H
  <1>3. H = Nat
    <2>1. H \in SUBSET Nat
      BY DEF H
    <2> QED BY <1>1, <1>2, <2>1, NumbersFollow
  <1>4. Cardinality(T) \in Nat /\ Cardinality(T) # 0
    BY FS_CardinalityType, FS_EmptySet
  <1>5. Cardinality(T) - 1 \in H /\ (Cardinality(T) - 1) + 1 = Cardinality(T)
    BY <1>3, <1>4
  <1>6. HasMax(T)
    BY <1>5 DEF H
  <1> QED BY <1>6 DEF MaxOf

(* What the identifier of the question adds to a chunk and takes from it. *)
LEMMA AdjustmentIs ==
  ASSUME NEW f \in Features
  PROVE  /\ Adjustment(f) \in -85 .. 265
         /\ focus # "none" /\ f.symbol /\ (f.text \/ f.key) => Adjustment(f) >= 105
         /\ ~Match(f) => Adjustment(f) <= 0
  <1> DEFINE V(rule, weight) == IF rule THEN weight ELSE 0
             exact == focus = "exact"
             match == f.symbol \/ f.text \/ f.path
  <1>1. /\ f.symbol \in BOOLEAN /\ f.text \in BOOLEAN /\ f.path \in BOOLEAN
        /\ f.within \in BOOLEAN /\ f.config \in BOOLEAN /\ f.key \in BOOLEAN
        /\ f.test \in BOOLEAN
    BY DEF Features
  <1>2. Adjustment(f) = IF focus = "none" THEN 0 ELSE
          V(f.symbol, IF exact THEN 100 ELSE 80) + V(f.text, IF exact THEN 55 ELSE 40)
          + V(f.path, IF exact THEN 40 ELSE 28) + V(f.config /\ match, 35)
          + V(f.key /\ f.symbol, 25) + V(f.within /\ f.symbol, 10)
          - V(~f.config /\ ~match, 50) - V(f.test /\ ~match, 35)
    BY DEF Adjustment, Match
  <1> QED BY <1>1, <1>2 DEF Match

(* The points of a chunk for its similarity, and for its words. *)
VectorPoints(near, i) == IF i \in near THEN (55 * vectorHits[i]) \div 100 ELSE 0
LexicalPoints(worded, i) ==
    LET best == MaxOf({lexicalHits[k] : k \in worded} \union {0})
    IN  IF i \in worded /\ best > 0 THEN (45 * lexicalHits[i]) \div best ELSE 0

LEMMA BestOfLexical ==
  ASSUME FusionTypes, NEW worded \in SUBSET Id
  PROVE  LET best == MaxOf({lexicalHits[k] : k \in worded} \union {0})
         IN  best \in Nat /\ \A k \in worded : lexicalHits[k] \in 0 .. best
  <1> DEFINE S == {lexicalHits[k] : k \in worded}
             T == S \union {0}
             hit == [k \in worded |-> lexicalHits[k]]
  <1>1. lexicalHits \in [Id -> Nat]
    BY DEF FusionTypes
  <1>2. IsFiniteSet(worded)
    BY FusionAssumption, FS_Subset
  <1>3. hit \in Surjection(worded, S)
    BY DEF Surjection
  <1>4. IsFiniteSet(S)
    BY <1>2, <1>3, FS_Surjection
  <1>5. IsFiniteSet(T)
    BY <1>4, FS_AddElement
  <1>6. T \in SUBSET Nat /\ T # {} /\ \A k \in worded : lexicalHits[k] \in T
    BY <1>1
  <1> HIDE DEF T
  <1>7. MaxOf(T) \in T /\ \A x \in T : x <= MaxOf(T)
    BY <1>5, <1>6, GreatestOf
  <1>8. MaxOf(T) \in Nat /\ \A k \in worded : lexicalHits[k] \in 0 .. MaxOf(T)
    <2>1. MaxOf(T) \in Nat
      BY <1>6, <1>7
    <2>2. \A k \in worded : lexicalHits[k] \in Nat /\ lexicalHits[k] <= MaxOf(T)
      BY <1>6, <1>7
    <2> QED BY <2>1, <2>2
  <1> QED BY <1>8 DEF T

LEMMA FusedIs ==
  ASSUME FusionTypes, NEW near \in SUBSET Id, NEW worded \in SUBSET Id
  PROVE  /\ \A i \in Id : VectorPoints(near, i) \in 0 .. 55 /\ LexicalPoints(worded, i) \in 0 .. 45
         /\ \A i \in near \union worded :
              Fused(near, worded)[i]
                = VectorPoints(near, i) + LexicalPoints(worded, i) + Adjustment(chunk[i])
         /\ Fused(near, worded) \in [Id -> -85 .. 365]
  <1>1. \A i \in Id : vectorHits[i] \in 0 .. 100 /\ chunk[i] \in Features
    <2>1. vectorHits \in [Id -> Similarity \union {0}] /\ chunk \in [Id -> Features]
      BY DEF FusionTypes
    <2>2. Similarity \union {0} \subseteq 0 .. 100
      BY FusionAssumption
    <2> QED BY <2>1, <2>2
  <1>2. \A n \in 0 .. 100 : (55 * n) \div 100 \in 0 .. 55
    OBVIOUS
  <1>3. \A i \in Id : VectorPoints(near, i) \in 0 .. 55
    BY <1>1, <1>2 DEF VectorPoints
  <1>4. \A i \in Id : LexicalPoints(worded, i) \in 0 .. 45
    <2> DEFINE best == MaxOf({lexicalHits[k] : k \in worded} \union {0})
    <2>1. best \in Nat /\ \A k \in worded : lexicalHits[k] \in 0 .. best
      BY BestOfLexical
    <2>2. \A b \in Nat : \A n \in 0 .. b : b > 0 => (45 * n) \div b \in 0 .. 45
      OBVIOUS
    <2>3. \A i \in Id : LexicalPoints(worded, i)
                          = IF i \in worded /\ best > 0 THEN (45 * lexicalHits[i]) \div best ELSE 0
      BY DEF LexicalPoints
    <2> HIDE DEF best
    <2> QED BY <2>1, <2>2, <2>3
  <1>5. Fused(near, worded) =
          [i \in Id |-> IF i \in near \union worded
                        THEN VectorPoints(near, i) + LexicalPoints(worded, i)
                             + Adjustment(chunk[i]) ELSE 0]
    BY DEF Fused, VectorPoints, LexicalPoints
  <1>6. \A i \in Id : Adjustment(chunk[i]) \in -85 .. 265
    BY <1>1, AdjustmentIs
  <1>7. \A i \in Id : VectorPoints(near, i) + LexicalPoints(worded, i) + Adjustment(chunk[i])
                        \in -85 .. 365
    <2>1. \A x \in 0 .. 55, y \in 0 .. 45, z \in -85 .. 265 : x + y + z \in -85 .. 365
      OBVIOUS
    <2> QED BY <1>3, <1>4, <1>6, <2>1
  <1> QED BY <1>3, <1>4, <1>5, <1>7

(* The first n of a set that has no more are all of it; never more are taken. *)
LEMMA FirstAre ==
  ASSUME NEW f, NEW ids, IsFiniteSet(ids), NEW n \in Nat, NEW S \in FirstBy(f, ids, n)
  PROVE  /\ S \subseteq ids /\ Cardinality(S) <= n
         /\ Cardinality(ids) <= n => S = ids
         /\ \A i \in S, j \in ids \ S : f[j] <= f[i]
  <1>1. /\ S \subseteq ids /\ \A i \in S, j \in ids \ S : f[j] <= f[i]
        /\ Cardinality(S) = IF Cardinality(ids) < n THEN Cardinality(ids) ELSE n
    BY DEF FirstBy
  <1>2. Cardinality(ids) \in Nat
    BY FS_CardinalityType
  <1>3. Cardinality(S) <= n /\ (Cardinality(ids) <= n => Cardinality(S) = Cardinality(ids))
    BY <1>1, <1>2
  <1>4. Cardinality(S) = Cardinality(ids) => S = ids
    BY <1>1, FS_Subset
  <1> QED BY <1>1, <1>3, <1>4

(* What is found is of the repository, and finite. *)
LEMMA FoundIs ==
  ASSUME NEW f
  PROVE  Found(f) \subseteq Id /\ IsFiniteSet(Found(f)) /\ Cardinality(Found(f)) <= Cardinality(Id)
         /\ CandidateTopN \in Nat
  <1>1. IsFiniteSet(Id) /\ TopN \in Nat /\ Widened \in Nat
    BY FusionAssumption
  <1>2. Found(f) \subseteq Id
    BY DEF Found
  <1> QED BY <1>1, <1>2, FS_Subset DEF CandidateTopN

LEMMA FusionStarts ==
  ASSUME FusionInit \/ FusionRests
  PROVE  FusionIInv
  <1>1. /\ score = [i \in Id |-> 0] /\ ranking = {} /\ importers = {}
        /\ focus \in {"none", "inside", "exact"}
    BY DEF FusionInit, FusionRests
  <1>2. /\ chunk \in [Id -> Features]
        /\ \A i \in Id : chunk[i].symbol => chunk[i].text \/ chunk[i].key
        /\ vectorHits \in [Id -> Similarity \union {0}] /\ lexicalHits \in [Id -> Nat]
    <2>1. CASE FusionInit
      <3>1. /\ Shape \subseteq Features /\ (\A f \in Shape : f.symbol => f.text \/ f.key)
            /\ LexicalScore \subseteq Nat
        BY FusionAssumption
      <3>2. /\ chunk \in [Id -> Shape] /\ vectorHits \in [Id -> Similarity]
            /\ lexicalHits \in [Id -> LexicalScore]
        BY <2>1 DEF FusionInit
      <3> QED BY <3>1, <3>2
    <2>2. CASE FusionRests
      <3>1. NoShape \in Features /\ (NoShape.symbol => NoShape.text)
        BY DEF NoShape, Features
      <3>2. /\ chunk = [i \in Id |-> NoShape]
            /\ vectorHits = [i \in Id |-> 0] /\ lexicalHits = [i \in Id |-> 0]
        BY <2>2 DEF FusionRests
      <3> QED BY <3>1, <3>2
    <2> QED BY <2>1, <2>2
  <1>3. FusionTypeOK
    <2>1. TopN \in Nat /\ Cardinality({}) = 0
      BY FusionAssumption, FS_EmptySet
    <2>2. Cardinality(ranking) <= TopN
      BY <1>1, <2>1
    <2> QED BY <1>1, <2>2 DEF FusionTypeOK
  <1>4. FusionTypes
    BY <1>1, <1>2 DEF FusionTypes
  <1> QED BY <1>1, <1>3, <1>4 DEF FusionIInv

LEMMA FuseKeeps ==
  ASSUME FusionIInv, Fuse
  PROVE  FusionIInv'
  <1>1. /\ ranking = {} /\ importers = {} /\ chunk' = chunk /\ focus' = focus
        /\ vectorHits' = vectorHits /\ lexicalHits' = lexicalHits /\ importers' = importers
    BY DEF Fuse
  <1>2. PICK near \in FirstBy(vectorHits, Found(vectorHits), CandidateTopN),
             worded \in FirstBy(lexicalHits, Found(lexicalHits), CandidateTopN) :
          /\ score' = Fused(near, worded)
          /\ ranking' \in FirstBy(score', near \union worded, TopN)
    BY DEF Fuse
  <1>3. FusionTypeOK /\ FusionTypes
    BY DEF FusionIInv
  <1>4. near \in SUBSET Id /\ worded \in SUBSET Id
    BY FirstAre, FoundIs
  <1>5. IsFiniteSet(near \union worded) /\ TopN \in Nat
    BY <1>4, FusionAssumption, FS_Subset
  <1>6. ranking' \subseteq near \union worded /\ Cardinality(ranking') <= TopN
    BY <1>2, <1>5, FirstAre
  <1>7. score' \in [Id -> -85 .. 365]
    BY <1>2, <1>3, <1>4, FusedIs
  <1>8. FusionTypeOK' /\ FusionTypes'
    BY <1>1, <1>3, <1>4, <1>6, <1>7 DEF FusionTypeOK, FusionTypes
  <1>9. WasCut'
    <2>1. /\ FirstBy(vectorHits, Found(vectorHits), CandidateTopN)'
               = FirstBy(vectorHits, Found(vectorHits), CandidateTopN)
          /\ FirstBy(lexicalHits, Found(lexicalHits), CandidateTopN)'
               = FirstBy(lexicalHits, Found(lexicalHits), CandidateTopN)
      BY <1>1 DEF FirstBy, Found, CandidateTopN
    <2>2. Fused(near, worded)' = Fused(near, worded)
      BY <1>1 DEF Fused, MaxOf, Adjustment
    <2>3. FirstBy(score, near \union worded, TopN)' = FirstBy(score', near \union worded, TopN)
      BY DEF FirstBy
    <2> QED BY <1>2, <2>1, <2>2, <2>3 DEF WasCut
  <1> QED BY <1>1, <1>8, <1>9 DEF FusionIInv

LEMMA SeedBoostKeeps ==
  ASSUME FusionIInv, SeedBoost
  PROVE  FusionIInv'
  <1>1. /\ ranking # {} /\ importers = {} /\ chunk' = chunk /\ focus' = focus
        /\ ranking' = ranking
        /\ vectorHits' = [i \in Id |-> 0] /\ lexicalHits' = [i \in Id |-> 0]
    BY DEF SeedBoost
  <1>2. PICK matched \in (SUBSET Id) \ {{}}, m \in {1, 9} :
          /\ importers' = matched
          /\ score' = [i \in Id |-> IF i \in ranking \intersect matched
                                    THEN score[i] + Boost(m, chunk[i].text) ELSE score[i]]
    BY DEF SeedBoost
  <1>3. FusionTypeOK /\ FusionTypes /\ score \in [Id -> -85 .. 365]
    BY <1>1 DEF FusionIInv, FusionTypes
  <1>4. \A b \in BOOLEAN : Boost(m, b) \in 0 .. 60
    BY DEF Boost
  <1>5. \A i \in Id : chunk[i].text \in BOOLEAN
    BY <1>3 DEF FusionTypes, Features
  <1>6. score' \in [Id -> -200 .. 500]
    <2> DEFINE lift(i) == Boost(m, chunk[i].text)
    <2>1. \A i \in Id : lift(i) \in 0 .. 60
      BY <1>4, <1>5
    <2>2. score' = [i \in Id |-> IF i \in ranking \intersect matched
                                 THEN score[i] + lift(i) ELSE score[i]]
      BY <1>2
    <2> HIDE DEF lift
    <2>3. \A i \in Id : score[i] \in -200 .. 500 /\ score[i] + lift(i) \in -200 .. 500
      <3> SUFFICES ASSUME NEW i \in Id
                   PROVE  score[i] \in -200 .. 500 /\ score[i] + lift(i) \in -200 .. 500
        OBVIOUS
      <3> DEFINE x == score[i]
                 y == lift(i)
      <3>1. x \in -85 .. 365
        BY <1>3
      <3>2. y \in 0 .. 60
        BY <2>1
      <3> HIDE DEF x, y
      <3>3. x \in -200 .. 500 /\ x + y \in -200 .. 500
        BY <3>1, <3>2
      <3> QED BY <3>3 DEF x, y
    <2> QED BY <2>2, <2>3
  <1>7. FusionTypeOK'
    BY <1>1, <1>2, <1>3, <1>6 DEF FusionTypeOK
  <1>8. FusionTypes' /\ importers' # {}
    <2>1. importers' # {}
      BY <1>2
    <2>2. /\ chunk' \in [Id -> Features]
          /\ \A i \in Id : chunk'[i].symbol => chunk'[i].text \/ chunk'[i].key
      BY <1>1, <1>3 DEF FusionTypes
    <2>3. vectorHits' \in [Id -> Similarity \union {0}] /\ lexicalHits' \in [Id -> Nat]
      BY <1>1
    <2> QED BY <2>1, <2>2, <2>3 DEF FusionTypes
  <1> QED BY <1>1, <1>7, <1>8 DEF FusionIInv

LEMMA FusionKeeps ==
  ASSUME FusionIInv, [FusionNext]_fusionVars
  PROVE  FusionIInv'
  <1>1. CASE UNCHANGED fusionVars
    <2>1. /\ chunk' = chunk /\ focus' = focus /\ vectorHits' = vectorHits
          /\ lexicalHits' = lexicalHits /\ score' = score /\ ranking' = ranking
          /\ importers' = importers
      BY <1>1 DEF fusionVars
    <2>2. FusionTypeOK' /\ FusionTypes'
      BY <2>1 DEF FusionIInv, FusionTypeOK, FusionTypes
    <2>3. WasCut' = WasCut
      BY <2>1 DEF WasCut, FirstBy, Found, CandidateTopN, Fused, MaxOf, Adjustment
    <2> QED BY <2>1, <2>2, <2>3 DEF FusionIInv
  <1> QED BY <1>1, FuseKeeps, SeedBoostKeeps DEF FusionNext

-----------------------------------------------------------------------------
(* A ranking that is the cut of what was found is fair. *)
LEMMA TheCutIsFair ==
  ASSUME FusionIInv
  PROVE  DefinitionSurvivesTheCut /\ AgreementIsNotPunished
  <1>1. FusionTypes /\ FusionTypeOK
    BY DEF FusionIInv
  <1>2. /\ IsFiniteSet(Id) /\ TopN \in Nat
        /\ \A v, w \in Similarity \union {0} : v < w => v + 2 <= w
        /\ Similarity \union {0} \subseteq 0 .. 100
    BY FusionAssumption
  <1>3. /\ chunk \in [Id -> Features]
        /\ \A i \in Id : chunk[i].symbol => chunk[i].text \/ chunk[i].key
        /\ vectorHits \in [Id -> Similarity \union {0}] /\ lexicalHits \in [Id -> Nat]
    BY <1>1 DEF FusionTypes
  <1>4. \A i \in Id : vectorHits[i] \in 0 .. 100 /\ lexicalHits[i] \in Nat
    BY <1>2, <1>3
  <1>5. CASE importers # {}
    <2>1. \A i \in Id : vectorHits[i] = 0 /\ lexicalHits[i] = 0
      BY <1>5 DEF FusionIInv
    <2>2. Found(vectorHits) = {} /\ Found(lexicalHits) = {}
      BY <2>1 DEF Found
    <2> QED BY <2>1, <2>2 DEF DefinitionSurvivesTheCut, AgreementIsNotPunished
  <1>6. CASE ranking = {}
    BY <1>6 DEF DefinitionSurvivesTheCut, AgreementIsNotPunished
  <1>7. CASE importers = {} /\ ranking # {}
    <2>1. PICK near \in FirstBy(vectorHits, Found(vectorHits), CandidateTopN),
               worded \in FirstBy(lexicalHits, Found(lexicalHits), CandidateTopN) :
            score = Fused(near, worded) /\ ranking \in FirstBy(score, near \union worded, TopN)
      BY <1>7 DEF FusionIInv, WasCut
    <2>2. near \in SUBSET Id /\ worded \in SUBSET Id
      BY FirstAre, FoundIs
    <2>3. IsFiniteSet(near \union worded)
      BY <1>2, <2>2, FS_Subset
    <2>4. /\ ranking \subseteq near \union worded
          /\ \A i \in ranking, j \in (near \union worded) \ ranking : score[j] <= score[i]
      BY <1>2, <2>1, <2>3, FirstAre
    <2>5. Cardinality(Id) <= CandidateTopN
             => near = Found(vectorHits) /\ worded = Found(lexicalHits)
      <3> SUFFICES ASSUME Cardinality(Id) <= CandidateTopN
                   PROVE  near = Found(vectorHits) /\ worded = Found(lexicalHits)
        OBVIOUS
      <3>1. /\ Cardinality(Found(vectorHits)) <= CandidateTopN /\ CandidateTopN \in Nat
            /\ Cardinality(Found(lexicalHits)) <= CandidateTopN
        <4>1. /\ Cardinality(Found(vectorHits)) \in Nat /\ Cardinality(Id) \in Nat
              /\ Cardinality(Found(lexicalHits)) \in Nat
          BY <1>2, FoundIs, FS_CardinalityType
        <4> QED BY <4>1, FoundIs
      <3> QED BY <3>1, FirstAre, FoundIs
    <2> DEFINE vp(i) == VectorPoints(near, i)
               lp(i) == LexicalPoints(worded, i)
               adj(i) == Adjustment(chunk[i])
    <2>6. /\ \A i \in Id : vp(i) \in 0 .. 55 /\ lp(i) \in 0 .. 45 /\ adj(i) \in -85 .. 265
          /\ \A i \in near \union worded : score[i] = vp(i) + lp(i) + adj(i)
      <3>1. \A i \in Id : adj(i) \in -85 .. 265
        BY <1>3, AdjustmentIs
      <3>2. /\ \A i \in Id : vp(i) \in 0 .. 55 /\ lp(i) \in 0 .. 45
            /\ \A i \in near \union worded :
                 Fused(near, worded)[i] = vp(i) + lp(i) + adj(i)
        BY <1>1, <2>2, FusedIs
      <3> QED BY <2>1, <3>1, <3>2
    <2>7. DefinitionSurvivesTheCut
      <3> SUFFICES ASSUME NEW i \in Found(vectorHits) \union Found(lexicalHits),
                          focus # "none", chunk[i].symbol, Cardinality(Id) <= Widened,
                          i \notin ranking, NEW j \in ranking
                   PROVE  Match(chunk[j])
        BY DEF DefinitionSurvivesTheCut
      <3>1. i \in near \union worded /\ i \in Id /\ j \in Id
        BY <2>2, <2>4, <2>5, FoundIs DEF CandidateTopN
      <3>2. chunk[i] \in Features /\ (chunk[i].text \/ chunk[i].key)
        BY <1>3, <3>1
      <3>3. adj(i) >= 105
        BY <3>2, AdjustmentIs
      <3>4. score[i] <= score[j]
        BY <2>4, <3>1
      <3>5. ~Match(chunk[j]) => adj(j) <= 0
        <4>1. chunk[j] \in Features
          BY <1>3, <3>1
        <4> QED BY <4>1, AdjustmentIs
      <3>6. score[i] >= 105 /\ (~Match(chunk[j]) => score[j] <= 100)
        <4> HIDE DEF vp, lp, adj
        <4>1. \A x \in 0 .. 55, y \in 0 .. 45, z \in -85 .. 265 :
                 (z >= 105 => x + y + z >= 105) /\ (z <= 0 => x + y + z <= 100)
          OBVIOUS
        <4>2. j \in near \union worded
          BY <2>4
        <4>3. vp(i) + lp(i) + adj(i) >= 105 /\ (adj(j) <= 0 => vp(j) + lp(j) + adj(j) <= 100)
          BY <2>6, <3>1, <3>3, <4>1
        <4> QED BY <2>6, <3>1, <3>5, <4>2, <4>3
      <3>7. score[i] \in Int /\ score[j] \in Int
        BY <1>1, <3>1 DEF FusionTypeOK
      <3> HIDE DEF vp, lp, adj
      <3> QED BY <3>4, <3>6, <3>7
    <2>8. AgreementIsNotPunished
      <3> SUFFICES ASSUME NEW i \in Id, NEW j \in Id, chunk[i] = chunk[j],
                          Cardinality(Id) <= CandidateTopN, vectorHits[i] > vectorHits[j],
                          lexicalHits[i] > lexicalHits[j], j \in ranking, i \notin ranking
                   PROVE  FALSE
        BY DEF AgreementIsNotPunished
      <3>1. near = Found(vectorHits) /\ worded = Found(lexicalHits)
        BY <2>5
      <3>2. i \in near /\ i \in worded
        BY <1>4, <3>1 DEF Found
      <3>3. score[i] <= score[j]
        BY <2>4, <3>2
      <3>4. vp(i) > vp(j)
        <4>1. vectorHits[j] + 2 <= vectorHits[i]
          BY <1>2, <1>3
        <4>2. \A v, w \in 0 .. 100 : v + 2 <= w => (55 * v) \div 100 < (55 * w) \div 100
          OBVIOUS
        <4>3. (55 * vectorHits[j]) \div 100 < (55 * vectorHits[i]) \div 100
          BY <1>4, <4>1, <4>2
        <4>4. j \notin near => vectorHits[j] = 0
          BY <1>4, <3>1 DEF Found
        <4>5. (55 * 0) \div 100 = 0
          OBVIOUS
        <4> QED BY <3>2, <4>3, <4>4, <4>5 DEF VectorPoints
      <3>5. lp(i) >= lp(j)
        <4> DEFINE best == MaxOf({lexicalHits[k] : k \in worded} \union {0})
        <4>1. best \in Nat /\ \A k \in worded : lexicalHits[k] \in 0 .. best
          BY <1>1, <2>2, BestOfLexical
        <4>2. \A k \in {i, j} : lp(k) = IF k \in worded /\ best > 0
                                        THEN (45 * lexicalHits[k]) \div best ELSE 0
          BY DEF LexicalPoints
        <4> HIDE DEF best
        <4>3. \A b \in Nat : \A v, w \in 0 .. b :
                 b > 0 /\ v <= w => (45 * v) \div b <= (45 * w) \div b /\ (45 * w) \div b >= 0
          OBVIOUS
        <4>4. j \in worded => lexicalHits[j] \in 0 .. best
          BY <4>1
        <4>5. lexicalHits[i] \in 0 .. best /\ lexicalHits[j] <= lexicalHits[i]
          BY <1>4, <3>2, <4>1
        <4> HIDE DEF lp
        <4> QED BY <3>2, <4>1, <4>2, <4>3, <4>4, <4>5
      <3>6. adj(i) = adj(j)
        OBVIOUS
      <3>7. j \in near \union worded
        BY <2>4
      <3>8. score[i] > score[j]
        <4> HIDE DEF vp, lp, adj
        <4>1. score[i] = vp(i) + lp(i) + adj(i) /\ score[j] = vp(j) + lp(j) + adj(j)
          BY <2>6, <3>2, <3>7
        <4>2. /\ vp(i) \in Int /\ vp(j) \in Int /\ lp(i) \in Int /\ lp(j) \in Int
              /\ adj(i) \in Int /\ adj(j) \in Int
          BY <2>6
        <4> QED BY <3>4, <3>5, <3>6, <4>1, <4>2
      <3>9. score[i] \in Int /\ score[j] \in Int
        BY <1>1 DEF FusionTypeOK
      <3> HIDE DEF vp, lp, adj
      <3> QED BY <3>3, <3>8, <3>9
    <2> QED BY <2>7, <2>8
  <1> QED BY <1>5, <1>6, <1>7

(* A boost keeps the order of the files that match alike: they get the same. *)
LEMMA BoostIsFair ==
  ASSUME FusionIInv, [FusionNext]_fusionVars, ranking # {}, NEW i \in ranking, NEW j \in ranking,
         (i \in importers') = (j \in importers'), chunk[i] = chunk[j]
  PROVE  (score[i] < score[j]) = (score'[i] < score'[j])
  <1>1. CASE UNCHANGED fusionVars
    BY <1>1 DEF fusionVars
  <1>2. CASE Fuse
    BY <1>2 DEF Fuse
  <1>3. CASE SeedBoost
    <2>1. PICK matched \in (SUBSET Id) \ {{}}, m \in {1, 9} :
            /\ importers' = matched
            /\ score' = [k \in Id |-> IF k \in ranking \intersect matched
                                      THEN score[k] + Boost(m, chunk[k].text) ELSE score[k]]
      BY <1>3 DEF SeedBoost
    <2>2. i \in Id /\ j \in Id /\ score[i] \in Int /\ score[j] \in Int /\ chunk[i] \in Features
      <3>1. ranking \subseteq Id /\ score \in [Id -> -200 .. 500] /\ chunk \in [Id -> Features]
        BY DEF FusionIInv, FusionTypeOK, FusionTypes
      <3>2. i \in Id /\ j \in Id
        BY <3>1
      <3>3. score[i] \in -200 .. 500 /\ score[j] \in -200 .. 500
        BY <3>1, <3>2
      <3> QED BY <3>1, <3>2, <3>3
    <2> DEFINE lift == Boost(m, chunk[i].text)
    <2>3. lift \in Int
      BY DEF Boost
    <2>4. /\ score'[i] = IF i \in matched THEN score[i] + lift ELSE score[i]
          /\ score'[j] = IF j \in matched THEN score[j] + lift ELSE score[j]
      BY <2>1, <2>2
    <2> HIDE DEF lift
    <2>5. (i \in matched) <=> (j \in matched)
      BY <2>1
    <2> QED BY <2>2, <2>3, <2>4, <2>5
  <1> QED BY <1>1, <1>2, <1>3 DEF FusionNext

(* Fusing the results of a search is fair: a definition of what was asked survives the cut,
   a chunk that both searches rate higher is not left out for another one like it, and the
   boost of importers keeps the order of files that match alike, for every repository,
   every similarity, every score and every cut (hybrid_search,
   apply_external_import_seed_boost). *)
THEOREM FusionIsFair ==
    FusionSpec => [](DefinitionSurvivesTheCut /\ AgreementIsNotPunished) /\ BoostKeepsOrder
  <1>1. FusionIInv /\ [FusionNext]_fusionVars =>
          [ ranking # {} =>
              \A i, j \in ranking :
                 /\ (i \in importers') = (j \in importers') /\ chunk[i] = chunk[j]
                 => (score[i] < score[j]) = (score'[i] < score'[j]) ]_fusionVars
    BY BoostIsFair
  <1> QED BY <1>1, FusionStarts, FusionKeeps, TheCutIsFair, PTL DEF FusionSpec, BoostKeepsOrder

-----------------------------------------------------------------------------
(* The score of a chunk is a number, whatever the question. *)
LEMMA RulesAreNumbers ==
  ASSUME NEW p, NEW c \in Chunk
  PROVE  ScoreChunk(p, c) \in Int
  <1>1. \A rule, weight : weight \in Int => W(rule, weight) \in Int
    BY DEF W
  <1>2. Overlap(c) \in Int
    <2>1. c.sov \in Int /\ c.pov \in Int /\ c.tov \in Int
      BY DEF Chunk
    <2> QED BY <2>1 DEF Overlap
  <1>3. IdentifierRules(p, c) \in Int
    BY DEF IdentifierRules, W
  <1>4. DefinitionRules(p, c) \in Int
    BY <1>1 DEF DefinitionRules
  <1>5. DocsRules(p, c) \in Int
    BY <1>1 DEF DocsRules
  <1>6. ConfigRules(p, c) \in Int
    BY <1>1 DEF ConfigRules
  <1>7. OverviewRules(p, c) \in Int
    BY <1>1 DEF OverviewRules
  <1>8. CodeRules(p, c) \in Int
    BY <1>1 DEF CodeRules
  <1>9. c.base \in Int
    BY DEF Chunk
  <1>10. W(p.test /\ In(c, "test"), 45) \in Int /\ W(In(c, "noise") /\ ~StrongOverlap(c), 20) \in Int
    BY <1>1
  <1> QED BY <1>2, <1>3, <1>4, <1>5, <1>6, <1>7, <1>8, <1>9, <1>10 DEF ScoreChunk

(* What a lookup gives a definition, rule by rule, and what it gives a chunk of another
   name that covers no more of the question: the lead is kept whatever the rest is. *)
LEMMA DefinitionLeads ==
  ASSUME NEW p, NEW c \in Chunk, NEW d \in Chunk, PreferredDefinition(p, d),
         p.named, p.code \/ p.exact, ~p.docs, ~p.test, ~p.overview,
         c.symbol \notin {"exact", "private"}, CoversNoMore(c, d)
  PROVE  ScoreChunk(p, c) - c.base + DefinitionLead <= ScoreChunk(p, d) - d.base
  <1> DEFINE config == In(c, "config")
             definition == c.type = "definition"
  <1>1. /\ p.definitions /\ d.symbol = "exact" /\ d.type = "definition"
        /\ Productive(d) /\ DefinitionLike(d) /\ ~WrapperLike(d)
        /\ ~In(d, "test") /\ ~In(d, "noise") /\ ~In(d, "docs") /\ ~In(d, "example")
    BY DEF PreferredDefinition, DefinitionLike, Productive, In, WrapperLike
  <1>2. /\ c.sov \in 0 .. 100 /\ c.pov \in 0 .. 100 /\ c.tov \in 0 .. 100 /\ c.base \in Nat
        /\ d.sov \in 0 .. 100 /\ d.pov \in 0 .. 100 /\ d.tov \in 0 .. 100 /\ d.base \in Nat
        /\ c.sov <= d.sov /\ c.pov <= d.pov /\ c.tov <= d.tov
    BY DEF Chunk, CoversNoMore
  <1>3. Overlap(c) <= Overlap(d) /\ Overlap(c) \in Int /\ Overlap(d) \in Int
    <2> DEFINE covered(k) == 55 * k.sov + 25 * k.pov + 15 * k.tov
    <2>1. covered(c) \in Nat /\ covered(d) \in Nat /\ covered(c) <= covered(d)
      <3>1. \A a, b, e, f, g, h \in 0 .. 100 : a <= b /\ e <= f /\ g <= h =>
               /\ 55 * a + 25 * e + 15 * g \in Nat /\ 55 * b + 25 * f + 15 * h \in Nat
               /\ 55 * a + 25 * e + 15 * g <= 55 * b + 25 * f + 15 * h
        OBVIOUS
      <3> QED BY <1>2, <3>1
    <2>2. Overlap(c) = covered(c) \div 100 /\ Overlap(d) = covered(d) \div 100
      BY DEF Overlap
    <2>3. \A x, y \in Nat : x <= y => /\ x \div 100 <= y \div 100
                                      /\ x \div 100 \in Int /\ y \div 100 \in Int
      OBVIOUS
    <2> HIDE DEF covered
    <2> QED BY <2>1, <2>2, <2>3
  <1>4. /\ IdentifierRules(p, d) \in Int /\ IdentifierRules(p, c) \in Int
        /\ IdentifierRules(p, d) - IdentifierRules(p, c) >= 45
        /\ p.exact => IdentifierRules(p, d) - IdentifierRules(p, c) >= 100
    BY <1>1 DEF IdentifierRules, W
  <1>5. DefinitionRules(p, d) \in Int /\ DefinitionRules(p, d) >= 158
    BY <1>1 DEF DefinitionRules, W
  <1>6. /\ DefinitionRules(p, c) \in Int
        /\ DefinitionRules(p, c) <= IF definition THEN 100 ELSE 90
        /\ config => DefinitionRules(p, c) <= IF definition THEN 65 ELSE 55
    BY <1>1 DEF DefinitionRules, DefinitionLike, W
  <1>7. DocsRules(p, c) = 0 /\ DocsRules(p, d) = 0
        /\ OverviewRules(p, c) = 0 /\ OverviewRules(p, d) = 0
    BY DEF DocsRules, OverviewRules
  <1>8. /\ ConfigRules(p, d) \in Nat /\ ConfigRules(p, c) \in Int
        /\ ConfigRules(p, c) <= IF definition THEN 40 ELSE 70
        /\ ~config => ConfigRules(p, c) <= IF definition THEN 0 ELSE 30
        /\ ~p.config => ConfigRules(p, c) = 0
    BY <1>1 DEF ConfigRules, W
  <1>9. /\ CodeRules(p, c) \in Int /\ CodeRules(p, d) \in Int
        /\ CodeRules(p, c) <= CodeRules(p, d) + 15
        /\ p.config => CodeRules(p, c) <= CodeRules(p, d)
        /\ p.config /\ p.code /\ ~definition => CodeRules(p, c) + 65 <= CodeRules(p, d)
    BY <1>1, <1>2 DEF CodeRules, W
  <1>10. /\ ScoreChunk(p, c) - c.base <= Overlap(c) + IdentifierRules(p, c) + DefinitionRules(p, c)
                                        + ConfigRules(p, c) + CodeRules(p, c)
         /\ ScoreChunk(p, d) - d.base = Overlap(d) + IdentifierRules(p, d) + DefinitionRules(p, d)
                                        + ConfigRules(p, d) + CodeRules(p, d)
    BY <1>1, <1>2, <1>3, <1>4, <1>5, <1>6, <1>7, <1>8, <1>9 DEF ScoreChunk, W
  <1>11. ScoreChunk(p, c) - c.base \in Int
    BY <1>2, <1>3, <1>4, <1>6, <1>7, <1>8, <1>9 DEF ScoreChunk, W
  <1> HIDE DEF config, definition
  <1>12. CASE ~p.config
    BY <1>3, <1>4, <1>5, <1>6, <1>8, <1>9, <1>10, <1>11, <1>12 DEF DefinitionLead
  <1>13. CASE p.config /\ definition
    BY <1>3, <1>4, <1>5, <1>6, <1>8, <1>9, <1>10, <1>11, <1>13 DEF DefinitionLead
  <1>14. CASE p.config /\ ~definition
    BY <1>3, <1>4, <1>5, <1>6, <1>8, <1>9, <1>10, <1>11, <1>14 DEF DefinitionLead
  <1> QED BY <1>12, <1>13, <1>14

(* A lookup puts the definition of what it asks for above every chunk of another name that
   covers no more of the question, for every pool and every question (_score_chunk). *)
LEMMA DefinitionsWin == RerankTypeOK => DefinitionWins
  <1> SUFFICES ASSUME RerankTypeOK, NEW d \in scored, NEW c \in scored,
                      PreferredDefinition(Profile(question), d),
                      ~Profile(question).docs, ~Profile(question).test,
                      c.symbol \notin {"exact", "private"}, CoversNoMore(c, d)
               PROVE  Rank(c) - c.base + DefinitionLead <= Rank(d) - d.base
    BY DEF DefinitionWins
  <1> DEFINE p == Profile(question)
  <1>1. c \in Chunk /\ d \in Chunk /\ PreferredDefinition(p, d)
    BY DEF RerankTypeOK
  <1>2. p.definitions
    BY <1>1 DEF PreferredDefinition
  <1>3. p.named /\ (p.code \/ p.exact) /\ ~p.overview
    BY <1>2 DEF Profile
  <1> HIDE DEF p
  <1>4. ~p.docs /\ ~p.test
    BY DEF p
  <1>5. ScoreChunk(p, c) - c.base + DefinitionLead <= ScoreChunk(p, d) - d.base
    BY <1>1, <1>3, <1>4, DefinitionLeads
  <1> QED BY <1>5 DEF Rank, p

(* What a document that names the symbol has before any other chunk, rule by rule. *)
LEMMA DocumentLeads ==
  ASSUME NEW p, NEW c \in Chunk, NEW d \in Chunk, p.docs, ~p.test, ~p.definitions, ~p.config,
         ~p.exact, PlainDocument(d), d.names, "docs" \notin c.path
  PROVE  ScoreChunk(p, c) - c.base < ScoreChunk(p, d) - d.base
  <1>1. /\ In(d, "docs") /\ ~In(d, "test") /\ ~In(d, "config") /\ ~In(d, "example")
        /\ ~In(d, "noise") /\ ~In(c, "docs")
    BY DEF PlainDocument, In
  <1>2. c.base \in Int /\ d.base \in Int
    BY DEF Chunk
  <1>3. /\ Overlap(c) \in Int /\ Overlap(d) \in Int /\ Overlap(c) <= 95 /\ Overlap(d) >= 0
    <2> DEFINE covered(k) == 55 * k.sov + 25 * k.pov + 15 * k.tov
    <2>1. \A n \in Nat : n <= 9500 => /\ n \div 100 \in Int
                                      /\ n \div 100 >= 0 /\ n \div 100 <= 95
      OBVIOUS
    <2>2. ASSUME NEW x \in Nat, NEW y \in Nat, NEW z \in Nat, x <= 100, y <= 100, z <= 100
          PROVE  55 * x + 25 * y + 15 * z \in Nat /\ 55 * x + 25 * y + 15 * z <= 9500
      BY <2>2
    <2>3. \A k \in Chunk : /\ k.sov \in Nat /\ k.pov \in Nat /\ k.tov \in Nat
                           /\ k.sov <= 100 /\ k.pov <= 100 /\ k.tov <= 100
      BY DEF Chunk
    <2>4. \A k \in Chunk : covered(k) \in Nat /\ covered(k) <= 9500
      BY <2>2, <2>3
    <2>5. Overlap(c) = covered(c) \div 100 /\ Overlap(d) = covered(d) \div 100
      BY DEF Overlap
    <2> HIDE DEF covered
    <2> QED BY <2>1, <2>4, <2>5
  <1>4. /\ IdentifierRules(p, c) \in Int /\ IdentifierRules(p, d) \in Int
        /\ IdentifierRules(p, c) <= 105 /\ IdentifierRules(p, d) >= 0
    BY DEF IdentifierRules, W
  <1>5. DefinitionRules(p, c) = 0 /\ DefinitionRules(p, d) = 0
        /\ ConfigRules(p, c) = 0 /\ ConfigRules(p, d) = 0
    BY DEF DefinitionRules, ConfigRules
  <1>6. /\ DocsRules(p, c) \in Int /\ DocsRules(p, d) \in Int
        /\ DocsRules(p, c) <= 20 /\ DocsRules(p, d) >= 495
    BY <1>1 DEF DocsRules, W
  <1>7. /\ OverviewRules(p, c) \in Int /\ OverviewRules(p, d) \in Int
        /\ OverviewRules(p, c) <= 70 /\ OverviewRules(p, d) >= 0
        /\ ~p.overview => OverviewRules(p, c) = 0
        /\ p.overview => OverviewRules(p, d) >= 55
    BY <1>1 DEF OverviewRules, W
  <1>8. /\ CodeRules(p, c) \in Int /\ CodeRules(p, d) \in Int
        /\ CodeRules(p, c) <= 130 /\ CodeRules(p, d) >= -90
        /\ ~p.overview => CodeRules(p, c) = 0 /\ CodeRules(p, d) = 0
    BY <1>1 DEF CodeRules, W
  <1> DEFINE ofC == Overlap(c) + IdentifierRules(p, c) + DocsRules(p, c)
                    + OverviewRules(p, c) + CodeRules(p, c)
             ofD == Overlap(d) + IdentifierRules(p, d) + DocsRules(p, d)
                    + OverviewRules(p, d) + CodeRules(p, d)
  <1>9. /\ ScoreChunk(p, c) \in {c.base + ofC, c.base + ofC - 20}
        /\ ScoreChunk(p, d) = d.base + ofD
    <2>1. ScoreChunk(p, c) = c.base + Overlap(c) + IdentifierRules(p, c) + 0
             + DocsRules(p, c) + 0 + OverviewRules(p, c) + CodeRules(p, c) + 0
             - W(In(c, "noise") /\ ~StrongOverlap(c), 20)
      BY <1>5 DEF ScoreChunk, W
    <2>2. ScoreChunk(p, d) = d.base + Overlap(d) + IdentifierRules(p, d) + 0
             + DocsRules(p, d) + 0 + OverviewRules(p, d) + CodeRules(p, d) + 0 - 0
      BY <1>1, <1>5 DEF ScoreChunk, W
    <2>3. W(In(c, "noise") /\ ~StrongOverlap(c), 20) \in {0, 20}
      BY DEF W
    <2> QED BY <1>2, <1>3, <1>4, <1>6, <1>7, <1>8, <2>1, <2>2, <2>3
  <1>10. ofC \in Int /\ ofD \in Int /\ ofC < ofD
    <2>1. CASE p.overview
      BY <1>3, <1>4, <1>6, <1>7, <1>8, <2>1
    <2>2. CASE ~p.overview
      BY <1>3, <1>4, <1>6, <1>7, <1>8, <2>2
    <2> QED BY <2>1, <2>2
  <1> HIDE DEF ofC, ofD
  <1> QED BY <1>2, <1>9, <1>10

LEMMA DocumentsWin == RerankTypeOK => DocsWinDocsQuestions
  <1> SUFFICES ASSUME RerankTypeOK, NEW d \in scored, NEW c \in scored,
                      Profile(question).docs, ~Profile(question).test,
                      ~Profile(question).definitions, PlainDocument(d), d.names,
                      "docs" \notin c.path, c.base <= d.base
               PROVE  Rank(c) < Rank(d)
    BY DEF DocsWinDocsQuestions
  <1> DEFINE p == Profile(question)
  <1>1. c \in Chunk /\ d \in Chunk
    BY DEF RerankTypeOK
  <1>2. ~p.config /\ ~p.exact
    BY DEF Profile
  <1> HIDE DEF p
  <1>3. p.docs /\ ~p.test /\ ~p.definitions
    BY DEF p
  <1>4. ScoreChunk(p, c) - c.base < ScoreChunk(p, d) - d.base
    BY <1>1, <1>2, <1>3, DocumentLeads
  <1>5. ScoreChunk(p, c) \in Int /\ ScoreChunk(p, d) \in Int /\ c.base \in Nat /\ d.base \in Nat
    BY <1>1, RulesAreNumbers DEF Chunk
  <1>6. ScoreChunk(p, c) < ScoreChunk(p, d)
    BY <1>4, <1>5
  <1> QED BY <1>6 DEF Rank, p

(* How often a file was shown: never less, and once more with a chunk of it. *)
Scored == [chunk : Chunk, score : Int]
ShownTimes(sh, f) == Cardinality({i \in DOMAIN sh : sh[i].chunk.file = f})

LEMMA TimesAre ==
  ASSUME NEW sh \in Seq(Scored), NEW f
  PROVE  /\ ShownTimes(sh, f) \in Nat
         /\ ShownTimes(sh, f) = 0 <=> \A i \in DOMAIN sh : sh[i].chunk.file # f
         /\ \A e \in Scored : ShownTimes(sh, f) <= ShownTimes(Append(sh, e), f)
  <1> DEFINE D(q) == {i \in DOMAIN q : q[i].chunk.file = f}
  <1>1. ASSUME NEW q \in Seq(Scored) PROVE IsFiniteSet(D(q)) /\ Cardinality(D(q)) \in Nat
    <2>1. DOMAIN q = 1 .. Len(q) /\ Len(q) \in Nat
      OBVIOUS
    <2>2. IsFiniteSet(DOMAIN q)
      BY <2>1, FS_Interval
    <2>3. D(q) \subseteq DOMAIN q
      OBVIOUS
    <2> QED BY <2>2, <2>3, FS_Subset, FS_CardinalityType
  <1>2. Cardinality(D(sh)) = 0 <=> D(sh) = {}
    BY <1>1, FS_EmptySet
  <1>3. ASSUME NEW e \in Scored PROVE Cardinality(D(sh)) <= Cardinality(D(Append(sh, e)))
    <2>1. Append(sh, e) \in Seq(Scored)
      OBVIOUS
    <2>2. D(sh) \subseteq D(Append(sh, e))
      OBVIOUS
    <2> QED BY <1>1, <2>1, <2>2, FS_Subset
  <1>4. D(sh) = {} <=> \A i \in DOMAIN sh : sh[i].chunk.file # f
    OBVIOUS
  <1> HIDE DEF D
  <1>5. ShownTimes(sh, f) = Cardinality(D(sh))
        /\ \A e \in Scored : ShownTimes(Append(sh, e), f) = Cardinality(D(Append(sh, e)))
    BY DEF ShownTimes, D
  <1> QED BY <1>1, <1>2, <1>3, <1>4, <1>5

(* The penalty of a repetition grows, and begins at half a point. *)
LEMMA PenaltiesAre ==
  /\ \A n \in Nat : Penalty(n) \in Int
  /\ \A m, n \in Nat : m <= n => Penalty(m) <= Penalty(n)
  /\ Penalty(0) = 0 /\ \A n \in Nat : n > 0 => Penalty(n) >= 50
  BY DEF Penalty

LEMMA RerankStarts == RerankInit => RerankIInv
  <1> SUFFICES ASSUME RerankInit PROVE RerankIInv
    OBVIOUS
  <1>1. question \in Asked /\ scored \subseteq Pool /\ ranked = {} /\ shown = <<>>
    BY DEF RerankInit
  <1>2. /\ Asked \subseteq Question /\ Pool \subseteq Chunk /\ TopK \in Nat
    BY RerankAssumption
  <1>3. Len(shown) = 0 /\ DOMAIN shown = {} /\ shown \in Seq(Scored)
    BY <1>1
  <1> QED BY <1>1, <1>2, <1>3 DEF RerankIInv, RerankTypeOK, CandidatesAreScored, TakenLead,
                                   ScoresDescend, RepeatsAreEarned, Scored

LEMMA ScoreKeeps ==
  ASSUME RerankIInv, Score
  PROVE  RerankIInv'
  <1>1. /\ shown = <<>> /\ shown' = shown /\ question' = question /\ scored' = scored
        /\ ranked' = {[chunk |-> c, score |-> ScoreChunk(Profile(question), c)] : c \in scored}
    BY DEF Score
  <1>2. RerankTypeOK /\ scored \subseteq Chunk
    BY DEF RerankIInv, RerankTypeOK
  <1>3. \A c \in scored : ScoreChunk(Profile(question), c) \in Int
    BY <1>2, RulesAreNumbers
  <1>4. \A c : Rank(c)' = ScoreChunk(Profile(question), c)
    BY <1>1 DEF Rank, Profile
  <1>5. \A s \in ranked' : s.chunk \in scored /\ s.score = Rank(s.chunk)' /\ s \in Scored
    <2> SUFFICES ASSUME NEW c \in scored
                 PROVE  LET s == [chunk |-> c, score |-> ScoreChunk(Profile(question), c)]
                        IN  s.chunk \in scored /\ s.score = Rank(s.chunk)' /\ s \in Scored
      BY <1>1
    <2> QED BY <1>2, <1>3, <1>4 DEF Scored
  <1>6. DOMAIN shown = {} /\ shown \in Seq(Scored)
    BY <1>1
  <1>7. RerankTypeOK'
    BY <1>1, <1>2, <1>5 DEF RerankTypeOK
  <1>8. CandidatesAreScored'
    BY <1>1, <1>2, <1>5, <1>6 DEF CandidatesAreScored, Scored
  <1> QED BY <1>1, <1>6, <1>7, <1>8 DEF RerankIInv, TakenLead, ScoresDescend, RepeatsAreEarned

LEMMA SelectKeeps ==
  ASSUME RerankIInv, Select
  PROVE  RerankIInv'
  <1>1. PICK s \in ranked : /\ s \in Best /\ ranked' = ranked \ {s}
                            /\ shown' = Append(shown, [s EXCEPT !.score = Adjusted(s)])
    BY DEF Select, Promoted, Best
  <1>2. Len(shown) < TopK /\ question' = question /\ scored' = scored /\ TopK \in Nat
    BY RerankAssumption DEF Select
  <1>3. /\ RerankTypeOK /\ scored \subseteq Chunk /\ shown \in Seq(Scored)
        /\ ranked \subseteq Scored
        /\ \A t \in ranked : t.chunk \in scored /\ t.score = Rank(t.chunk)
        /\ TakenLead /\ ScoresDescend /\ RepeatsAreEarned
    BY DEF RerankIInv, CandidatesAreScored, Scored
  <1> DEFINE e == [s EXCEPT !.score = Adjusted(s)]
             n == Len(shown) + 1
             times(f) == ShownTimes(shown, f)
             later(f) == ShownTimes(shown', f)
  <1>4. \A t \in Scored : t.chunk \in Chunk /\ t.score \in Int
    BY DEF Scored
  <1>5. \A f : times(f) \in Nat
    BY <1>3, TimesAre
  <1>6. \A t \in ranked : /\ Adjusted(t) = t.score - Penalty(times(t.chunk.file))
                          /\ Adjusted(t) \in Int
    <2>1. \A t : Adjusted(t) = t.score - Penalty(times(t.chunk.file))
      BY DEF Adjusted, Times, ShownTimes
    <2>2. \A t \in ranked : t.score \in Int /\ Penalty(times(t.chunk.file)) \in Int
      BY <1>3, <1>4, <1>5, PenaltiesAre
    <2> HIDE DEF times
    <2> QED BY <2>1, <2>2
  <1>7. e \in Scored /\ e.chunk = s.chunk /\ e.score = Adjusted(s)
    <2>1. \A t \in Scored, x \in Int :
             LET u == [t EXCEPT !.score = x] IN u \in Scored /\ u.chunk = t.chunk /\ u.score = x
      BY DEF Scored
    <2>2. s \in Scored /\ Adjusted(s) \in Int
      BY <1>3, <1>6
    <2> QED BY <2>1, <2>2
  <1>8. shown' = Append(shown, e)
    BY <1>1
  <1> HIDE DEF e
  <1>9. /\ shown' \in Seq(Scored) /\ Len(shown') = n /\ DOMAIN shown' = 1 .. n
        /\ DOMAIN shown = 1 .. Len(shown) /\ Len(shown) \in Nat /\ n \in Nat
        /\ shown'[n] = e /\ \A i \in 1 .. Len(shown) : shown'[i] = shown[i]
    BY <1>3, <1>7, <1>8
  <1>10. \A f : later(f) \in Nat /\ times(f) <= later(f)
    BY <1>3, <1>7, <1>8, <1>9, TimesAre
  <1>11. \A t \in ranked : /\ Adjusted(t)' = t.score - Penalty(later(t.chunk.file))
                           /\ Adjusted(t)' \in Int /\ Adjusted(t)' <= Adjusted(t)
    <2>1. \A t : Adjusted(t)' = t.score - Penalty(later(t.chunk.file))
      BY DEF Adjusted, Times, ShownTimes, Penalty
    <2>2. \A t \in ranked : /\ t.score \in Int /\ Penalty(later(t.chunk.file)) \in Int
                            /\ Penalty(times(t.chunk.file)) \in Int
                            /\ Penalty(times(t.chunk.file)) <= Penalty(later(t.chunk.file))
      BY <1>3, <1>4, <1>5, <1>10, PenaltiesAre
    <2> HIDE DEF times, later
    <2> QED BY <1>6, <2>1, <2>2
  <1>12. \A t \in ranked : Adjusted(t) <= Adjusted(s)
    BY <1>1 DEF Best
  <1>13. \A c : Rank(c)' = Rank(c)
    BY <1>2 DEF Rank, Profile
  <1>14. RerankTypeOK'
    BY <1>1, <1>2, <1>3, <1>9 DEF RerankTypeOK
  <1>15. CandidatesAreScored'
    BY <1>1, <1>2, <1>3, <1>9, <1>13 DEF CandidatesAreScored, Scored
  <1>16. \A i \in 1 .. n : i \in 1 .. Len(shown) \/ i = n
    BY <1>9
  <1>17. \A i \in 1 .. Len(shown) : shown[i] \in Scored /\ shown[i].score \in Int
    BY <1>3, <1>4, <1>9
  <1>18. TakenLead'
    <2> SUFFICES ASSUME NEW t \in ranked, NEW i \in 1 .. n
                 PROVE  Adjusted(t)' <= shown'[i].score
      BY <1>1, <1>9 DEF TakenLead
    <2>1. CASE i = n
      BY <1>6, <1>7, <1>9, <1>11, <1>12, <2>1
    <2>2. CASE i \in 1 .. Len(shown)
      <3>1. Adjusted(t) <= shown[i].score /\ shown'[i] = shown[i] /\ shown[i].score \in Int
        BY <1>3, <1>9, <1>17, <2>2 DEF TakenLead
      <3> QED BY <1>6, <1>11, <3>1
    <2> QED BY <1>16, <2>1, <2>2
  <1>19. ScoresDescend'
    <2> SUFFICES ASSUME NEW i \in 1 .. n, NEW j \in 1 .. n, i < j
                 PROVE  shown'[j].score <= shown'[i].score
      BY <1>9 DEF ScoresDescend
    <2>1. i \in 1 .. Len(shown)
      BY <1>9
    <2>2. CASE j = n
      BY <1>3, <1>7, <1>9, <2>1, <2>2 DEF TakenLead
    <2>3. CASE j \in 1 .. Len(shown)
      BY <1>3, <1>9, <2>1, <2>3 DEF ScoresDescend
    <2> QED BY <1>16, <2>2, <2>3
  <1>20. RepeatsAreEarned'
    <2> SUFFICES ASSUME NEW i \in 1 .. n, NEW k \in 1 .. i - 1,
                        shown'[k].chunk.file = shown'[i].chunk.file,
                        NEW t \in ranked' \union {shown'[j] : j \in i + 1 .. n},
                        t.chunk.file \notin {shown'[j].chunk.file : j \in 1 .. i}
                 PROVE  Rank(t.chunk) + 50 <= Rank(shown'[i].chunk)
      BY <1>9, <1>13 DEF RepeatsAreEarned
    <2>1. CASE i = n
      <3>1. t \in ranked /\ i \notin 1 .. Len(shown)
        BY <1>1, <1>9, <2>1
      <3>2. k \in 1 .. Len(shown) /\ shown[k].chunk.file = s.chunk.file
        BY <1>7, <1>9, <2>1
      <3>3. \A j \in DOMAIN shown : shown[j].chunk.file # t.chunk.file
        <4>1. \A j \in 1 .. Len(shown) : j \in 1 .. i /\ shown'[j] = shown[j]
          BY <1>9, <2>1
        <4> QED BY <1>9, <4>1
      <3>4. times(t.chunk.file) = 0 /\ times(s.chunk.file) > 0
        <4>1. times(s.chunk.file) # 0
          BY <1>3, <1>9, <3>2, TimesAre
        <4>2. times(t.chunk.file) = 0
          BY <1>3, <3>3, TimesAre
        <4> HIDE DEF times
        <4> QED BY <1>5, <4>1, <4>2
      <3>5. Adjusted(t) = t.score /\ Adjusted(s) <= s.score - 50
        <4>1. Penalty(times(t.chunk.file)) = 0 /\ Penalty(times(s.chunk.file)) >= 50
              /\ Penalty(times(s.chunk.file)) \in Int
          BY <1>5, <3>4, PenaltiesAre
        <4>2. t.score \in Int /\ s.score \in Int
          BY <1>3, <1>4, <3>1
        <4> HIDE DEF times
        <4> QED BY <1>6, <3>1, <4>1, <4>2
      <3>6. t.score + 50 <= s.score
        <4>1. t.score \in Int /\ s.score \in Int
          BY <1>3, <1>4, <3>1
        <4> QED BY <1>6, <1>12, <3>1, <3>5, <4>1
      <3> QED BY <1>3, <1>7, <1>9, <2>1, <3>1, <3>6
    <2>2. CASE i \in 1 .. Len(shown)
      <3>1. shown'[i] = shown[i] /\ \A j \in 1 .. i : j \in 1 .. Len(shown) /\ shown'[j] = shown[j]
        BY <1>9, <2>2
      <3>2. k \in 1 .. i /\ shown[k].chunk.file = shown[i].chunk.file
        BY <1>9, <3>1
      <3>3. \E u \in ranked \union {shown[j] : j \in i + 1 .. Len(shown)} : u.chunk = t.chunk
        <4>1. CASE t \in ranked'
          BY <1>1, <4>1
        <4>2. CASE t \notin ranked'
          <5>1. PICK j \in i + 1 .. n : t = shown'[j]
            BY <4>2
          <5>2. CASE j = n
            BY <1>1, <1>7, <1>9, <5>1, <5>2
          <5>3. CASE j # n
            <6>1. j \in i + 1 .. Len(shown) /\ j \in 1 .. Len(shown)
              BY <1>9, <2>2, <5>3
            <6> QED BY <1>9, <5>1, <6>1
          <5> QED BY <5>2, <5>3
        <4> QED BY <4>1, <4>2
      <3>4. t.chunk.file \notin {shown[j].chunk.file : j \in 1 .. i}
        BY <3>1
      <3> QED BY <1>3, <1>9, <2>2, <3>1, <3>2, <3>3, <3>4 DEF RepeatsAreEarned
    <2> QED BY <1>16, <2>1, <2>2
  <1> QED BY <1>14, <1>15, <1>18, <1>19, <1>20 DEF RerankIInv

LEMMA RerankKeeps ==
  ASSUME RerankIInv, [RerankNext]_rerankVars
  PROVE  RerankIInv'
  <1>1. CASE UNCHANGED rerankVars
    <2>1. question' = question /\ scored' = scored /\ ranked' = ranked /\ shown' = shown
      BY <1>1 DEF rerankVars
    <2>2. (\A c : Rank(c)' = Rank(c)) /\ \A s : Adjusted(s)' = Adjusted(s)
      BY <2>1 DEF Rank, Profile, Adjusted, Times, Penalty
    <2>3. RerankTypeOK' /\ CandidatesAreScored'
      BY <2>1, <2>2 DEF RerankIInv, RerankTypeOK, CandidatesAreScored
    <2>4. TakenLead' /\ ScoresDescend'
      BY <2>1, <2>2 DEF RerankIInv, TakenLead, ScoresDescend
    <2>5. RepeatsAreEarned'
      <3>1. RepeatsAreEarned
        BY DEF RerankIInv
      <3>2. RepeatsAreEarned' = RepeatsAreEarned
        BY <2>1 DEF RepeatsAreEarned, Rank, Profile
      <3> QED BY <3>1, <3>2
    <2> QED BY <2>3, <2>4, <2>5 DEF RerankIInv
  <1> QED BY <1>1, ScoreKeeps, SelectKeeps DEF RerankNext

(* The answer of the reranker is in order, for every question, every set of candidates and
   every top_k (rerank, _score_chunk): its scores descend, penalties included, no file is
   shown again while a file not yet shown has a candidate within its penalty, a lookup puts
   the definition first and a question about documentation the document. *)
THEOREM RerankIsOrdered ==
    RerankSpec => [](ScoresDescend /\ RepeatsAreEarned /\ DefinitionWins /\ DocsWinDocsQuestions)
  <1>1. RerankIInv => ScoresDescend /\ RepeatsAreEarned /\ DefinitionWins /\ DocsWinDocsQuestions
    BY DefinitionsWin, DocumentsWin DEF RerankIInv
  <1> QED BY <1>1, RerankStarts, RerankKeeps, PTL DEF RerankSpec

-----------------------------------------------------------------------------
(* No client holds a collection that was never made. *)
HandlesAreMade ==
    made \in Nat /\ gen \in [Coll -> 0 .. made] /\ shared \in [Proc -> [Coll -> 0 .. made]]

LEMMA OpenMakes ==
  ASSUME HandlesAreMade, NEW p \in Proc, NEW fresh \in BOOLEAN, Open(p, fresh)
  PROVE  HandlesAreMade'
  <1>1. made \in Nat /\ gen \in [Coll -> 0 .. made] /\ shared \in [Proc -> [Coll -> 0 .. made]]
    BY DEF HandlesAreMade
  <1>2. CASE UNCHANGED <<gen, made, shared>>
    BY <1>1, <1>2 DEF HandlesAreMade
  <1>3. CASE ~(shared[p] # None /\ ~fresh)
    <2>1. /\ gen' = [c \in Coll |-> IF gen[c] = 0 THEN made + 1 ELSE gen[c]]
          /\ made' = (IF Created = {} THEN made ELSE made + 1)
          /\ shared' = [shared EXCEPT ![p] = gen']
      BY <1>3 DEF Open
    <2>2. made' \in Nat /\ made <= made'
      BY <1>1, <2>1
    <2>3. gen' \in [Coll -> 0 .. made']
      <3>1. \A c \in Coll : gen[c] = 0 => made' = made + 1
        BY <2>1 DEF Created
      <3> QED BY <1>1, <2>1, <2>2, <3>1
    <2>4. [Coll -> 0 .. made] \subseteq [Coll -> 0 .. made']
      BY <1>1, <2>2
    <2> QED BY <1>1, <2>1, <2>2, <2>3, <2>4 DEF HandlesAreMade
  <1> QED BY <1>2, <1>3 DEF Open

(* Clients are opened, dropped, or left; a reset deletes collections. *)
LEMMA HandlesStayMade ==
  ASSUME HandlesAreMade, [ClientsNext]_clientVars
  PROVE  HandlesAreMade'
  <1>1. CASE UNCHANGED <<gen, made, shared>>
    BY <1>1 DEF HandlesAreMade
  <1>2. \A t \in Thread : p_(t) \in Proc
    BY ClientsAssumption DEF p_
  <1>3. ASSUME NEW t \in Thread, NEW fresh \in BOOLEAN, Open(p_(t), fresh)
        PROVE  HandlesAreMade'
    BY <1>2, <1>3, OpenMakes
  <1>4. ASSUME NEW t \in Thread, UNCHANGED <<gen, made>>,
               shared' = [shared EXCEPT ![p_(t)] = None]
        PROVE  HandlesAreMade'
    <2>1. /\ made \in Nat /\ gen \in [Coll -> 0 .. made]
          /\ shared \in [Proc -> [Coll -> 0 .. made]] /\ None \in [Coll -> 0 .. made]
      BY DEF HandlesAreMade, None
    <2>2. /\ made' = made /\ gen' = gen /\ shared' \in [Proc -> [Coll -> 0 .. made]]
      BY <1>4, <2>1
    <2> QED BY <2>1, <2>2 DEF HandlesAreMade
  <1>5. ASSUME NEW t \in Thread, DeleteCollection(t)
        PROVE  HandlesAreMade'
    <2>1. PICK c \in call[t].todo : gen' = [gen EXCEPT ![c] = 0]
      BY <1>5 DEF DeleteCollection
    <2>2. /\ made \in Nat /\ gen \in [Coll -> 0 .. made] /\ made' = made /\ shared' = shared
          /\ shared \in [Proc -> [Coll -> 0 .. made]]
      BY <1>5 DEF DeleteCollection, HandlesAreMade
    <2>3. gen' \in [Coll -> 0 .. made]
      <3>1. 0 \in 0 .. made
        BY <2>2
      <3> DEFINE Upto == 0 .. made
      <3> HIDE DEF Upto
      <3>2. gen \in [Coll -> Upto] /\ 0 \in Upto => gen' \in [Coll -> Upto]
        BY <2>1
      <3> QED BY <2>2, <3>1, <3>2 DEF Upto
    <2> QED BY <2>2, <2>3 DEF HandlesAreMade
  <1>6. ASSUME NEW t \in Thread, ReaderStep(t)
        PROVE  HandlesAreMade'
    <2>1. CASE AskReadiness(t) \/ AnswerReadiness(t) \/ Query(t) \/ AnswerSearch(t)
      BY <1>1, <2>1 DEF AskReadiness, AnswerReadiness, Query, AnswerSearch
    <2>2. CASE Count(t) \/ Search(t)
      BY <1>3, <2>2 DEF Count, Search
    <2>3. CASE CountAgain(t)
      BY <1>4, <2>3 DEF CountAgain
    <2>4. CASE QueryMissing(t) \/ SearchAgain(t)
      BY <1>1, <1>3, <2>4 DEF QueryMissing, SearchAgain
    <2> QED BY <1>6, <2>1, <2>2, <2>3, <2>4 DEF ReaderStep
  <1>7. ASSUME NEW t \in Thread, OperatorStep(t)
        PROVE  HandlesAreMade'
    <2>1. CASE Ingest(t)
      BY <1>3, <2>1 DEF Ingest
    <2>2. CASE Upsert(t)
      BY <1>1, <1>3, <2>2 DEF Upsert
    <2>3. CASE Record(t)
      BY <1>1, <2>3 DEF Record
    <2>4. CASE BeginReset(t) \/ EndReset(t)
      BY <1>4, <2>4 DEF BeginReset, EndReset
    <2> QED BY <1>5, <1>7, <2>1, <2>2, <2>3, <2>4 DEF OperatorStep
  <1>8. ASSUME NEW t \in Thread, Return(t)
        PROVE  HandlesAreMade'
    BY <1>1, <1>8 DEF Return
  <1> QED BY <1>1, <1>6, <1>7, <1>8 DEF ClientsNext, clientVars, Thread

(* What the parts of a search hold, each of them while any of them moves. *)
PartsHold ==
    /\ ClientsIInv /\ HandlesAreMade /\ GraphIInv /\ FusionIInv
    /\ (part = "rerank" => RerankIInv)
    /\ ContextIInv /\ EmbeddingIInv /\ DiscoveryIInv /\ InventoryIInv

(* Every part starts as its own module starts, or as it rests. *)
LEMMA PartsStart == MCInit => PartsHold
  <1> SUFFICES ASSUME MCInit
               PROVE  PartsHold
    OBVIOUS
  <1>1. /\ ClientsInit /\ GraphInit /\ EmbeddingInit /\ DiscoveryInit /\ InventoryInit
        /\ FusionInit \/ FusionRests
        /\ part = "rerank" => RerankInit
        /\ ContextInit \/ ContextStart(<<>>, <<>>, <<>>, FALSE)
    BY DEF MCInit
  <1>2. HandlesAreMade
    BY <1>1 DEF ClientsInit, HandlesAreMade, None
  <1> QED BY <1>1, <1>2, ClientsStarts, GraphStarts, FusionStarts, RerankStarts, ContextStarts,
             EmbeddingStarts, DiscoveryStarts, InventoryStarts DEF PartsHold

(* A step of the composition is, for each part, a step of it or none. *)
LEMMA PartsStep ==
  ASSUME [MCNext]_mcVars
  PROVE  /\ [ClientsNext]_clientVars /\ [GraphNext]_graphVars /\ [FusionNext]_fusionVars
         /\ [RerankNext]_rerankVars /\ part' = part /\ [ContextNext]_contextVars
         /\ [EmbeddingNext]_embeddingVars
  BY DEF MCNext, mcVars

(* A ranking that rests is in order. *)
LEMMA RerankRestsInOrder == RerankRests => RerankIInv
  <1> SUFFICES ASSUME RerankRests PROVE RerankIInv
    OBVIOUS
  <1>1. question \in Question /\ scored = {} /\ ranked = {} /\ shown = <<>>
    BY DEF RerankRests, Question
  <1>2. Len(shown) = 0 /\ DOMAIN shown = {} /\ shown \in Seq(Scored) /\ TopK \in Nat
    BY <1>1, RerankAssumption
  <1> QED BY <1>1, <1>2 DEF RerankIInv, RerankTypeOK, CandidatesAreScored, TakenLead,
                            ScoresDescend, RepeatsAreEarned, Scored

(* The ranking of a search is fair in every run of the composition, whatever the
   repository, the scores of the searches, the question and the bounds (hybrid_search,
   apply_external_import_seed_boost, rerank). *)
THEOREM RankingHolds == MCSpec => RankingIsFair
  <1> DEFINE Ranking == FusionIInv /\ RerankIInv
             Fair == /\ DefinitionSurvivesTheCut /\ AgreementIsNotPunished /\ DefinitionWins
                     /\ DocsWinDocsQuestions /\ RepeatsAreEarned /\ ScoresDescend
             InOrder == ranking # {} =>
                 \A i, j \in ranking :
                    /\ (i \in importers') = (j \in importers') /\ chunk[i] = chunk[j]
                    => (score[i] < score[j]) = (score'[i] < score'[j])
  <1>1. MCInit => Ranking
    BY FusionStarts, RerankStarts, RerankRestsInOrder DEF MCInit
  <1>2. Ranking /\ [MCNext]_mcVars => Ranking'
    BY PartsStep, FusionKeeps, RerankKeeps
  <1>3. Ranking => Fair
    BY TheCutIsFair, DefinitionsWin, DocumentsWin DEF RerankIInv
  <1>4. Ranking /\ [MCNext]_mcVars => [InOrder]_fusionVars
    BY PartsStep, BoostIsFair
  <1> HIDE DEF Ranking, InOrder, Fair
  <1>5. MCSpec => [](Fair) /\ [][InOrder]_fusionVars
    BY <1>1, <1>2, <1>3, <1>4, PTL DEF MCSpec
  <1> QED BY <1>5 DEF RankingIsFair, BoostKeepsOrder, InOrder, Fair

(* The types of everything a search reads, whatever moves (ChromaIndex, GraphBuilder,
   hybrid_search, rerank, the evidence, EmbeddingClient, discover_models, the inventory). *)
THEOREM RetrievalTypes == MCSpec => []RetrievalTypeOK
  <1>1. PartsHold /\ [MCNext]_mcVars => PartsHold'
    <2> SUFFICES ASSUME PartsHold, [MCNext]_mcVars
                 PROVE  PartsHold'
      OBVIOUS
    <2>1. ClientsIInv' /\ HandlesAreMade' /\ GraphIInv' /\ EmbeddingIInv'
      BY PartsStep, ClientsKeeps, HandlesStayMade, GraphKeeps, EmbeddingKeeps DEF PartsHold
    <2>2. FusionIInv' /\ ContextIInv' /\ (part = "rerank" => RerankIInv)'
      BY PartsStep, FusionKeeps, ContextKeeps, RerankKeeps DEF PartsHold
    <2>3. DiscoveryIInv' /\ InventoryIInv'
      BY ListingsStep, DiscoveryKeeps, InventoryKeeps DEF PartsHold
    <2> QED BY <2>1, <2>2, <2>3 DEF PartsHold
  <1>2. ASSUME PartsHold
        PROVE  RetrievalTypeOK
    <2>1. ClientsTypeOK
      <3>1. \A t \in Thread : call[t].found \subseteq Coll /\ call[t].todo \subseteq Coll
        BY <1>2, FieldsOfCall DEF PartsHold, ClientsIInv
      <3>2. holds \subseteq Coll
        BY <1>2 DEF PartsHold, ClientsIInv
      <3> QED BY <1>2, <3>1, <3>2 DEF PartsHold, HandlesAreMade, ClientsTypeOK
    <2>2. EmbeddingTypeOK
      <3>1. /\ texts \in 0 .. MaxTexts /\ sent \in 0 .. texts /\ reported \in 0 .. texts
            /\ outcome \in Outcomes /\ Len(vectors) <= sent /\ Len(vectors) \in Nat
        BY <1>2 DEF PartsHold, EmbeddingIInv, SentHasVectors
      <3>2. sent \in 0 .. MaxTexts /\ Len(vectors) <= texts
        BY <3>1, EmbeddingAssumption
      <3> QED BY <3>1, <3>2 DEF EmbeddingTypeOK, Outcomes
    <2>3. GraphTypeOK /\ FusionTypeOK /\ (part = "rerank" => RerankTypeOK) /\ ContextTypeOK
      BY <1>2 DEF PartsHold, GraphIInv, FusionIInv, RerankIInv, ContextIInv
    <2>4. DiscoveryTypeOK /\ InventoryTypeOK
      BY <1>2, DiscoveryIsTrue DEF PartsHold, InventoryIInv
    <2> QED BY <2>1, <2>2, <2>3, <2>4 DEF RetrievalTypeOK
  <1> QED BY <1>1, <1>2, PartsStart, PTL DEF MCSpec
=============================================================================
