------------------------------- MODULE MCService -------------------------------
(* Small instances of the modules a question goes through, and of those that
   bring up what it is asked of, one of them per behaviour: the preflight that
   admits it, its flow, the route that answers with a literal, the calls of the LLM,
   the start of the processes, the batches of an ingest and the clients
   that wait for its end. The modules share no variable; `part` says which one
   moves, the others keep their first state. *)
EXTENDS QueryFlow, StorageHealth, LiteralMode, LlmClient, SchemaStartup,
        ChromaUpsert, IngestClients

VARIABLE part
mcVars == <<part, queryVars, healthVars, literalVars, llmVars, schemaVars,
            upsertVars, watchersVars>>

-----------------------------------------------------------------------------
(* LiteralMode: names with no, one and several definitions, some of them in
   tests, and with or without text. *)
Defined(path)    == [path |-> path, test |-> FALSE]
DefinedByTest(p) == [path |-> p, test |-> TRUE]
Definitions ==
    [s \in {"A", "B", "C", "D", "E", "F"} |->
        CASE s \in {"A", "F"} -> {Defined("a")}
          [] s = "B" -> {Defined("a"), Defined("b")}
          [] s = "C" -> {Defined("a"), DefinedByTest("t")}
          [] s = "D" -> {}
          [] OTHER   -> {DefinedByTest("t"), DefinedByTest("u")}]
SymbolTexts == {<<"a", "A">>, <<"a", "C">>, <<"b", "B">>}
LiteralQuestions ==
    [files : {<<>>, <<"f">>, <<"g">>, <<"g", "f">>},
     symbols : {<<>>, <<"A">>, <<"B", "A">>, <<"C">>, <<"D", "A">>, <<"E", "C">>, <<"F", "A">>,
                <<"A", "C">>}]
Line == UNION {[1 .. k -> {"{", "}", "x"}] : k \in 0 .. 2}
SmallSources == [1 .. 3 -> Line]

(* LlmClient *)
ModelCandidates == <<"m1", "m2", "m3">>

(* SchemaStartup: two replicas of a development server, one with a production
   worker, one during a cutover. *)
CONSTANTS u1, u2, v1, o1
SmallCrews == {{u1, u2}, {u1, v1}, {u1, o1}}

(* ChromaUpsert: documents of equal and of uneven sizes, some above the budget
   or the limit of the server by themselves. *)
SmallPayloads ==
    {<<1, 1, 1, 1, 1, 1, 1>>, <<3, 1, 1, 2, 1>>, <<1, 3, 1, 1, 1, 1>>, <<2, 2, 2, 2>>,
     <<>>, <<1>>}

-----------------------------------------------------------------------------
(* The first state a module keeps while another one moves. *)
NoQuestion == [files |-> <<>>, symbols |-> <<>>]
QueryRests ==
    /\ ask = [endpoint |-> "query", route |-> "hybrid", targets |-> 1, dependents |-> Dependent,
              matches |-> {}, llm |-> FALSE, verify |-> FALSE]
    /\ chroma = FALSE
LlmRests ==
    /\ provider = "openai" /\ sdk = "none" /\ spent = 0
    /\ kind = [m \in {ModelCandidates[i] : i \in DOMAIN ModelCandidates} |-> "gone"]

SchemaRests ==
    /\ version = Newest /\ odd = FALSE /\ crew = {u1, u2}
UpsertRests == sizes = <<>> /\ limit = 1

MCInit ==
    /\ part \in {"query", "health", "literal", "llm", "schema", "upsert", "watchers"}
    /\ IF part = "query" THEN TRUE ELSE QueryRests
    /\ IF part = "llm" THEN TRUE ELSE LlmRests
    /\ IF part = "schema" THEN TRUE ELSE SchemaRests
    /\ IF part = "upsert" THEN TRUE ELSE UpsertRests
    /\ IF part = "watchers" THEN TRUE ELSE apiUp = TRUE
    /\ WatchersInit
    /\ QueryInit /\ HealthInit /\ LlmInit /\ SchemaInit /\ UpsertInit
    /\ IF part = "literal" THEN LiteralInit ELSE LiteralStart(NoQuestion, <<>>)

QueryMoves(A) ==
    /\ part = "query" /\ A
    /\ UNCHANGED <<part, healthVars, literalVars, llmVars, schemaVars,
                   upsertVars, watchersVars>>
HealthMoves(A) ==
    /\ part = "health" /\ A
    /\ UNCHANGED <<part, queryVars, literalVars, llmVars, schemaVars,
                   upsertVars, watchersVars>>
LiteralMoves(A) ==
    /\ part = "literal" /\ A
    /\ UNCHANGED <<part, queryVars, healthVars, llmVars, schemaVars,
                   upsertVars, watchersVars>>
LlmMoves(A) ==
    /\ part = "llm" /\ A
    /\ UNCHANGED <<part, queryVars, healthVars, literalVars, schemaVars,
                   upsertVars, watchersVars>>
SchemaMoves(A) ==
    /\ part = "schema" /\ A
    /\ UNCHANGED <<part, queryVars, healthVars, literalVars, llmVars,
                   upsertVars, watchersVars>>
UpsertMoves(A) ==
    /\ part = "upsert" /\ A
    /\ UNCHANGED <<part, queryVars, healthVars, literalVars, llmVars,
                   schemaVars, watchersVars>>
WatchersMove(A) ==
    /\ part = "watchers" /\ A
    /\ UNCHANGED <<part, queryVars, healthVars, literalVars, llmVars,
                   schemaVars, upsertVars>>

MCNext ==
    \/ QueryMoves(QueryNext) \/ HealthMoves(HealthNext)
    \/ LiteralMoves(LiteralNext) \/ LlmMoves(LlmNext) \/ SchemaMoves(SchemaNext)
    \/ UpsertMoves(UpsertNext) \/ WatchersMove(WatchersNext)

(* The fairness of each module, for the behaviours in which it moves. In a
   behaviour one part moves and the actions of the others are never enabled, so
   weak fairness of one action of each part is that of their disjunction. *)
CONSTANTS q1, q2

MCFairness ==
    /\ SF_mcVars(HealthMoves(Tick))
    /\ WF_mcVars(\/ QueryMoves(Step) \/ LiteralMoves(LiteralNext) \/ LlmMoves(LlmStep)
                 \/ UpsertMoves(NextBatch \/ Accepted \/ TooLarge \/ Missing)
                 \/ HealthMoves(Probe(q1)) \/ SchemaMoves(Proceed(u1)) \/ WatchersMove(TaskEnds))
    /\ WF_mcVars(\/ HealthMoves(Probe(q2)) \/ SchemaMoves(Proceed(u2))
                 \/ WatchersMove(ScriptStep))
    /\ WF_mcVars(\/ HealthMoves(Report(q1)) \/ SchemaMoves(Proceed(v1))
                 \/ WatchersMove(WindowAnswered))
    /\ WF_mcVars(HealthMoves(Report(q2)) \/ WatchersMove(WindowPolls))

MCSpec == MCInit /\ [][MCNext]_mcVars /\ MCFairness

-----------------------------------------------------------------------------
(* The type invariants of the modules. *)
QueryPathTypeOK ==
    QueryTypeOK /\ HealthTypeOK /\ LiteralTypeOK /\ LlmTypeOK
        /\ SchemaTypeOK /\ UpsertTypeOK /\ WatchersTypeOK

(* Every question ends, on whichever way it goes: the flow of a query, the lookup
   of a component, the calls of the LLM; and every upsert of an ingest. *)
MovingEnds ==
    CASE part = "upsert"  -> UpsertEnded
      [] part = "query"   -> QueryAnswered
      [] part = "literal" -> QuestionEnded
      [] part = "llm"     -> CallEnded
      [] OTHER            -> TRUE
QuestionsAreAnswered == <>MovingEnds

(* Every process that starts gets to serve (ensure_postgres_schema_ready). *)
EveryCrewGetsReady == part = "schema" => ProcessesGetReady

(* On every way a question goes: dependents are hidden only by an outage of the graph
   or, with that reason given, by a spent budget, and only the stores of the search
   are fatal, an answer that is shown was vouched for
   and uses the stores that answer, a literal is the one asked for, and a model that
   works is reached with few timeouts. *)
AnswersAreSound ==
    QueryIsSound /\ LiteralIsSound /\ BlockIsBalanced /\ LlmIsSound

(* Whoever waits is answered: a question, whose calls of the LLM start within its
   budget of time, a process that starts, a client that watches an ingest. *)
EveryWaitEnds == QuestionsAreAnswered /\ CallsStartInBudget /\ EveryCrewGetsReady /\ WatchersEnd
=============================================================================
