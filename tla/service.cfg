\* What must end: questions, calls, starts, batches, waits; one module per behaviour.
SPECIFICATION MCSpec
CONSTANTS
  Store = {"graph", "vector", "lexical", "embedding", "llm"}
  Dependent = {d1}
  Budget = 1
  MaxFlips = 2
  q1 = q1
  q2 = q2
  Request = {q1, q2}
  Context = {"query", "health"}
  Flaky = {"chroma"}
  TTL = 1
  ProbeTimeout = 1
  Strict = TRUE
  Questions <- LiteralQuestions
  Definition <- Definitions
  FullText = {"f"}
  SymbolText <- SymbolTexts
  MaxLookupFaults = 2
  Sources <- SmallSources
  Candidates <- ModelCandidates
  Kinds = {"responses", "chat", "chat_default_temperature", "gone"}
  QueryMaxSeconds = 3
  RequestTimeout = 3
  MaxLlmFaults = 4
  u1 = u1
  u2 = u2
  v1 = v1
  o1 = o1
  Upgrader = {u1, u2}
  Validator = {v1}
  Operator = {o1}
  Crews <- SmallCrews
  Newest = 4
  Attempts = 2
  MaxFaults = 1
  Payloads <- SmallPayloads
  Limits = {1, 2, 3, 4, 7}
  MaxRequest = 6
  MaxBatch = 4
  MinBatch = 2
  MaxDepth = 2
  MaxResets = 2
  MaxDrops = 2
  Repository = {"r1", "r2"}
  ScriptRepository = "r1"
  MaxTasks = 2
  MaxPolls = 1
  MaxApiFlips = 1
  MaxLostAnswers = 1
INVARIANTS QueryPathTypeOK AnswersAreSound SchemaIsTrue UpsertIsExact ClientsTellTheTruth
PROPERTIES OutagesAreNoticed EveryWaitEnds
\* An answered question is a legal rest.
CHECK_DEADLOCK FALSE
