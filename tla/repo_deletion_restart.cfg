\* One ingest and one delete, a restart and a failing call; deletes answer.
SPECIFICATION DeletionFairSpec
CONSTANTS
  r1 = r1
  r2 = r2
  Job = {j1}
  Repo = {r1}
  NoRepo = NoRepo
  NoJob = NoJob
  Deleter = {d1}
  PrefixOf <- NoPrefix
  IngestOrder <- AllLayers
  MaxFault = 1
  MaxCrash = 1
INVARIANTS DeletionTypeOK
PROPERTIES DeleteAnswers
\* Every request answered and every thread ended is a legal rest.
CHECK_DEADLOCK FALSE
