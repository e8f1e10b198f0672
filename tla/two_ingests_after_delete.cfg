\* The orphan mark of a delete lets a second ingest in beside the first.
SPECIFICATION DeletionSpec
CONSTANTS
  r1 = r1
  r2 = r2
  Job = {j1, j2}
  Repo = {r1}
  NoRepo = NoRepo
  NoJob = NoJob
  Deleter = {d1}
  PrefixOf <- NoPrefix
  IngestOrder <- QueryLayers
  MaxFault = 0
  MaxCrash = 0
INVARIANTS AtMostOneIngest
\* Every request answered and every thread ended is a legal rest.
CHECK_DEADLOCK FALSE
