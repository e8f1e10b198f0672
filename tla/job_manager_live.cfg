\* Two requests, no store failure, one restart: every active row ends.
SPECIFICATION FairSpec
CONSTANTS
  Job = {j1, j2}
  Repo = {r1, r2}
  NoRepo = NoRepo
  NoJob = NoJob
  MaxFault = 0
  MaxCrash = 1
PROPERTIES EveryJobEnds ConflictMeansIngest
\* Every request answered and every thread ended is a legal rest.
CHECK_DEADLOCK FALSE
