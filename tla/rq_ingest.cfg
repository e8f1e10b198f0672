\* Three requests on two warm replicas, two workers, one worker crash.
SPECIFICATION Spec
CONSTANTS
  a1 = a1
  a2 = a2
  Job = {j1, j2, j3}
  Repo = {r1}
  NoRepo = NoRepo
  NoJob = NoJob
  NoApi = NoApi
  Api = {a1, a2}
  Worker = {w1, w2}
  Deleter = {}
  WarmApis <- BothWarm
  RetryMax = 0
  RetryTransientOnly = TRUE
  MaxFault = 0
  MaxRestart = 0
  MaxCrash = 1
  MaxExpiry = 0
SYMMETRY Symmetric
INVARIANTS RqTypeOK AtMostOneIngest OneActiveRow
\* Every request answered and every queue empty is a legal rest.
CHECK_DEADLOCK FALSE
