\* Two requests or a request and a delete, a failing call, a restart, a worker crash, an expired lock.
SPECIFICATION FairSpec
CONSTANTS
  a1 = a1
  a2 = a2
  Job = {j1, j2}
  Repo = {r1}
  NoRepo = NoRepo
  NoJob = NoJob
  NoApi = NoApi
  Api = {a1}
  Worker = {w1}
  Deleter = {d1}
  WarmApis <- NoneWarm
  RetryMax = 1
  RetryTransientOnly = TRUE
  MaxFault = 1
  MaxRestart = 1
  MaxCrash = 1
  MaxExpiry = 1
CONSTRAINT TwoClients
PROPERTIES QueuedJobsEnd HandlersAnswer
\* Every request answered and every queue empty is a legal rest.
CHECK_DEADLOCK FALSE
