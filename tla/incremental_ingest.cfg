\* Two commits, any list of changed files, two failing calls; two merges, three jobs;
\* two clones, one failing command or one crash.
SPECIFICATION MCSpec
CONSTANTS
  m1 = m1
  m2 = m2
  NoFile = NoFile
  NoList = NoList
  File = {f1, f2}
  Content = {x, y}
  Module = {m1}
  ModuleOf <- OneFolder
  Lists = "any"
  MaxCommit = 2
  MaxFault = 2
  MaxMerges = 2
  MaxJobs = 3
  MaxGitFaults = 1
  MaxCrashes = 1
  Requests <- AllRequests
  MaxClones = 2
  MaxGitTroubles = 1
SYMMETRY Symmetric
INVARIANTS BranchTypeOK FreshIndex PlanIsKept MergesAreHonoured ClonesAreSafe
\* Ingests may end with every bound reached.
CHECK_DEADLOCK FALSE
