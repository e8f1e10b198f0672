\* Two ingests and a delete, or an ingest and two deletes, of one repository; one failing call.
SPECIFICATION DeletionSpec
CONSTANTS
  r1 = r1
  r2 = r2
  Job = {j1, j2}
  Repo = {r1}
  NoRepo = NoRepo
  NoJob = NoJob
  Deleter = {d1, d2}
  PrefixOf <- NoPrefix
  IngestOrder <- QueryLayers
  MaxFault = 1
  MaxCrash = 0
SYMMETRY Symmetric
CONSTRAINT ThreeClients
INVARIANTS DeletedMeansGone OngoingIngestBlocksDelete
\* Every request answered and every thread ended is a legal rest.
CHECK_DEADLOCK FALSE
