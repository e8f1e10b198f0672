\* Two ingests of two pieces, a delete and a question; two ingests and two resets;
\* two tables of two rows, two writes beside the copy.
SPECIFICATION MCSpec
CONSTANTS
  ma = ma
  mb = mb
  mc = mc
  Model = {ma, mb, mc}
  Piece = {e1, e2}
  TrueDim <- Lengths
  KnownDim <- ListedLengths
  DefaultModel = ma
  Unnamed = Unnamed
  NoModel = NoModel
  Requested = {Unnamed, mb, mc}
  Trees = {{}, {e1, e2}}
  Question = {q1}
  Retention = 1
  MaxIngests = 2
  MaxRemovals = 1
  MaxOutages = 1
  theRepository = theRepository
  Repository = {theRepository}
  Ingest = {i1, i2}
  SourceOf <- OfOne
  MaxResets = 2
  MaxResetFaults = 1
  LegacyTables <- TwoTables
  CutoverRow = {1, 2}
  MaxWrites = 2
  MaxReportFaults = 1
SYMMETRY Symmetric
INVARIANTS CatalogIsTrue ResetIsTrue CutoverIsTrue
\* Questions and resets may end with every bound reached.
CHECK_DEADLOCK FALSE
