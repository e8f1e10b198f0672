\* Everything a search reads: one module per behaviour.
SPECIFICATION MCSpec
CONSTANTS
  t1 = t1
  t2 = t2
  t4 = t4
  p1 = p1
  p2 = p2
  Reader = {t1}
  Operator = {t2, t4}
  Proc = {p1, p2}
  ProcOf <- ProcessOf
  Coll = {c1, c2}
  MaxGlobalResets = 1
  File = {1, 2, 3}
  Reference = {9}
  Trees <- SmallTrees
  MaxUpserts = 2
  MaxFaults = 2
  Id = {1, 2, 3}
  Shape <- Shapes
  Similarity = {0, 90}
  LexicalScore = {1, 4}
  TopN = 2
  Widened = 4
  Asked <- Questions
  Pool <- Chunks
  MaxPicked = 3
  TopK = 3
  Rankings <- SmallRankings
  RawRecords <- SmallRaw
  FileRecords <- SmallFile
  NoisyPath = {"docs"}
  MaxNodes = 2
  MaxEdges = 4
  MaxChars = 12
  Separator = 1
  RecordSize = 2
  ExportName = {"a", "b", "default"}
  Repositories <- SmallRepositories
  Symbol <- FoundSymbols
  Scope <- FileScopes
  MaxSymbols = 3
  MaxTexts = 5
  TextsPerRequest = 2
  IdsPerWrite = 3
  NativeDims = {768, 3072}
  DefaultDim = 768
  MaxEmbedCalls = 2
  MaxBadAnswers = 2
  Lookup = {l1, l2}
  Chain <- SourcesOf
  CacheTtl = 1
  SlowestLookup = 1
  MaxPublications = 1
  MaxSourceFaults = 1
  SourceFile = {1, 2, 3, 4}
  Folder = {1, 2}
  Alias = {"a", "b"}
  Matches <- AliasMatches
  FileTrees <- SmallFolders
  Spelling = {2, 9}
  Limit = 2
  PageSizes = {0, 1, 3, 9}
  DefaultSize = 2
  MaxPageSize = 3
  MaxIngests = 1
  MaxOutages = 1
  MaxRestarts = 1
INVARIANTS RetrievalTypeOK ClientsHeal GraphIsSound EvidenceIsKept
   ListingsAreTrue
PROPERTIES RankingIsFair NamesResolveSoundly
\* A finished search is a legal rest.
CHECK_DEADLOCK FALSE
