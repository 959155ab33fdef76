CONSTANTS
  t1 = t1
  t2 = t2
  unknown = unknown
  k1 = k1
  Sockets = {s1}
  Remotes = {m1}
  LinksOf = {a1, a2}
  Leavers = {b1, b2}
  AdapterBuffer = 1
  MaxFeed = 3
  MaxWires = 2
  MaxLoops = 2
  RefCalls = {a1, a2}
  RefWriters = {b1, b2}
  RefTopics = {t1, t2}
  Scope <- MCScope
  FirstNodes = {1}
  Contents <- MCContents
  RefSoftCap = 1
  RefHardCap = 2
  Injections <- MCInjections
  Requested <- MCRequested
  InjectTopics = 2
  PerTopic = 2
  GlobalMaxNodes = 2
  MaxText = 2
  Compiles = {x1}
  Chains <- MCChains
  Asked <- MCAsked
  DefaultBudget = 8
  BudgetPercent = 50
  ModelWindows = {0, 6, 100}
  DeclaredWindow = 90
  MaxAncestors = 2
  MaxRefs = 1
  RetrievalSharePercent = 40
  ScopeTopics <- MCScopeTopics
  ResolvedTopics <- MCResolved
  Hits <- MCHits
  CompilerCards = {k1}
  CardRefMaxEvents = 2
  MaxCardEvents = 3
  Selections <- MCSelections
  SourceMin = 2
  SourceMax = 3
  SourceStart = 2
  SourceCap = 5
  BlockMax = 12
  Importers = {a1, a2}
  Stories = {1, 2, 3}
  StartedAt <- MCStartedAt
  ParentStory <- MCParentStory
  FirstAsk <- MCFirstAsk
  Unstorable = {3}
  NoStory = 0
  ImportOptions <- MCImportOptions
  Lengths <- MCLengths
  Archivable = {2}
  MaxRuns = 2
  Readers = {a1, a2}
  MaxAge = 1
  StaleCopy = 2
  MaxHour = 2
  MaxCopies = 2
  MaxFiles = 2
SPECIFICATION InterchangeSpec
INVARIANTS AdaptersSound 
SYMMETRY InterchangeSymmetry
CHECK_DEADLOCK FALSE
