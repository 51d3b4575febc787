\* Each program over its own small instance.
SPECIFICATION Spec
CONSTANTS
  Archs <- TwoArchs
  MaxDays = 3
  MaxTransactions = 3
  Retained = 2
  NameOrder <- TwoNames
  NUnits = 2
  Published = 3
  MaxPublish = 1
  HubPages = 2
  TTL = 2
  MaxHour = 3
  Unasked = Unasked
  Items <- Traits
  MaxVersion = 2
  MaxPlans = 2
  MaxRelease = 2
  Worlds <- MCWorlds
  NStores = 2
  MaxChanges = 1
  Fleet = {c1, c2}
  HostPorts = {1, 2}
  MaxMoves = 2
  NPostgres = 2
  NSqlite = 1
  NQueries = 2
  Workloads = {ao_a}
  Claimed = 1
  MaxShifts = 1
  MaxPasses = 2
  NItems = 2
  MaxTyped = 2
  MaxPosts = 2
  MaxCloses = 1
  NEntries = 2
  MaxEdits = 1
  MaxLines = 2
  LastHour = 1
  NModels = 2
  MaxProbes = 2
  MaxWipes = 1
  NRuns = 2
  MaxSecond = 1
  NMachines = 2
  MaxSeconds = 2
  ProviderRefs = {f1, f2}
  Sales = {s1, s2}
  Amounts = {m1, m2}
  NRecordings = 2
  NProposals = 2
  Issues = {w1, w2}
  Registered = {w1}
  Completed = {w2}
  Grouped = {w1, w2}
  MaxRewrites = 1
  MaxCompiles = 2
CHECK_DEADLOCK FALSE
INVARIANTS
  DatesEarned CacheEarned
  EligibleEarned PlanStands
  AdviceMeasured FindingsEarned
  CopiesMatchPage StatusTrue TablesAgree
  ScrapeTold
  ClaimsMeasured PageOfOnePass
  NothingTypedLost
  PlotReconciles
  DivertedEarned OneCopyReadable
  RunsTraced OutcomeEarned
  ApprovalHolds
  RegisterAccounts
