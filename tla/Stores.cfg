CONSTANTS
  AssetIds = {"a", "b"}
  Thresholds = {1, 2}
  Hysteresis = {0, 1}
  Labels = {"bad", "needs_review"}
  Categories = {"cause", "action"}
  Severities = {0, 1}
  LastTime = 2
  Budgets <- SomeBudgets
  None = None
  Codes = {"hum", "knock"}
  Definitions <- SmallDefinitions
  EventLength = 1
  Splits <- Tenths
  MaxGroups = 8
  Results <- SomeResults
  Reviewers = {"r1", "r2"}
  Requests = {1, 2}
  Slots = {s1}
  Samples = {1, 2}
  Leaky = {2}
  Mappings = {1, 2}
  Days = {1, 2}
  Exporters = {x1, x2}
  Allowances <- SomeAllowances
  Nothing = Nothing
  Shared = Shared
  Damaged = Damaged
  Emptied = Emptied
  Jobs = {j1, j2}
  Targets = {t1, t2}
  Outboxes = {p1, p2}
  Senders = {u, v}
  MaxAttempts = 2
  ModelNames = {1, 2, 3}
  Contents = {"c", "d"}
  Times = {0, 1}
  Environments = {"production"}
  Specimens = {1, 2, 3, 4}
  SampleLabels = {"a", "b", "c"}
  MaxWindows = 1
  Shares <- SomeShares
  Features <- SomeFeatures
  Entries <- SomeEntries
  KeySets <- SomeKeySets
  Machines <- SomeMachines
  Longest <- Lengths
  Undefined = Undefined
  Sessions <- SomeSessions
  Corrections <- ClockSteps
  EndOfDay = 12
  MaxMishaps = 1
  Sites = {s1, s2}
  Assets = {a1, a2}
  s1 = s1
  lte = lte
  a1 = a1
  a2 = a2
  d1 = d1
  Devices = {d1, d2}
  Points = {p1}
  Networks = {lte, lora}
  MaxRare = 2
  Nobody = Nobody
  Reports <- SentReports
  Retention = 2
  Horizon = 4
  Width = 2
  Batches <- SentBatches
  BootTime <- Boots
  Fresh = 3
  WindowRetention = 5
  EndTime = 7
  MaxRows = 6
  MaxPending = 3
  MaxRareSteps = 1
  NoRow = NoRow
SPECIFICATION StoresSpec
CHECK_DEADLOCK FALSE
INVARIANTS RecordsHold DatasetsHold AnswersHold EventsAreRuns RollbacksDescend
INVARIANTS TrainingHolds SplitIsFound QualityHolds RawWindowsHold
PROPERTIES FrozenAsReviewed RegistryKeeps ViewFollows
