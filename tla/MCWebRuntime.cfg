\* The exchange: two attempts and two workers: a worker that lost the lease of one may
\* already work on the other. One mishap. The other parts: see the README.
CONSTANTS
  Attempts = {a1, a2}
  Actors = {owner}
  Codes = {c1}
  Workers = {w1, w2}
  MaxMishaps = 1
  None = none
  Shops = {"shop1", "shop2"}
  Products = {"product1", "product2"}
  Ranges = {week, month}
  AdTypes = {allTypes, auto}
  AllTypes = allTypes
  TablePageSize = 1
  MaxRows = 2
  MaxPending = 1
  CatalogPageSize = 1
  MaxOffset = 2
  PlainSections = {"balance", "toggle"}
  MaxCampaigns = 2
  CampaignLimit = 1
  Values = {0, 1}
  MaxPages = 1
  MaxMinutes = 1
  StagedSnapshots <- SavedSnapshots
  Measurements = {1, 2}
  Captures <- MeasuredMinutes
  MemberShops = {"shop1"}
  MaxRevision = 2
  Editors = {"editor1", "editor2"}
  Sources <- SourceVersions
  Inputs <- PreviewInputs
  Ours = "ours"
  MaxVersion = 2
  LimitRequests <- RequestsOfShops
  PolicySets <- KnownAndUnknown
  Waits = {2}
  MaxSeconds = 3
  MaxCooldowns = 1
  Jobs = {1, 2}
  Clients = {"client"}
  Environments <- Starts
  MaxClaims = 1
  MaxClock = 2
  Envelopes <- Twins
  Events = {"event"}
  Identities = {"slot"}
  JobIds = {"job1", "job2"}
  DeadLetterIds = {"letter"}
  Callers = {"p", "q"}
  WorkerIds = {"worker"}
  WorkerIdOf <- OneWorkerId
  Readings = {1, 2}
  MaxGeneration = 2
  Schedulers = {"scheduler1", "scheduler2"}
  Slots = {"noon", "night"}
  TriggerIds = {"trigger1", "trigger2"}
  StoredRuns = {"run1", "run2"}
  Collections <- SomeCollections
SPECIFICATION PartsSpec
SYMMETRY Symmetry
INVARIANTS
  TypesOK
  DisplayIsCurrent
  ReadsAreFounded
  StagingIsFounded
  AllowIsFounded
  ProcessIsFounded
  AllOrNothing
PROPERTIES
  HolderSettles
  ShopIsKept
  RowsAreKept
  LimitsAreKept
