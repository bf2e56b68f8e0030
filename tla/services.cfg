SPECIFICATION ServicesSpec
CONSTANTS
  u1 = u1
  u2 = u2
  Users = {u1, u2}
  Markets <- MarketsDef
  Intents = {1, 2}
  Limits = {1, 2}
  GiftDays = 2
  LastDay = 1
  MaxAttempts = 1
  FreeCrashes = 1
  FleetJobs = {1, 2}
  MaxNodes = 2
  BudgetNodes = 2
  Growths <- GrowthsDef
  owner = owner
  admin = admin
  People = {owner, admin}
  Owner = owner
  Desks <- DesksDef
  Backlog = 1
  ChallengeTTL = 1
  LastTick = 1
  r1 = r1
  k1 = k1
  Readers = {r1}
  Repairs = {k1}
  AlertLevels = {1}
  w1 = w1
  w2 = w2
  Senders = {w1, w2}
  MaxSends = 2
  Lease = 2
  Delay = 1
  LastMinute = 2
  MaxRows = 2
  Changes = 1
  SendCrashes = 1
  e1 = e1
  e2 = e2
  Receipts = {e1, e2}
  Backend = "postgres"
  Wallets = {"wavepay"}
  Printed = {"A"}
  a1 = a1
  a2 = a2
  Assistants = {a1, a2}
  MaxReads = 2
  StaleAfter = 1
  RetryAfter = 1
  LastHour = 2
  Switches = 2
  Hosts = {1, 2}
  Plans = {"p", "q"}
  o1 = o1
  o2 = o2
  Sales = {o1, o2}
  g1 = g1
  Gifts = {g1}
  Shops <- ShopsDef
  RecoveryThreshold = 2
  FailureThreshold = 2
  c1 = c1
  c2 = c2
  c3 = c3
  Commits = {c1, c2, c3}
  NoCommit = none
  none = none
  Keep = 2
  DeployCrashes = 2
INVARIANTS
  ServicesTypeOK
  NoOversell
  OneLiveDailyKey
  FreeKeysMatchRows
  OneDropletPerJob
  WithinBudget
  NodeInUseIsKept
  EnrolmentIsAllOrNothing
  ConfirmedActionIsCurrent
  SentOnceUnlessUnsure
  ReadingsStand
  SoldWithinLimits
  FailedReleaseIsNotServed
CHECK_DEADLOCK FALSE
