SPECIFICATION LedgerSpec

CONSTANTS
  o1 = o1
  o2 = o2
  w1 = w1
  u1 = u1
  i1 = i1
  r1 = r1
  Orders = {o1, o2}
  Workers = {w1}
  MaxAttempts = 2
  MaxCrashes = 1
  MaxRetries = 0
  CleanupFails = FALSE
  Users = {u1}
  Topups = {}
  PromoUsers = {u1}
  Images = {i1}
  Refs = {r1}
  Surplus = {0, 1}
  Backend = "sqlite"
  StorageConfigured = TRUE
  StorageRequired = TRUE
  AllowText = TRUE
  RejectUnstored = FALSE
  Owner <- OneOwner
  Price <- UnitPrice
  Opening <- OneUnit

INVARIANTS
  ReservedWalletIsApprovable

CHECK_DEADLOCK FALSE
