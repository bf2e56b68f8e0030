SPECIFICATION Spec

CONSTANTS
  o1 = o1
  o2 = o2
  w1 = w1
  u1 = u1
  i1 = i1
  r1 = r1
  Orders = {o1, o2}
  Workers = {w1}
  MaxAttempts = 2
  MaxCrashes = 1
  MaxRetries = 0
  CleanupFails = TRUE
  Users = {u1}
  Topups = {o2}
  PromoUsers = {}
  Images = {i1}
  Refs = {r1}
  Surplus = {0, 1}
  Backend = "postgres"
  StorageConfigured = FALSE
  StorageRequired = FALSE
  AllowText = TRUE
  RejectUnstored = TRUE
  Owner <- OneOwner
  Price <- UnitPrice
  Opening <- OneUnit

INVARIANTS
  TypeOK
  OneOpenOrder
  WalletMatchesLedger
  ApprovedIsFunded
  AccessIsPaid
  LossIsBounded

PROPERTIES
  DecisionsStand

CHECK_DEADLOCK FALSE
