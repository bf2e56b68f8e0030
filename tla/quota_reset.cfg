SPECIFICATION Spec
CONSTANTS
  Servers = {s1, s2}
  Home = s1
  Moves = {1}
  Quota = 2
  MaxCrashes = 1
  DeleteCutShort = FALSE
  CarefulStaff = TRUE
  TrackUsage = TRUE
  Lifecycles = {"retired"}
PROPERTY RepairKeepsUsage
CHECK_DEADLOCK FALSE
