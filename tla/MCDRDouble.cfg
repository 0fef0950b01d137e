SPECIFICATION Spec
CONSTANTS
  MaxSeq = 1
  MaxDowns = 2
  MaxForeign = 0
  Expiry = FALSE
  Deadq = TRUE
  BrokenMayLand = FALSE
  Unexpected = FALSE
CHECK_DEADLOCK FALSE
INVARIANT DoubleLandingDetectable
