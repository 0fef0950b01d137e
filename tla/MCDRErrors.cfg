SPECIFICATION Spec
CONSTANTS
  MaxSeq = 1
  MaxDowns = 1
  MaxForeign = 1
  Expiry = FALSE
  Deadq = FALSE
  BrokenMayLand = FALSE
  Unexpected = TRUE
CHECK_DEADLOCK FALSE
INVARIANTS
  TypeOK
  NoPhantoms
  SwallowedOnlyAtDeadline
  ExitHonest
