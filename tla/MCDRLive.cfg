SPECIFICATION FairSpec
CONSTANTS
  MaxSeq = 1
  MaxDowns = 1
  MaxForeign = 1
  Expiry = TRUE
  Deadq = TRUE
  BrokenMayLand = FALSE
  Unexpected = FALSE
CHECK_DEADLOCK FALSE
PROPERTIES
  BothEnd
  SentServed
