SPECIFICATION Spec
CONSTANTS
  MaxSeq = 2
  MaxDowns = 1
  MaxForeign = 0
  Expiry = FALSE
  Deadq = TRUE
  BrokenMayLand = TRUE
  Unexpected = FALSE
CHECK_DEADLOCK FALSE
INVARIANTS
  IInv
  SentLanded
  NoSeqSkipped
  DuplicatesNeedFailures
  WatcherMissesOnlyInDoubt
  FilesHonest
  VerdictSound
PROPERTIES
  SendRefines
