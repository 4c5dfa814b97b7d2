SPECIFICATION FairSpec
CONSTANTS
  MAX_RANGES = 2
  ACK_RANGES = 2
  ADDRESSES = 1
  THRESHOLD = 2
  REORDERING = 1
  REORDER_THRESH = {1}
  MAX_TLP = 1
  MAX_DATA = 2
  MAX_PN = 11
  FAULTS = 2
INVARIANT HistoryShape
INVARIANT AcksTruthful
INVARIANT AckedProcessed
INVARIANT TrackedOnce
INVARIANT AckDue
PROPERTY ImplementsAckSet
PROPERTY AllAcked
CHECK_DEADLOCK FALSE
