SPECIFICATION MigrateSpec
CONSTANTS
  MAX_RANGES = 2
  ACK_RANGES = 2
  ADDRESSES = 2
  THRESHOLD = 2
  REORDERING = 1
  REORDER_THRESH = {1}
  MAX_TLP = 1
  MAX_DATA = 1
  MAX_PN = 4
  FAULTS = 1
INVARIANT AckedProcessed
CHECK_DEADLOCK FALSE
