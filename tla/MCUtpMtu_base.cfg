SPECIFICATION Spec
CONSTANTS
  CONFIGS <- Configs
  MIN_SUPPORTED = 49
  STEP = 16
  TIMEOUT = 1
  INTERVAL = 1
  WINDOW = 0
  COOLDOWN = 1
  THRESHOLD = 2
  STREAK_MAX = 2
  DATA_SIZES = {1280, 1500}
  MAX_UNACKED = 2
INVARIANT BaseKept
CHECK_DEADLOCK FALSE
