SPECIFICATION FairSpec
CONSTANTS
  CONFIGS <- Configs
  MIN_SUPPORTED = 49
  STEP = 24
  TIMEOUT = 1
  INTERVAL = 1
  WINDOW = 0
  COOLDOWN = 1
  THRESHOLD = 2
  STREAK_MAX = 2
  DATA_SIZES = {1280, 1500}
  MAX_UNACKED = 2
INVARIANT TypeOK
INVARIANT Bounds
INVARIANT Confirmed
INVARIANT NoDeadEnd
INVARIANT CooldownQuiet
PROPERTY DeferredCommit
PROPERTY RoundEnds
CHECK_DEADLOCK FALSE
