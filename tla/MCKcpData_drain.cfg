SPECIFICATION FairSpec
CONSTANTS
  SND_WND = 2
  RCV_WND = 2
  CWNDS = {2}
  MAX_FRAGS = 2
  XMIT_MAX = 2
  FASTRESEND = 1
  FASTLIMIT = 0
  TIMELY = TRUE
  MAX_MSGS = 3
  MAX_LOSS = 1
  MAX_DUP = 0
PROPERTY PointersAdvance
PROPERTY SenderDrains
PROPERTY WindowReopens
CHECK_DEADLOCK FALSE
