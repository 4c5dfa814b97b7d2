SPECIFICATION FairSpec
CONSTANTS
  SND_WND = 2
  RCV_WND = 2
  CWNDS = {2}
  MAX_FRAGS = 1
  XMIT_MAX = 2
  FASTRESEND = 0
  FASTLIMIT = 0
  TIMELY = TRUE
  MAX_MSGS = 2
  MAX_LOSS = 0
  MAX_DUP = 0
PROPERTY AllDelivered
CHECK_DEADLOCK FALSE
