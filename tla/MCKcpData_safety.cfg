SPECIFICATION Spec
CONSTANTS
  SND_WND = 2
  RCV_WND = 2
  CWNDS = {2}
  MAX_FRAGS = 2
  XMIT_MAX = 2
  FASTRESEND = 1
  FASTLIMIT = 0
  TIMELY = FALSE
  MAX_MSGS = 2
  MAX_LOSS = 0
  MAX_DUP = 1
INVARIANT TypeOK
INVARIANT InOrder
INVARIANT AckedArrived
INVARIANT WindowKept
INVARIANT RecordsAgree
PROPERTY ImplementsChannel
CHECK_DEADLOCK FALSE
