SPECIFICATION FairSpec
CONSTANTS
  a = a
  b = b
  o1 = o1
  o2 = o2
  CLIENT = CLIENT
  NONE = NONE
  PATHS <- OnePath
  OBJECTS <- OneObject
  RETRIES = 1
  WILLING = TRUE
  DATA = {}
  MAX_LOSS = 1
  MAX_DUP = 0
  MAX_EVENTS = 2
  MAX_FINS = 3
INVARIANT GracefulIsMutual
PROPERTY PassiveSideEnds
CHECK_DEADLOCK FALSE
