SPECIFICATION Spec
CONSTANTS
  a = a
  b = b
  o1 = o1
  o2 = o2
  CLIENT = CLIENT
  NONE = NONE
  PATHS <- TwoPaths
  OBJECTS <- TwoObjects
  RETRIES = 0
  WILLING = FALSE
  DATA = {"PUSH", "PING"}
  MAX_LOSS = 0
  MAX_DUP = 1
  MAX_EVENTS = 2
  MAX_FINS = 3
INVARIANT TypeOK
INVARIANT OneOutcome
INVARIANT AcceptedIsConnected
INVARIANT PathsAgree
SYMMETRY ObjectSymmetry
CHECK_DEADLOCK FALSE
