SPECIFICATION FairSpec
CONSTANTS
  Addr = {a, b, c}
  HOME = a
  MAX_RETRIES = 2
  MAX_MOVES = 2
  FAULTS = 1
INVARIANT PathAgrees
PROPERTY FreshProof
PROPERTY ValidationEnds
PROPERTY Follows
CHECK_DEADLOCK FALSE
