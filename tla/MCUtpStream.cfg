SPECIFICATION FairSpec
CONSTANTS
  CAP = 2
  MTU = 2
  LIMIT = 2
  WINDOW = 1
  THRESHOLD = 1
  RECV_LIMIT = 2
  MAX_BYTES = 3
  FAULTS = 1
INVARIANT BufferAgrees
INVARIANT FragmentsAgree
INVARIANT AckedTaken
INVARIANT NeverRefused
PROPERTY ImplementsByteStream
PROPERTY AllRead
CHECK_DEADLOCK FALSE
