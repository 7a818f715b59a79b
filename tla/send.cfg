SPECIFICATION FairSpec
CONSTANTS
  Frames <- MCFrames
  Received <- MCReceived
  Room = 3
  MaxCalls = 2
INVARIANTS TypeOK Accounted LogFirst WholeUnlessFull
PROPERTY Returns
CHECK_DEADLOCK FALSE
