CONSTANTS
  nthreads = 2
  PipeCap = 2
  MaxPkt = 2
  NULL = null
SPECIFICATION FairSpec
PROPERTY Processed
\* Packets stop arriving after MaxPkt.
CHECK_DEADLOCK FALSE
