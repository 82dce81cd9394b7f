\* Pipes of two bytes and four packets for each worker: the capture thread blocks
\* on a full pipe, and several packets wait in a queue.
CONSTANTS
  nthreads = 2
  PipeCap = 2
  MaxPkt = 8
  NULL = null
SPECIFICATION FairSpec
INVARIANTS NoDanglingNode InOrder Announced IInv
PROPERTIES CaptureGoesOn ProcessedUnlessMissed
\* Packets stop arriving after MaxPkt.
CHECK_DEADLOCK FALSE
