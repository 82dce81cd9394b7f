\* Two workers with one-slot rings and two buffers: as in the code, the worker
\* rings together have as many slots as the pool, so a stalled worker finds its
\* ring full while buffers are left.  The counters wrap after four steps.
CONSTANTS
  Capture = capture
  NULL = null
  Pkt = {p1}
  nthreads = 2
  PcapSize = 2
  WorkerSize = 1
  nbuf = 2
  Wrap = 4
SPECIFICATION FairSpec
INVARIANTS BufferConservation PoolHasRoom HeaderComplete IInv
PROPERTIES ImplementsFairPool BufferReturns
