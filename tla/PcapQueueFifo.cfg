\* One worker with a two-slot ring: two packets wait together, so their order
\* shows.  The worker ring is never full here.
CONSTANTS
  Capture = capture
  NULL = null
  Pkt = {p1, p2}
  nthreads = 1
  PcapSize = 2
  WorkerSize = 2
  nbuf = 2
  Wrap = 4
SPECIFICATION Spec
PROPERTIES ImplementsPool
