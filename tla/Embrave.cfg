\* Two slots and requests of one or two packets, as in the code where the largest
\* request is as large as the queue.  Four packets: requests wait while fewer than two are free.
CONSTANTS
  MaxSize = 2
  MAX_EMBRAVE_NUM = 2
  MaxWorks = 1
  Wrap = 3
  Unit = {u1, u2, u3, u4}
  NULL = null
SPECIFICATION Spec
INVARIANTS IInv WholeUnlessLate BalancedUnlessMixed
PROPERTIES LeaksOnlyWhenFull Drains
