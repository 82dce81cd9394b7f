\* Three clients and queues of two messages: a queue fills, and the replies to two
\* clients that died block the server.
CONSTANTS
  Client = {c1, c2, c3}
  Value = {v0, v1}
  Initial = v0
  QueueSize = 2
  NULL = null
SPECIFICATION Spec
INVARIANT IInv
PROPERTIES ImplementsRegister CallEndsUnlessMet
\* All clients may have died.
CHECK_DEADLOCK FALSE
