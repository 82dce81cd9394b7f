\* Two groups, each interface with a bit of its own.
CONSTANTS
  MAX_IF_NUM = 2
  IF_GROUP_NUM = 2
  MaskBits = 2
  Weight = 2
  Wrap = 1
  Configures <- ConfiguresAll
  Reweighs = {0, 1}
  Flaps = {0, 1}
SPECIFICATION Spec
INVARIANT UpUnlessMet
\* The process ends when a length wraps.
CHECK_DEADLOCK FALSE
