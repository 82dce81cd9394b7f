\* Two groups that share an interface; interfaces 0 and 2 share a bit.
CONSTANTS
  MAX_IF_NUM = 3
  IF_GROUP_NUM = 2
  MaskBits = 2
  Weight = 2
  Wrap = 1
  Configures <- ConfiguresBoth
  Reweighs = {1}
  Flaps = {1}
SPECIFICATION FairSpec
CONSTRAINT Claimed
INVARIANTS UpInOrder LengthInOrder
PROPERTIES InUseLeftAlone FollowsPhy
\* The process ends when a length wraps.
CHECK_DEADLOCK FALSE
