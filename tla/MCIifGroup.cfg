\* Two sessions that share a group and an interface; interfaces 0 and 2 share a bit.
CONSTANTS
  s1 = s1
  s2 = s2
  Session = {s1, s2}
  Configures <- ConfiguresShared
  MAX_IF_NUM = 3
  IF_GROUP_NUM = 2
  MaskBits = 2
  Wrap = 4
  INVALID_IIFGRP = none
SPECIFICATION Spec
INVARIANTS MaskOfMembers PortNumber IInv
PROPERTY JoinsUnlessMet
