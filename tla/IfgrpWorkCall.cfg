CONSTANTS
  MD_IF_GRP_WORK_MAX = 2
  MAX_GRP_ACL = 3
  INVALID = invalid
  NULL = null
SPECIFICATION Spec
INVARIANT CallsAWork
