\* Three works in four entries: lists of every length, and rebuilt in every order.
CONSTANTS
  MD_IF_GRP_WORK_MAX = 3
  MAX_GRP_ACL = 4
  INVALID = invalid
  NULL = null
SPECIFICATION FairSpec
INVARIANTS WorkOnce TablesMatch ReaderInTable CallsOnlyOffered IInv
PROPERTIES PublishedWhole QuietPacket PacketEnds
