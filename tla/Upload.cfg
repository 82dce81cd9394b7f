\* Four hours of up to two records: passes over several files, and over files that
\* earlier passes have dealt with.
CONSTANTS
  MaxHour = 3
  MaxRecords = 2
  NULL = null
SPECIFICATION Spec
INVARIANTS IInv ReceivedWhole
PROPERTY SentUnlessFailed
