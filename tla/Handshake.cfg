SPECIFICATION FairSpec
CONSTANTS
  Absent = absent
  Empty = empty
  KeyLength = 2
  NameLength = 3
  MaxRequests = 2
  MaxPairs = 3
INVARIANTS
  TypeOK
  StartsWithPair
  RefusedForCause
PROPERTIES
  ImplementsSession
  LogsIn
CHECK_DEADLOCK FALSE
