\* Of the two that send files to each other at most one has a window.
CONSTANTS
  a = a
  b = b
  c = c
  Clients = {a, b, c}
  Small = small
  Windows = {a, c}
  To <- EachOther
  Parts = 3
  Capacity = 2
  MaxFiles <- ThreeEach
  MaxSmall <- SmallToC
SPECIFICATION FairSpec
INVARIANTS
  TypeOK
  NothingLost
PROPERTIES
  FilesArrive
\* All files may have arrived.
CHECK_DEADLOCK FALSE
