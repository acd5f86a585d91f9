\* Two clients with windows send files to each other.
CONSTANTS
  a = a
  b = b
  c = c
  Clients = {a, b, c}
  Small = small
  Windows = {a, b}
  To <- EachOther
  Parts = 3
  Capacity = 2
  MaxFiles <- ThreeEach
  MaxSmall <- NoSmall
SPECIFICATION FairSpec
PROPERTY FilesArrive
\* All files may have arrived.
CHECK_DEADLOCK FALSE
