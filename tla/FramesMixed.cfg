\* Two clients send a file each to a third.
CONSTANTS
  a = a
  b = b
  c = c
  Clients = {a, b, c}
  Small = small
  Windows = {a, b, c}
  To <- BothToC
  Parts = 3
  Capacity = 2
  MaxFiles <- OneEach
  MaxSmall <- NoSmall
SPECIFICATION Spec
INVARIANT FramesWhole
\* All files may have arrived.
CHECK_DEADLOCK FALSE
