\* The daemon, restarted once, and one gdim updateconn at a time.
CONSTANTS
  Servers = {k1}
  Users = {k1, k2}
  near = near
  far = far
  word = word
  Texts <- AllTexts
  Local <- Subnet
  Spellings <- Parsed
  PrivateIPs <- Relays
  Commands = {g1}
  Daemon = gdimd
  None = None
  MaxStarts = 2
SPECIFICATION Spec
INVARIANTS
  TypeOK
PROPERTIES
  SteadyRowsInstalled
  GivenUpBeforeIsGone
