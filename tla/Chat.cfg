\* Two connections that may ask for the same name, two requests of any kind.
\* No symmetry: liveness is checked, too.
CONSTANTS
  Conns = {c1, c2}
  Users <- TwoUsers
  Groups = {g}
  NoConn = NoConn
  NoUser = NoUser
  MaxRequests = 2
SPECIFICATION FairSpec
INVARIANTS
  TypeOK
  OneHolderPerName
  SelfListed
PROPERTIES
  NamesReleased
  PresenceReaches
  FanOutReachesAll
  ImplementsService
\* Every handler may have ended.
CHECK_DEADLOCK FALSE
