\* Three users in one group: a message that does not reach the last of them.
CONSTANTS
  Conns = {c1, c2, c3}
  Users <- ThreeUsers
  Groups = {g}
  NoConn = NoConn
  NoUser = NoUser
  MaxRequests = 2
SPECIFICATION Spec
SYMMETRY ConnSymmetry
PROPERTY ForwardsToConnectedClients
CHECK_DEADLOCK FALSE
