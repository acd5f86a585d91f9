\* Two users, two requests at a time, the purge goroutine with its lag.
CONSTANTS
  UserIDs = {u1, u2}
  v4 = v4
  mapped = mapped
  other = other
  word = word
  Texts <- AllTexts
  Spellings <- Addresses
  Host <- Denotes
  Handlers = {h1, h2}
  None = None
  TTL = 1
  MaxLag = 1
  MaxNonces = 2
SPECIFICATION FairSpec
INVARIANTS
  TypeOK
  SingleUse
PROPERTIES
  ChangedByOwner
  KeptUntilExpired
  NoncesPurged
