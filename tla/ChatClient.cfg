SPECIFICATION FairSpec
CONSTANTS
  Me = me
  Users = {u1, u2}
  System = u2
  Standard = {u1}
  Members = 200000
  Groups = {g1}
  NoChat = none
  Texts <- MCTexts
  Files <- MCFiles
  Envelope = 300
  MaxFrames = 2
  MaxActions = 3
INVARIANTS
  TypeOK
  
  UsersShown
  
  FramesFit
  RefusedForGroupsOnly
PROPERTIES
  FramesHandled
CHECK_DEADLOCK FALSE
