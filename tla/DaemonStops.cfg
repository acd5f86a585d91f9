\* Two requests, every order of failures and signals.
CONSTANTS
  Requests = {r1, r2}
  NoError = NoError
SPECIFICATION FairSpec
INVARIANTS
  TypeOK
  ClosedUnlessFailed
  CauseReported
 
\* The process ends.
CHECK_DEADLOCK FALSE
