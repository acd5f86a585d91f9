\* Two requests that may be running when the signal arrives.
CONSTANTS
  Requests = {r1, r2}
  NoError = NoError
SPECIFICATION Spec
SYMMETRY RequestSymmetry
INVARIANT ShutsDownCleanly
CHECK_DEADLOCK FALSE
