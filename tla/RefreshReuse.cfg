SPECIFICATION Spec
CONSTANTS
  Users = {u1}
  NoUser = NoUser
  Calls = {c1, c2}
  MaxTokens = 3
  Expiring = {}
  Leaving = {}
SYMMETRY CallSymmetry
INVARIANT ReuseEndsFamily
CHECK_DEADLOCK FALSE
