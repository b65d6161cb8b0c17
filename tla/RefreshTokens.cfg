SPECIFICATION Spec
CONSTANTS
  Users = {u1}
  NoUser = NoUser
  Calls = {c1, c2}
  MaxTokens = 4
  Expiring = {2}
  Leaving = {u1}
SYMMETRY CallSymmetry
INVARIANTS TypeOK ChainsAreSound RefreshRetiresOld HoldsOneToken EndedStaysEnded
PROPERTY StepsAreSound
CHECK_DEADLOCK FALSE
