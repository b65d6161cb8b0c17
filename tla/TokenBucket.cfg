SPECIFICATION Spec
CONSTANTS
  Calls = {c1, c2}
  Burst = 2
  Period = 2
  Ttl = 5
  Interval = 2
  Delay = 1
  MaxTime = 13
  MaxLimiters = 3
SYMMETRY CallSymmetry
INVARIANTS TypeOK WithinRate IdleIsForgotten
PROPERTY EvictionIsHarmless
CHECK_DEADLOCK FALSE
