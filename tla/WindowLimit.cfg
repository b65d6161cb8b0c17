CONSTANTS
  Window = 3
  Limit = 2
  Second = 3
  Skew = 1
  MaxTime = 6
  MaxRequests = 4
SPECIFICATION Spec
INVARIANTS TypeOK WithinLimit BoundedMemory DelayIsRight
CHECK_DEADLOCK FALSE
