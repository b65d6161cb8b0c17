SPECIFICATION Spec
CONSTANT Requests = {r1, r2}
INVARIANT TypeOK
INVARIANT PoolsOutliveHandlers
INVARIANT CleanMeansComplete
INVARIANT WritesOnce
PROPERTY SignalEndsProcess
CHECK_DEADLOCK FALSE
