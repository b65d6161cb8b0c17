SPECIFICATION Spec
CONSTANTS
  r1 = r1
  r2 = r2
  r3 = r3
  r4 = r4
  k1 = k1
  b1 = b1
  b2 = b2
  Requests = {r1, r2, r3}
  Keys = {k1}
  NoKey = NoKey
  Bodies = {b1, b2}
  TooLarge = TooLarge
  KeyOf <- RetryKeys
  BodyOf <- RetryBodies
  Faults = {"lease", "ttl", "panic", "crash", "hangup", "redis"}
INVARIANTS TypeOK AtMostOneWrite ReplayIsGenuine
PROPERTIES SavedResponseIsFinal KeepsPromise
