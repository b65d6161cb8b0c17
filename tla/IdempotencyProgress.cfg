SPECIFICATION FairSpec
CONSTANTS
  r1 = r1
  r2 = r2
  r3 = r3
  r4 = r4
  k1 = k1
  b1 = b1
  b2 = b2
  Requests = {r1, r2, r3, r4}
  Keys = {k1}
  NoKey = NoKey
  Bodies = {b1, b2}
  TooLarge = TooLarge
  KeyOf <- MixedKeys
  BodyOf <- MixedBodies
  Faults = {"lease", "panic", "crash", "hangup", "redis"}
PROPERTY Progress
