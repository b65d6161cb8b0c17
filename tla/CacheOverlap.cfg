SPECIFICATION Spec
CONSTANTS
  c1 = c1
  c2 = c2
  c3 = c3
  p1 = p1
  p2 = p2
  Calls = {c1, c2, c3}
  NoCall = NoCall
  Replicas = {p1, p2}
  NoReplica = NoReplica
  Serves <- TwoReplicas
  MaxVersion = 3
  Faults = {}
INVARIANT WindowCloses
