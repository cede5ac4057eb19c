CONSTANTS
  s1 = s1
  s2 = s2
  s3 = s3
  Sessions = {s1, s2}
  Kinds = {"apply"}
  Backends = {"s3"}
SPECIFICATION Spec
SYMMETRY Interchangeable
PROPERTY OthersLeaveTheLock
