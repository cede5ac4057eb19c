CONSTANTS
  s1 = s1
  s2 = s2
  s3 = s3
  Sessions = {s1, s2, s3}
  Kinds = {"apply", "output", "pull", "update", "unlock"}
  Backends = {"local", "s3", "gcs", "azurerm"}
SPECIFICATION Spec
SYMMETRY Interchangeable
INVARIANTS
  TypeOK
  SequenceIsExact
  NothingInvented
  LockHasOwner
PROPERTIES
  NeverForgets
  OnlyOwnersDeploy
