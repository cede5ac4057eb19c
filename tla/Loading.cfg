SPECIFICATION Spec
CONSTANTS
  Projects <- All
  UnitTypes = {"shell", "tfmodule"}
  Providers = {"s3", "local"}
  MaxEdits = 3
  MaxRuns = 4
INVARIANTS
  TypeOK
  LoadIsExact
  RemoteStatesAreFound
