CONSTANTS
  Units = {1, 2, 3}
  Operate = {"Apply", "Destroy"}
  Force = {TRUE}
  LinkCounts = {2}
  MaxParallel = 2
  Plans <- AllPlans
SPECIFICATION FairSpec
INVARIANTS
  TypeOK
  StartsInOrder
  SavesWhenQuiet
  SuccessIsComplete
  RecordsAreTruthful
PROPERTIES RunsInOrder CommandReturns
