CONSTANTS
  Units = {1, 2}
  Operate = {"Apply", "Destroy"}
  Force = {TRUE}
  LinkCounts = {0, 1}
  MaxParallel = 2
  Plans <- MixedPlans
SPECIFICATION Spec
INVARIANT SuccessMeansNoError
