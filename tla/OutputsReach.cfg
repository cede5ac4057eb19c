CONSTANTS
  Units = {1, 2}
  Link <- PairLinks
  MaxEdits = 3
  MaxRuns = 3
  MaxFaults = 0
  MayWrite <- Pair
SPECIFICATION Spec
INVARIANT OutputsReach
