CONSTANTS
  Units = {1, 2, 3}
  Link <- ChainLinks
  MaxEdits = 3
  MaxRuns = 3
  MaxFaults = 1
  MayWrite <- Chain
SPECIFICATION Spec
INVARIANTS
  TypeOK
  OutputsAreFresh
  OutputsAreKept
  Settles
