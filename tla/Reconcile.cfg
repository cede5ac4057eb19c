CONSTANTS
  Units = {1, 2, 3}
  Projects <- Chosen
SPECIFICATION Spec
INVARIANTS
  TypeOK
  Converged
  RecordsMatch
  NotLeftBehind
  StateStaysLoadable
PROPERTY DestroysFollow
