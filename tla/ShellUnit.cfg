CONSTANTS
  Callers = {1, 2, 3}
  MaxSignals = 1
  None = 0
  Plans <- Chosen
SPECIFICATION Spec
INVARIANTS
  TypeOK
  OneAtATime
  AppliedOnce
  ForcedFirst
  OnlySharingKills
PROPERTIES
  RoutinesEnd
  SignalsReachChildren
CHECK_DEADLOCK FALSE
