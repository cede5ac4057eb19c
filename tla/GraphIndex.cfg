CONSTANTS
  u1 = u1
  u2 = u2
  u3 = u3
  Units = {u1, u2, u3}
  Operate = {"Apply", "Destroy", "NotChanged"}
  Candidates <- AnyGraphs
SPECIFICATION FairSpec
INVARIANTS
  RefusesCircles
  ListedInOrder
  RoundInv
PROPERTY Decides
