SPECIFICATION Spec
CONSTANTS
  u = u
  v = v
  c1 = c1
  c2 = c2
  Users = {u}
  Cancelers = {u, v}
  Callbacks = {c1, c2}
  MaxOps = 4
SYMMETRY Symmetry
INVARIANTS
  LostNeedsRace
  TwiceNeedsRace
  ResetIsClean
  FailedIsThisCall
CHECK_DEADLOCK FALSE
