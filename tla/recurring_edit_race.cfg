SPECIFICATION Spec
CONSTANTS
  None = None
  Actors = {a1, a2}
  Rules <- Steady
  Ops = {"create", "edit"}
  Batch = 4
  MaxClock = 7
CHECK_DEADLOCK FALSE
SYMMETRY ActorSymmetry
INVARIANTS MarkerOfRule
