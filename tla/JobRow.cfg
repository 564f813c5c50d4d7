SPECIFICATION Spec
CONSTANTS
  Slot = {s1, s2}
  Operator = {op}
  MoveTarget = {"planning", "reporting"}
  Api = api
  JobAttempts = 2
SYMMETRY Interchangeable
INVARIANTS
  TypeOK
  NoPhaseSkipped
  BeliefWasStored
CHECK_DEADLOCK FALSE
