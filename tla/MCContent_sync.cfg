SPECIFICATION Spec
CONSTANTS
  Idnos = {1, 2}
  Micro = {1}
  SameIdno = {1}
  Unmapped = {}
  PageSize = 1
  Workers = {w1, w2}
  Runner = Runner
  None = None
  RunCost = 2
  MaxWork = 2
  MaxChanges = 1
  MaxFaults = 1
INVARIANTS DeleteLeavesNothing BeliefHolds NothingSkipped
PROPERTY RunEnds
CHECK_DEADLOCK FALSE
