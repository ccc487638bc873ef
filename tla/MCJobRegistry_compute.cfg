\* What app/_ingest.py says of the number of jobs computing embeddings.
SPECIFICATION Spec
CONSTANTS
  Key = {k1, k2}
  Kind <- MCGuarded
  Guarded <- MCGuarded
  Stoppable <- MCStoppable
  Slots = 1
  MaxHistory = 1
  MaxJobs = 2
INVARIANTS ComputeWithinSlots
CHECK_DEADLOCK FALSE
