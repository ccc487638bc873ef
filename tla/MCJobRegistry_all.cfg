\* Three jobs over two keys, one slot, a history of two: reuse of a key, a waiter on
\* the semaphore and an eviction all happen; and every job ends, if its work does.
SPECIFICATION FairSpec
CONSTANTS
  Key = {k1, k2}
  Kind <- MCKind
  Guarded <- MCGuarded
  Stoppable <- MCStoppable
  Slots = 1
  MaxHistory = 2
  MaxJobs = 3
INVARIANTS TypeOK OnePerKey KeysMatchJobs UncancelledWithinSlots
PROPERTIES CancelIsFinal EvictionPolicy IsSingleFlight EveryJobEnds CancelStopsWork
CHECK_DEADLOCK FALSE
