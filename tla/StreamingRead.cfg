CONSTANTS
  N = 3
  Window = 1
  CanBreak = TRUE
SPECIFICATION FairSpec
CHECK_DEADLOCK FALSE
INVARIANTS TypeOK FinishesOnce QueueDrains ThreadsEndBeforeDelete OneResultPerLocation
PROPERTIES ImplementsBulkRead NoWriteAfterFinish StreamEnds
