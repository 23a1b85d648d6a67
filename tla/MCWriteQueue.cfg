SPECIFICATION Spec
CONSTANTS
  Client <- MCClient
  NoClient = none
  Calls <- MCCalls
  WriteBufferSize = 0
  L0_CompactionTrigger = 1
  L0_SlowdownWritesTrigger = 1
  L0_StopWritesTrigger = 2
  MaxFailures = 1
INVARIANTS AcknowledgedIsVisible NothingEarly ArrivalOrder SyncedWhenAcknowledged
PROPERTY AllReturn
