SPECIFICATION Spec
CHECK_DEADLOCK FALSE
CONSTANTS
  WriteBufferSize = 0
  Faults <- MCFaults
  MaxSeq = 3
  MaxNum = 9
INVARIANTS Durable Recoverable TablesExist FreshNumbers
