CONSTANTS
  MAX_BUF_SIZE = 4
  MaxLen <- MCMaxLen
  MaxBytes = 9
SPECIFICATION Spec
INVARIANT PointersInBuf
PROPERTY ImplementsLossyQueue
CHECK_DEADLOCK FALSE
