CONSTANTS
  MAX_BUF_SIZE = 4
  MaxLen <- MCMaxLen
  MaxBytes = 9
SPECIFICATION Spec
PROPERTY ImplementsOverwriteQueue
CHECK_DEADLOCK FALSE
