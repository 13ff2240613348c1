SPECIFICATION CallsSpec
CONSTANTS
  Codes <- MCCodes
  MaxLimit = 2
INVARIANTS
  ModelCalledOnce
CHECK_DEADLOCK FALSE
