SPECIFICATION CallsSpec
CONSTANTS
  Codes <- MCCodes
  MaxLimit = 2
INVARIANTS
  EffectsHappenOnce
  FailuresAreTold
  OneCallAtATime
CHECK_DEADLOCK FALSE
