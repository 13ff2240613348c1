SPECIFICATION LocalSpec
CONSTANTS
  r1 = r1
  l1 = l1
  p1 = p1
  x1 = x1
  x2 = x2
  t1 = t1
  t2 = t2
  Task = {t1, t2}
  Runner = {r1}
  Loop = {l1}
  Pool = {p1}
  Slot = {x1}
  PoolOf <- MCPoolOf
  Caller = Caller
  Nobody = Nobody
  NoTask = NoTask
  Weight <- MCWeight
  Budget <- MCBudget
  Later = {t1}
  Limited = {t2}
  Child <- MCChild
  Resubmits = {t2}
  Casts <- MCCasts
INVARIANTS
  NothingLost
  ExecutedAsGranted
PROPERTIES
  OutcomeOfLiveAttempt
  ImplementsLocalLifecycle
  StopEnds
  WorkIsDone
CHECK_DEADLOCK FALSE
