SPECIFICATION FairRecoverySpec
CONSTANTS
  w1 = w1
  s1 = s1
  e1 = e1
  t1 = t1
  Worker = {w1}
  Session = {s1}
  WorkerOf <- MCWorkerOf
  NoSession = NoSession
  FenceAge = 2
  Task = {t1}
  Engine = {e1}
  NoOwner = NoOwner
  Handles <- MCHandles
  Priority <- MCPriority
  RetryLimit <- MCRetryLimit
  Replayable = {t1}
  Delayed = {}
  Scheduled = {}
  Workflow = {}
  WorkflowOf <- MCWorkflowOf
  NoWorkflow = NoWorkflow
  Place <- MCPlace
  Llm = {}
  MaxCalls <- MCMaxCalls
  TokenCapped = {}
  MaxAttempts = 2
  DependsOn <- MCDependsOn
  Bound = {}
  Idempotent = {t1}
  Registries <- MCRegistries
  MaxLimit = 1
INVARIANTS
  HoldsMatchIncidents
  NoOverlapAnywhere
PROPERTIES
  DrainEnds
  LostRowsAreRecovered
  FailuresSurface
  WaitingTasksAreReleased
  DecisionsStand
CHECK_DEADLOCK FALSE
