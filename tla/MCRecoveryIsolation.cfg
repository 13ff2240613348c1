SPECIFICATION RecoverySpec
CONSTANTS
  w1 = w1
  s1 = s1
  e1 = e1
  t1 = t1
  Worker = {w1}
  Session = {s1}
  WorkerOf <- MCWorkerOf
  NoSession = NoSession
  FenceAge = 1
  Task = {t1}
  Engine = {}
  NoOwner = NoOwner
  Handles <- MCHandles
  Priority <- MCPriority
  RetryLimit <- MCRetryLimit
  Replayable = {t1}
  Delayed = {}
  Scheduled = {}
  Workflow = {}
  WorkflowOf <- MCWorkflowOf
  NoWorkflow = NoWorkflow
  Place <- MCPlace
  Llm = {}
  MaxCalls <- MCMaxCalls
  TokenCapped = {}
  MaxAttempts = 3
  DependsOn <- MCDependsOn
  Bound = {}
  Idempotent = {t1}
  Registries <- MCRegistries
  MaxLimit = 1
PROPERTIES
  MissingHandlerIsIsolated
CHECK_DEADLOCK FALSE
