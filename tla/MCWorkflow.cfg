SPECIFICATION RecoverySpec
CONSTANTS
  w1 = w1
  s1 = s1
  e1 = e1
  e2 = e2
  t1 = t1
  t2 = t2
  t3 = t3
  t4 = t4
  f1 = f1
  Worker = {w1}
  Session = {}
  WorkerOf <- MCWorkerOf
  NoSession = NoSession
  FenceAge = 1
  Task = {t1, t2, t3}
  Engine = {e1, e2}
  NoOwner = NoOwner
  Handles <- MCHandles
  Priority <- MCPriority
  RetryLimit <- MCRetryLimit
  Replayable = {}
  Delayed = {}
  Scheduled = {}
  Workflow = {f1}
  WorkflowOf <- MCWorkflowOf
  NoWorkflow = NoWorkflow
  Place <- MCPlace
  Llm = {t1, t2}
  MaxCalls <- MCMaxCalls
  TokenCapped = {}
  MaxAttempts = 3
  DependsOn <- Join
  Bound = {t3}
  Idempotent = {t1}
  Registries <- MCRegistries
  MaxLimit = 2
INVARIANTS
  DependenciesFirst
  RunsAgreeWithTasks
  CallsStayWithinCap
PROPERTIES
  OpenIncidentsPauseClaims
  ImplementsOperatedLifecycle
CHECK_DEADLOCK FALSE
