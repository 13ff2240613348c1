SPECIFICATION QueueSpec
CONSTANTS
  w1 = w1
  s1 = s1
  s2 = s2
  e1 = e1
  t1 = t1
  t2 = t2
  Worker = {w1}
  Session = {s1, s2}
  WorkerOf <- MCWorkerOf
  NoSession = NoSession
  FenceAge = 2
  Task = {t1, t2}
  Engine = {e1}
  NoOwner = NoOwner
  Handles <- MCHandles
  Priority <- MCPriority
  RetryLimit <- MCRetryLimit
  Replayable = {t1}
  Delayed = {t1}
  Scheduled = {t2}
  Workflow = {}
  WorkflowOf <- MCWorkflowOf
  NoWorkflow = NoWorkflow
  Place <- MCPlace
  Llm = {}
  MaxCalls <- MCMaxCalls
  TokenCapped = {}
  MaxAttempts = 3
INVARIANTS
  OneLiveSession
  AttemptAccounting
  OneExecutorPerAttempt
PROPERTIES
  SessionsWindDown
  SuccessComesFromTheOwner
  ImplementsLifecycle
CHECK_DEADLOCK FALSE
