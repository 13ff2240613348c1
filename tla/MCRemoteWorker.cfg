SPECIFICATION RemoteSpec
CONSTANTS
  w1 = w1
  w2 = w2
  s1 = s1
  s2 = s2
  s3 = s3
  t1 = t1
  t2 = t2
  Worker = {w1, w2}
  Session = {s1, s3}
  WorkerOf <- MCWorkerOf
  NoSession = NoSession
  FenceAge = 1
  Task = {t1}
  Engine = {}
  NoOwner = NoOwner
  Handles <- MCHandles
  Priority <- MCPriority
  RetryLimit <- MCRetryLimit
  Replayable = {t1}
  Delayed = {t1}
  Scheduled = {}
  Workflow = {}
  WorkflowOf <- MCWorkflowOf
  NoWorkflow = NoWorkflow
  Place <- MCPlace
  Llm = {}
  MaxCalls <- MCMaxCalls
  TokenCapped = {}
  MaxAttempts = 2
  Remote = {s1}
  MaxWire = 2
INVARIANTS
  CallOwnsItsAttempt
  NoOverlap
  ConsumerKnowsItsRows
  LateResultsKeepBudget
CHECK_DEADLOCK FALSE
