SPECIFICATION EngineSpec
CONSTANTS
  e1 = e1
  e2 = e2
  t1 = t1
  t2 = t2
  Worker = {}
  Session = {}
  WorkerOf <- MCNoSessions
  NoSession = NoSession
  FenceAge = 1
  Task = {t1, t2}
  Engine = {e1, e2}
  NoOwner = NoOwner
  Handles <- MCNoSessions
  Priority <- MCPriority
  RetryLimit <- MCRetryLimit
  Replayable = {t1}
  Delayed = {t1}
  Scheduled = {t2}
  Workflow = {}
  WorkflowOf <- MCWorkflowOf
  NoWorkflow = NoWorkflow
  Place <- MCPlace
  Llm = {}
  MaxCalls <- MCNoSessions
  TokenCapped = {}
  MaxAttempts = 3
  NoTask = NoTask
  MaxCrashes = 2
INVARIANTS
  OwnsWhatItRuns
PROPERTIES
  TasksEnd
CHECK_DEADLOCK FALSE
