---------------------------- MODULE MCEngineQueue ----------------------------
(* Two engines and two tasks: the first may be retried after a delay, also   *)
(* when it was interrupted; the second is served first and never retried.    *)
EXTENDS EngineQueue

CONSTANTS e1, e2, t1, t2

MCNoSessions == [s \in {} |-> 0]
MCPriority == [t \in Task |-> IF t = t1 THEN 0 ELSE 1]
MCRetryLimit == [t \in Task |-> IF t = t1 THEN 2 ELSE 0]
MCPlace == [t \in Task |-> 0]
MCWorkflowOf == [t \in Task |-> NoWorkflow]
=============================================================================
