--------------------------- MODULE MCDurableQueue ---------------------------
(* Two incarnations of one worker id and an engine, over two tasks: the     *)
(* first may be retried twice, the second is served first and never retried.*)
EXTENDS DurableQueue

CONSTANTS w1, s1, s2, e1, t1, t2

MCWorkerOf == [s \in Session |-> w1]
MCHandles == [s \in Session |-> Task]
MCPriority == [t \in Task |-> IF t = t1 THEN 0 ELSE 1]
MCRetryLimit == [t \in Task |-> IF t = t1 THEN 2 ELSE 0]
MCPlace == [t \in Task |-> IF t = t1 THEN 0 ELSE 1]
MCWorkflowOf == [t \in Task |-> NoWorkflow]
MCMaxCalls == [f \in {} |-> 0]
=============================================================================
