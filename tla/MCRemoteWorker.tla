--------------------------- MODULE MCRemoteWorker ---------------------------
(* Two workers with one session each; the first task may be replayed once.  *)
EXTENDS RemoteWorker

CONSTANTS w1, w2, s1, s2, s3, t1, t2

MCWorkerOf == [s \in Session |-> IF s = s3 THEN w2 ELSE w1]
MCHandles == [s \in Session |-> Task]
MCPriority == [t \in Task |-> IF t = t1 THEN 0 ELSE 1]
MCRetryLimit == [t \in Task |-> IF t = t1 THEN 1 ELSE 0]
MCPlace == [t \in Task |-> IF t = t1 THEN 0 ELSE 1]
MCWorkflowOf == [t \in Task |-> NoWorkflow]
MCMaxCalls == [f \in {} |-> 0]
=============================================================================
