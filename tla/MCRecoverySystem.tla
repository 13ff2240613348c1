-------------------------- MODULE MCRecoverySystem --------------------------
(* One incarnation of a worker, an engine, and a standalone task.            *)
EXTENDS RecoverySystem

CONSTANTS w1, s1, e1, t1

MCWorkerOf == [s \in Session |-> w1]
MCHandles == [s \in Session |-> Task]
MCPriority == [t \in Task |-> 0]
MCRetryLimit == [t \in Task |-> 1]
MCPlace == [t \in Task |-> 0]
MCWorkflowOf == [t \in Task |-> NoWorkflow]
MCMaxCalls == [f \in {} |-> 0]
MCDependsOn == [t \in Task |-> {}]
MCRegistries == {Task, {}}
=============================================================================
