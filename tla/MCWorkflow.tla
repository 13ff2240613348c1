----------------------------- MODULE MCWorkflow -----------------------------
(* One workflow served by engines without a session.  "Join": two generation *)
(* nodes, the first of which may be retried, feed a third node through an    *)
(* input binding; two calls are allowed.                                      *)
(* "Fan": the same, and a fourth node that follows the third; of the two      *)
(* calls in flight at a time, a token cap admits one.                         *)
EXTENDS RecoverySystem

CONSTANTS w1, s1, e1, e2, t1, t2, t3, t4, f1

MCWorkerOf == [s \in Session |-> w1]
MCHandles == [s \in Session |-> Task]
MCPriority == [t \in Task |-> 0]
MCRetryLimit == [t \in Task |-> IF t = t1 THEN 1 ELSE 0]
MCPlace == [t \in Task |-> IF t = t1 THEN 0 ELSE IF t = t2 THEN 1 ELSE IF t = t3 THEN 2 ELSE 3]
MCWorkflowOf == [t \in Task |-> f1]
MCMaxCalls == [f \in {f1} |-> 2]
Join == [t \in Task |-> IF t = t3 THEN {t1, t2} ELSE {}]
Fan == [t \in Task |-> IF t = t4 THEN {t3} ELSE IF t = t3 THEN {t1, t2} ELSE {}]
MCRegistries == {Task}
=============================================================================
