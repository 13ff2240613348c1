--------------------------- MODULE TaskLifecycle ---------------------------
(***************************************************************************)
(* What the engine promises of one task, to a caller who sees only         *)
(* its status and its retry counter (README of the repository, "任务状态"): *)
(* a task is executed, and executed again at most as often as its budget   *)
(* allows; a success is final; a failure is final for the engine, and only *)
(* an operator may turn it into a success or grant another execution.      *)
(* Several tasks may take their steps in one transaction.                  *)
(***************************************************************************)
EXTENDS Naturals

CONSTANTS
  Task,
  Operators     \* TRUE: operators take part

VARIABLES
  phase,    \* the status a caller observes
  spent,    \* executions granted beyond the first
  budget    \* how many may be granted

vars == <<phase, spent, budget>>

Init ==
  /\ phase = [t \in Task |-> "ABSENT"]
  /\ spent = [t \in Task |-> 0]
  /\ budget \in [Task -> Nat]

Moves(t, from, to) == phase[t] \in from /\ phase'[t] = to

Keeps(t) == spent'[t] = spent[t] /\ budget'[t] = budget[t]

Submit(t) == Moves(t, {"ABSENT"}, "PENDING") /\ Keeps(t)
Start(t) == Moves(t, {"PENDING", "RETRYING"}, "RUNNING") /\ Keeps(t)
End(t) == (Moves(t, {"RUNNING"}, "SUCCESS") \/ Moves(t, {"RUNNING"}, "FAILED")) /\ Keeps(t)

Retry(t) ==
  /\ Moves(t, {"RUNNING"}, "RETRYING")
  /\ spent'[t] = spent[t] + 1 /\ spent'[t] <= budget[t]
  /\ budget'[t] = budget[t]

\* An operator grants another execution of a task that failed, or whose
\* execution is known to have stopped, or records a verified result for it.
Grant(t) ==
  /\ Operators /\ Moves(t, {"RUNNING", "FAILED"}, "RETRYING")
  /\ budget'[t] >= budget[t]
  /\ spent'[t] = spent[t] + 1 /\ spent'[t] <= budget'[t]

Accept(t) == Operators /\ Moves(t, {"RUNNING", "FAILED"}, "SUCCESS") /\ Keeps(t)

\* Its input cannot be built, or the budget of its workflow is used up.
Refuse(t) == Moves(t, {"PENDING", "RETRYING"}, "FAILED") /\ Keeps(t)

Step(t) == Refuse(t) \/ Submit(t) \/ Start(t) \/ End(t) \/ Retry(t) \/ Grant(t) \/ Accept(t)

Stays(t) == phase'[t] = phase[t] /\ Keeps(t)

Next == \A t \in Task : Step(t) \/ Stays(t)

Spec == Init /\ [][Next]_vars
=============================================================================
