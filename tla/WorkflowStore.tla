---------------------------- MODULE WorkflowStore ----------------------------
(***************************************************************************)
(* workflow_store.py: the durable dependency graph of a workflow, next to  *)
(* the task table.  A node is a task whose row is written together with    *)
(* the run and stays blocked until its dependencies succeeded.  _advance   *)
(* reconciles a whole run in one transaction; a submission, a decision of  *)
(* an operator, and every later call by a coordinator or an engine end     *)
(* with it, so here it takes the rows that the transaction wrote before.   *)
(***************************************************************************)
EXTENDS TaskStore

CONSTANTS
  DependsOn,   \* the nodes a node depends on, its input bindings' included
  Bound        \* the nodes with input bindings, whose paths may be missing

ASSUME WorkflowAssumption ==
  /\ DependsOn \in [Task -> SUBSET Task]
  /\ \A t \in Task : \A d \in DependsOn[t] : WorkflowOf[d] = WorkflowOf[t]
  /\ \A t \in Task : WorkflowOf[t] = NoWorkflow => DependsOn[t] = {}
  /\ \A f \in Workflow : NodesOf(f) # {}
  /\ Bound \subseteq {t \in Task : DependsOn[t] # {}}
  \* topological_order: the graph has no cycle
  /\ \A S \in SUBSET Task : S # {} => \E t \in S : DependsOn[t] \cap S = {}

VARIABLES
  node,   \* workflow_nodes.state, by task; "NONE" before the row exists
  run     \* workflow_runs.status; "NONE" before the row exists

dagVars == <<node, run>>

NodeState == {"NONE", "WAITING", "READY", "RUNNING", "RETRYING", "SUCCESS", "FAILED", "SKIPPED"}
RunState == {"NONE", "RUNNING", "SUCCESS", "FAILED", "PAUSED"}

WorkflowTypeOK == node \in [Task -> NodeState] /\ run \in [Workflow -> RunState]

WorkflowInit ==
  /\ node = [t \in Task |-> "NONE"]
  /\ run = [f \in Workflow |-> "NONE"]

----------------------------------------------------------------------------
(* _advance *)

\* Any hold on the workflow, given the incidents' holds and the pauses.
Held(f, held, manual) == f \in manual \/ \E i \in held : WorkflowOf[i[1]] = f

\* Mutant: a skipped dependency is not a failed one.
OnlyFailed == {"FAILED"}

Ruined == {"FAILED", "SKIPPED"}

\* Mutant: one dependency that succeeded opens the gate.
OpensTooEarly(t, new) ==
  IF \E d \in DependsOn[t] : new[d] \in Ruined THEN {"SKIPPED"}
  ELSE IF DependsOn[t] = {} \/ \E d \in DependsOn[t] : new[d] = "SUCCESS"
    THEN {"READY"} \cup (IF t \in Bound THEN {"FAILED"} ELSE {})
  ELSE {"WAITING"}

\* What may become of a waiting node, given the new states of the others:
\* its arguments are materialized, which fails when a path is missing.
Reconciled(t, new) ==
  IF \E d \in DependsOn[t] : new[d] \in Ruined THEN {"SKIPPED"}
  ELSE IF \A d \in DependsOn[t] : new[d] = "SUCCESS"
    THEN {"READY"} \cup (IF t \in Bound THEN {"FAILED"} ELSE {})
  ELSE {"WAITING"}

\* A node past its gate follows its task; a failed or skipped one does not.
Follows(t, rows, nodes) ==
  IF nodes[t] \in Ruined THEN nodes[t]
  ELSE IF rows[t] = "PENDING" THEN "READY" ELSE rows[t]

Verdict(f, new) ==
  IF \A t \in NodesOf(f) : new[t] = "SUCCESS" THEN "SUCCESS"
  ELSE IF \A t \in NodesOf(f) : new[t] \in Ruined \cup {"SUCCESS"} THEN "FAILED"
  ELSE "RUNNING"

Reconcile(f, rows, nodes, gated) ==
  LET waiting == {t \in NodesOf(f) : nodes[t] = "WAITING"} IN
  \E opened \in [waiting -> {"WAITING", "SKIPPED", "READY", "FAILED"}] :
    LET new == [t \in Task |-> IF t \in waiting THEN opened[t]
                               ELSE IF t \in NodesOf(f) THEN Follows(t, rows, nodes)
                               ELSE nodes[t]] IN
      /\ \A t \in waiting : opened[t] \in Reconciled(t, new)
      /\ node' = new
      /\ status' = [t \in Task |-> IF t \in waiting /\ new[t] = "FAILED" THEN "FAILED" ELSE rows[t]]
      /\ blocked' = gated \ {t \in waiting : new[t] = "READY"}
      /\ run' = [run EXCEPT ![f] = Verdict(f, new)]

\* The end of a transaction that wrote these task statuses, node states and
\* gates, and left the workflow held or not: a held run is only paused.
AdvanceAfter(f, rows, nodes, gated, isHeld) ==
  IF isHeld
  THEN status' = rows /\ node' = nodes /\ blocked' = gated /\ run' = [run EXCEPT ![f] = "PAUSED"]
  ELSE Reconcile(f, rows, nodes, gated)

\* advance, and the last transactions of a tick
Advance(f) ==
  /\ run[f] # "NONE"
  /\ AdvanceAfter(f, status, node, blocked, Held(f, holds, paused))
  /\ UNCHANGED <<attempts, retries, limit, owner, due, ahead, usageVars, registryVars, journalVars>>

\* submit: the run, the blocked rows and the nodes, then _advance.
SubmitWorkflow(f) ==
  /\ run[f] = "NONE"
  /\ Insert(NodesOf(f))
  /\ AdvanceAfter(f, [t \in Task |-> IF t \in NodesOf(f) THEN "PENDING" ELSE status[t]],
                     [t \in Task |-> IF t \in NodesOf(f) THEN "WAITING" ELSE node[t]],
                     blocked \cup NodesOf(f), Held(f, holds, paused))
  /\ UNCHANGED <<registryVars, journalVars>>

\* Mutant: a decision forgets the node, which stays failed.
ForgetsNode(t, to) ==
  [u \in Task |-> IF WorkflowOf[u] = WorkflowOf[t] /\ node[u] = "SKIPPED" THEN "WAITING" ELSE node[u]]

\* _reset_workflow, after an operator retried or accepted a node.
ResetNodes(t, to) ==
  [u \in Task |-> IF u = t THEN to
                  ELSE IF WorkflowOf[u] = WorkflowOf[t] /\ node[u] = "SKIPPED" THEN "WAITING"
                  ELSE node[u]]

----------------------------------------------------------------------------
(* Properties *)

\* No node is executed before all its dependencies have succeeded, whatever
\* coordinators and engines reconcile the run, and whichever nodes operators
\* retried, accepted or gave up in between (_advance, _reset_workflow).
DependenciesFirst ==
  \A t \in Task : attempts[t] > 0 => \A d \in DependsOn[t] : status[d] = "SUCCESS"

\* The two tables of a workflow never contradict each other: failed and
\* succeeded nodes are what their tasks are although a failed node no longer
\* follows its task, and a skipped node was never dispatched.
NodesAgreeWithTasks ==
  \A t \in Task :
    /\ node[t] \in {"FAILED", "SUCCESS"} => status[t] = node[t]
    /\ node[t] \in {"WAITING", "SKIPPED"} =>
         t \in blocked /\ status[t] = "PENDING" /\ attempts[t] = 0

\* A verdict is right: a run succeeded when all its tasks did; it failed
\* when one of them did, and nothing of it can run any more.
VerdictsAreRight ==
  \A f \in Workflow :
    /\ run[f] = "SUCCESS" => \A t \in NodesOf(f) : status[t] = "SUCCESS"
    /\ run[f] = "FAILED" =>
         /\ \E t \in NodesOf(f) : status[t] = "FAILED"
         /\ \A t \in NodesOf(f) : status[t] \in Finished \/ t \in blocked

\* Nodes, runs and tasks are three tables; none contradicts another, whoever
\* reconciled, resolved or reset last (_advance, _reset_workflow).
RunsAgreeWithTasks == NodesAgreeWithTasks /\ VerdictsAreRight

\* The call cap holds over all generation nodes of a workflow together,
\* although every process claims on its own and operators grant retries
\* (admit_llm counts and claims in one transaction).
CallsStayWithinCap == \A f \in DOMAIN MaxCalls : Calls(f) <= MaxCalls[f]

\* Under a token cap one generation at a time is in flight, in whatever
\* process: a call is only made once the usage of the previous is known.
OneCallInFlight ==
  \A t1, t2 \in Llm :
    /\ WorkflowOf[t1] = WorkflowOf[t2] /\ WorkflowOf[t1] \in TokenCapped
    /\ status[t1] = "RUNNING" /\ status[t2] = "RUNNING"
    => t1 = t2
=============================================================================
