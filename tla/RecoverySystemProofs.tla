------------------------ MODULE RecoverySystemProofs ------------------------
(***************************************************************************)
(* The whole durable engine - workers, engines without session, workflows, *)
(* coordinators and operators together - for any number of each.           *)
(***************************************************************************)
EXTENDS RecoverySystem, ReliableWorkerProofs, FiniteSetTheorems

----------------------------------------------------------------------------
(* The graph of a workflow.  Rows, node states and gates are parameters,    *)
(* since a transaction writes some of them before it reconciles the run.    *)

NodeOK(t, rows, nodes, gated) ==
  /\ nodes[t] = "NONE" <=> rows[t] = "ABSENT"
  /\ nodes[t] \in Finished => rows[t] = nodes[t]
  /\ nodes[t] \in {"WAITING", "SKIPPED"} => t \in gated /\ rows[t] = "PENDING"
  /\ nodes[t] = "SKIPPED" => \E d \in DependsOn[t] : nodes[d] \in Ruined
  /\ t \in gated => attempts[t] = 0 /\ nodes[t] \in {"WAITING", "SKIPPED"} \cup Finished
  /\ nodes[t] # "NONE" /\ t \notin gated => \A d \in DependsOn[t] : rows[d] = "SUCCESS"
  /\ attempts[t] > 0 => nodes[t] # "NONE" /\ t \notin gated

GraphOK(rows, nodes, gated) ==
  \A t \in Task :
    IF WorkflowOf[t] = NoWorkflow THEN t \notin gated /\ nodes[t] = "NONE"
    ELSE NodeOK(t, rows, nodes, gated)

GraphTypeOK(rows, nodes, gated) ==
  rows \in [Task -> TaskStatus] /\ nodes \in [Task -> NodeState] /\ gated \subseteq Task

\* One workflow's part of VerdictsAreRight.
VerdictRight(f) ==
  /\ run[f] = "SUCCESS" => \A t \in NodesOf(f) : status[t] = "SUCCESS"
  /\ run[f] = "FAILED" =>
       /\ \E t \in NodesOf(f) : status[t] = "FAILED"
       /\ \A t \in NodesOf(f) : status[t] \in Finished \/ t \in blocked

\* Nodes are inserted with their run.
RunOK(f) == \A t \in NodesOf(f) : node[t] = "NONE" <=> run[f] = "NONE"

WorkflowInv ==
  /\ GraphOK(status, node, blocked)
  /\ \A f \in Workflow : RunOK(f) /\ VerdictRight(f)

\* What a reconciliation writes, node by node.
Reconciles(f, rows, nodes, gated) ==
  \A t \in Task :
    IF t \notin NodesOf(f)
    THEN node'[t] = nodes[t] /\ status'[t] = rows[t] /\ (t \in blocked' <=> t \in gated)
    ELSE IF nodes[t] # "WAITING"
    THEN /\ node'[t] = Follows(t, rows, nodes)
         /\ status'[t] = rows[t] /\ (t \in blocked' <=> t \in gated)
    ELSE /\ node'[t] \in Reconciled(t, node')
         /\ status'[t] = (IF node'[t] = "FAILED" THEN "FAILED" ELSE rows[t])
         /\ t \in blocked' <=> t \in gated /\ node'[t] # "READY"

LEMMA ReconcileByNode ==
  ASSUME NEW f \in Workflow, NEW rows, NEW nodes, NEW gated, gated \subseteq Task,
         Reconcile(f, rows, nodes, gated)
  PROVE  /\ Reconciles(f, rows, nodes, gated)
         /\ blocked' \subseteq Task
         /\ DOMAIN status' = Task /\ DOMAIN node' = Task
         /\ status' = [t \in Task |-> status'[t]] /\ node' = [t \in Task |-> node'[t]]
         /\ run' = [run EXCEPT ![f] = Verdict(f, node')]
<1>. DEFINE waiting == {t \in NodesOf(f) : nodes[t] = "WAITING"}
            new(opened) == [t \in Task |-> IF t \in waiting THEN opened[t]
                                           ELSE IF t \in NodesOf(f) THEN Follows(t, rows, nodes)
                                           ELSE nodes[t]]
<1>. PICK opened \in [waiting -> {"WAITING", "SKIPPED", "READY", "FAILED"}] :
       /\ \A t \in waiting : opened[t] \in Reconciled(t, new(opened))
       /\ node' = new(opened)
       /\ status' = [t \in Task |-> IF t \in waiting /\ new(opened)[t] = "FAILED" THEN "FAILED" ELSE rows[t]]
       /\ blocked' = gated \ {t \in waiting : new(opened)[t] = "READY"}
       /\ run' = [run EXCEPT ![f] = Verdict(f, new(opened))]
  BY Zenon DEF Reconcile
<1>1. /\ \A t \in waiting : opened[t] \in Reconciled(t, node')
      /\ status' = [t \in Task |-> IF t \in waiting /\ node'[t] = "FAILED" THEN "FAILED" ELSE rows[t]]
      /\ blocked' = gated \ {t \in waiting : node'[t] = "READY"}
      /\ run' = [run EXCEPT ![f] = Verdict(f, node')]
  BY Zenon
<1>2. \A t \in Task : node'[t] = IF t \in waiting THEN opened[t]
                                 ELSE IF t \in NodesOf(f) THEN Follows(t, rows, nodes)
                                 ELSE nodes[t]
  OBVIOUS
<1>3. DOMAIN node' = Task /\ node' = [t \in Task |-> node'[t]]
  OBVIOUS
<1>4. NodesOf(f) \subseteq Task /\ \A t : t \in waiting <=> t \in NodesOf(f) /\ nodes[t] = "WAITING"
  BY DEF NodesOf
<1>. HIDE DEF new, waiting
<1>5. ASSUME NEW t \in Task
      PROVE  IF t \notin NodesOf(f)
             THEN node'[t] = nodes[t] /\ status'[t] = rows[t] /\ (t \in blocked' <=> t \in gated)
             ELSE IF nodes[t] # "WAITING"
             THEN /\ node'[t] = Follows(t, rows, nodes)
                  /\ status'[t] = rows[t] /\ (t \in blocked' <=> t \in gated)
             ELSE /\ node'[t] \in Reconciled(t, node')
                  /\ status'[t] = (IF node'[t] = "FAILED" THEN "FAILED" ELSE rows[t])
                  /\ t \in blocked' <=> t \in gated /\ node'[t] # "READY"
  BY <1>1, <1>2, <1>4
<1>6. Reconciles(f, rows, nodes, gated)
  BY Zenon, <1>5 DEF Reconciles
<1>7. blocked' \subseteq Task
  BY <1>1
<1>8. DOMAIN status' = Task /\ status' = [t \in Task |-> status'[t]]
  BY <1>1
<1>. QED
  BY <1>1, <1>3, <1>6, <1>7, <1>8

\* The workflow a node depends on is its own.
LEMMA DependsInWorkflow ==
  ASSUME NEW f \in Workflow, NEW t \in NodesOf(f)
  PROVE  DependsOn[t] \subseteq NodesOf(f) /\ WorkflowOf[t] = f /\ f # NoWorkflow /\ t \in Task
BY WorkflowAssumption, TaskAssumption DEF NodesOf

\* After a reconciliation the graph is as sound as the rows it was given.
LEMMA ReconcileTyping ==
  ASSUME NEW f \in Workflow, NEW rows, NEW nodes, NEW gated, GraphTypeOK(rows, nodes, gated),
         GraphOK(rows, nodes, gated), \A t \in NodesOf(f) : nodes[t] # "NONE",
         Reconcile(f, rows, nodes, gated)
  PROVE  GraphTypeOK(status, node, blocked)'
<1>1. /\ Reconciles(f, rows, nodes, gated) /\ blocked' \subseteq Task
      /\ status' = [t \in Task |-> status'[t]] /\ node' = [t \in Task |-> node'[t]]
  BY ReconcileByNode DEF GraphTypeOK
<1>2. ASSUME NEW t \in Task PROVE status'[t] \in TaskStatus /\ node'[t] \in NodeState
  <2>1. rows[t] \in TaskStatus /\ nodes[t] \in NodeState
    BY DEF GraphTypeOK
  <2>2. CASE t \notin NodesOf(f)
    BY <1>1, <2>1, <2>2 DEF Reconciles
  <2>3. CASE t \in NodesOf(f) /\ nodes[t] # "WAITING"
    <3>1. rows[t] # "ABSENT"
      BY <2>3, DependsInWorkflow DEF GraphOK, NodeOK
    <3>2. status'[t] = rows[t] /\ node'[t] = Follows(t, rows, nodes)
      BY <1>1, <2>3 DEF Reconciles
    <3>. QED
      BY <2>1, <3>1, <3>2 DEF Follows, TaskStatus, NodeState
  <2>4. CASE t \in NodesOf(f) /\ nodes[t] = "WAITING"
    <3>1. /\ node'[t] \in Reconciled(t, node')
          /\ status'[t] = (IF node'[t] = "FAILED" THEN "FAILED" ELSE rows[t])
      BY <1>1, <2>4 DEF Reconciles
    <3>. QED
      BY <2>1, <3>1 DEF Reconciled, TaskStatus, NodeState
  <2>. QED
    BY <2>2, <2>3, <2>4
<1>. QED
  BY <1>1, <1>2 DEF GraphTypeOK

\* Rows only change where a waiting node's input is missing; success and
\* ruin stay, and no node appears or vanishes.
LEMMA ReconcileRows ==
  ASSUME NEW f \in Workflow, NEW rows, NEW nodes, NEW gated, GraphTypeOK(rows, nodes, gated),
         GraphOK(rows, nodes, gated), \A t \in NodesOf(f) : nodes[t] # "NONE",
         Reconcile(f, rows, nodes, gated), NEW t \in Task
  PROVE  /\ \/ status'[t] = rows[t]
            \/ /\ t \in NodesOf(f) /\ nodes[t] = "WAITING" /\ rows[t] = "PENDING"
               /\ status'[t] = "FAILED" /\ t \in Bound
               /\ \A d \in DependsOn[t] : node'[d] = "SUCCESS"
         /\ node'[t] = "NONE" <=> nodes[t] = "NONE"
         /\ t \in NodesOf(f) /\ nodes[t] = "WAITING" => node'[t] # "SUCCESS"
         /\ t \notin NodesOf(f) => node'[t] = nodes[t] /\ (t \in blocked' <=> t \in gated)
         /\ nodes[t] \in Ruined => node'[t] = nodes[t]
         /\ rows[t] = "SUCCESS" => status'[t] = "SUCCESS"
<1>1. Reconciles(f, rows, nodes, gated)
  BY ReconcileByNode DEF GraphTypeOK
<1>2. rows[t] \in TaskStatus /\ nodes[t] \in NodeState
  BY DEF GraphTypeOK
<1>3. CASE t \notin NodesOf(f)
  BY <1>1, <1>3 DEF Reconciles, NodesOf
<1>4. CASE t \in NodesOf(f) /\ nodes[t] # "WAITING"
  <2>1. status'[t] = rows[t] /\ node'[t] = Follows(t, rows, nodes)
    BY <1>1, <1>4 DEF Reconciles
  <2>2. node'[t] # "NONE"
    BY <1>2, <1>4, <2>1 DEF Follows, TaskStatus
  <2>. QED
    BY <1>4, <2>1, <2>2 DEF Follows
<1>5. CASE t \in NodesOf(f) /\ nodes[t] = "WAITING"
  <2>1. /\ node'[t] \in Reconciled(t, node')
        /\ status'[t] = (IF node'[t] = "FAILED" THEN "FAILED" ELSE rows[t])
    BY <1>1, <1>5 DEF Reconciles
  <2>2. rows[t] = "PENDING"
    BY <1>5, DependsInWorkflow DEF GraphOK, NodeOK
  <2>3. node'[t] = "FAILED" => t \in Bound /\ \A d \in DependsOn[t] : node'[d] = "SUCCESS"
    BY <2>1 DEF Reconciled
  <2>4. node'[t] \notin {"NONE", "SUCCESS"}
    BY <2>1 DEF Reconciled
  <2>. QED
    BY <1>5, <2>1, <2>2, <2>3, <2>4 DEF Ruined
<1>. QED
  BY <1>3, <1>4, <1>5

\* A node that ended is what its row is.
LEMMA ReconcileAgrees ==
  ASSUME NEW f \in Workflow, NEW rows, NEW nodes, NEW gated, GraphTypeOK(rows, nodes, gated),
         GraphOK(rows, nodes, gated), \A t \in NodesOf(f) : nodes[t] # "NONE",
         Reconcile(f, rows, nodes, gated), NEW t \in NodesOf(f), node'[t] \in Finished
  PROVE  status'[t] = node'[t]
<1>1. Reconciles(f, rows, nodes, gated) /\ t \in Task
  BY ReconcileByNode, DependsInWorkflow DEF GraphTypeOK
<1>2. NodeOK(t, rows, nodes, gated)
  BY DependsInWorkflow DEF GraphOK
<1>3. CASE nodes[t] # "WAITING"
  BY <1>1, <1>2, <1>3 DEF Reconciles, Follows, NodeOK, Finished, Ruined
<1>4. CASE nodes[t] = "WAITING"
  BY <1>1, <1>4 DEF Reconciles, Reconciled, Finished
<1>. QED
  BY <1>3, <1>4

\* The graph stays sound.
LEMMA ReconcileKeepsGraph ==
  ASSUME NEW f \in Workflow, NEW rows, NEW nodes, NEW gated, GraphTypeOK(rows, nodes, gated),
         GraphOK(rows, nodes, gated), \A t \in NodesOf(f) : nodes[t] # "NONE",
         Reconcile(f, rows, nodes, gated), attempts' = attempts
  PROVE  GraphOK(status, node, blocked)'
<1>1. Reconciles(f, rows, nodes, gated)
  BY ReconcileByNode DEF GraphTypeOK
<1>. SUFFICES ASSUME NEW t \in Task
     PROVE  IF WorkflowOf[t] = NoWorkflow THEN t \notin blocked' /\ node'[t] = "NONE"
            ELSE NodeOK(t, status, node, blocked)'
  BY DEF GraphOK
<1>2. CASE WorkflowOf[t] = NoWorkflow
  BY <1>1, <1>2, TaskAssumption DEF Reconciles, NodesOf, GraphOK
<1>3. CASE WorkflowOf[t] \notin {f, NoWorkflow}
  <2>1. \A d \in DependsOn[t] \cup {t} : d \in Task /\ d \notin NodesOf(f)
    BY <1>3, WorkflowAssumption DEF NodesOf
  <2>2. \A d \in DependsOn[t] \cup {t} :
          node'[d] = nodes[d] /\ status'[d] = rows[d] /\ (d \in blocked' <=> d \in gated)
    BY <1>1, <2>1 DEF Reconciles
  <2>3. NodeOK(t, rows, nodes, gated)
    BY <1>3 DEF GraphOK
  <2>. QED
    BY <1>3, <2>2, <2>3 DEF NodeOK
<1>4. CASE t \in NodesOf(f)
  <2>1. NodeOK(t, rows, nodes, gated) /\ WorkflowOf[t] # NoWorkflow /\ DependsOn[t] \subseteq NodesOf(f)
    BY <1>4, DependsInWorkflow DEF GraphOK
  <2>. SUFFICES NodeOK(t, status, node, blocked)'
    BY <2>1
  <2>2. nodes[t] # "NONE" /\ rows[t] # "ABSENT" /\ DependsOn[t] \subseteq Task
    BY <1>4, <2>1 DEF NodeOK, NodesOf
  <2>3. rows[t] \in TaskStatus /\ nodes[t] \in NodeState
    BY DEF GraphTypeOK
  <2>4. \A d \in DependsOn[t] : rows[d] = "SUCCESS" => status'[d] = "SUCCESS"
    BY <2>2, ReconcileRows
  <2>5. \A d \in DependsOn[t] : nodes[d] \in Ruined => node'[d] \in Ruined
    BY <2>2, ReconcileRows
  <2>6. CASE nodes[t] \in Ruined
    <3>1. node'[t] = nodes[t] /\ status'[t] = rows[t] /\ (t \in blocked' <=> t \in gated)
      BY <1>1, <1>4, <2>6 DEF Reconciles, Follows, Ruined
    <3>. QED
      BY <2>1, <2>4, <2>5, <3>1 DEF NodeOK
  <2>7. CASE nodes[t] \notin {"WAITING"} \cup Ruined
    <3>1. /\ node'[t] = (IF rows[t] = "PENDING" THEN "READY" ELSE rows[t])
          /\ status'[t] = rows[t] /\ (t \in blocked' <=> t \in gated)
      BY <1>1, <1>4, <2>7 DEF Reconciles, Follows
    <3>2. t \in gated => rows[t] = "SUCCESS"
      BY <2>1, <2>7 DEF NodeOK, Finished, Ruined
    <3>. QED
      BY <2>1, <2>2, <2>3, <2>4, <3>1, <3>2 DEF NodeOK, Finished, TaskStatus
  <2>8. CASE nodes[t] = "WAITING"
    <3>1. /\ node'[t] \in Reconciled(t, node')
          /\ status'[t] = (IF node'[t] = "FAILED" THEN "FAILED" ELSE rows[t])
          /\ t \in blocked' <=> t \in gated /\ node'[t] # "READY"
      BY <1>1, <1>4, <2>8 DEF Reconciles
    <3>2. t \in gated /\ rows[t] = "PENDING" /\ attempts'[t] = 0
      BY <2>1, <2>8 DEF NodeOK
    <3>3. node'[t] = "READY" => \A d \in DependsOn[t] : status'[d] = "SUCCESS"
      BY <2>1, <3>1, ReconcileAgrees DEF Reconciled, Finished
    <3>4. node'[t] = "SKIPPED" => \E d \in DependsOn[t] : node'[d] \in Ruined
      BY <3>1 DEF Reconciled
    <3>5. node'[t] \in {"SKIPPED", "READY", "FAILED", "WAITING"}
      BY <3>1 DEF Reconciled
    <3>6. CASE node'[t] \in {"SKIPPED", "WAITING"}
      BY <2>1, <3>1, <3>2, <3>4, <3>6 DEF NodeOK, Finished
    <3>7. CASE node'[t] = "READY"
      BY <3>1, <3>2, <3>3, <3>7 DEF NodeOK, Finished
    <3>8. CASE node'[t] = "FAILED"
      BY <2>1, <3>1, <3>2, <3>8 DEF NodeOK, Finished
    <3>. QED
      BY <3>5, <3>6, <3>7, <3>8
  <2>. QED
    BY <1>4, <2>1, <2>6, <2>7, <2>8
<1>. QED
  BY <1>2, <1>3, <1>4 DEF NodesOf

\* The verdict is right: a run that ended without success has a failed node,
\* since the graph has no cycle of skipped ones.
LEMMA ReconcileVerdict ==
  ASSUME NEW f \in Workflow, NEW rows, NEW nodes, NEW gated, GraphTypeOK(rows, nodes, gated),
         GraphOK(rows, nodes, gated), \A t \in NodesOf(f) : nodes[t] # "NONE",
         Reconcile(f, rows, nodes, gated), attempts' = attempts, run \in [Workflow -> RunState]
  PROVE  run' \in [Workflow -> RunState] /\ run'[f] # "NONE" /\ VerdictRight(f)'
<1>1. run' = [run EXCEPT ![f] = Verdict(f, node')]
  BY ReconcileByNode DEF GraphTypeOK
<1>2. run'[f] = Verdict(f, node') /\ run' \in [Workflow -> RunState] /\ run'[f] # "NONE"
  BY <1>1 DEF Verdict, RunState
<1>3. ASSUME NEW t \in NodesOf(f) PROVE NodeOK(t, status, node, blocked)'
  BY ReconcileKeepsGraph, DependsInWorkflow DEF GraphOK
<1>4. ASSUME run'[f] = "SUCCESS", NEW t \in NodesOf(f) PROVE status'[t] = "SUCCESS"
  <2>1. node'[t] = "SUCCESS"
    BY <1>2, <1>4 DEF Verdict
  <2>. QED
    BY <1>3, <2>1 DEF NodeOK, Finished
<1>5. ASSUME run'[f] = "FAILED" PROVE \E t \in NodesOf(f) : status'[t] = "FAILED"
  <2>. DEFINE S == {t \in NodesOf(f) : node'[t] \in Ruined}
  <2>1. S # {} /\ S \in SUBSET Task
    BY <1>2, <1>5 DEF Verdict, NodesOf
  <2>2. PICK t \in S : DependsOn[t] \cap S = {}
    BY <2>1, WorkflowAssumption
  <2>3. \A d \in DependsOn[t] : node'[d] \notin Ruined
    BY <2>2, DependsInWorkflow
  <2>4. node'[t] = "FAILED"
    BY <1>3, <2>3 DEF NodeOK, Ruined
  <2>. QED
    BY <1>3, <2>4 DEF NodeOK, Finished
<1>6. ASSUME run'[f] = "FAILED", NEW t \in NodesOf(f) PROVE status'[t] \in Finished \/ t \in blocked'
  <2>1. node'[t] \in {"FAILED", "SKIPPED", "SUCCESS"}
    BY <1>2, <1>6 DEF Verdict, Ruined
  <2>. QED
    BY <1>3, <2>1 DEF NodeOK, Finished
<1>. QED
  BY <1>2, <1>4, <1>5, <1>6 DEF VerdictRight

\* What the end of a transaction on workflow f leaves of the row of t.
AdvancedRow(t, f, rows, nodes, gated) ==
  /\ \/ status'[t] = rows[t]
     \/ /\ t \in NodesOf(f) /\ nodes[t] = "WAITING" /\ rows[t] = "PENDING"
        /\ status'[t] = "FAILED" /\ t \in Bound
        /\ \A d \in DependsOn[t] : node'[d] = "SUCCESS"
  /\ node'[t] = "NONE" <=> nodes[t] = "NONE"
  /\ t \in NodesOf(f) /\ nodes[t] = "WAITING" => node'[t] # "SUCCESS"
  /\ t \notin NodesOf(f) => status'[t] = rows[t] /\ (t \in blocked' <=> t \in gated)

\* Every transaction that ends with _advance leaves the graph sound, whether
\* the workflow is held or not.
LEMMA AdvanceStep ==
  ASSUME NEW f \in Workflow, NEW rows, NEW nodes, NEW gated, NEW isHeld,
         GraphTypeOK(rows, nodes, gated), GraphOK(rows, nodes, gated),
         \A t \in NodesOf(f) : nodes[t] # "NONE",
         run \in [Workflow -> RunState], attempts' = attempts,
         AdvanceAfter(f, rows, nodes, gated, isHeld)
  PROVE  /\ GraphTypeOK(status, node, blocked)' /\ GraphOK(status, node, blocked)'
         /\ run' \in [Workflow -> RunState]
         /\ run'[f] # "NONE" /\ VerdictRight(f)'
         /\ \A g \in Workflow \ {f} : run'[g] = run[g]
         /\ \A t \in Task : AdvancedRow(t, f, rows, nodes, gated)
<1>1. CASE isHeld
  <2>1. status' = rows /\ node' = nodes /\ blocked' = gated /\ run' = [run EXCEPT ![f] = "PAUSED"]
    BY <1>1 DEF AdvanceAfter
  <2>2. GraphTypeOK(status, node, blocked)' /\ GraphOK(status, node, blocked)'
    BY <2>1 DEF GraphTypeOK, GraphOK, NodeOK
  <2>3. run' \in [Workflow -> RunState] /\ run'[f] = "PAUSED" /\ \A g \in Workflow \ {f} : run'[g] = run[g]
    BY <2>1 DEF RunState
  <2>4. \A t \in Task : AdvancedRow(t, f, rows, nodes, gated)
    BY <2>1 DEF AdvancedRow
  <2>. QED
    BY <2>2, <2>3, <2>4 DEF VerdictRight
<1>2. CASE ~isHeld
  <2>1. Reconcile(f, rows, nodes, gated)
    BY <1>2 DEF AdvanceAfter
  <2>2. GraphTypeOK(status, node, blocked)' /\ GraphOK(status, node, blocked)'
    BY <2>1, ReconcileTyping, ReconcileKeepsGraph
  <2>3. run' \in [Workflow -> RunState] /\ run'[f] # "NONE" /\ VerdictRight(f)'
    BY <2>1, ReconcileVerdict
  <2>4. \A g \in Workflow \ {f} : run'[g] = run[g]
    BY <2>1, ReconcileByNode DEF GraphTypeOK
  <2>5. \A t \in Task : AdvancedRow(t, f, rows, nodes, gated)
    BY <2>1, ReconcileRows DEF AdvancedRow
  <2>. QED
    BY <2>2, <2>3, <2>4, <2>5
<1>. QED
  BY <1>1, <1>2

\* The verdicts of the other workflows are not affected.
LEMMA OtherVerdicts ==
  ASSUME NEW f \in Workflow, NEW g \in Workflow \ {f}, VerdictRight(g), RunOK(g), run'[g] = run[g],
         \A t \in Task \ NodesOf(f) : /\ status'[t] = status[t] /\ (t \in blocked' <=> t \in blocked)
                                      /\ node'[t] = "NONE" <=> node[t] = "NONE"
  PROVE  VerdictRight(g)' /\ RunOK(g)'
<1>1. NodesOf(g) \subseteq Task \ NodesOf(f)
  BY DEF NodesOf
<1>. QED
  BY <1>1 DEF VerdictRight, RunOK

----------------------------------------------------------------------------
(* Transactions that end with _advance.                                     *)

GraphShape == GraphTypeOK(status, node, blocked) /\ run \in [Workflow -> RunState]

\* No row appears or changes, except that missing input fails waiting rows.
OnlyRefusals ==
  \A t \in Task :
    status'[t] = status[t] \/ (t \in Bound /\ status[t] = "PENDING" /\ status'[t] = "FAILED")

\* The reconciliation of a run as it is.
LEMMA AdvanceKeepsWorkflows ==
  ASSUME GraphShape, WorkflowInv, NEW f \in Workflow, run[f] # "NONE", NEW isHeld,
         AdvanceAfter(f, status, node, blocked, isHeld), attempts' = attempts
  PROVE  GraphShape' /\ WorkflowInv' /\ OnlyRefusals
<1>. USE DEF GraphShape
<1>1. \A t \in NodesOf(f) : node[t] # "NONE"
  BY DEF WorkflowInv, RunOK
<1>2. /\ GraphTypeOK(status, node, blocked)' /\ GraphOK(status, node, blocked)'
      /\ run' \in [Workflow -> RunState] /\ run'[f] # "NONE" /\ VerdictRight(f)'
      /\ \A g \in Workflow \ {f} : run'[g] = run[g]
      /\ \A t \in Task : AdvancedRow(t, f, status, node, blocked)
  BY <1>1, AdvanceStep DEF WorkflowInv
<1>3. RunOK(f)'
  BY <1>1, <1>2 DEF RunOK, AdvancedRow, NodesOf
<1>4. \A g \in Workflow \ {f} : VerdictRight(g)' /\ RunOK(g)'
  BY <1>2, OtherVerdicts DEF WorkflowInv, AdvancedRow
<1>5. OnlyRefusals
  BY <1>2 DEF OnlyRefusals, AdvancedRow
<1>. QED
  BY <1>2, <1>3, <1>4, <1>5 DEF WorkflowInv

\* A submission: the run's nodes have no rows yet, and none of them can fail
\* at once, since what it depends on waits too.
LEMMA SubmitKeepsWorkflows ==
  ASSUME GraphShape, attempts \in [Task -> Nat], WorkflowInv, NEW f \in Workflow, SubmitWorkflow(f)
  PROVE  /\ GraphShape' /\ WorkflowInv'
         /\ \A t \in Task : status'[t] = status[t] \/ (status[t] = "ABSENT" /\ status'[t] = "PENDING")
<1>. USE DEF GraphShape
<1>. DEFINE rows == [t \in Task |-> IF t \in NodesOf(f) THEN "PENDING" ELSE status[t]]
            nodes == [t \in Task |-> IF t \in NodesOf(f) THEN "WAITING" ELSE node[t]]
            gated == blocked \cup NodesOf(f)
<1>1. AdvanceAfter(f, rows, nodes, gated, Held(f, holds, paused)) /\ attempts' = attempts /\ run[f] = "NONE"
  BY DEF SubmitWorkflow, Insert
<1>2. NodesOf(f) \subseteq Task /\ \A t \in NodesOf(f) : nodes[t] = "WAITING" /\ rows[t] = "PENDING" /\ t \in gated
  BY DEF NodesOf
<1>3. \A t \in NodesOf(f) : status[t] = "ABSENT" /\ attempts[t] = 0
  BY <1>1, DependsInWorkflow DEF WorkflowInv, RunOK, GraphOK, NodeOK
<1>4. GraphTypeOK(rows, nodes, gated)
  BY <1>2 DEF GraphTypeOK, TaskStatus, NodeState
<1>5. \A t \in Task \ NodesOf(f) : rows[t] = status[t] /\ nodes[t] = node[t] /\ (t \in gated <=> t \in blocked)
  OBVIOUS
<1>. HIDE DEF rows, nodes, gated
<1>6. ASSUME NEW t \in Task
      PROVE  IF WorkflowOf[t] = NoWorkflow THEN t \notin gated /\ nodes[t] = "NONE"
    ELSE NodeOK(t, rows, nodes, gated)
  <2>1. CASE t \in NodesOf(f)
    BY <1>2, <1>3, <2>1, DependsInWorkflow DEF NodeOK, Finished
  <2>2. CASE t \notin NodesOf(f)
    <3>1. \A d \in DependsOn[t] : d \in Task \ NodesOf(f)
      BY <2>2, WorkflowAssumption DEF NodesOf
    <3>2. IF WorkflowOf[t] = NoWorkflow THEN t \notin blocked /\ node[t] = "NONE"
          ELSE NodeOK(t, status, node, blocked)
      BY DEF WorkflowInv, GraphOK
    <3>. QED
      BY <1>5, <2>2, <3>1, <3>2 DEF NodeOK
  <2>. QED
    BY <2>1, <2>2
<1>7. GraphOK(rows, nodes, gated)
  BY <1>6 DEF GraphOK
<1>8. \A t \in NodesOf(f) : nodes[t] # "NONE"
  BY <1>2
<1>9. /\ GraphTypeOK(status, node, blocked)' /\ GraphOK(status, node, blocked)'
      /\ run' \in [Workflow -> RunState] /\ run'[f] # "NONE" /\ VerdictRight(f)'
      /\ \A g \in Workflow \ {f} : run'[g] = run[g]
      /\ \A t \in Task : AdvancedRow(t, f, rows, nodes, gated)
  BY <1>1, <1>4, <1>7, <1>8, AdvanceStep
<1>10. RunOK(f)'
  BY <1>2, <1>8, <1>9 DEF RunOK, AdvancedRow
<1>11. ASSUME NEW g \in Workflow \ {f} PROVE VerdictRight(g)' /\ RunOK(g)'
  BY <1>5, <1>9, OtherVerdicts DEF WorkflowInv, AdvancedRow
<1>12. ASSUME NEW t \in Task PROVE status'[t] = status[t] \/ (status[t] = "ABSENT" /\ status'[t] = "PENDING")
  <2>1. CASE t \notin NodesOf(f)
    BY <1>5, <1>9, <2>1 DEF AdvancedRow
  <2>2. CASE t \in NodesOf(f)
    <3>1. t \in Bound => \E d \in DependsOn[t] : d \in NodesOf(f)
      BY <2>2, DependsInWorkflow, WorkflowAssumption
    <3>2. \A d \in NodesOf(f) : node'[d] # "SUCCESS"
      BY <1>2, <1>9 DEF AdvancedRow
    <3>3. status'[t] = rows[t]
      BY <1>9, <3>1, <3>2 DEF AdvancedRow
    <3>. QED
      BY <1>2, <1>3, <2>2, <3>3
  <2>. QED
    BY <2>1, <2>2
<1>. QED
  BY <1>9, <1>10, <1>11, <1>12 DEF WorkflowInv

\* A decision: the row becomes what was decided, and the nodes that were
\* skipped because of it may run after all.
LEMMA DecisionGraph ==
  ASSUME GraphShape, WorkflowInv, NEW t \in Task, NEW to \in {"RETRYING", "SUCCESS", "FAILED"},
         status[t] \in {"RUNNING", "FAILED"}, to = "RETRYING" => t \notin blocked,
         WorkflowOf[t] # NoWorkflow,
         NEW rows, rows = [status EXCEPT ![t] = to],
         NEW nodes, nodes = IF to = "FAILED" THEN node ELSE ResetNodes(t, to)
  PROVE  GraphTypeOK(rows, nodes, blocked) /\ GraphOK(rows, nodes, blocked)
<1>. USE DEF GraphShape, GraphTypeOK
<1>1. rows[t] = to /\ \A u \in Task \ {t} : rows[u] = status[u]
  OBVIOUS
<1>2. /\ nodes[t] = IF to = "FAILED" THEN node[t] ELSE to
      /\ \A u \in Task \ {t} :
           nodes[u] = IF to # "FAILED" /\ WorkflowOf[u] = WorkflowOf[t] /\ node[u] = "SKIPPED"
                      THEN "WAITING" ELSE node[u]
  BY DEF ResetNodes
<1>3. GraphTypeOK(rows, nodes, blocked)
  BY DEF ResetNodes, TaskStatus, NodeState
<1>4. NodeOK(t, status, node, blocked)
  BY DEF WorkflowInv, GraphOK
<1>5. \A d \in Task : status[d] = "SUCCESS" => rows[d] = "SUCCESS"
  BY <1>1
<1>6. NodeOK(t, rows, nodes, blocked)
  <2>1. node[t] \notin {"NONE", "WAITING", "SKIPPED"} /\ \A d \in DependsOn[t] : d \in Task
    BY <1>4, WorkflowAssumption DEF NodeOK
  <2>. QED
    BY <1>1, <1>2, <1>4, <1>5, <2>1 DEF NodeOK, Finished
<1>. HIDE DEF GraphTypeOK, GraphShape
<1>7. ASSUME NEW u \in Task \ {t}, WorkflowOf[u] # NoWorkflow PROVE NodeOK(u, rows, nodes, blocked)
  <2>1. NodeOK(u, status, node, blocked) /\ \A d \in DependsOn[u] : d \in Task /\ WorkflowOf[d] = WorkflowOf[u]
    BY <1>7, WorkflowAssumption DEF WorkflowInv, GraphOK
  <2>2. rows[u] = status[u]
    BY <1>1
  <2>3. CASE to # "FAILED" /\ WorkflowOf[u] = WorkflowOf[t] /\ node[u] = "SKIPPED"
    BY <1>2, <2>1, <2>2, <2>3 DEF NodeOK, Finished
  <2>4. CASE ~(to # "FAILED" /\ WorkflowOf[u] = WorkflowOf[t] /\ node[u] = "SKIPPED")
    <3>1. nodes[u] = node[u]
      BY <1>2, <2>4
    <3>2. nodes[u] = "SKIPPED" => \A d \in DependsOn[u] : node[d] \in Ruined => nodes[d] \in Ruined
      BY <1>2, <2>1, <2>4, <3>1 DEF Ruined
    <3>. QED
      BY <1>5, <2>1, <2>2, <3>1, <3>2 DEF NodeOK
  <2>. QED
    BY <2>3, <2>4
<1>8. \A u \in Task : WorkflowOf[u] = NoWorkflow => u \notin blocked /\ nodes[u] = "NONE"
  <2>1. ASSUME NEW u \in Task \ {t}, WorkflowOf[u] = NoWorkflow PROVE u \notin blocked /\ nodes[u] = "NONE"
    BY <1>2, <2>1 DEF WorkflowInv, GraphOK
  <2>. QED
    BY <2>1
<1>. QED
  BY <1>3, <1>6, <1>7, <1>8 DEF GraphOK

LEMMA DecisionKeepsWorkflows ==
  ASSUME GraphShape, WorkflowInv, NEW t \in Task, NEW to \in {"RETRYING", "SUCCESS", "FAILED"},
         status[t] \in {"RUNNING", "FAILED"}, to = "RETRYING" => t \notin blocked, Resolve(t, to)
  PROVE  /\ GraphShape' /\ WorkflowInv' /\ status'[t] = to
         /\ \A u \in Task \ {t} :
              status'[u] = status[u] \/ (u \in Bound /\ status[u] = "PENDING" /\ status'[u] = "FAILED")
<1>. DEFINE f == WorkflowOf[t]
            rows == [status EXCEPT ![t] = to]
            nodes == IF to = "FAILED" THEN node ELSE ResetNodes(t, to)
<1>1. rows[t] = to /\ \A u \in Task \ {t} : rows[u] = status[u]
  BY DEF GraphShape, GraphTypeOK
<1>2. attempts' = attempts
  BY DEF Resolve
<1>3. CASE f = NoWorkflow
  <2>1. status' = rows /\ UNCHANGED <<blocked, dagVars>>
    BY <1>3 DEF Resolve
  <2>2. GraphShape'
    BY <2>1 DEF GraphShape, GraphTypeOK, dagVars, TaskStatus
  <2>3. \A u \in Task : WorkflowOf[u] # NoWorkflow => \A d \in DependsOn[u] \cup {u} : status'[d] = status[d]
    BY <1>1, <1>3, <2>1, WorkflowAssumption
  <2>4. GraphOK(status, node, blocked)'
    <3>. SUFFICES ASSUME NEW u \in Task
         PROVE IF WorkflowOf[u] = NoWorkflow THEN u \notin blocked' /\ node'[u] = "NONE"
               ELSE NodeOK(u, status, node, blocked)'
      BY DEF GraphOK
    <3>1. IF WorkflowOf[u] = NoWorkflow THEN u \notin blocked /\ node[u] = "NONE"
          ELSE NodeOK(u, status, node, blocked)
      BY DEF WorkflowInv, GraphOK
    <3>. QED
      BY <1>2, <2>1, <2>3, <3>1 DEF NodeOK, dagVars
  <2>5. ASSUME NEW g \in Workflow PROVE RunOK(g)' /\ VerdictRight(g)'
    <3>1. \A u \in NodesOf(g) : u \in Task /\ status'[u] = status[u]
      BY <1>1, <1>3, <2>1, TaskAssumption DEF NodesOf
    <3>. QED
      BY <2>1, <3>1 DEF WorkflowInv, RunOK, VerdictRight, dagVars
  <2>. QED
    BY <1>1, <2>1, <2>2, <2>4, <2>5 DEF WorkflowInv
<1>4. CASE f # NoWorkflow
  <2>1. f \in Workflow /\ t \in NodesOf(f)
    BY <1>4, TaskAssumption DEF NodesOf
  <2>2. AdvanceAfter(f, rows, nodes, blocked, Held(f, holds', paused))
    BY <1>4 DEF Resolve
  <2>3. GraphTypeOK(rows, nodes, blocked) /\ GraphOK(rows, nodes, blocked)
    BY <1>4, DecisionGraph
  <2>4. NodeOK(t, status, node, blocked) /\ run[f] # "NONE" /\ \A u \in NodesOf(f) : node[u] # "NONE"
    BY <1>4, <2>1 DEF WorkflowInv, GraphOK, RunOK, NodeOK
  <2>5. \A u \in NodesOf(f) : nodes[u] # "NONE"
    BY <2>4 DEF ResetNodes, NodesOf
  <2>6. \A u \in Task \ NodesOf(f) : nodes[u] = node[u]
    BY <2>1 DEF ResetNodes, NodesOf
  <2>7. nodes[t] # "WAITING"
    BY <2>4 DEF ResetNodes, NodeOK
  <2>. HIDE DEF f, rows, nodes
  <2>8. /\ GraphTypeOK(status, node, blocked)' /\ GraphOK(status, node, blocked)'
        /\ run' \in [Workflow -> RunState] /\ run'[f] # "NONE" /\ VerdictRight(f)'
        /\ \A g \in Workflow \ {f} : run'[g] = run[g]
        /\ \A u \in Task : AdvancedRow(u, f, rows, nodes, blocked)
    BY <1>2, <2>1, <2>2, <2>3, <2>5, AdvanceStep DEF GraphShape
  <2>9. RunOK(f)'
    BY <2>5, <2>8 DEF RunOK, AdvancedRow, NodesOf
  <2>10. ASSUME NEW u \in Task \ NodesOf(f)
         PROVE  /\ status'[u] = status[u] /\ (u \in blocked' <=> u \in blocked)
                /\ node'[u] = "NONE" <=> node[u] = "NONE"
    BY <1>1, <2>1, <2>6, <2>8 DEF AdvancedRow
  <2>11. ASSUME NEW g \in Workflow \ {f} PROVE VerdictRight(g)' /\ RunOK(g)'
    BY <2>1, <2>8, <2>10, OtherVerdicts DEF WorkflowInv
  <2>12. status'[t] = to
    BY <1>1, <2>7, <2>8 DEF AdvancedRow
  <2>13. \A u \in Task \ {t} :
           status'[u] = status[u] \/ (u \in Bound /\ status[u] = "PENDING" /\ status'[u] = "FAILED")
    BY <1>1, <2>8 DEF AdvancedRow
  <2>. QED
    BY <2>1, <2>8, <2>9, <2>11, <2>12, <2>13 DEF WorkflowInv, GraphShape
<1>. QED
  BY <1>3, <1>4

----------------------------------------------------------------------------
(* What everybody but an operator and a reconciliation may do to a row.     *)

SameCounters(t) == attempts'[t] = attempts[t] /\ retries'[t] = retries[t]

Unmoved(t) == SameCounters(t) /\ status'[t] = status[t] /\ owner'[t] = owner[t]

Entered(t) ==
  /\ WorkflowOf[t] = NoWorkflow /\ status[t] = "ABSENT" /\ status'[t] = "PENDING"
  /\ SameCounters(t)

Claimed(t) ==
  /\ Dispatchable(t) /\ Admitted(t)
  /\ status'[t] = "RUNNING" /\ attempts'[t] = attempts[t] + 1 /\ retries'[t] = retries[t]
  /\ UNCHANGED journalVars

Refused(t) == t \in Llm /\ Dispatchable(t) /\ status'[t] = "FAILED" /\ SameCounters(t)

\* The execution of a row of L ends.
Left(t, L) ==
  /\ t \in L /\ status[t] = "RUNNING" /\ attempts'[t] = attempts[t]
  /\ \/ status'[t] \in Finished /\ retries'[t] = retries[t]
     \/ status'[t] = "RETRYING" /\ retries'[t] = retries[t] + 1 /\ retries[t] < limit[t]

RowServed(t, L) == Unmoved(t) \/ Entered(t) \/ Claimed(t) \/ Refused(t) \/ Left(t, L)

Serves(L) ==
  /\ blocked' = blocked /\ limit' = limit
  /\ \A t \in Task : RowServed(t, L)
  /\ \A t, u \in Task : Claimed(t) /\ Claimed(u) => t = u

\* Every transaction of the store is such a step.
LEMMA IdleServes ==
  ASSUME UNCHANGED taskVars
  PROVE  Serves({})
<1>1. \A t \in Task : Unmoved(t) /\ ~Claimed(t)
  BY DEF taskVars, Unmoved, SameCounters, Claimed, Dispatchable, Waiting
<1>. QED
  BY <1>1 DEF Serves, RowServed, taskVars

LEMMA SubmitServes ==
  ASSUME StoreTypeOK, NEW t \in Task, Submit(t) \/ BecomeDue(t)
  PROVE  Serves({})
<1>1. blocked' = blocked /\ limit' = limit
  BY DEF Submit, Insert, BecomeDue
<1>2. ASSUME NEW u \in Task PROVE RowServed(u, {}) /\ ~Claimed(u)
  <2>1. CASE BecomeDue(t)
    BY <2>1 DEF BecomeDue, RowServed, Unmoved, SameCounters, Claimed, Dispatchable, Waiting
  <2>2. CASE Submit(t) /\ u = t
    BY <2>2 DEF Submit, Insert, RowServed, Entered, SameCounters, Claimed, StoreTypeOK, TaskTypeOK
  <2>3. CASE Submit(t) /\ u # t
    BY <2>3 DEF Submit, Insert, RowServed, Unmoved, SameCounters, Claimed, Dispatchable, Waiting,
                StoreTypeOK, TaskTypeOK
  <2>. QED
    BY <2>1, <2>2, <2>3
<1>. QED
  BY <1>1, <1>2 DEF Serves

LEMMA ClaimServes ==
  ASSUME StoreTypeOK, NEW c, NEW t \in Task, NEW refused, \A u \in refused : u \in Llm /\ Dispatchable(u),
         ClaimRow(c, t, refused)
  PROVE  Serves({})
<1>. USE DEF StoreTypeOK, TaskTypeOK
<1>1. blocked' = blocked /\ limit' = limit
  BY DEF ClaimRow
<1>2. Claimed(t)
  BY DEF ClaimRow, Claimed, NextAttempt
<1>3. ASSUME NEW u \in Task \ {t} PROVE (Unmoved(u) \/ Refused(u)) /\ ~Claimed(u)
  <2>1. SameCounters(u) /\ owner'[u] = owner[u] /\ attempts'[u] # attempts[u] + 1
    BY <1>3 DEF ClaimRow, SameCounters
  <2>2. status'[u] = IF u \in refused THEN "FAILED" ELSE status[u]
    BY <1>3 DEF ClaimRow
  <2>. QED
    BY <2>1, <2>2 DEF Unmoved, Refused, Claimed
<1>. QED
  BY <1>1, <1>2, <1>3 DEF Serves, RowServed

LEMMA RefuseServes ==
  ASSUME StoreTypeOK, NEW refused, \A u \in refused : u \in Llm /\ Dispatchable(u), Refuse(refused)
  PROVE  Serves({})
<1>. USE DEF StoreTypeOK, TaskTypeOK
<1>1. blocked' = blocked /\ limit' = limit
  BY DEF Refuse
<1>2. ASSUME NEW u \in Task PROVE (Unmoved(u) \/ Refused(u)) /\ ~Claimed(u)
  <2>1. SameCounters(u) /\ owner'[u] = owner[u] /\ attempts'[u] # attempts[u] + 1
    BY DEF Refuse, SameCounters
  <2>2. status'[u] = IF u \in refused THEN "FAILED" ELSE status[u]
    BY DEF Refuse
  <2>. QED
    BY <2>1, <2>2 DEF Unmoved, Refused, Claimed
<1>. QED
  BY <1>1, <1>2 DEF Serves, RowServed

LEMMA ReleaseServes ==
  ASSUME StoreTypeOK, NEW S \in SUBSET Task, \A t \in S : status[t] = "RUNNING",
         NEW f \in [S -> {"SUCCESS", "FAILED", "RETRYING"}],
         \A t \in S : f[t] = "RETRYING" => retries[t] < limit[t],
         Release(S, f)
  PROVE  Serves(S)
<1>. USE DEF StoreTypeOK, TaskTypeOK
<1>1. blocked' = blocked /\ limit' = limit
  BY DEF Release
<1>2. ASSUME NEW u \in Task PROVE (Unmoved(u) \/ Left(u, S)) /\ ~Claimed(u)
  <2>1. attempts'[u] = attempts[u] /\ attempts'[u] # attempts[u] + 1
    BY DEF Release
  <2>2. CASE u \in S
    <3>1. status'[u] = f[u] /\ retries'[u] = (IF f[u] = "RETRYING" THEN retries[u] + 1 ELSE retries[u])
      BY <2>2 DEF Release
    <3>. QED
      BY <2>1, <2>2, <3>1 DEF Left, Claimed, Finished
  <2>3. CASE u \notin S
    BY <2>1, <2>3 DEF Release, Unmoved, SameCounters, Claimed
  <2>. QED
    BY <2>2, <2>3
<1>. QED
  BY <1>1, <1>2 DEF Serves, RowServed

LEMMA FinishServes ==
  ASSUME StoreTypeOK, NEW c, NEW t \in Task, NEW n, NEW o, Finish(c, t, n, o)
  PROVE  Serves({t}) /\ owner[t] = c
<1>. DEFINE f == [u \in {t} |-> FinishedStatus(u, o)]
<1>1. status[t] = "RUNNING" /\ owner[t] = c /\ Release({t}, f)
  BY DEF Finish, MayFinish
<1>2. f \in [{t} -> {"SUCCESS", "FAILED", "RETRYING"}] /\ (f[t] = "RETRYING" => retries[t] < limit[t])
  BY DEF FinishedStatus
<1>. HIDE DEF f
<1>. QED
  BY <1>1, <1>2, ReleaseServes

\* The rows that a recovery takes over.
LEMMA RecoveredServes ==
  ASSUME StoreTypeOK, NEW S \in SUBSET Task, \A t \in S : status[t] = "RUNNING",
         Release(S, [t \in S |-> RecoveredStatus(t)])
  PROVE  Serves(S) /\ TaskTypeOK'
<1>. DEFINE f == [t \in S |-> RecoveredStatus(t)]
<1>1. /\ f \in [S -> {"SUCCESS", "FAILED", "RETRYING"}]
      /\ \A t \in S : f[t] = "RETRYING" => retries[t] < limit[t]
  BY DEF RecoveredStatus
<1>2. Release(S, f)
  OBVIOUS
<1>. HIDE DEF f
<1>. QED
  BY <1>1, <1>2, ReleaseServes, ReleaseTyping DEF StoreTypeOK

\* More executions might have ended.
LEMMA ServesMore ==
  ASSUME NEW L, NEW M, \A t \in L \cap Task : t \in M, Serves(L)
  PROVE  Serves(M)
BY DEF Serves, RowServed, Left

\* Workers and supervisors end executions of sessions only.
OfSessions == {t \in Task : owner[t] \in Session}

LEMMA NextServes ==
  ASSUME TypeOK, CallOwnsItsAttempt, Next
  PROVE  Serves(OfSessions)
<1>. USE DEF TypeOK
<1>1. ASSUME Serves({}) PROVE Serves(OfSessions)
  BY <1>1, ServesMore
<1>2. ASSUME UNCHANGED storeVars PROVE Serves({})
  BY <1>2, IdleServes DEF storeVars
<1>3. ASSUME NEW A, RegistryStep(A) PROVE Serves({})
  BY <1>3, IdleServes DEF RegistryStep
<1>4. ASSUME NEW s \in Session, ClaimNone(s) \/ \E t \in Task : ClaimNext(s, t) PROVE Serves({})
  <2>1. CASE ClaimNone(s)
    BY <2>1, RefuseServes DEF ClaimNone, Candidates, OutOfBudget
  <2>2. ASSUME NEW t \in Task, ClaimNext(s, t) PROVE Serves({})
    <3>1. ClaimRow(s, t, {u \in Candidates(s) : OutOfBudget(u) /\ Precedes(u, t)})
      BY <2>2 DEF ClaimNext
    <3>2. \A u \in {v \in Candidates(s) : OutOfBudget(v) /\ Precedes(v, t)} : u \in Llm /\ Dispatchable(u)
      BY DEF Candidates, OutOfBudget
    <3>. QED
      BY <3>1, <3>2, ClaimServes
  <2>. QED
    BY <1>4, <2>1, <2>2
<1>5. ASSUME NEW s \in Session, NEW o, pc[s] = "commit", Finish(s, job[s][1], job[s][2], o)
      PROVE  Serves(OfSessions)
  <2>1. job[s][1] \in Task
    BY <1>5 DEF CallOwnsItsAttempt, Live, OwnsItsAttempt, WorkerTypeOK
  <2>2. Serves({job[s][1]}) /\ owner[job[s][1]] = s
    BY <1>5, <2>1, FinishServes
  <2>. QED
    BY <2>1, <2>2, ServesMore DEF OfSessions
<1>6. ASSUME NEW s \in Session, WorkerStep(s) PROVE Serves(OfSessions)
  <2>1. CASE Start(s) \/ StartFails(s) \/ HeartbeatStep(s) \/ RequestsDrain(s) \/ ConfirmsDrain(s)
    BY <1>1, <1>2, <1>3, <2>1
    DEF Start, StartFails, HeartbeatStep, Beat, BeatFails, BeatEnds, RequestsDrain, ConfirmsDrain
  <2>2. CASE Claims(s) \/ ClaimBreaks(s) \/ ClaimsNothing(s)
    BY <1>1, <1>2, <1>4, <2>2 DEF Claims, ClaimBreaks, ClaimsNothing
  <2>3. CASE Commits(s) \/ CommitBreaks(s)
    BY <1>1, <1>2, <1>5, <2>3 DEF Commits, CommitBreaks
  <2>4. CASE LoopTop(s) \/ ClaimRefused(s) \/ Returns(s) \/ CommitRefused(s) \/ Joins(s) \/ Crash(s)
    BY <1>1, <1>2, <2>4 DEF LoopTop, ClaimRefused, Returns, CommitRefused, Joins, Crash
  <2>. QED
    BY <1>6, <2>1, <2>2, <2>3, <2>4 DEF WorkerStep, ConsumerStep
<1>7. ASSUME NEW s \in Session, SupervisorStep(s) PROVE Serves(OfSessions)
  <2>1. CASE StopLocally(s) \/ RequestsStop(s) \/ StopsSession(s) \/ Fences(s) \/ AttestsExit(s)
    BY <1>1, <1>2, <1>3, <2>1 DEF StopLocally, RequestsStop, StopsSession, Fences, AttestsExit
  <2>2. CASE Recovers(s)
    <3>1. Release(RunningOf(s), [t \in RunningOf(s) |-> RecoveredStatus(t)])
      BY <2>2 DEF Recovers, RecoverWorker, RecoverRows
    <3>2. RunningOf(s) \in SUBSET Task /\ \A t \in RunningOf(s) : status[t] = "RUNNING" /\ t \in OfSessions
      BY RegistryAssumption DEF RunningOf, WorkerSession, OfSessions
    <3>. QED
      BY <3>1, <3>2, RecoveredServes, ServesMore
  <2>. QED
    BY <1>7, <2>1, <2>2 DEF SupervisorStep
<1>8. CASE \E t \in Task : Submits(t)
  BY <1>1, <1>8, SubmitServes DEF Submits
<1>9. CASE DetectsOverdue \/ TimePasses
  BY <1>1, <1>3, <1>9, SubmitServes DEF DetectsOverdue, TimePasses
<1>. QED
  BY <1>6, <1>7, <1>8, <1>9 DEF Next

\* None of these steps contradicts the graph of a workflow: they leave
\* gated rows and finished rows alone.
LEMMA ServesKeepsWorkflows ==
  ASSUME GraphShape, attempts \in [Task -> Nat], WorkflowInv, NEW L, Serves(L), UNCHANGED dagVars
  PROVE  WorkflowInv'
<1>1. node' = node /\ run' = run /\ blocked' = blocked
  BY DEF dagVars, Serves
<1>2. ASSUME NEW t \in Task
      PROVE  /\ status[t] \in Finished => status'[t] = status[t] /\ attempts'[t] = attempts[t]
             /\ t \in blocked /\ status[t] \notin {"RUNNING", "ABSENT"} =>
                  status'[t] = status[t] /\ attempts'[t] = attempts[t]
             /\ WorkflowOf[t] # NoWorkflow =>
                  (status'[t] = "ABSENT" <=> status[t] = "ABSENT")
             /\ attempts'[t] # attempts[t] => t \notin blocked /\ status[t] \in Waiting
  <2>1. RowServed(t, L)
    BY DEF Serves
  <2>2. Unmoved(t) =>
          status'[t] = status[t] /\ attempts'[t] = attempts[t]
    BY DEF Unmoved, SameCounters
  <2>3. Entered(t) => /\ status[t] = "ABSENT" /\ attempts'[t] = attempts[t]
                      /\ WorkflowOf[t] = NoWorkflow
    BY DEF Entered, SameCounters
  <2>4. Claimed(t) => /\ status[t] \in Waiting /\ t \notin blocked /\ status'[t] = "RUNNING"
    BY DEF Claimed, Dispatchable
  <2>5. Refused(t) => /\ status[t] \in Waiting /\ t \notin blocked /\ status'[t] = "FAILED"
                      /\ attempts'[t] = attempts[t]
    BY DEF Refused, Dispatchable, SameCounters
  <2>6. Left(t, L) => /\ status[t] = "RUNNING" /\ attempts'[t] = attempts[t]
                      /\ status'[t] \in {"SUCCESS", "FAILED", "RETRYING"}
    BY DEF Left, Finished
  <2>. QED
    BY <2>1, <2>2, <2>3, <2>4, <2>5, <2>6 DEF RowServed, Finished, Waiting
<1>3. ASSUME NEW t \in Task, WorkflowOf[t] # NoWorkflow PROVE NodeOK(t, status, node, blocked)'
  <2>1. NodeOK(t, status, node, blocked) /\ DependsOn[t] \subseteq Task
    BY <1>3, WorkflowAssumption DEF WorkflowInv, GraphOK
  <2>2. \A d \in DependsOn[t] : status[d] = "SUCCESS" => status'[d] = "SUCCESS"
    BY <1>2, <2>1 DEF Finished
  <2>3. t \in blocked => status[t] \notin {"RUNNING", "ABSENT"}
    BY <2>1 DEF NodeOK, Finished
  <2>4. attempts'[t] # attempts[t] => node[t] # "NONE" /\ t \notin blocked
    BY <1>2, <2>1 DEF NodeOK, Waiting
  <2>5. node[t] \in {"WAITING", "SKIPPED"} \cup Finished => status'[t] = status[t]
    BY <1>2, <2>1, <2>3 DEF NodeOK
  <2>6. t \in blocked => attempts'[t] = attempts[t]
    BY <1>2
  <2>7. attempts'[t] > 0 => node[t] # "NONE" /\ t \notin blocked
    BY <2>1, <2>4 DEF NodeOK
  <2>8. node[t] = "NONE" <=> status'[t] = "ABSENT"
    BY <1>2, <1>3, <2>1 DEF NodeOK
  <2>. QED
    BY <1>1, <2>1, <2>2, <2>5, <2>6, <2>7, <2>8 DEF NodeOK
<1>4. GraphOK(status, node, blocked)'
  BY <1>1, <1>3 DEF WorkflowInv, GraphOK
<1>5. ASSUME NEW f \in Workflow PROVE RunOK(f)' /\ VerdictRight(f)'
  <2>1. RunOK(f) /\ VerdictRight(f) /\ NodesOf(f) \subseteq Task
    BY DEF WorkflowInv, NodesOf
  <2>2. \A t \in NodesOf(f) : status[t] \in Finished => status'[t] = status[t]
    BY <1>2, <2>1
  <2>. QED
    BY <1>1, <2>1, <2>2 DEF RunOK, VerdictRight, Finished
<1>. QED
  BY <1>4, <1>5 DEF WorkflowInv

----------------------------------------------------------------------------
(* The journal.                                                             *)

DecisionsStay == \A i \in DOMAIN incident : incident[i] = "MANUAL" => incident'[i] = "MANUAL"

\* An entry that a scan may write over the incident i.
EntryOK(i, entry) == entry \in IncidentState /\ (incident[i] = "MANUAL" => entry = "MANUAL")

LEMMA EntriesOK ==
  ASSUME JournalTypeOK, NEW t \in Task, Latest(t) \in Task \X Attempt, NEW R
  PROVE  EntryOK(Latest(t), RecoveredIncident(t, R)) /\ EntryOK(Latest(t), ScannedIncident(t, R))
<1>. DEFINE i == Latest(t)
<1>1. incident[i] \in IncidentState
  BY DEF JournalTypeOK
<1>. HIDE DEF i
<1>. USE DEF EntryOK, IncidentState, OpenKind
<1>2. /\ EntryOK(i, Opened(i, "RECOVERY_ERROR")) /\ EntryOK(i, Opened(i, "AUTO"))
      /\ EntryOK(i, Opened(i, "TASK_FAILURE")) /\ EntryOK(i, Opened(i, "WAIT_STOP"))
      /\ EntryOK(i, Opened(i, "HANDLER_MISSING"))
  BY <1>1 DEF Opened
<1>3. /\ EntryOK(i, Closed(i, {"WAIT_STOP"})) /\ EntryOK(i, Closed(i, {"HANDLER_MISSING", "WAIT_STOP"}))
      /\ EntryOK(i, incident[i])
  BY <1>1 DEF Closed
<1>. HIDE DEF EntryOK, IncidentState, OpenKind
<1>4. EntryOK(i, RecoveredIncident(t, R))
  BY <1>2 DEF RecoveredIncident, i
<1>5. EntryOK(i, IdleIncident(t, R))
  BY <1>2, <1>3 DEF IdleIncident, i
<1>6. ASSUME NEW where PROVE EntryOK(i, WaitingIncident(t, where))
  BY <1>2, <1>3 DEF WaitingIncident, i
<1>7. EntryOK(i, ScannedIncident(t, R))
  BY <1>2, <1>3, <1>4, <1>5, <1>6 DEF ScannedIncident, i
<1>. QED
  BY <1>4, <1>7 DEF i

\* New entries for latest attempts, together with the holds they imply.
LEMMA JournalKept ==
  ASSUME JournalTypeOK, HoldsMatchIncidents, attempts' = attempts, NEW new,
         DOMAIN new = Task \X Attempt, new = [i \in Task \X Attempt |-> new[i]],
         \A i \in Task \X Attempt : new[i] = incident[i] \/ (i = Latest(i[1]) /\ EntryOK(i, new[i])),
         incident' = new, holds' = HoldsAfter(new), UNCHANGED paused
  PROVE  JournalTypeOK' /\ HoldsMatchIncidents' /\ DecisionsStay
<1>. USE DEF JournalTypeOK, EntryOK
<1>1. new \in [Task \X Attempt -> IncidentState]
  OBVIOUS
<1>2. DecisionsStay
  BY DEF DecisionsStay
<1>3. \A i : i \in holds' <=> i \in Task \X Attempt /\ new[i] \in OpenKind
  BY DEF HoldsMatchIncidents, HoldsAfter
<1>4. \A i \in holds' : i = Latest(i[1])
  BY <1>3 DEF HoldsMatchIncidents
<1>. QED
  BY <1>1, <1>2, <1>3, <1>4 DEF HoldsMatchIncidents, Latest

\* A step that leaves the journal and the attempts alone.
LEMMA JournalIdle ==
  ASSUME JournalTypeOK, HoldsMatchIncidents, attempts' = attempts, UNCHANGED journalVars
  PROVE  JournalTypeOK' /\ HoldsMatchIncidents' /\ DecisionsStay
BY DEF JournalTypeOK, HoldsMatchIncidents, DecisionsStay, Latest, journalVars

\* A claim opens a new attempt, of a task that no open incident holds.
LEMMA JournalServed ==
  ASSUME JournalTypeOK, HoldsMatchIncidents, NEW L, Serves(L), UNCHANGED journalVars
  PROVE  JournalTypeOK' /\ HoldsMatchIncidents' /\ DecisionsStay
<1>1. JournalTypeOK' /\ DecisionsStay
  BY DEF JournalTypeOK, DecisionsStay, journalVars
<1>2. ASSUME NEW i \in holds PROVE attempts'[i[1]] = attempts[i[1]]
  <2>1. i[1] \in Task /\ RowServed(i[1], L)
    BY DEF JournalTypeOK, Serves
  <2>2. ~Claimed(i[1])
    BY DEF Claimed, Dispatchable, ClaimGuard, HeldBy
  <2>. QED
    BY <2>1, <2>2 DEF RowServed, Unmoved, Entered, Refused, Left, SameCounters
<1>3. HoldsMatchIncidents'
  BY <1>2 DEF HoldsMatchIncidents, Latest, journalVars
<1>. QED
  BY <1>1, <1>3

\* The incidents that a scheduled retry closes.
LEMMA RetriedKept ==
  ASSUME JournalTypeOK, HoldsMatchIncidents, attempts' = attempts, NEW S \in SUBSET Task, CloseRetried(S)
  PROVE  JournalTypeOK' /\ HoldsMatchIncidents' /\ DecisionsStay
<1>1. JournalTypeOK'
  BY DEF JournalTypeOK, CloseRetried, IncidentState
<1>2. DecisionsStay
  BY DEF DecisionsStay, JournalTypeOK, CloseRetried, OpenKind
<1>3. holds' = {i \in Task \X Attempt : incident'[i] \in OpenKind}
  BY DEF HoldsMatchIncidents, JournalTypeOK, CloseRetried, OpenKind
<1>4. \A i \in holds' : i \in holds
  BY DEF CloseRetried
<1>. QED
  BY <1>1, <1>2, <1>3, <1>4 DEF HoldsMatchIncidents, Latest, JournalTypeOK

\* The incident that a decision closes.
LEMMA DecisionKept ==
  ASSUME JournalTypeOK, HoldsMatchIncidents, attempts' = attempts, NEW t \in Task,
         holds' = holds \ {Latest(t)}, incident' = [incident EXCEPT ![Latest(t)] = "MANUAL"],
         paused' = paused
  PROVE  JournalTypeOK' /\ HoldsMatchIncidents' /\ DecisionsStay
<1>1. JournalTypeOK' /\ DecisionsStay
  BY DEF JournalTypeOK, DecisionsStay, IncidentState
<1>2. holds' = {i \in Task \X Attempt : incident'[i] \in OpenKind}
  BY DEF HoldsMatchIncidents, JournalTypeOK, OpenKind
<1>. QED
  BY <1>1, <1>2 DEF HoldsMatchIncidents, Latest, JournalTypeOK

----------------------------------------------------------------------------
(* Who owns a running row.                                                  *)

\* An engine owns the row it runs, and nobody confirmed that it has stopped.
EngineOwns(e) ==
  engineJob[e] # NoJob =>
    /\ status[engineJob[e][1]] = "RUNNING" /\ owner[engineJob[e][1]] = e
    /\ attempts[engineJob[e][1]] = engineJob[e][2]
    /\ engineJob[e] \notin legacyStopped

EnginesOwn == \A e \in Engine : EngineOwns(e)

\* Exits are confirmed of attempts that were made.
StopsAreOld == \A i \in legacyStopped : i[2] <= attempts[i[1]]

OwnInv == CallOwnsItsAttempt /\ EnginesOwn /\ StopsAreOld

\* Running rows outside L keep their attempt and their owner.
RunningKept(L) ==
  \A t \in Task : status[t] = "RUNNING" /\ t \notin L =>
    status'[t] = "RUNNING" /\ owner'[t] = owner[t] /\ attempts'[t] = attempts[t]

AttemptsGrow == \A t \in Task : attempts'[t] >= attempts[t]

LEMMA ServesKept ==
  ASSUME attempts \in [Task -> Nat], NEW L, Serves(L)
  PROVE  RunningKept(L) /\ AttemptsGrow
<1>1. ASSUME NEW t \in Task
      PROVE  /\ status[t] = "RUNNING" /\ t \notin L =>
                  status'[t] = "RUNNING" /\ owner'[t] = owner[t] /\ attempts'[t] = attempts[t]
             /\ attempts'[t] = attempts[t] \/ attempts'[t] = attempts[t] + 1
  <2>1. RowServed(t, L)
    BY DEF Serves
  <2>. QED
    BY <2>1 DEF RowServed, Unmoved, Entered, Claimed, Refused, Left, SameCounters, Dispatchable, Waiting
<1>2. AttemptsGrow
  BY <1>1 DEF AttemptsGrow
<1>. QED
  BY <1>1, <1>2 DEF RunningKept

\* Live calls keep owning their rows when only other executions end and
\* their sessions are not stopped.
LEMMA CallsKept ==
  ASSUME TypeOK, CallOwnsItsAttempt, UNCHANGED workerVars, NEW L, RunningKept(L),
         \A s \in Session : Live(s) /\ OwnsItsAttempt(s) =>
            job[s][1] \notin L /\ state'[s] \notin {"NEW", "STOPPED"}
  PROVE  CallOwnsItsAttempt'
<1>. SUFFICES ASSUME NEW s \in Session, Live(s)' PROVE OwnsItsAttempt(s)'
  BY DEF CallOwnsItsAttempt
<1>1. Live(s) /\ job'[s] = job[s]
  BY DEF Live, workerVars
<1>2. OwnsItsAttempt(s)
  BY <1>1 DEF CallOwnsItsAttempt
<1>3. job[s][1] \in Task
  BY <1>2 DEF OwnsItsAttempt, TypeOK, WorkerTypeOK
<1>. QED
  BY <1>1, <1>2, <1>3 DEF OwnsItsAttempt, RunningKept

\* And so do engines.
LEMMA EnginesKept ==
  ASSUME RecoveryTypeOK, EnginesOwn, StopsAreOld, NEW L, RunningKept(L), AttemptsGrow,
         attempts' \in [Task -> Nat], legacyStopped' = legacyStopped,
         \A e \in Engine : \/ engineJob'[e] = NoJob
                           \/ /\ engineJob'[e] = engineJob[e]
                              /\ engineJob[e] # NoJob /\ EngineOwns(e) => engineJob[e][1] \notin L
  PROVE  EnginesOwn' /\ StopsAreOld'
<1>. USE DEF RecoveryTypeOK
<1>1. ASSUME NEW e \in Engine PROVE EngineOwns(e)'
  <2>. SUFFICES ASSUME engineJob'[e] # NoJob PROVE EngineOwns(e)'
    BY DEF EngineOwns
  <2>1. engineJob'[e] = engineJob[e] /\ engineJob[e][1] \notin L /\ EngineOwns(e)
    BY DEF EnginesOwn
  <2>2. engineJob[e][1] \in Task
    BY <2>1
  <2>. QED
    BY <2>1, <2>2 DEF EngineOwns, RunningKept
<1>2. ASSUME NEW i \in legacyStopped PROVE i[2] <= attempts'[i[1]]
  <2>1. i[1] \in Task /\ i[2] \in Nat
    OBVIOUS
  <2>2. attempts[i[1]] \in Nat /\ attempts'[i[1]] \in Nat /\ attempts'[i[1]] >= attempts[i[1]]
    BY <2>1 DEF TypeOK, StoreTypeOK, TaskTypeOK, AttemptsGrow
  <2>. QED
    BY <2>1, <2>2 DEF StopsAreOld
<1>. QED
  BY <1>1, <1>2 DEF EnginesOwn, StopsAreOld

----------------------------------------------------------------------------
(* Every action: the whole invariant, and what it does to rows and          *)
(* decisions.                                                               *)

RecoveryInv == RecoveryTypeOK /\ WorkflowInv /\ HoldsMatchIncidents /\ OwnInv

\* A reconciliation, a submission or a decision: nothing starts, and only
\* missing input fails what has not started.
Directs ==
  /\ attempts' = attempts
  /\ \A t \in Task : status'[t] = "RUNNING" => status[t] = "RUNNING"
  /\ \A t \in Task : status'[t] = "FAILED" => t \in Bound \/ status[t] \in {"RUNNING", "FAILED"}
  /\ \A t \in Task : OperatedLifecycle!Step(t) \/ OperatedLifecycle!Stays(t)

StepOK == RecoveryInv' /\ DecisionsStay /\ (Directs \/ \E L : Serves(L))

LEMMA ShapeOfTypes ==
  RecoveryTypeOK => GraphShape /\ attempts \in [Task -> Nat] /\ StoreTypeOK /\ JournalTypeOK
BY DEF RecoveryTypeOK, TypeOK, StoreTypeOK, TaskTypeOK, WorkflowTypeOK, GraphShape, GraphTypeOK

\* The journal in a step of the running system.
LEMMA NextJournal ==
  ASSUME Next
  PROVE  UNCHANGED journalVars \/ (attempts' = attempts /\ \E S \in SUBSET Task : CloseRetried(S))
<1>1. ASSUME NEW s \in Session, Recovers(s) PROVE attempts' = attempts /\ \E S \in SUBSET Task : CloseRetried(S)
  <2>1. RunningOf(s) \in SUBSET Task
    BY DEF RunningOf
  <2>. QED
    BY <1>1, <2>1 DEF Recovers, RecoverWorker, RecoverRows, Release
<1>2. ASSUME NEW s \in Session, WorkerStep(s) PROVE UNCHANGED journalVars
  BY <1>2 DEF WorkerStep, Start, StartFails, HeartbeatStep, Beat, BeatFails, BeatEnds, ConsumerStep,
         LoopTop, Claims, ClaimsNothing, ClaimRefused, ClaimBreaks, Returns, Commits, CommitRefused,
         CommitBreaks, Joins, RequestsDrain, ConfirmsDrain, Crash, RegistryStep, ClaimNext, ClaimRow,
         ClaimNone, Refuse, Finish, storeVars
<1>3. ASSUME NEW s \in Session, SupervisorStep(s), ~Recovers(s) PROVE UNCHANGED journalVars
  BY <1>3 DEF SupervisorStep, StopLocally, RequestsStop, StopsSession, Fences, AttestsExit,
         RegistryStep, storeVars
<1>4. CASE (\E t \in Task : Submits(t)) \/ DetectsOverdue \/ TimePasses
  BY <1>4 DEF Submits, Submit, DetectsOverdue, TimePasses, RegistryStep, BecomeDue
<1>. QED
  BY <1>1, <1>2, <1>3, <1>4 DEF Next

\* Workers and supervisors.
LEMMA AloneStep ==
  ASSUME RecoveryInv, Alone(Next)
  PROVE  StepOK
<1>. USE DEF RecoveryInv, OwnInv
<1>1. Next /\ UNCHANGED dagVars /\ engineJob' = engineJob /\ legacyStopped' = legacyStopped
  BY DEF Alone, sideVars
<1>2. TypeOK' /\ CallOwnsItsAttempt'
  BY <1>1, StoreStepTyping, WorkerStepTyping, OwnershipStep DEF RecoveryTypeOK, TypeOK
<1>3. Serves(OfSessions)
  BY <1>1, NextServes DEF RecoveryTypeOK
<1>4. RecoveryTypeOK'
  BY <1>1, <1>2 DEF RecoveryTypeOK, WorkflowTypeOK, dagVars
<1>5. WorkflowInv'
  BY <1>1, <1>3, ShapeOfTypes, ServesKeepsWorkflows
<1>6. HoldsMatchIncidents' /\ DecisionsStay
  BY <1>1, <1>3, NextJournal, JournalServed, RetriedKept, ShapeOfTypes
<1>7. RunningKept(OfSessions) /\ AttemptsGrow
  BY <1>3, ServesKept, ShapeOfTypes
<1>8. \A e \in Engine : engineJob[e] # NoJob /\ EngineOwns(e) => engineJob[e][1] \notin OfSessions
  BY TaskAssumption DEF EngineOwns, OfSessions
<1>9. attempts' \in [Task -> Nat]
  BY <1>2 DEF TypeOK, StoreTypeOK, TaskTypeOK
<1>10. EnginesOwn' /\ StopsAreOld'
  BY <1>1, <1>7, <1>8, <1>9, EnginesKept
<1>. QED
  BY <1>2, <1>3, <1>4, <1>5, <1>6, <1>10 DEF StepOK

\* What is left to show of a step in which only executions of L end, and
\* the threads of workers do nothing.
LEMMA ServesOK ==
  ASSUME RecoveryInv, NEW L, Serves(L), UNCHANGED <<workerVars, dagVars>>, legacyStopped' = legacyStopped,
         StoreTypeOK', HoldsMatchIncidents', DecisionsStay,
         \A s \in Session : Live(s) /\ OwnsItsAttempt(s) =>
            job[s][1] \notin L /\ state'[s] \notin {"NEW", "STOPPED"},
         engineJob' \in [Engine -> (Task \X Nat) \cup {NoJob}],
         \A e \in Engine : \/ engineJob'[e] = NoJob
                           \/ /\ engineJob'[e] = engineJob[e]
                              /\ engineJob[e] # NoJob /\ EngineOwns(e) => engineJob[e][1] \notin L
  PROVE  StepOK
<1>. USE DEF RecoveryInv, OwnInv
<1>1. TypeOK /\ WorkflowTypeOK /\ legacyStopped \subseteq Task \X Nat
  BY DEF RecoveryTypeOK
<1>2. RecoveryTypeOK'
  BY <1>1 DEF RecoveryTypeOK, TypeOK, WorkerTypeOK, WorkflowTypeOK, workerVars, dagVars
<1>3. WorkflowInv'
  BY ShapeOfTypes, ServesKeepsWorkflows
<1>4. RunningKept(L) /\ AttemptsGrow
  BY ServesKept, ShapeOfTypes
<1>5. CallOwnsItsAttempt'
  BY <1>1, <1>4, CallsKept
<1>6. attempts' \in [Task -> Nat]
  BY DEF StoreTypeOK, TaskTypeOK
<1>7. EnginesOwn' /\ StopsAreOld'
  BY <1>4, <1>6, EnginesKept
<1>. QED
  BY <1>2, <1>3, <1>5, <1>7 DEF StepOK

\* The claim of an engine.
LEMMA EngineRunsStep ==
  ASSUME RecoveryInv, NEW e \in Engine, NEW t \in Task, EngineRuns(e, t)
  PROVE  StepOK
<1>. USE DEF RecoveryInv, OwnInv
<1>1. /\ ClaimRow(e, t, {}) /\ engineJob' = [engineJob EXCEPT ![e] = <<t, NextAttempt(t)>>]
      /\ UNCHANGED <<workerVars, dagVars, legacyStopped, registryVars, journalVars>>
  BY DEF EngineRuns, EngineClaim, ClaimRow
<1>2. TypeOK /\ WorkflowTypeOK /\ legacyStopped \subseteq Task \X Nat /\ StoreTypeOK /\ JournalTypeOK
      /\ engineJob \in [Engine -> (Task \X Nat) \cup {NoJob}] /\ attempts \in [Task -> Nat]
  BY ShapeOfTypes DEF RecoveryTypeOK
<1>3. Serves({})
  BY <1>1, <1>2, ClaimServes
<1>4. StoreTypeOK'
  BY <1>1, <1>2, ClaimTyping DEF Claimant
<1>5. RecoveryTypeOK'
  <2>1. <<t, NextAttempt(t)>> \in Task \X Nat
    BY <1>2 DEF NextAttempt
  <2>. QED
    BY <1>1, <1>2, <1>4, <2>1 DEF RecoveryTypeOK, TypeOK, WorkerTypeOK, WorkflowTypeOK, workerVars, dagVars
<1>6. WorkflowInv'
  BY <1>1, <1>3, ShapeOfTypes, ServesKeepsWorkflows
<1>7. HoldsMatchIncidents' /\ DecisionsStay
  BY <1>1, <1>2, <1>3, JournalServed
<1>8. RunningKept({}) /\ AttemptsGrow
  BY <1>2, <1>3, ServesKept
<1>9. CallOwnsItsAttempt'
  <2>1. state' = state
    BY <1>1 DEF registryVars
  <2>. QED
    BY <1>1, <1>2, <1>8, <2>1, CallsKept DEF OwnsItsAttempt
<1>10. status'[t] = "RUNNING" /\ owner'[t] = e /\ attempts'[t] = attempts[t] + 1
  BY <1>1, <1>2 DEF ClaimRow, NextAttempt, StoreTypeOK, TaskTypeOK
<1>11. EngineOwns(e)'
  <2>1. engineJob'[e] = <<t, attempts[t] + 1>>
    BY <1>1, <1>2 DEF NextAttempt
  <2>2. <<t, attempts[t] + 1>> \notin legacyStopped
    BY <1>2 DEF StopsAreOld
  <2>. QED
    BY <1>1, <1>10, <2>1, <2>2 DEF EngineOwns
<1>12. ASSUME NEW d \in Engine \ {e} PROVE EngineOwns(d)'
  <2>1. engineJob'[d] = engineJob[d] /\ EngineOwns(d) /\ (engineJob[d] # NoJob => engineJob[d][1] \in Task)
    BY <1>1, <1>2 DEF EnginesOwn
  <2>. QED
    BY <1>1, <1>8, <2>1 DEF EngineOwns, RunningKept
<1>13. StopsAreOld'
  <2>. SUFFICES ASSUME NEW i \in legacyStopped PROVE i[2] <= attempts'[i[1]]
    BY <1>1 DEF StopsAreOld
  <2>1. i[1] \in Task /\ i[2] \in Nat
    BY <1>2
  <2>2. attempts[i[1]] \in Nat /\ attempts'[i[1]] \in Nat /\ attempts'[i[1]] >= attempts[i[1]]
    BY <1>2, <1>4, <1>8, <2>1 DEF StoreTypeOK, TaskTypeOK, AttemptsGrow
  <2>. QED
    BY <2>1, <2>2 DEF StopsAreOld
<1>14. EnginesOwn'
  BY <1>11, <1>12 DEF EnginesOwn
<1>. QED
  BY <1>3, <1>5, <1>6, <1>7, <1>9, <1>13, <1>14 DEF StepOK

\* A refusal, a report, and an engine that dies.
LEMMA EngineEndsStep ==
  ASSUME RecoveryInv, NEW e \in Engine,
         \/ \E t \in Task : EngineIsRefused(e, t)
         \/ \E o \in Outcome : EngineReports(e, o)
         \/ EngineGivesUp(e)
  PROVE  StepOK
<1>. USE DEF RecoveryInv, OwnInv
<1>1. StoreTypeOK /\ JournalTypeOK /\ attempts \in [Task -> Nat]
  BY ShapeOfTypes
<1>2. engineJob \in [Engine -> (Task \X Nat) \cup {NoJob}]
  BY DEF RecoveryTypeOK
<1>3. ASSUME NEW t \in Task, EngineIsRefused(e, t) PROVE StepOK
  <2>1. /\ t \in Llm /\ Dispatchable(t) /\ Refuse({t})
        /\ UNCHANGED <<workerVars, dagVars, engineJob, legacyStopped>>
    BY <1>3 DEF EngineIsRefused, EngineRefused, OutOfBudget, sideVars
  <2>2. Serves({}) /\ StoreTypeOK'
    BY <1>1, <2>1, RefuseServes, RefuseTyping
  <2>3. UNCHANGED journalVars /\ state' = state
    BY <2>1 DEF Refuse, registryVars
  <2>4. HoldsMatchIncidents' /\ DecisionsStay
    BY <1>1, <2>2, <2>3, JournalServed
  <2>. QED
    BY <1>2, <2>1, <2>2, <2>3, <2>4, ServesOK DEF OwnsItsAttempt
<1>4. ASSUME NEW o \in Outcome, EngineReports(e, o) PROVE StepOK
  <2>. DEFINE t == engineJob[e][1]
              n == engineJob[e][2]
  <2>1. /\ engineJob[e] # NoJob /\ Finish(e, t, n, o)
        /\ engineJob' = [engineJob EXCEPT ![e] = NoJob]
        /\ UNCHANGED <<workerVars, dagVars, legacyStopped>>
    BY <1>4 DEF EngineReports
  <2>2. t \in Task
    BY <1>2, <2>1
  <2>3. UNCHANGED journalVars /\ state' = state
    BY <2>1 DEF Finish, registryVars
  <2>4. Serves({t}) /\ owner[t] = e /\ StoreTypeOK'
    BY <1>1, <2>1, <2>2, FinishServes, FinishTyping
  <2>5. HoldsMatchIncidents' /\ DecisionsStay
    BY <1>1, <2>3, <2>4, JournalServed
  <2>6. engineJob' \in [Engine -> (Task \X Nat) \cup {NoJob}]
    BY <1>2, <2>1
  <2>7. ASSUME NEW s \in Session, OwnsItsAttempt(s)
        PROVE  job[s][1] \notin {t} /\ state'[s] \notin {"NEW", "STOPPED"}
    BY <2>3, <2>4, <2>7, TaskAssumption DEF OwnsItsAttempt
  <2>8. ASSUME NEW d \in Engine
        PROVE  \/ engineJob'[d] = NoJob
               \/ /\ engineJob'[d] = engineJob[d]
                  /\ engineJob[d] # NoJob /\ EngineOwns(d) => engineJob[d][1] \notin {t}
    BY <1>2, <2>1, <2>4 DEF EngineOwns
  <2>. HIDE DEF t, n
  <2>. QED
    BY <2>1, <2>4, <2>5, <2>6, <2>7, <2>8, ServesOK
<1>5. CASE EngineGivesUp(e)
  <2>1. /\ engineJob' = [engineJob EXCEPT ![e] = NoJob] /\ UNCHANGED <<vars, dagVars, legacyStopped>>
    BY <1>5 DEF EngineGivesUp
  <2>2. UNCHANGED taskVars /\ UNCHANGED journalVars /\ state' = state /\ UNCHANGED workerVars
    BY <2>1 DEF vars, storeVars, registryVars
  <2>3. Serves({})
    BY <2>2, IdleServes
  <2>4. StoreTypeOK'
    BY <1>1, <2>1 DEF vars, storeVars, registryVars, taskVars, usageVars, journalVars, StoreTypeOK,
                      RegistryTypeOK, TaskTypeOK, JournalTypeOK
  <2>5. HoldsMatchIncidents' /\ DecisionsStay
    BY <1>1, <2>2, <2>3, JournalServed
  <2>6. engineJob' \in [Engine -> (Task \X Nat) \cup {NoJob}]
        /\ \A d \in Engine : engineJob'[d] = NoJob \/ engineJob'[d] = engineJob[d]
    BY <1>2, <2>1
  <2>. QED
    BY <2>1, <2>2, <2>3, <2>4, <2>5, <2>6, ServesOK DEF OwnsItsAttempt
<1>. QED
  BY <1>3, <1>4, <1>5

\* Offline recovery: nobody executes anything.
LEMMA OfflineStep ==
  ASSUME RecoveryInv, OfflineRecovery
  PROVE  StepOK
<1>. USE DEF RecoveryInv, OwnInv
<1>. DEFINE S == {t \in Task : status[t] = "RUNNING"}
<1>1. StoreTypeOK /\ JournalTypeOK /\ attempts \in [Task -> Nat]
  BY ShapeOfTypes
<1>2. RecoverRows(S) /\ UNCHANGED <<workerVars, dagVars, engineJob, legacyStopped>>
  BY DEF OfflineRecovery, RecoverInterrupted, sideVars
<1>3. S \in SUBSET Task /\ \A t \in S : status[t] = "RUNNING"
  OBVIOUS
<1>4. /\ Release(S, [t \in S |-> RecoveredStatus(t)]) /\ CloseRetried(S) /\ attempts' = attempts
      /\ state' = state
  BY <1>2 DEF RecoverRows, Release, registryVars
<1>. HIDE DEF S
<1>5. Serves(S) /\ StoreTypeOK'
  BY <1>1, <1>2, <1>3, <1>4, RecoveredServes, RecoverTyping
<1>6. HoldsMatchIncidents' /\ DecisionsStay
  BY <1>1, <1>3, <1>4, RetriedKept
<1>7. \A s \in Session : ~Live(s)
  BY DEF OfflineRecovery, Live, Gone
<1>8. \A e \in Engine : engineJob'[e] = NoJob
  BY <1>2 DEF OfflineRecovery
<1>9. engineJob' \in [Engine -> (Task \X Nat) \cup {NoJob}]
  BY <1>2 DEF RecoveryTypeOK
<1>. QED
  BY <1>2, <1>5, <1>6, <1>7, <1>8, <1>9, ServesOK

----------------------------------------------------------------------------
(* Reconciliations, submissions, pauses and decisions.                      *)

\* What is left to show of a step in which nothing starts.
LEMMA DirectsOK ==
  ASSUME RecoveryInv, Directs, UNCHANGED <<registryVars, workerVars, sideVars>>,
         NEW L, RunningKept(L), TaskTypeOK', JournalTypeOK', GraphShape', WorkflowInv',
         HoldsMatchIncidents', DecisionsStay,
         \A s \in Session : Live(s) /\ OwnsItsAttempt(s) => job[s][1] \notin L,
         \A e \in Engine : engineJob[e] # NoJob /\ EngineOwns(e) => engineJob[e][1] \notin L
  PROVE  StepOK
<1>. USE DEF RecoveryInv, OwnInv
<1>1. TypeOK /\ engineJob' = engineJob /\ legacyStopped' = legacyStopped /\ attempts \in [Task -> Nat]
  BY ShapeOfTypes DEF RecoveryTypeOK, sideVars
<1>2. StoreTypeOK'
  BY <1>1 DEF TypeOK, StoreTypeOK, RegistryTypeOK, registryVars
<1>3. RecoveryTypeOK'
  BY <1>1, <1>2 DEF RecoveryTypeOK, TypeOK, WorkerTypeOK, workerVars, WorkflowTypeOK, GraphShape, GraphTypeOK
<1>4. AttemptsGrow /\ attempts' = attempts
  BY <1>1 DEF Directs, AttemptsGrow
<1>5. CallOwnsItsAttempt'
  BY <1>1, CallsKept DEF OwnsItsAttempt, registryVars
<1>6. EnginesOwn' /\ StopsAreOld'
  BY <1>1, <1>4, EnginesKept
<1>. QED
  BY <1>3, <1>5, <1>6 DEF StepOK

\* Missing input is a refusal of the abstract life.
LEMMA RefusalsDirect ==
  ASSUME OnlyRefusals, attempts' = attempts, retries' = retries, limit' = limit
  PROVE  Directs
<1>1. ASSUME NEW t \in Task PROVE OperatedLifecycle!Step(t) \/ OperatedLifecycle!Stays(t)
  BY DEF OnlyRefusals, OperatedLifecycle!Step, OperatedLifecycle!Stays, OperatedLifecycle!Refuse,
         OperatedLifecycle!Moves, OperatedLifecycle!Keeps
<1>2. \A t \in Task : /\ status'[t] = "RUNNING" => status[t] = "RUNNING"
                      /\ status'[t] = "FAILED" => t \in Bound \/ status[t] = "FAILED"
  BY DEF OnlyRefusals
<1>. QED
  BY <1>1, <1>2 DEF Directs

\* Reconciliations and pauses.
LEMMA AdvanceOK ==
  ASSUME RecoveryInv, NEW f \in Workflow, run[f] # "NONE", NEW isHeld,
         AdvanceAfter(f, status, node, blocked, isHeld), paused' \subseteq Workflow,
         UNCHANGED <<attempts, retries, limit, owner, due, ahead, usageVars, registryVars>>,
         UNCHANGED <<incident, holds, workerVars, sideVars>>
  PROVE  StepOK
<1>. USE DEF RecoveryInv, OwnInv
<1>1. GraphShape /\ StoreTypeOK /\ JournalTypeOK /\ attempts \in [Task -> Nat]
  BY ShapeOfTypes
<1>2. GraphShape' /\ WorkflowInv' /\ OnlyRefusals
  BY <1>1, AdvanceKeepsWorkflows
<1>3. Directs
  BY <1>2, RefusalsDirect
<1>4. RunningKept({})
  BY <1>2 DEF OnlyRefusals, RunningKept
<1>5. TaskTypeOK'
  BY <1>1, <1>2 DEF StoreTypeOK, TaskTypeOK, GraphShape, GraphTypeOK, usageVars
<1>6. JournalTypeOK'
  BY <1>1 DEF JournalTypeOK
<1>7. HoldsMatchIncidents' /\ DecisionsStay
  BY <1>1 DEF HoldsMatchIncidents, DecisionsStay, Latest
<1>. QED
  BY <1>2, <1>3, <1>4, <1>5, <1>6, <1>7, DirectsOK

LEMMA WorkflowStepOK ==
  ASSUME RecoveryInv, NEW f \in Workflow, WorkflowStep(f)
  PROVE  StepOK
<1>. USE DEF RecoveryInv, OwnInv
<1>1. GraphShape /\ StoreTypeOK /\ JournalTypeOK /\ attempts \in [Task -> Nat]
  BY ShapeOfTypes
<1>2. CASE Advance(f)
  <2>1. paused' \subseteq Workflow
    BY <1>1, <1>2 DEF Advance, journalVars, JournalTypeOK
  <2>. QED
    BY <1>2, <2>1, AdvanceOK DEF Advance, WorkflowStep, journalVars
<1>3. CASE SubmitWorkflow(f)
  <2>1. /\ Insert(NodesOf(f)) /\ UNCHANGED <<registryVars, journalVars, workerVars, sideVars>>
    BY <1>3 DEF SubmitWorkflow, WorkflowStep
  <2>2. /\ GraphShape' /\ WorkflowInv'
        /\ \A t \in Task : status'[t] = status[t] \/ (status[t] = "ABSENT" /\ status'[t] = "PENDING")
    BY <1>1, <1>3, SubmitKeepsWorkflows
  <2>3. UNCHANGED <<attempts, retries, limit, owner, due, usageVars>>
    BY <2>1 DEF Insert
  <2>4. Directs
    <3>1. ASSUME NEW t \in Task PROVE OperatedLifecycle!Step(t) \/ OperatedLifecycle!Stays(t)
      BY <2>2, <2>3 DEF OperatedLifecycle!Step, OperatedLifecycle!Stays, OperatedLifecycle!Submit,
             OperatedLifecycle!Moves, OperatedLifecycle!Keeps
    <3>. QED
      BY <2>2, <2>3, <3>1 DEF Directs
  <2>5. RunningKept({})
    BY <2>2, <2>3 DEF RunningKept
  <2>6. TaskTypeOK'
    <3>1. ahead' \in [Task -> SUBSET Task]
      BY <1>1, <2>1 DEF Insert, StoreTypeOK, TaskTypeOK, NodesOf, Present
    <3>. QED
      BY <1>1, <2>2, <2>3, <3>1 DEF StoreTypeOK, TaskTypeOK, GraphShape, GraphTypeOK, usageVars
  <2>7. JournalTypeOK' /\ HoldsMatchIncidents' /\ DecisionsStay
    BY <1>1, <2>1, <2>3, JournalIdle
  <2>. QED
    BY <2>1, <2>2, <2>4, <2>5, <2>6, <2>7, DirectsOK
<1>. QED
  BY <1>2, <1>3 DEF WorkflowStep

LEMMA PauseStep ==
  ASSUME RecoveryInv, NEW f \in Workflow, PauseWorkflow(f) \/ ResumeWorkflow(f)
  PROVE  StepOK
<1>1. PICK manual \in SUBSET Workflow : SetPaused(f, manual)
  BY ShapeOfTypes DEF RecoveryInv, PauseWorkflow, ResumeWorkflow, JournalTypeOK
<1>. QED
  BY <1>1, AdvanceOK DEF SetPaused

\* A row that an operator may decide runs nowhere.
LEMMA DecidableRuns ==
  ASSUME RecoveryInv, NEW t \in Task, Decidable(t)
  PROVE  /\ status[t] \in {"RUNNING", "FAILED"}
         /\ \A s \in Session : Live(s) /\ OwnsItsAttempt(s) => job[s][1] # t
         /\ \A e \in Engine : engineJob[e] # NoJob /\ EngineOwns(e) => engineJob[e][1] # t
<1>1. status[t] = "FAILED" \/ (status[t] = "RUNNING" /\ Ended(t))
  BY DEF Decidable, Recoverable
<1>2. ASSUME NEW s \in Session, OwnsItsAttempt(s), job[s][1] = t PROVE FALSE
  BY <1>1, <1>2, RegistryAssumption DEF OwnsItsAttempt, Ended, WorkerSession
<1>3. ASSUME NEW e \in Engine, engineJob[e] # NoJob, EngineOwns(e), engineJob[e][1] = t PROVE FALSE
  <2>1. engineJob[e] = Latest(t)
    BY <1>3 DEF EngineOwns, Latest, RecoveryInv, RecoveryTypeOK
  <2>. QED
    BY <1>1, <1>3, <2>1, TaskAssumption DEF EngineOwns, Ended, WorkerSession
<1>. QED
  BY <1>1, <1>2, <1>3

\* What both decisions share.
LEMMA ResolveOK ==
  ASSUME RecoveryInv, NEW t \in Task, Decidable(t), NEW to \in {"RETRYING", "SUCCESS", "FAILED"},
         to = "RETRYING" => t \notin blocked, Resolve(t, to),
         retries' \in [Task -> Nat], limit' \in [Task -> Nat], due' \in [Task -> BOOLEAN],
         \A u \in Task \ {t} : retries'[u] = retries[u] /\ limit'[u] = limit[u],
         IF to = "RETRYING"
         THEN retries'[t] = retries[t] + 1 /\ retries'[t] <= limit'[t] /\ limit'[t] >= limit[t]
         ELSE retries'[t] = retries[t] /\ limit'[t] = limit[t]
  PROVE  StepOK
<1>. USE DEF RecoveryInv, OwnInv
<1>1. GraphShape /\ StoreTypeOK /\ JournalTypeOK /\ attempts \in [Task -> Nat]
  BY ShapeOfTypes
<1>2. status[t] \in {"RUNNING", "FAILED"}
  BY DecidableRuns
<1>3. /\ GraphShape' /\ WorkflowInv' /\ status'[t] = to
      /\ \A u \in Task \ {t} :
           status'[u] = status[u] \/ (u \in Bound /\ status[u] = "PENDING" /\ status'[u] = "FAILED")
  BY <1>1, <1>2, DecisionKeepsWorkflows
<1>4. /\ attempts' = attempts /\ UNCHANGED <<ahead, paused, registryVars, workerVars, sideVars>>
      /\ owner' = [owner EXCEPT ![t] = NoOwner]
      /\ incident' = [incident EXCEPT ![Latest(t)] = "MANUAL"] /\ holds' = holds \ {Latest(t)}
      /\ Account({t}, [u \in {t} |-> to])
  BY DEF Resolve
<1>5. ASSUME NEW u \in Task PROVE OperatedLifecycle!Step(u) \/ OperatedLifecycle!Stays(u)
  <2>1. CASE u # t
    BY <1>3, <2>1 DEF OperatedLifecycle!Step, OperatedLifecycle!Stays, OperatedLifecycle!Refuse,
           OperatedLifecycle!Moves, OperatedLifecycle!Keeps
  <2>2. CASE u = t /\ to = "RETRYING"
    BY <1>2, <1>3, <2>2 DEF OperatedLifecycle!Step, OperatedLifecycle!Grant, OperatedLifecycle!Moves
  <2>3. CASE u = t /\ to = "SUCCESS"
    BY <1>2, <1>3, <2>3 DEF OperatedLifecycle!Step, OperatedLifecycle!Accept, OperatedLifecycle!Moves,
           OperatedLifecycle!Keeps
  <2>4. CASE u = t /\ to = "FAILED"
    BY <1>2, <1>3, <2>4 DEF OperatedLifecycle!Step, OperatedLifecycle!Stays, OperatedLifecycle!End,
           OperatedLifecycle!Moves, OperatedLifecycle!Keeps
  <2>. QED
    BY <2>1, <2>2, <2>3, <2>4
<1>6. Directs
  BY <1>2, <1>3, <1>4, <1>5 DEF Directs
<1>7. RunningKept({t})
  BY <1>1, <1>3, <1>4 DEF RunningKept, StoreTypeOK, TaskTypeOK
<1>8. unmetered' \subseteq Task \X Nat /\ overspent' \subseteq Workflow
  BY <1>1, <1>4, AccountTyping DEF StoreTypeOK
<1>9. TaskTypeOK'
  BY <1>1, <1>3, <1>4, <1>8 DEF StoreTypeOK, TaskTypeOK, GraphShape, GraphTypeOK
<1>10. JournalTypeOK' /\ HoldsMatchIncidents' /\ DecisionsStay
  BY <1>1, <1>4, DecisionKept
<1>11. /\ \A s \in Session : Live(s) /\ OwnsItsAttempt(s) => job[s][1] \notin {t}
       /\ \A e \in Engine : engineJob[e] # NoJob /\ EngineOwns(e) => engineJob[e][1] \notin {t}
  BY DecidableRuns
<1>. QED
  BY <1>3, <1>4, <1>6, <1>7, <1>9, <1>10, <1>11, DirectsOK

LEMMA ResolveStep ==
  ASSUME RecoveryInv, NEW t \in Task,
         \/ \E extra \in {0, 1} : ResolveRetry(t, extra)
         \/ \E to \in Finished : ResolveFinally(t, to)
  PROVE  StepOK
<1>1. retries \in [Task -> Nat] /\ limit \in [Task -> Nat] /\ due \in [Task -> BOOLEAN]
  BY ShapeOfTypes DEF RecoveryInv, StoreTypeOK, TaskTypeOK
<1>2. ASSUME NEW extra \in {0, 1}, ResolveRetry(t, extra) PROVE StepOK
  <2>1. /\ Decidable(t) /\ t \notin blocked /\ Resolve(t, "RETRYING")
        /\ retries[t] < limit[t] + extra
        /\ retries' = [retries EXCEPT ![t] = retries[t] + 1]
        /\ limit' = [limit EXCEPT ![t] = limit[t] + extra]
        /\ due' = [due EXCEPT ![t] = t \notin Delayed]
    BY <1>2 DEF ResolveRetry
  <2>2. retries' \in [Task -> Nat] /\ limit' \in [Task -> Nat] /\ due' \in [Task -> BOOLEAN]
    BY <1>1, <2>1
  <2>3. /\ \A u \in Task \ {t} : retries'[u] = retries[u] /\ limit'[u] = limit[u]
        /\ retries'[t] = retries[t] + 1 /\ retries'[t] <= limit'[t] /\ limit'[t] >= limit[t]
    BY <1>1, <2>1
  <2>. QED
    BY <2>1, <2>2, <2>3, ResolveOK
<1>3. ASSUME NEW to \in Finished, ResolveFinally(t, to) PROVE StepOK
  <2>1. /\ Decidable(t) /\ Resolve(t, to) /\ retries' = retries /\ limit' = limit
        /\ due' = [due EXCEPT ![t] = TRUE]
    BY <1>3 DEF ResolveFinally
  <2>2. due' \in [Task -> BOOLEAN]
    BY <1>1, <2>1
  <2>. QED
    BY <1>1, <2>1, <2>2, ResolveOK DEF Finished
<1>. QED
  BY <1>2, <1>3

----------------------------------------------------------------------------
(* Coordinators.                                                            *)

\* An execution that is known to have ended is neither a live call nor an
\* engine's.
LEMMA EndedRuns ==
  ASSUME RecoveryInv, NEW t \in Task, Ended(t)
  PROVE  /\ \A s \in Session : OwnsItsAttempt(s) => job[s][1] # t
         /\ \A e \in Engine : engineJob[e] # NoJob /\ EngineOwns(e) => engineJob[e][1] # t
<1>1. ASSUME NEW s \in Session, OwnsItsAttempt(s), job[s][1] = t PROVE FALSE
  BY <1>1, RegistryAssumption DEF OwnsItsAttempt, Ended, WorkerSession
<1>2. ASSUME NEW e \in Engine, engineJob[e] # NoJob, EngineOwns(e), engineJob[e][1] = t PROVE FALSE
  <2>1. engineJob[e] = Latest(t)
    BY <1>2 DEF EngineOwns, Latest, RecoveryInv, RecoveryTypeOK
  <2>. QED
    BY <1>2, <2>1, TaskAssumption DEF EngineOwns, Ended, WorkerSession
<1>. QED
  BY <1>1, <1>2

\* What is left to show of a coordinator's transaction that recovers S.
LEMMA RecoversOK ==
  ASSUME RecoveryInv, NEW S \in SUBSET Task, \A t \in S : status[t] = "RUNNING" /\ Ended(t),
         RecoveredRows(S), UNCHANGED <<workerVars, dagVars, sideVars>>,
         RegistryTypeOK', \A s \in Session : state[s] \notin {"NEW", "STOPPED"} => state'[s] \notin {"NEW", "STOPPED"},
         JournalTypeOK', HoldsMatchIncidents', DecisionsStay
  PROVE  StepOK
<1>1. StoreTypeOK /\ engineJob \in [Engine -> (Task \X Nat) \cup {NoJob}]
  BY ShapeOfTypes DEF RecoveryInv, RecoveryTypeOK
<1>2. Serves(S) /\ TaskTypeOK'
  BY <1>1, RecoveredServes DEF RecoveredRows
<1>3. StoreTypeOK'
  BY <1>2 DEF StoreTypeOK
<1>4. /\ \A s \in Session : OwnsItsAttempt(s) => job[s][1] \notin S
      /\ \A e \in Engine : engineJob[e] # NoJob /\ EngineOwns(e) => engineJob[e][1] \notin S
  BY EndedRuns
<1>5. \A s \in Session : OwnsItsAttempt(s) => state'[s] \notin {"NEW", "STOPPED"}
  BY DEF OwnsItsAttempt
<1>6. engineJob' = engineJob /\ legacyStopped' = legacyStopped
  BY DEF sideVars
<1>. QED
  BY <1>1, <1>2, <1>3, <1>4, <1>5, <1>6, ServesOK

\* The entries that a recovery or a scan writes.
LEMMA RecoveryEntries ==
  ASSUME JournalTypeOK, HoldsMatchIncidents, attempts' = attempts, NEW S \in SUBSET Task, NEW R, NEW new,
         new = [i \in Task \X Attempt |->
                  IF i[1] \in S /\ i = Latest(i[1]) THEN RecoveredIncident(i[1], R) ELSE incident[i]],
         incident' = new, holds' = HoldsAfter(new), UNCHANGED paused
  PROVE  JournalTypeOK' /\ HoldsMatchIncidents' /\ DecisionsStay
<1>1. \A i \in Task \X Attempt : new[i] = incident[i] \/ (i = Latest(i[1]) /\ EntryOK(i, new[i]))
  <2>. SUFFICES ASSUME NEW i \in Task \X Attempt, i[1] \in S, i = Latest(i[1])
                PROVE  EntryOK(i, RecoveredIncident(i[1], R))
    OBVIOUS
  <2>. QED
    BY EntriesOK
<1>2. DOMAIN new = Task \X Attempt /\ new = [i \in Task \X Attempt |-> new[i]]
  OBVIOUS
<1>. QED
  BY <1>1, <1>2, JournalKept

LEMMA ScanEntries ==
  ASSUME JournalTypeOK, HoldsMatchIncidents, attempts' = attempts, NEW R, NEW new,
         new = [i \in Task \X Attempt |->
                  IF i[1] \in Task /\ i = Latest(i[1]) THEN ScannedIncident(i[1], R) ELSE incident[i]],
         incident' = new, holds' = HoldsAfter(new), UNCHANGED paused
  PROVE  JournalTypeOK' /\ HoldsMatchIncidents' /\ DecisionsStay
<1>1. \A i \in Task \X Attempt : new[i] = incident[i] \/ (i = Latest(i[1]) /\ EntryOK(i, new[i]))
  <2>. SUFFICES ASSUME NEW i \in Task \X Attempt, i[1] \in Task, i = Latest(i[1])
                PROVE  EntryOK(i, ScannedIncident(i[1], R))
    OBVIOUS
  <2>. QED
    BY EntriesOK
<1>2. DOMAIN new = Task \X Attempt /\ new = [i \in Task \X Attempt |-> new[i]]
  OBVIOUS
<1>. QED
  BY <1>1, <1>2, JournalKept

LEMMA ScanStep ==
  ASSUME RecoveryInv, NEW R \in Registries, Scan(R) \/ RecoverStopped(R)
  PROVE  StepOK
<1>. USE DEF RecoveryInv
<1>1. RegistryTypeOK /\ JournalTypeOK /\ R \subseteq Task
  BY ShapeOfTypes, RecoveryAssumption DEF StoreTypeOK
<1>2. CASE Scan(R)
  <2>. DEFINE S == {t \in R : Recoverable(t)}
              new == [i \in Task \X Attempt |->
                        IF i[1] \in Task /\ i = Latest(i[1]) THEN ScannedIncident(i[1], R) ELSE incident[i]]
  <2>1. /\ ScanSessions /\ RecoveredRows(S) /\ UNCHANGED <<workerVars, dagVars, sideVars>>
        /\ incident' = new /\ holds' = HoldsAfter(new) /\ UNCHANGED paused
    BY <1>2 DEF Scan, Journal
  <2>2. RegistryTypeOK'
    BY <1>1, <2>1, RegistryTypingStep DEF RegistryNext
  <2>3. \A s \in Session : state[s] \notin {"NEW", "STOPPED"} => state'[s] \notin {"NEW", "STOPPED"}
    BY <2>1 DEF ScanSessions, ScannedState
  <2>4. S \in SUBSET Task /\ \A t \in S : status[t] = "RUNNING" /\ Ended(t)
    BY <1>1 DEF Recoverable
  <2>. HIDE DEF S
  <2>5. attempts' = attempts
    BY <2>1 DEF RecoveredRows, Release
  <2>6. JournalTypeOK' /\ HoldsMatchIncidents' /\ DecisionsStay
    BY <1>1, <2>1, <2>5, ScanEntries
  <2>. HIDE DEF new
  <2>. QED
    BY <2>1, <2>2, <2>3, <2>4, <2>6, RecoversOK
<1>3. CASE RecoverStopped(R)
  <2>. DEFINE S == {t \in R : OfStopped(t)}
              Q == {t \in Task : OfStopped(t)}
              new == [i \in Task \X Attempt |->
                        IF i[1] \in Q /\ i = Latest(i[1]) THEN RecoveredIncident(i[1], R) ELSE incident[i]]
  <2>1. /\ RecoveredRows(S) /\ UNCHANGED <<registryVars, workerVars, dagVars, sideVars>>
        /\ incident' = new /\ holds' = HoldsAfter(new) /\ UNCHANGED paused
    BY <1>3 DEF RecoverStopped, Journal
  <2>2. RegistryTypeOK' /\ state' = state
    BY <1>1, <2>1 DEF RegistryTypeOK, registryVars
  <2>3. S \in SUBSET Task /\ Q \in SUBSET Task /\ \A t \in S : status[t] = "RUNNING" /\ Ended(t)
    BY <1>1 DEF OfStopped, Recoverable
  <2>. HIDE DEF S, Q
  <2>4. attempts' = attempts
    BY <2>1 DEF RecoveredRows, Release
  <2>5. JournalTypeOK' /\ HoldsMatchIncidents' /\ DecisionsStay
    BY <1>1, <2>1, <2>3, <2>4, RecoveryEntries
  <2>. QED
    BY <2>1, <2>2, <2>3, <2>5, RecoversOK
<1>. QED
  BY <1>2, <1>3

\* Sessions whose process is gone are declared stopped.
LEMMA ConfirmSessionsStep ==
  ASSUME RecoveryInv, NEW S \in SUBSET Session, ConfirmSessions(S)
  PROVE  StepOK
<1>. USE DEF RecoveryInv
<1>1. StoreTypeOK /\ JournalTypeOK /\ engineJob \in [Engine -> (Task \X Nat) \cup {NoJob}]
  BY ShapeOfTypes DEF RecoveryTypeOK
<1>2. UNCHANGED <<current, stopRequested, age, taskVars, usageVars, journalVars, workerVars, dagVars, sideVars>>
  BY DEF ConfirmSessions
<1>3. /\ state' = [s \in Session |-> IF s \in S THEN "STOPPED" ELSE state[s]]
      /\ active' = [w \in Worker |-> active[w] /\ current[w] \notin S]
      /\ \A s \in S : pc[s] \in Gone
  BY DEF ConfirmSessions, ExitEvidence
<1>4. StoreTypeOK'
  BY <1>1, <1>2, <1>3
  DEF StoreTypeOK, RegistryTypeOK, SessionState, TaskTypeOK, JournalTypeOK, taskVars, usageVars, journalVars
<1>5. Serves({}) /\ attempts' = attempts
  BY <1>2, IdleServes DEF taskVars
<1>6. HoldsMatchIncidents' /\ DecisionsStay
  BY <1>1, <1>2, <1>5, JournalIdle
<1>7. \A s \in Session : Live(s) /\ OwnsItsAttempt(s) => state'[s] \notin {"NEW", "STOPPED"}
  BY <1>3 DEF Live, Gone, OwnsItsAttempt
<1>8. engineJob' = engineJob /\ legacyStopped' = legacyStopped
  BY <1>2 DEF sideVars
<1>. QED
  BY <1>1, <1>2, <1>4, <1>5, <1>6, <1>7, <1>8, ServesOK

\* The exit of an execution without session is confirmed.
LEMMA ConfirmTaskStep ==
  ASSUME RecoveryInv, NEW t \in Task, NEW R \in Registries, ConfirmTaskStopped(t, R)
  PROVE  StepOK
<1>. USE DEF RecoveryInv, OwnInv
<1>. DEFINE S == {t} \cap R
            new == [i \in Task \X Attempt |->
                      IF i[1] \in {t} /\ i = Latest(i[1]) THEN RecoveredIncident(i[1], R) ELSE incident[i]]
<1>1. /\ StoreTypeOK /\ JournalTypeOK /\ engineJob \in [Engine -> (Task \X Nat) \cup {NoJob}]
      /\ TypeOK /\ WorkflowTypeOK /\ legacyStopped \subseteq Task \X Nat /\ attempts \in [Task -> Nat]
  BY ShapeOfTypes DEF RecoveryTypeOK
<1>2. /\ status[t] = "RUNNING" /\ WorkerSession(t) = NoSession
      /\ \A e \in Engine : engineJob[e] # Latest(t)
      /\ legacyStopped' = legacyStopped \cup {Latest(t)}
      /\ RecoveredRows(S) /\ UNCHANGED <<registryVars, workerVars, dagVars, engineJob>>
      /\ incident' = new /\ holds' = HoldsAfter(new) /\ UNCHANGED paused
  BY DEF ConfirmTaskStopped, Journal
<1>3. S \in SUBSET Task /\ S \subseteq {t} /\ \A u \in S : status[u] = "RUNNING"
  BY <1>2
<1>. HIDE DEF S
<1>4. Serves(S) /\ TaskTypeOK'
  BY <1>1, <1>2, <1>3, RecoveredServes DEF RecoveredRows
<1>5. Serves({t})
  BY <1>3, <1>4, ServesMore
<1>6. attempts' = attempts
  BY <1>2 DEF RecoveredRows, Release
<1>7. JournalTypeOK' /\ HoldsMatchIncidents' /\ DecisionsStay
  BY <1>1, <1>2, <1>6, RecoveryEntries
<1>8. StoreTypeOK' /\ state' = state
  BY <1>1, <1>2, <1>4, <1>7 DEF StoreTypeOK, RegistryTypeOK, registryVars
<1>9. RecoveryTypeOK'
  <2>1. Latest(t) \in Task \X Nat
    BY <1>1 DEF Latest
  <2>. QED
    BY <1>1, <1>2, <1>8, <2>1 DEF RecoveryTypeOK, TypeOK, WorkerTypeOK, WorkflowTypeOK, workerVars, dagVars
<1>10. WorkflowInv'
  BY <1>2, <1>5, ShapeOfTypes, ServesKeepsWorkflows
<1>11. RunningKept({t})
  BY <1>1, <1>5, ServesKept
<1>12. CallOwnsItsAttempt'
  <2>1. \A s \in Session : OwnsItsAttempt(s) => job[s][1] \notin {t} /\ state'[s] \notin {"NEW", "STOPPED"}
    BY <1>2, <1>8, RegistryAssumption DEF OwnsItsAttempt, WorkerSession
  <2>. QED
    BY <1>1, <1>2, <1>11, <2>1, CallsKept
<1>13. ASSUME NEW e \in Engine PROVE EngineOwns(e)'
  <2>. SUFFICES ASSUME engineJob[e] # NoJob PROVE EngineOwns(e)'
    BY <1>2 DEF EngineOwns
  <2>1. EngineOwns(e) /\ engineJob[e] \in Task \X Nat
    BY <1>1 DEF EnginesOwn
  <2>2. engineJob[e][1] # t
    BY <1>2, <2>1 DEF EngineOwns, Latest
  <2>3. engineJob[e] # Latest(t)
    BY <1>2
  <2>. QED
    BY <1>2, <1>11, <2>1, <2>2, <2>3 DEF EngineOwns, RunningKept
<1>14. StopsAreOld'
  BY <1>1, <1>2, <1>6 DEF StopsAreOld, Latest
<1>. QED
  BY <1>5, <1>7, <1>9, <1>10, <1>12, <1>13, <1>14 DEF StepOK, EnginesOwn

----------------------------------------------------------------------------
(* Every step of the system.                                                *)

LEMMA RecoveryStep ==
  ASSUME RecoveryInv, RecoveryNext
  PROVE  StepOK
<1>1. CASE Alone(Next)
  BY <1>1, AloneStep
<1>2. ASSUME NEW e \in Engine, EngineStep(e) PROVE StepOK
  BY <1>2, EngineRunsStep, EngineEndsStep DEF EngineStep
<1>3. CASE OfflineRecovery
  BY <1>3, OfflineStep
<1>4. ASSUME NEW f \in Workflow, WorkflowStep(f) PROVE StepOK
  BY <1>4, WorkflowStepOK
<1>5. CASE CoordinatorStep
  BY <1>5, ScanStep, ConfirmSessionsStep, ConfirmTaskStep DEF CoordinatorStep
<1>6. CASE OperatorStep
  BY <1>6, ResolveStep, PauseStep DEF OperatorStep
<1>. QED
  BY <1>1, <1>2, <1>3, <1>4, <1>5, <1>6 DEF RecoveryNext

LEMMA RecoveryInitOK == RecoveryInit => RecoveryInv
<1>. SUFFICES ASSUME RecoveryInit PROVE RecoveryInv
  OBVIOUS
<1>1. Init /\ WorkflowInit /\ engineJob = [e \in Engine |-> NoJob] /\ legacyStopped = {}
  BY DEF RecoveryInit
<1>2. RecoveryTypeOK
  BY <1>1, InitTyping DEF RecoveryTypeOK, WorkflowInit, WorkflowTypeOK, NodeState, RunState
<1>3. /\ status = [t \in Task |-> "ABSENT"] /\ attempts = [t \in Task |-> 0] /\ blocked = {}
      /\ incident = [i \in Task \X Attempt |-> "NONE"] /\ holds = {}
      /\ \A s \in Session : ~Live(s)
  BY <1>1 DEF Init, StoreInit, Live
<1>4. GraphOK(status, node, blocked)
  BY <1>1, <1>3 DEF WorkflowInit, GraphOK, NodeOK, Finished
<1>5. \A f \in Workflow : RunOK(f) /\ VerdictRight(f)
  BY <1>1 DEF WorkflowInit, RunOK, VerdictRight, NodesOf
<1>6. HoldsMatchIncidents
  BY <1>3 DEF HoldsMatchIncidents, OpenKind
<1>7. OwnInv
  BY <1>1, <1>3 DEF OwnInv, CallOwnsItsAttempt, EnginesOwn, EngineOwns, StopsAreOld
<1>. QED
  BY <1>2, <1>4, <1>5, <1>6, <1>7 DEF RecoveryInv, WorkflowInv

\* A step that changes nothing is a step that serves nobody.
LEMMA RecoveryStutter ==
  ASSUME RecoveryInv, UNCHANGED recoveryVars
  PROVE  StepOK
<1>1. UNCHANGED <<registryVars, taskVars, usageVars, journalVars, workerVars, dagVars, sideVars>>
  BY DEF recoveryVars, vars, storeVars
<1>2. StoreTypeOK /\ JournalTypeOK /\ engineJob \in [Engine -> (Task \X Nat) \cup {NoJob}]
  BY ShapeOfTypes DEF RecoveryInv, RecoveryTypeOK
<1>3. Serves({}) /\ attempts' = attempts
  BY <1>1, IdleServes DEF taskVars
<1>4. StoreTypeOK'
  BY <1>1, <1>2 DEF StoreTypeOK, RegistryTypeOK, TaskTypeOK, JournalTypeOK, registryVars, taskVars,
                    usageVars, journalVars
<1>5. HoldsMatchIncidents' /\ DecisionsStay
  BY <1>1, <1>2, <1>3, JournalIdle DEF RecoveryInv
<1>6. \A s \in Session : OwnsItsAttempt(s) => state'[s] \notin {"NEW", "STOPPED"}
  BY <1>1 DEF OwnsItsAttempt, registryVars
<1>7. engineJob' = engineJob /\ legacyStopped' = legacyStopped
  BY <1>1 DEF sideVars
<1>. QED
  BY <1>1, <1>2, <1>3, <1>4, <1>5, <1>6, <1>7, ServesOK

LEMMA RecoverySteps == RecoveryInv /\ [RecoveryNext]_recoveryVars => StepOK
BY RecoveryStep, RecoveryStutter

LEMMA RecoveryInvariance == RecoverySpec => []RecoveryInv
<1>1. RecoveryInv /\ [RecoveryNext]_recoveryVars => RecoveryInv'
  BY RecoverySteps DEF StepOK
<1>. QED
  BY <1>1, RecoveryInitOK, PTL DEF RecoverySpec

----------------------------------------------------------------------------
(* Calls of language models.                                                *)

\* Calls counts these.
CallsOf(f) == UNION {{t} \X (1..attempts[t]) : t \in Llm \cap NodesOf(f)}

CallsInv ==
  \A f \in DOMAIN MaxCalls : IsFiniteSet(CallsOf(f)) /\ Cardinality(CallsOf(f)) <= MaxCalls[f]

\* Nothing of a workflow starts: it makes no call.
LEMMA NoNewCalls ==
  ASSUME NEW f, \A t \in Llm \cap NodesOf(f) : attempts'[t] = attempts[t]
  PROVE  CallsOf(f)' = CallsOf(f)
<1>1. {{t} \X (1..attempts'[t]) : t \in Llm \cap NodesOf(f)} = {{t} \X (1..attempts[t]) : t \in Llm \cap NodesOf(f)}
  OBVIOUS
<1>. QED
  BY <1>1 DEF CallsOf

\* A claim makes one.
LEMMA OneNewCall ==
  ASSUME attempts \in [Task -> Nat], attempts' \in [Task -> Nat], NEW f, NEW t \in Llm \cap NodesOf(f),
         attempts'[t] = attempts[t] + 1,
         \A u \in (Llm \cap NodesOf(f)) \ {t} : attempts'[u] = attempts[u]
  PROVE  CallsOf(f)' = CallsOf(f) \cup {<<t, attempts[t] + 1>>}
<1>1. attempts[t] \in Nat
  BY DEF NodesOf
<1>2. ASSUME NEW i PROVE i \in CallsOf(f)' <=> i \in CallsOf(f) \/ i = <<t, attempts[t] + 1>>
  <2>1. i \in CallsOf(f)' <=> \E u \in Llm \cap NodesOf(f) : i \in {u} \X (1..attempts'[u])
    BY DEF CallsOf
  <2>2. i \in CallsOf(f) <=> \E u \in Llm \cap NodesOf(f) : i \in {u} \X (1..attempts[u])
    BY DEF CallsOf
  <2>3. \A u \in (Llm \cap NodesOf(f)) \ {t} : {u} \X (1..attempts'[u]) = {u} \X (1..attempts[u])
    OBVIOUS
  <2>4. i \in {t} \X (1..attempts'[t]) <=> i \in {t} \X (1..attempts[t]) \/ i = <<t, attempts[t] + 1>>
    BY <1>1
  <2>. QED
    BY <2>1, <2>2, <2>3, <2>4
<1>. QED
  BY <1>2

\* Who claims at all is the only one, and was admitted.
LEMMA OnlyClaim ==
  ASSUME attempts \in [Task -> Nat], NEW L, Serves(L), NEW t \in Task, attempts'[t] # attempts[t]
  PROVE  /\ Claimed(t) /\ attempts'[t] = attempts[t] + 1
         /\ \A u \in Task \ {t} : attempts'[u] = attempts[u]
<1>1. \A u \in Task : attempts'[u] # attempts[u] => Claimed(u)
  BY DEF Serves, RowServed, Unmoved, Entered, Refused, Left, SameCounters
<1>. QED
  BY <1>1 DEF Serves, Claimed

LEMMA CallsServed ==
  ASSUME attempts \in [Task -> Nat], attempts' \in [Task -> Nat], CallsInv, NEW L, Serves(L)
  PROVE  CallsInv'
<1>. SUFFICES ASSUME NEW f \in DOMAIN MaxCalls
     PROVE  IsFiniteSet(CallsOf(f)') /\ Cardinality(CallsOf(f)') <= MaxCalls[f]
  BY DEF CallsInv
<1>1. IsFiniteSet(CallsOf(f)) /\ Cardinality(CallsOf(f)) <= MaxCalls[f] /\ MaxCalls[f] \in Nat
  BY TaskAssumption DEF CallsInv
<1>2. CASE \A t \in Llm \cap NodesOf(f) : attempts'[t] = attempts[t]
  BY <1>1, <1>2, NoNewCalls
<1>3. ASSUME NEW t \in Llm \cap NodesOf(f), attempts'[t] # attempts[t]
      PROVE  IsFiniteSet(CallsOf(f)') /\ Cardinality(CallsOf(f)') <= MaxCalls[f]
  <2>1. t \in Task /\ WorkflowOf[t] = f
    BY DEF NodesOf
  <2>2. /\ Claimed(t) /\ attempts'[t] = attempts[t] + 1
        /\ \A u \in Task \ {t} : attempts'[u] = attempts[u]
    BY <1>3, <2>1, OnlyClaim
  <2>3. CallsOf(f)' = CallsOf(f) \cup {<<t, attempts[t] + 1>>}
    BY <2>2, OneNewCall DEF NodesOf
  <2>4. ~(Calls(f) >= MaxCalls[f]) /\ Calls(f) = Cardinality(CallsOf(f))
    <3>1. ~OverBudget(f)
      BY <2>1, <2>2 DEF Claimed, Admitted, OutOfBudget
    <3>2. ~(Calls(f) >= MaxCalls[f])
      BY Zenon, <3>1 DEF OverBudget
    <3>3. Calls(f) = Cardinality(CallsOf(f))
      BY Zenon DEF Calls, CallsOf
    <3>. QED
      BY <3>2, <3>3
  <2>5. /\ IsFiniteSet(CallsOf(f)')
        /\ \/ Cardinality(CallsOf(f)') = Cardinality(CallsOf(f))
           \/ Cardinality(CallsOf(f)') = Cardinality(CallsOf(f)) + 1
    <3>. DEFINE i == <<t, attempts[t] + 1>>
    <3>1. /\ IsFiniteSet(CallsOf(f) \cup {i})
          /\ Cardinality(CallsOf(f) \cup {i}) =
               IF i \in CallsOf(f) THEN Cardinality(CallsOf(f)) ELSE Cardinality(CallsOf(f)) + 1
      BY Zenon, <1>1, FS_AddElement
    <3>. HIDE DEF i
    <3>. QED
      BY Zenon, <2>3, <3>1 DEF i
  <2>6. Cardinality(CallsOf(f)) \in Nat
    BY Zenon, <1>1, FS_CardinalityType
  <2>. QED
    BY <1>1, <2>4, <2>5, <2>6
<1>. QED
  BY <1>2, <1>3

\* A row that comes to run was claimed.
LEMMA StartsAreClaims ==
  ASSUME NEW L, Serves(L), NEW t \in Task, status'[t] = "RUNNING"
  PROVE  status[t] = "RUNNING" \/ Claimed(t)
BY DEF Serves, RowServed, Unmoved, Entered, Refused, Left, Finished

LEMMA FlightServed ==
  ASSUME OneCallInFlight, NEW L, Serves(L)
  PROVE  OneCallInFlight'
<1>. SUFFICES ASSUME NEW t \in Llm, NEW u \in Llm,
                     WorkflowOf[t] = WorkflowOf[u], WorkflowOf[t] \in TokenCapped,
                     status'[t] = "RUNNING", status'[u] = "RUNNING"
              PROVE  t = u
  BY DEF OneCallInFlight
<1>1. t \in Task /\ u \in Task /\ t \in NodesOf(WorkflowOf[u]) /\ u \in NodesOf(WorkflowOf[t])
  BY TaskAssumption DEF NodesOf
<1>2. (status[t] = "RUNNING" \/ Claimed(t)) /\ (status[u] = "RUNNING" \/ Claimed(u))
  BY <1>1, StartsAreClaims
<1>3. Claimed(t) /\ Claimed(u) => t = u
  BY <1>1 DEF Serves
<1>4. ~(Claimed(t) /\ status[u] = "RUNNING")
  BY <1>1 DEF Claimed, Admitted, AwaitsUsage
<1>5. ~(Claimed(u) /\ status[t] = "RUNNING")
  BY <1>1 DEF Claimed, Admitted, AwaitsUsage
<1>6. status[t] = "RUNNING" /\ status[u] = "RUNNING" => t = u
  BY DEF OneCallInFlight
<1>. QED
  BY <1>2, <1>3, <1>4, <1>5, <1>6

BudgetInv == CallsInv /\ OneCallInFlight

LEMMA BudgetStep == RecoveryInv /\ BudgetInv /\ [RecoveryNext]_recoveryVars => BudgetInv'
<1>. SUFFICES ASSUME RecoveryInv, BudgetInv, [RecoveryNext]_recoveryVars PROVE BudgetInv'
  OBVIOUS
<1>1. StepOK /\ attempts \in [Task -> Nat]
  BY RecoverySteps, ShapeOfTypes DEF RecoveryInv
<1>2. ASSUME NEW L, Serves(L) PROVE BudgetInv'
  <2>1. attempts' \in [Task -> Nat]
    BY <1>1 DEF StepOK, RecoveryInv, RecoveryTypeOK, TypeOK, StoreTypeOK, TaskTypeOK
  <2>. QED
    BY <1>1, <1>2, <2>1, CallsServed, FlightServed DEF BudgetInv
<1>3. CASE Directs
  <2>1. CallsInv'
    BY <1>3 DEF Directs, BudgetInv, CallsInv, CallsOf
  <2>2. \A t \in Llm : status'[t] = "RUNNING" => status[t] = "RUNNING"
    BY <1>3, TaskAssumption DEF Directs
  <2>. QED
    BY <2>1, <2>2 DEF BudgetInv, OneCallInFlight
<1>. QED
  BY <1>1, <1>2, <1>3 DEF StepOK

LEMMA BudgetInitOK == RecoveryInit => BudgetInv
<1>. SUFFICES ASSUME RecoveryInit PROVE BudgetInv
  OBVIOUS
<1>1. attempts = [t \in Task |-> 0] /\ status = [t \in Task |-> "ABSENT"]
  BY DEF RecoveryInit, Init, StoreInit
<1>2. ASSUME NEW f \in DOMAIN MaxCalls PROVE CallsOf(f) = {}
  <2>1. \A t \in Llm \cap NodesOf(f) : {t} \X (1..attempts[t]) = {}
    BY <1>1 DEF NodesOf
  <2>. QED
    BY <2>1 DEF CallsOf
<1>3. CallsInv
  <2>1. ASSUME NEW f \in DOMAIN MaxCalls
        PROVE  IsFiniteSet(CallsOf(f)) /\ Cardinality(CallsOf(f)) <= MaxCalls[f]
    <3>1. MaxCalls[f] \in Nat /\ CallsOf(f) = {}
      BY <1>2, TaskAssumption
    <3>2. IsFiniteSet(CallsOf(f)) /\ Cardinality(CallsOf(f)) = 0
      BY Zenon, <3>1, FS_EmptySet
    <3>. QED
      BY <3>1, <3>2
  <2>. QED
    BY <2>1 DEF CallsInv
<1>. QED
  BY <1>1, <1>3, TaskAssumption DEF BudgetInv, OneCallInFlight

LEMMA BudgetInvariance == RecoverySpec => []BudgetInv
<1>1. RecoverySpec => []RecoveryInv
  BY RecoveryInvariance
<1>2. RecoveryInit => BudgetInv
  BY BudgetInitOK
<1>3. RecoveryInv /\ BudgetInv /\ [RecoveryNext]_recoveryVars => BudgetInv'
  BY BudgetStep
<1>. QED
  BY <1>1, <1>2, <1>3, PTL DEF RecoverySpec

----------------------------------------------------------------------------
(* Executions and what granted them.                                        *)

\* Every execution but the first was granted by exactly one retry, whoever
\* granted it, and none beyond the budget.  (A node may fail before it was
\* ever executed, when its input or its budget is missing.)
AttemptsAccounted ==
  \A t \in Task :
    LET granted == retries[t] + (IF status[t] \in {"ABSENT"} \cup Waiting THEN 0 ELSE 1) IN
      /\ IF t \in Llm \cup Bound THEN attempts[t] <= granted ELSE attempts[t] = granted
      /\ retries[t] <= limit[t]

LEMMA AccountsServed ==
  ASSUME StoreTypeOK, AttemptsAccounted, NEW L, Serves(L)
  PROVE  AttemptsAccounted'
<1>. SUFFICES ASSUME NEW t \in Task
     PROVE  LET granted == retries'[t] + (IF status'[t] \in {"ABSENT"} \cup Waiting THEN 0 ELSE 1) IN
              /\ IF t \in Llm \cup Bound THEN attempts'[t] <= granted ELSE attempts'[t] = granted
              /\ retries'[t] <= limit'[t]
  BY DEF AttemptsAccounted
<1>1. attempts[t] \in Nat /\ retries[t] \in Nat /\ limit[t] \in Nat /\ limit'[t] = limit[t] /\ RowServed(t, L)
  BY DEF StoreTypeOK, TaskTypeOK, Serves
<1>. USE DEF AttemptsAccounted, Waiting, SameCounters
<1>2. CASE Unmoved(t) \/ Entered(t)
  BY <1>1, <1>2 DEF Unmoved, Entered
<1>3. CASE Claimed(t) \/ Refused(t)
  BY <1>1, <1>3 DEF Claimed, Refused, Dispatchable
<1>4. CASE Left(t, L)
  BY <1>1, <1>4 DEF Left, Finished
<1>. QED
  BY <1>1, <1>2, <1>3, <1>4 DEF RowServed

LEMMA AccountsDirected ==
  ASSUME StoreTypeOK, TaskTypeOK', AttemptsAccounted, Directs
  PROVE  AttemptsAccounted'
<1>. SUFFICES ASSUME NEW t \in Task
     PROVE  LET granted == retries'[t] + (IF status'[t] \in {"ABSENT"} \cup Waiting THEN 0 ELSE 1) IN
              /\ IF t \in Llm \cup Bound THEN attempts'[t] <= granted ELSE attempts'[t] = granted
              /\ retries'[t] <= limit'[t]
  BY DEF AttemptsAccounted
<1>1. /\ attempts[t] \in Nat /\ retries[t] \in Nat /\ limit[t] \in Nat
      /\ limit'[t] \in Nat /\ attempts'[t] = attempts[t]
      /\ status'[t] = "RUNNING" => status[t] = "RUNNING"
      /\ status'[t] = "FAILED" => t \in Bound \/ status[t] \in {"RUNNING", "FAILED"}
      /\ OperatedLifecycle!Step(t) \/ OperatedLifecycle!Stays(t)
  BY DEF StoreTypeOK, TaskTypeOK, Directs
<1>. USE DEF AttemptsAccounted, Waiting, OperatedLifecycle!Moves, OperatedLifecycle!Keeps
<1>2. CASE OperatedLifecycle!Stays(t)
  BY <1>1, <1>2 DEF OperatedLifecycle!Stays
<1>3. CASE OperatedLifecycle!Submit(t) \/ OperatedLifecycle!Start(t) \/ OperatedLifecycle!Refuse(t)
  BY <1>1, <1>3 DEF OperatedLifecycle!Submit, OperatedLifecycle!Start, OperatedLifecycle!Refuse
<1>4. CASE OperatedLifecycle!End(t) \/ OperatedLifecycle!Accept(t)
  BY <1>1, <1>4 DEF OperatedLifecycle!End, OperatedLifecycle!Accept
<1>5. CASE OperatedLifecycle!Retry(t) \/ OperatedLifecycle!Grant(t)
  BY <1>1, <1>5 DEF OperatedLifecycle!Retry, OperatedLifecycle!Grant
<1>. QED
  BY <1>1, <1>2, <1>3, <1>4, <1>5 DEF OperatedLifecycle!Step

----------------------------------------------------------------------------
(* What the system promises.                                                *)

\* Every variable of the whole durable engine stays in its type, whoever
\* takes the next transaction (recovery.py, workflow_store.py, persistence.py,
\* reliable_worker.py).
THEOREM RecoveryTyping == RecoverySpec => []RecoveryTypeOK
<1>1. RecoveryInv => RecoveryTypeOK
  BY DEF RecoveryInv
<1>. QED
  BY <1>1, RecoveryInvariance, PTL

\* The holds that pause tasks and workflows are exactly those of the open
\* incidents, and those are about the latest attempts (_incident, _close,
\* retry_scheduled, resolve_task).
THEOREM HoldsAlwaysMatch == RecoverySpec => []HoldsMatchIncidents
<1>1. RecoveryInv => HoldsMatchIncidents
  BY DEF RecoveryInv
<1>. QED
  BY <1>1, RecoveryInvariance, PTL

\* Invocations of one task never overlap, whether workers or engines run
\* them, and whichever coordinator, verifier or operator declared an earlier
\* one stopped: who invokes a task owns its row.
THEOREM InvocationsNeverOverlap == RecoverySpec => []NoOverlapAnywhere
<1>1. RecoveryInv => NoOverlapAnywhere
  <2>. SUFFICES ASSUME RecoveryInv, NEW t \in Task, NEW c \in Invocations(t) PROVE owner[t] = c
    BY DEF NoOverlapAnywhere
  <2>1. CASE c \in Session /\ pc[c] = "call" /\ job[c][1] = t
    BY <2>1 DEF RecoveryInv, OwnInv, CallOwnsItsAttempt, OwnsItsAttempt, Live
  <2>2. CASE c \in Engine /\ engineJob[c] # NoJob /\ engineJob[c][1] = t
    BY <2>2 DEF RecoveryInv, OwnInv, EnginesOwn, EngineOwns
  <2>. QED
    BY <2>1, <2>2 DEF Invocations
<1>. QED
  BY <1>1, RecoveryInvariance, PTL

\* No node is executed before all its dependencies have succeeded, for every
\* acyclic graph and however often operators retry, accept or give up nodes
\* (_advance, _reset_workflow).
THEOREM DependenciesAlwaysFirst == RecoverySpec => []DependenciesFirst
<1>1. RecoveryInv => DependenciesFirst
  <2>. SUFFICES ASSUME RecoveryInv, NEW t \in Task, attempts[t] > 0, NEW d \in DependsOn[t]
                PROVE  status[d] = "SUCCESS"
    BY DEF DependenciesFirst
  <2>1. WorkflowOf[t] # NoWorkflow
    BY WorkflowAssumption
  <2>. QED
    BY <2>1 DEF RecoveryInv, WorkflowInv, GraphOK, NodeOK
<1>. QED
  BY <1>1, RecoveryInvariance, PTL

\* The three tables of a workflow never contradict each other, and a run's
\* verdict is right, whoever reconciled, resolved or reset last.
THEOREM TablesAlwaysAgree == RecoverySpec => []RunsAgreeWithTasks
<1>1. RecoveryInv => RunsAgreeWithTasks
  <2>. SUFFICES ASSUME RecoveryInv PROVE RunsAgreeWithTasks
    OBVIOUS
  <2>1. NodesAgreeWithTasks
    <3>. SUFFICES ASSUME NEW t \in Task
         PROVE  /\ node[t] \in {"FAILED", "SUCCESS"} => status[t] = node[t]
                /\ node[t] \in {"WAITING", "SKIPPED"} =>
                     t \in blocked /\ status[t] = "PENDING" /\ attempts[t] = 0
      BY DEF NodesAgreeWithTasks
    <3>1. node[t] = "NONE" \/ NodeOK(t, status, node, blocked)
      BY DEF RecoveryInv, WorkflowInv, GraphOK
    <3>. QED
      BY <3>1 DEF NodeOK, Finished
  <2>2. VerdictsAreRight
    BY DEF RecoveryInv, WorkflowInv, VerdictRight, VerdictsAreRight
  <2>. QED
    BY <2>1, <2>2 DEF RunsAgreeWithTasks
<1>. QED
  BY <1>1, RecoveryInvariance, PTL

\* The call cap holds over all generation nodes of a workflow together, for
\* any number of processes that claim and of retries that operators grant.
THEOREM CallCapHolds == RecoverySpec => []CallsStayWithinCap
<1>1. BudgetInv => CallsStayWithinCap
  BY Zenon DEF BudgetInv, CallsInv, CallsOf, CallsStayWithinCap, Calls
<1>. QED
  BY <1>1, BudgetInvariance, PTL

\* Under a token cap one generation of a workflow is in flight at a time.
THEOREM OneCallAtATime == RecoverySpec => []OneCallInFlight
<1>1. BudgetInv => OneCallInFlight
  BY DEF BudgetInv
<1>. QED
  BY <1>1, BudgetInvariance, PTL

\* Every execution but the first was granted by exactly one retry, of the
\* policy, of a recovery or of an operator, and none beyond the budget that
\* the operators left (finish, _recover_rows, resolve_task).
THEOREM AttemptsAlwaysAccounted == RecoverySpec => []AttemptsAccounted
<1>1. RecoveryInit => AttemptsAccounted
  BY TaskAssumption DEF RecoveryInit, Init, StoreInit, AttemptsAccounted
<1>2. RecoveryInv /\ AttemptsAccounted /\ [RecoveryNext]_recoveryVars => AttemptsAccounted'
  <2>. SUFFICES ASSUME RecoveryInv, AttemptsAccounted, [RecoveryNext]_recoveryVars PROVE AttemptsAccounted'
    OBVIOUS
  <2>1. StepOK /\ StoreTypeOK
    BY RecoverySteps, ShapeOfTypes DEF RecoveryInv
  <2>2. TaskTypeOK'
    BY <2>1 DEF StepOK, RecoveryInv, RecoveryTypeOK, TypeOK, StoreTypeOK
  <2>. QED
    BY <2>1, <2>2, AccountsServed, AccountsDirected DEF StepOK
<1>. QED
  BY <1>1, <1>2, RecoveryInvariance, PTL DEF RecoverySpec

\* What an operator decided stays decided, whatever scan follows.
THEOREM DecisionsAlwaysStand == RecoverySpec => DecisionsStand
<1>1. RecoveryInv /\ [RecoveryNext]_recoveryVars =>
        [\A i \in DOMAIN incident : incident[i] = "MANUAL" => incident'[i] = "MANUAL"]_recoveryVars
  BY RecoverySteps DEF StepOK, DecisionsStay
<1>. QED
  BY <1>1, RecoveryInvariance, PTL DEF RecoverySpec, DecisionsStand

\* While an incident is open, neither its task nor any task of its workflow
\* starts, in whatever process the claim is made (CLAIM_GUARD).
THEOREM IncidentsPauseClaims == RecoverySpec => OpenIncidentsPauseClaims
<1>. DEFINE P == \A t \in Task : status[t] # "RUNNING" /\ status'[t] = "RUNNING" =>
                   \A i \in DOMAIN incident : incident[i] \in OpenKind => ~HeldBy(t, i)
<1>1. ASSUME RecoveryInv, [RecoveryNext]_recoveryVars PROVE P
  <2>. SUFFICES ASSUME NEW t \in Task, status[t] # "RUNNING", status'[t] = "RUNNING",
                       NEW i \in DOMAIN incident, incident[i] \in OpenKind
                PROVE  ~HeldBy(t, i)
    OBVIOUS
  <2>1. PICK L : Serves(L)
    BY <1>1, RecoverySteps DEF StepOK, Directs
  <2>2. ClaimGuard(t)
    BY <2>1, StartsAreClaims DEF Claimed, Dispatchable
  <2>3. i \in holds
    BY <1>1 DEF RecoveryInv, HoldsMatchIncidents
  <2>. QED
    BY <2>2, <2>3 DEF ClaimGuard
<1>2. RecoveryInv /\ [RecoveryNext]_recoveryVars => [P]_recoveryVars
  BY <1>1
<1>. QED
  BY <1>2, RecoveryInvariance, PTL DEF RecoverySpec, OpenIncidentsPauseClaims

\* A step that serves is a step of the abstract life of every task.
LEMMA ServesLives ==
  ASSUME StoreTypeOK, NEW L, Serves(L), NEW t \in Task
  PROVE  OperatedLifecycle!Step(t) \/ OperatedLifecycle!Stays(t)
<1>. USE DEF OperatedLifecycle!Moves, OperatedLifecycle!Keeps
<1>1. limit'[t] = limit[t] /\ RowServed(t, L)
  BY DEF Serves
<1>2. Unmoved(t) => OperatedLifecycle!Stays(t)
  BY <1>1 DEF Unmoved, SameCounters, OperatedLifecycle!Stays
<1>3. Entered(t) => OperatedLifecycle!Submit(t)
  BY <1>1 DEF Entered, SameCounters, OperatedLifecycle!Submit
<1>4. Claimed(t) => OperatedLifecycle!Start(t)
  BY <1>1 DEF Claimed, Dispatchable, Waiting, OperatedLifecycle!Start
<1>5. Refused(t) => OperatedLifecycle!Refuse(t)
  BY <1>1 DEF Refused, SameCounters, Dispatchable, Waiting, OperatedLifecycle!Refuse
<1>6. Left(t, L) => OperatedLifecycle!End(t) \/ OperatedLifecycle!Retry(t)
  <2>1. retries[t] \in Nat /\ limit[t] \in Nat
    BY DEF StoreTypeOK, TaskTypeOK
  <2>. QED
    BY <1>1, <2>1 DEF Left, Finished, OperatedLifecycle!End, OperatedLifecycle!Retry
<1>. QED
  BY <1>1, <1>2, <1>3, <1>4, <1>5, <1>6 DEF RowServed, OperatedLifecycle!Step

\* With workers, engines, coordinators, workflows and operators together the
\* store still implements the abstract life of a task.
THEOREM SystemImplementsLifecycle == RecoverySpec => ImplementsOperatedLifecycle
<1>1. RecoveryInit => OperatedLifecycle!Init
  BY TaskAssumption DEF RecoveryInit, Init, StoreInit, OperatedLifecycle!Init
<1>2. RecoveryInv /\ [RecoveryNext]_recoveryVars => [OperatedLifecycle!Next]_(OperatedLifecycle!vars)
  <2>. SUFFICES ASSUME RecoveryInv, [RecoveryNext]_recoveryVars PROVE OperatedLifecycle!Next
    OBVIOUS
  <2>1. StepOK /\ StoreTypeOK
    BY RecoverySteps, ShapeOfTypes DEF RecoveryInv
  <2>. QED
    BY <2>1, ServesLives DEF StepOK, Directs, OperatedLifecycle!Next
<1>. QED
  BY <1>1, <1>2, RecoveryInvariance, PTL DEF RecoverySpec, ImplementsOperatedLifecycle, OperatedLifecycle!Spec
=============================================================================
