--------------------------- MODULE RecoverySystem ---------------------------
(***************************************************************************)
(* recovery.py over the running system of ReliableWorker: the coordinator  *)
(* that scans, fences, verifies and recovers (tick), the operator who      *)
(* confirms exits, resolves incidents and pauses workflows, and executors  *)
(* without a session.                                                      *)
(*                                                                         *)
(* A tick is several transactions.  Between them a coordinator may die and *)
(* another one, in another process, may be anywhere in its own tick.  No   *)
(* transaction uses what an earlier one read, except which sessions were   *)
(* fenced, and a fenced session can only become stopped.  So each          *)
(* transaction is an action that some coordinator may take at any time;    *)
(* R is the set of tasks whose handler that coordinator's process knows.   *)
(* The workflow transactions that end a tick are Advance, of any workflow. *)
(***************************************************************************)
EXTENDS ReliableWorker, WorkflowStore

CONSTANTS
  Idempotent,   \* tasks declared idempotent
  Registries,   \* the handler registries of the deployed coordinators
  MaxLimit      \* bound on the retry limit an operator may grant

ASSUME RecoveryAssumption ==
  /\ Replayable \subseteq Idempotent /\ Idempotent \subseteq Task
  /\ Registries \subseteq SUBSET Task
  /\ MaxLimit \in Nat

VARIABLES
  engineJob,      \* the <<task, attempt>> an executor without session runs
  legacyStopped   \* LEGACY_STOP_CONFIRMED, by task and attempt

sideVars == <<engineJob, legacyStopped>>
recoveryVars == <<vars, dagVars, sideVars>>

RecoveryTypeOK ==
  /\ TypeOK /\ WorkflowTypeOK
  /\ engineJob \in [Engine -> (Task \X Nat) \cup {NoJob}]
  /\ legacyStopped \subseteq Task \X Nat

RecoveryInit ==
  /\ Init /\ WorkflowInit
  /\ engineJob = [e \in Engine |-> NoJob]
  /\ legacyStopped = {}

Latest(t) == <<t, attempts[t]>>

----------------------------------------------------------------------------
(* The journal: _incident and _close *)

\* Mutant: an incident that was closed once is not opened again.
OpensOnce(i, kind) == IF incident[i] \in {"AUTO", "MANUAL"} THEN incident[i] ELSE kind

\* Mutant: an operator's decision is reopened by the next scan.
ReopensDecided(i, kind) == kind

\* _incident: what an operator decided is never reopened.
Opened(i, kind) == IF incident[i] = "MANUAL" THEN "MANUAL" ELSE kind

\* _close, when the incident is open with one of the kinds.
Closed(i, kinds) == IF incident[i] \in kinds THEN "AUTO" ELSE incident[i]

\* Mutant: closing an incident leaves its holds behind.
HoldsStay(new) == holds \cup {i \in DOMAIN new : new[i] \in OpenKind}

\* Mutant: closing one incident releases its whole workflow.
ClosingFreesTheWorkflow(new) ==
  {i \in DOMAIN new :
     /\ new[i] \in OpenKind
     /\ \A j \in DOMAIN new : new[j] # incident[j] /\ new[j] \notin OpenKind => ~HeldBy(i[1], j)}

\* Opening inserts the incident's holds, closing deletes them.
HoldsAfter(new) ==
  {i \in DOMAIN new :
     IF new[i] = incident[i] THEN i \in holds ELSE new[i] \in OpenKind}

\* The journal after the incidents of the tasks' latest attempts became
\* Entry(t), for the tasks of S.
Journal(S, Entry(_)) ==
  LET new == [i \in Task \X Attempt |->
                IF i[1] \in S /\ i = Latest(i[1]) THEN Entry(i[1]) ELSE incident[i]]
  IN  incident' = new /\ holds' = HoldsAfter(new) /\ UNCHANGED paused

----------------------------------------------------------------------------
(* tick *)

\* Mutant: a suspected session's row is recovered without waiting for proof.
RecoversSuspects(t) ==
  WorkerSession(t) # NoSession /\ state[WorkerSession(t)] \in {"SUSPECT", "FENCED", "STOPPED"}

\* The row's invocation is known to have ended.
Ended(t) ==
  \/ WorkerSession(t) # NoSession /\ state[WorkerSession(t)] = "STOPPED"
  \/ WorkerSession(t) = NoSession /\ Latest(t) \in legacyStopped

\* The row may be recovered now.
Recoverable(t) == status[t] = "RUNNING" /\ Ended(t)

\* _decode fails on a row whose handler the process has not registered.
Decoded(t, R) == t \in R

\* _recover of one row, after _incident(WAIT_STOP): an unknown handler
\* leaves the row alone and becomes an incident of its own.
RecoveredIncident(t, R) ==
  IF ~Decoded(t, R) THEN Opened(Latest(t), "RECOVERY_ERROR")
  ELSE IF RecoveredStatus(t) = "RETRYING" THEN Opened(Latest(t), "AUTO")
  ELSE Opened(Latest(t), "TASK_FAILURE")

\* The row of a session that scanned as `where`, not (yet) ended.
WaitingIncident(t, where) ==
  IF where \in {"ACTIVE", "STOPPING"} THEN Closed(Latest(t), {"WAIT_STOP"})
  ELSE Opened(Latest(t), "WAIT_STOP")

\* Mutant: a retried task keeps the incident of its interrupted attempt.
KeepsWaitStop(t, R) ==
  IF ~Decoded(t, R) THEN Opened(Latest(t), "HANDLER_MISSING")
  ELSE Closed(Latest(t), {"HANDLER_MISSING"})

\* A task that waits for a claim.
IdleIncident(t, R) ==
  IF ~Decoded(t, R) THEN Opened(Latest(t), "HANDLER_MISSING")
  ELSE Closed(Latest(t), {"HANDLER_MISSING", "WAIT_STOP"})

ScannedIncident(t, R) ==
  CASE status[t] = "ABSENT" -> incident[Latest(t)]
    [] status[t] = "SUCCESS" -> Closed(Latest(t), {"WAIT_STOP"})
    [] status[t] \in Waiting -> IdleIncident(t, R)
    [] status[t] = "FAILED" -> Opened(Latest(t), "TASK_FAILURE")
    [] Recoverable(t) -> RecoveredIncident(t, R)
    [] OTHER -> WaitingIncident(t, IF WorkerSession(t) = NoSession THEN "NONE"
                                   ELSE ScannedState(WorkerSession(t)))

RecoveredRows(S) == Release(S, [t \in S |-> RecoveredStatus(t)])

\* The first transaction: suspicion and fencing, then the incidents of all
\* tasks, and the recovery of the rows whose invocation has ended.
Scan(R) ==
  /\ ScanSessions
  /\ RecoveredRows({t \in R : Recoverable(t)})
  /\ Journal(Task, LAMBDA t : ScannedIncident(t, R))
  /\ UNCHANGED <<workerVars, dagVars, sideVars>>

\* The second transaction, after the verifier: rows of stopped sessions.
OfStopped(t) == Recoverable(t) /\ WorkerSession(t) # NoSession

RecoverStopped(R) ==
  /\ \E t \in Task : OfStopped(t)
  /\ RecoveredRows({t \in R : OfStopped(t)})
  /\ Journal({t \in Task : OfStopped(t)}, LAMBDA t : RecoveredIncident(t, R))
  /\ UNCHANGED <<registryVars, workerVars, dagVars, sideVars>>

----------------------------------------------------------------------------
(* Confirmations *)

\* confirm_session_stopped, confirm_host_stopped and the stop verifier: all
\* sessions of the snapshot are fenced, draining or already stopped.
ConfirmSessions(S) ==
  /\ S # {}
  /\ \A s \in S : state[s] \in ConfirmStates \cup {"STOPPED"} /\ ExitEvidence(s)
  /\ state' = [s \in Session |-> IF s \in S THEN "STOPPED" ELSE state[s]]
  /\ active' = [w \in Worker |-> active[w] /\ current[w] \notin S]
  /\ UNCHANGED <<current, stopRequested, age, taskVars, usageVars, journalVars>>
  /\ UNCHANGED <<workerVars, dagVars, sideVars>>

\* confirm_task_stopped: exactly this attempt of an executor without
\* session has exited (the engine does not run it any more).
ConfirmTaskStopped(t, R) ==
  /\ status[t] = "RUNNING" /\ WorkerSession(t) = NoSession
  /\ \A e \in Engine : engineJob[e] # Latest(t)
  /\ legacyStopped' = legacyStopped \cup {Latest(t)}
  /\ RecoveredRows({t} \cap R)
  /\ Journal({t}, LAMBDA u : RecoveredIncident(u, R))
  /\ UNCHANGED <<registryVars, workerVars, dagVars, engineJob>>

----------------------------------------------------------------------------
(* Operator decisions *)

\* The attempt the incident is about has failed, or its invocation ended
\* but could not be recovered.
Decidable(t) ==
  /\ incident[Latest(t)] \in OpenKind
  /\ \/ status[t] = "FAILED"
     \/ Recoverable(t) /\ incident[Latest(t)] = "RECOVERY_ERROR"

\* The decision's UPDATE, the incident it closes, the nodes it reopens, and
\* the reconciliation of the workflow.
Resolve(t, to) ==
  LET f == WorkflowOf[t]
      rows == [status EXCEPT ![t] = to]
      nodes == IF to = "FAILED" THEN node ELSE ResetNodes(t, to) IN
  /\ holds' = holds \ {Latest(t)}
  /\ IF f = NoWorkflow THEN status' = rows /\ UNCHANGED <<blocked, dagVars>>
     ELSE AdvanceAfter(f, rows, nodes, blocked, Held(f, holds', paused))
  /\ owner' = [owner EXCEPT ![t] = NoOwner]
  /\ incident' = [incident EXCEPT ![Latest(t)] = "MANUAL"]
  /\ Account({t}, [u \in {t} |-> to])
  /\ UNCHANGED <<attempts, ahead, paused, registryVars, workerVars, sideVars>>

ResolveRetry(t, extra) ==
  /\ Decidable(t) /\ t \in Idempotent /\ t \notin blocked
  /\ \E R \in Registries : Decoded(t, R)
  /\ retries[t] < limit[t] + extra /\ limit[t] + extra <= MaxLimit
  /\ Resolve(t, "RETRYING")
  /\ retries' = [retries EXCEPT ![t] = @ + 1]
  /\ limit' = [limit EXCEPT ![t] = @ + extra]
  /\ due' = [due EXCEPT ![t] = t \notin Delayed]

\* succeed records a verified result; fail accepts the failure.
ResolveFinally(t, to) ==
  /\ Decidable(t)
  /\ Resolve(t, to)
  /\ due' = [due EXCEPT ![t] = TRUE]
  /\ UNCHANGED <<retries, limit>>

\* pause_workflow and resume_workflow, which may be repeated.
SetPaused(f, manual) ==
  /\ run[f] # "NONE"
  /\ paused' = manual
  /\ AdvanceAfter(f, status, node, blocked, Held(f, holds, manual))
  /\ UNCHANGED <<attempts, retries, limit, owner, due, ahead, usageVars>>
  /\ UNCHANGED <<registryVars, incident, holds, workerVars, sideVars>>

PauseWorkflow(f) == SetPaused(f, paused \cup {f})
ResumeWorkflow(f) == SetPaused(f, paused \ {f})

----------------------------------------------------------------------------
(* Executors without a session (PersistentExecutor.execute) *)

EngineRuns(e, t) ==
  /\ engineJob[e] = NoJob /\ EngineClaim(e, t)
  /\ engineJob' = [engineJob EXCEPT ![e] = <<t, NextAttempt(t)>>]
  /\ UNCHANGED <<workerVars, dagVars, legacyStopped>>

\* The claim fails the task instead: its workflow's budget is used up.
EngineIsRefused(e, t) ==
  /\ engineJob[e] = NoJob /\ EngineRefused(t)
  /\ UNCHANGED <<workerVars, dagVars, sideVars>>

EngineReports(e, o) ==
  /\ engineJob[e] # NoJob /\ Finish(e, engineJob[e][1], engineJob[e][2], o)
  /\ engineJob' = [engineJob EXCEPT ![e] = NoJob]
  /\ UNCHANGED <<workerVars, dagVars, legacyStopped>>

\* The engine dies, or its report is refused or lost.
EngineGivesUp(e) ==
  /\ engineJob[e] # NoJob
  /\ engineJob' = [engineJob EXCEPT ![e] = NoJob]
  /\ UNCHANGED <<vars, dagVars, legacyStopped>>

\* recover_interrupted, called as documented: no executor is left.
OfflineRecovery ==
  /\ \A e \in Engine : engineJob[e] = NoJob
  /\ \A s \in Session : pc[s] \in {"new"} \cup Gone
  /\ RecoverInterrupted
  /\ UNCHANGED <<workerVars, dagVars, sideVars>>

EngineStep(e) ==
  \/ \E t \in Task : EngineRuns(e, t) \/ EngineIsRefused(e, t)
  \/ \E o \in Outcome : EngineReports(e, o)
  \/ EngineGivesUp(e)

\* Coordinators and engines reconcile any run; clients submit workflows.
WorkflowStep(f) == (Advance(f) \/ SubmitWorkflow(f)) /\ UNCHANGED <<workerVars, sideVars>>

CoordinatorStep ==
  \/ \E R \in Registries : Scan(R) \/ RecoverStopped(R)
  \/ \E S \in SUBSET Session : ConfirmSessions(S)
  \/ \E t \in Task, R \in Registries : ConfirmTaskStopped(t, R)

OperatorStep ==
  \/ \E t \in Task, extra \in {0, 1} : ResolveRetry(t, extra)
  \/ \E t \in Task, to \in Finished : ResolveFinally(t, to)
  \/ \E f \in Workflow : PauseWorkflow(f) \/ ResumeWorkflow(f)

\* Steps of the running system alone.
Alone(A) == A /\ UNCHANGED <<dagVars, sideVars>>

RecoveryNext ==
  \/ Alone(Next)
  \/ \E e \in Engine : EngineStep(e)
  \/ OfflineRecovery
  \/ \E f \in Workflow : WorkflowStep(f)
  \/ CoordinatorStep
  \/ OperatorStep

RecoverySpec == RecoveryInit /\ [][RecoveryNext]_recoveryVars

\* One coordinator that knows every handler ticks until it is shut down,
\* whatever a tick raises, and asks its verifier about every fenced session.
KeepsTicking == WF_recoveryVars(Scan(Task))

AsksVerifier(s) == state[s] = "FENCED" /\ ConfirmSessions({s})

\* Time passes; a coordinator ticks, and its verifier learns of every exit;
\* a worker's threads are scheduled and its callables return.
RecoveryFairness ==
  /\ KeepsTicking
  /\ \A s \in Session :
       /\ WF_recoveryVars(Alone(RegistryStep(Expire(s)) /\ UNCHANGED workerVars))
       /\ WF_recoveryVars(AsksVerifier(s))
       /\ WF_recoveryVars(Alone(ConsumerStep(s)))
       /\ WF_recoveryVars(Alone(BeatEnds(s)))

FairRecoverySpec == RecoverySpec /\ RecoveryFairness

\* Workflows served by engines: an engine that lives takes what it may run,
\* its callables return and their results are committed, retry delays pass,
\* and the coordinator's ticks reach every workflow.
WorkflowFairness ==
  /\ KeepsTicking
  /\ \A f \in Workflow : WF_recoveryVars(Advance(f) /\ UNCHANGED <<workerVars, sideVars>>)
  /\ \A t \in Task : WF_recoveryVars(Alone(BecomeDue(t) /\ UNCHANGED workerVars))
  /\ \A e \in Engine :
       /\ WF_recoveryVars(\E t \in Task : EngineRuns(e, t) \/ EngineIsRefused(e, t))
       /\ WF_recoveryVars(\E o \in Outcome : EngineReports(e, o))

FairWorkflowSpec == RecoverySpec /\ WorkflowFairness

----------------------------------------------------------------------------
(* Properties *)

\* The holds that pause tasks and workflows are exactly those of the open
\* incidents: no task stays frozen by a decision that was already taken,
\* and no open incident stops freezing its task (_incident, _close,
\* retry_scheduled and resolve_task each write both tables).  They are about
\* the latest attempt: a task is not claimed again while one is open.
HoldsMatchIncidents ==
  /\ holds = {i \in DOMAIN incident : incident[i] \in OpenKind}
  /\ \A i \in holds : i = Latest(i[1])

\* While an incident is open, neither its task nor any task of its workflow
\* starts, in whatever process the claim is made (docs/failure_recovery.md,
\* "any stale in-memory queue of another process"; CLAIM_GUARD).
OpenIncidentsPauseClaims ==
  [][\A t \in Task : status[t] # "RUNNING" /\ status'[t] = "RUNNING" =>
       \A i \in DOMAIN incident : incident[i] \in OpenKind => ~HeldBy(t, i)]_recoveryVars

\* What an operator decided stays decided, whatever scan follows.
DecisionsStand ==
  [][\A i \in DOMAIN incident : incident[i] = "MANUAL" => incident'[i] = "MANUAL"]_recoveryVars

\* Invocations of one task never overlap, whether they run under a session
\* or in an engine, and whoever recovers the task.
Invocations(t) ==
  {s \in Session : pc[s] = "call" /\ job[s][1] = t}
    \cup {e \in Engine : engineJob[e] # NoJob /\ engineJob[e][1] = t}

NoOverlapAnywhere ==
  \A t \in Task : \A c1, c2 \in Invocations(t) : c1 = c2

\* A row whose process is gone does not stay RUNNING forever: its session
\* becomes overdue, is fenced, is confirmed stopped, and is recovered, from
\* whatever point of the drain the process was lost at (docs/failure_recovery.md,
\* the staged protocol; tick is repeatable from any process).
LostRowsAreRecovered ==
  \A s \in Session, t \in Task :
    (pc[s] \in Gone /\ status[t] = "RUNNING" /\ owner[t] = s)
      ~> ~(status[t] = "RUNNING" /\ owner[t] = s)

\* A failed task surfaces: it gets an incident that waits for an operator,
\* unless one has decided already.
FailuresSurface ==
  \A t \in Task :
    status[t] = "FAILED" ~> (status[t] # "FAILED" \/ incident[Latest(t)] \in {"TASK_FAILURE", "MANUAL"})

\* No task that waits for a claim is held by an incident of its own forever:
\* incidents about its finished attempt, or about a handler that was missing,
\* close (docs/failure_recovery.md:309, "no permanent pause is left behind").
WaitingTasksAreReleased ==
  \A t \in Task :
    (status[t] \in Waiting /\ incident[Latest(t)] \in OpenKind)
      ~> ~(status[t] \in Waiting /\ incident[Latest(t)] \in OpenKind)

\* A workflow does not get stuck between its nodes: it ends, or somebody has
\* to decide something about it - to resume it, to resolve a failure, or to
\* confirm the exit of an execution that nobody runs any more.  (An incident
\* about an execution that still runs is none: it closes by itself.)
AwaitsOperator(f) ==
  \/ f \in paused
  \/ \E i \in DOMAIN incident :
       /\ WorkflowOf[i[1]] = f /\ incident[i] \in OpenKind
       /\ \A e \in Engine : engineJob[e] # i

WorkflowsSettle ==
  \A f \in Workflow :
    run[f] # "NONE" ~> (run[f] \in {"SUCCESS", "FAILED"} \/ AwaitsOperator(f))

\* The documentation says that a task waiting for a claim whose handler is
\* not registered is isolated by the scan, as an incident that holds it
\* (docs/failure_recovery.md:123).
MissingHandlerIsIsolated ==
  [][Scan({}) => \A t \in Task : status[t] \in Waiting => incident'[Latest(t)] = "HANDLER_MISSING"]_recoveryVars

\* With operators the store still implements the abstract life of a task.
OperatedLifecycle == INSTANCE TaskLifecycle
  WITH phase <- status, spent <- retries, budget <- limit, Operators <- TRUE

ImplementsOperatedLifecycle == OperatedLifecycle!Spec
=============================================================================
