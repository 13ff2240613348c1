----------------------------- MODULE TaskStore -----------------------------
(***************************************************************************)
(* The durable task table of persistence.py (SQLiteTaskStore), with the    *)
(* recovery journal of recovery.py that every claim consults.  Each action *)
(* is one transaction.  Tasks are claimed by registered worker sessions    *)
(* (claim_next) or by engines without a session (PersistentExecutor).      *)
(*                                                                         *)
(* A claim writes a fresh uuid into tasks.owner.  The model writes the     *)
(* claimant; with the attempt number it identifies the claim as the uuid   *)
(* does, because every claim increments attempt_count.  tasks.owner and    *)
(* tasks.worker_session are always written together, so the second is      *)
(* derived from the first.                                                 *)
(***************************************************************************)
EXTENDS WorkerRegistry, Integers, FiniteSets

CONSTANTS
  Task,
  Engine,         \* executors that claim without a registered session
  NoOwner,        \* tasks.owner IS NULL
  Handles,        \* the tasks whose handler a session's process registers
  Priority,       \* the task's priority
  RetryLimit,     \* the retry limit a task is submitted with
  Replayable,     \* idempotent tasks whose interruption may be retried at all
                  \* (an llm or tool call is classified UNCERTAIN: not one)
  Delayed,        \* tasks with a retry delay (retry_config.initial_delay > 0)
  Scheduled,      \* tasks submitted with a future scheduled_at
  Workflow,
  WorkflowOf,     \* the workflow a task is a node of
  NoWorkflow,     \* "a standalone task"
  Place,          \* the place of a task among the nodes of its workflow
  Llm,            \* the nodes whose handler generates with a language model
  MaxCalls,       \* llm_budget.max_calls, of the workflows that have one
  TokenCapped,    \* the workflows with llm_budget.max_total_tokens
  MaxAttempts     \* bound on attempt numbers in the journal

Attempt == 0..MaxAttempts
Claimant == Session \cup Engine

ASSUME TaskAssumption ==
  /\ NoOwner \notin Claimant
  /\ Session \cap Engine = {}
  /\ Handles \in [Session -> SUBSET Task]
  /\ Priority \in [Task -> Int]
  /\ RetryLimit \in [Task -> Nat]
  /\ Replayable \subseteq Task /\ Delayed \subseteq Task /\ Scheduled \subseteq Task
  /\ NoWorkflow \notin Workflow
  /\ WorkflowOf \in [Task -> Workflow \cup {NoWorkflow}]
  /\ Place \in [Task -> Nat]
  /\ Llm \subseteq {t \in Task : WorkflowOf[t] # NoWorkflow}
  /\ DOMAIN MaxCalls \subseteq Workflow /\ MaxCalls \in [DOMAIN MaxCalls -> Nat]
  /\ TokenCapped \subseteq Workflow
  /\ MaxAttempts \in Nat

VARIABLES
  status,    \* tasks.status; "ABSENT" before the row exists
  attempts,  \* tasks.attempt_count
  retries,   \* tasks.retry_count
  limit,     \* tasks.retry_limit (an operator may raise it)
  owner,     \* tasks.owner
  due,       \* scheduled_at (of a PENDING row) or retry_at has passed
  ahead,     \* the rows with a smaller tasks.sequence
  blocked,   \* tasks.workflow_blocked
  unmetered, \* the finished generation attempts whose token usage is unknown
  overspent, \* the workflows whose known token usage has reached their cap
  incident,  \* recovery_incidents, by task and attempt: state and kind
  holds,     \* recovery_holds, by their source incident
  paused     \* recovery_holds with source 'manual', by workflow

taskVars == <<status, attempts, retries, limit, owner, due, ahead, blocked>>
usageVars == <<unmetered, overspent>>
journalVars == <<incident, holds, paused>>
storeVars == <<registryVars, taskVars, usageVars, journalVars>>

TaskStatus == {"ABSENT", "PENDING", "RUNNING", "RETRYING", "SUCCESS", "FAILED"}
Waiting == {"PENDING", "RETRYING"}
Finished == {"SUCCESS", "FAILED"}

\* An OPEN incident is modelled by its kind (HANDLER_MISSING is a
\* RECOVERY_ERROR with the reason 'handler unavailable'), a RESOLVED one by
\* who resolved it: the coordinator (it may reopen) or an operator.
OpenKind == {"WAIT_STOP", "RECOVERY_ERROR", "HANDLER_MISSING", "TASK_FAILURE"}
IncidentState == {"NONE", "AUTO", "MANUAL"} \cup OpenKind

TaskTypeOK ==
  /\ status \in [Task -> TaskStatus]
  /\ attempts \in [Task -> Nat]
  /\ retries \in [Task -> Nat]
  /\ limit \in [Task -> Nat]
  /\ owner \in [Task -> Claimant \cup {NoOwner}]
  /\ due \in [Task -> BOOLEAN]
  /\ ahead \in [Task -> SUBSET Task]
  /\ blocked \subseteq Task
  /\ unmetered \subseteq Task \X Nat /\ overspent \subseteq Workflow

JournalTypeOK ==
  /\ incident \in [Task \X Attempt -> IncidentState]
  /\ holds \subseteq Task \X Attempt
  /\ paused \subseteq Workflow

StoreTypeOK == RegistryTypeOK /\ TaskTypeOK /\ JournalTypeOK

StoreInit ==
  /\ RegistryInit
  /\ status = [t \in Task |-> "ABSENT"]
  /\ attempts = [t \in Task |-> 0]
  /\ retries = [t \in Task |-> 0]
  /\ limit = RetryLimit
  /\ owner = [t \in Task |-> NoOwner]
  /\ due = [t \in Task |-> t \notin Scheduled]
  /\ ahead = [t \in Task |-> {}]
  /\ blocked = {} /\ unmetered = {} /\ overspent = {}
  /\ incident = [i \in Task \X Attempt |-> "NONE"]
  /\ holds = {}
  /\ paused = {}

----------------------------------------------------------------------------
(* The row's worker_session, and what the registry asks of it *)

WorkerSession(t) == IF owner[t] \in Session THEN owner[t] ELSE NoSession

\* _has_running
HasRunning(s) == \E t \in Task : status[t] = "RUNNING" /\ WorkerSession(t) = s

(* Order of dispatch: sequence = MAX(sequence) + 1 for a set of rows,       *)
(* which keep their relative order.                                         *)
Present == {t \in Task : status[t] # "ABSENT"}
MovedToEnd(S) ==
  [t \in Task |-> IF t \in S THEN (Present \ S) \cup (ahead[t] \cap S)
                             ELSE ahead[t] \ S]

----------------------------------------------------------------------------
(* submit *)

\* The INSERTs of a submission, in the order of a workflow's definition.
Insert(S) ==
  /\ ahead' = [t \in Task |-> IF t \in S THEN Present \cup {u \in S : Place[u] < Place[t]}
                                          ELSE ahead[t]]
  /\ UNCHANGED <<attempts, retries, limit, owner, due, usageVars>>

\* A standalone task; a repeated submission of the same definition is a no-op.
Submit(t) ==
  /\ WorkflowOf[t] = NoWorkflow /\ status[t] = "ABSENT"
  /\ status' = [status EXCEPT ![t] = "PENDING"]
  /\ Insert({t})
  /\ UNCHANGED <<blocked, registryVars, journalVars>>

\* scheduled_at or retry_at passes.
BecomeDue(t) ==
  /\ status[t] \in Waiting /\ ~due[t]
  /\ due' = [due EXCEPT ![t] = TRUE]
  /\ UNCHANGED <<status, attempts, retries, limit, owner, ahead, blocked, usageVars>>
  /\ UNCHANGED <<registryVars, journalVars>>

----------------------------------------------------------------------------
(* claim *)

\* CLAIM_GUARD: no hold on the task, nor on the workflow it is a node of.
\* Every incident holds its task and its task's workflow.
HeldBy(t, i) ==
  \/ i[1] = t
  \/ WorkflowOf[t] # NoWorkflow /\ WorkflowOf[i[1]] = WorkflowOf[t]

ClaimGuard(t) == WorkflowOf[t] \notin paused /\ \A i \in holds : ~HeldBy(t, i)

\* Mutant: a claim does not consult the status (a running row is claimed).
ClaimsRunning(t) ==
  status[t] \in Waiting \cup {"RUNNING"} /\ due[t] /\ t \notin blocked /\ ClaimGuard(t)

Dispatchable(t) == status[t] \in Waiting /\ due[t] /\ t \notin blocked /\ ClaimGuard(t)

\* workflow_usage: every attempt of a generation node counts, whatever became
\* of it.
NodesOf(f) == {t \in Task : WorkflowOf[t] = f}
Calls(f) == Cardinality(UNION {{t} \X (1..attempts[t]) : t \in Llm \cap NodesOf(f)})

\* Mutant: the call cap is off by one.
AdmitsOneCallMore(f) ==
  \/ f \in DOMAIN MaxCalls /\ Calls(f) > MaxCalls[f]
  \/ f \in TokenCapped /\ (f \in overspent \/ \E i \in unmetered : i[1] \in NodesOf(f))

\* budget_status.blocked: the calls or the tokens are used up, or the usage
\* of some finished call is unknown.
OverBudget(f) ==
  \/ f \in DOMAIN MaxCalls /\ Calls(f) >= MaxCalls[f]
  \/ f \in TokenCapped /\ (f \in overspent \/ \E i \in unmetered : i[1] \in NodesOf(f))

OutOfBudget(t) == t \in Llm /\ OverBudget(WorkflowOf[t])

\* Mutant: a claim does not wait for the usage of the call in flight.
NeverAwaitsUsage(t) == FALSE

\* budget_status.waiting_for_usage: one call in flight under a token cap.
AwaitsUsage(t) ==
  /\ t \in Llm /\ WorkflowOf[t] \in TokenCapped
  /\ \E u \in Llm \cap NodesOf(WorkflowOf[t]) : status[u] = "RUNNING"

\* admit_llm
Admitted(t) == ~OutOfBudget(t) /\ ~AwaitsUsage(t)

\* Mutant: a claim does not open a new attempt.
ReclaimsSameAttempt(t) == attempts[t]

NextAttempt(t) == attempts[t] + 1

\* The UPDATE of _claim, a fresh owner and attempt with retry_at cleared, and
\* the UPDATEs of admit_llm, which fail the rows that are out of budget.
ClaimRow(c, t, refused) ==
  /\ Dispatchable(t) /\ Admitted(t)
  /\ status' = [u \in Task |-> IF u = t THEN "RUNNING"
                               ELSE IF u \in refused THEN "FAILED" ELSE status[u]]
  /\ owner' = [owner EXCEPT ![t] = c]
  /\ attempts' = [attempts EXCEPT ![t] = NextAttempt(t)]
  /\ UNCHANGED <<retries, limit, due, ahead, blocked, usageVars>>
  /\ UNCHANGED <<registryVars, journalVars>>

\* A claim that ends without a row, but fails the rows out of budget.
Refuse(refused) ==
  /\ status' = [u \in Task |-> IF u \in refused THEN "FAILED" ELSE status[u]]
  /\ UNCHANGED <<attempts, retries, limit, owner, due, ahead, blocked, usageVars>>
  /\ UNCHANGED <<registryVars, journalVars>>

\* claim_next: among the due rows the session's process has handlers for,
\* the highest priority, then the smallest sequence, skipping the rows that
\* are not admitted.
Candidates(s) == {t \in Handles[s] : Dispatchable(t)}

Precedes(t, u) == Priority[t] > Priority[u] \/ (Priority[t] = Priority[u] /\ t \in ahead[u])

NextTask(s, t) ==
  /\ t \in Candidates(s) /\ Admitted(t)
  /\ \A u \in Candidates(s) : Admitted(u) => ~Precedes(u, t)

ClaimNext(s, t) ==
  /\ Claimable(s) /\ NextTask(s, t)
  /\ ClaimRow(s, t, {u \in Candidates(s) : OutOfBudget(u) /\ Precedes(u, t)})

ClaimNone(s) ==
  /\ Claimable(s) /\ \A t \in Candidates(s) : ~Admitted(t)
  /\ Refuse({t \in Candidates(s) : OutOfBudget(t)})

\* PersistentExecutor: claims the task at the head of its own local queue.
EngineClaim(e, t) == ClaimRow(e, t, {})
EngineRefused(t) == Dispatchable(t) /\ OutOfBudget(t) /\ Refuse({t})

----------------------------------------------------------------------------
(* finish *)

\* Mutant: any executor of the task may commit while it runs.
CommitsWithoutOwner(c, t, n) == status[t] = "RUNNING"

\* The WHERE clause of finish: still RUNNING this attempt for this claimant,
\* whose session (if it has one) was neither fenced nor stopped.
MayFinish(c, t, n) ==
  /\ status[t] = "RUNNING"
  /\ owner[t] = c
  /\ attempts[t] = n
  /\ c \in Session => state[c] \in LiveStates

Outcome == {"SUCCESS", "ERROR", "FATAL"}

\* Mutant: the retry test is off by one.
RetryOnceTooMuch(t, o) ==
  IF o = "SUCCESS" THEN "SUCCESS"
  ELSE IF o = "ERROR" /\ retries[t] <= limit[t] THEN "RETRYING" ELSE "FAILED"

\* PersistentExecutor._execute: an ordinary failure is retried within the
\* budget; a PERMANENT or UNCERTAIN one, or a PersistenceError, is not.
FinishedStatus(t, o) ==
  IF o = "SUCCESS" THEN "SUCCESS"
  ELSE IF o = "ERROR" /\ retries[t] < limit[t] THEN "RETRYING" ELSE "FAILED"

\* Token accounting of the attempts of S that ended as f: a failed attempt
\* reports no usage, a successful one may not, or may use the rest up.
Metered == {t \in Llm : WorkflowOf[t] \in TokenCapped /\ attempts[t] > 0}

Account(S, f) ==
  \E silent \in SUBSET {t \in S \cap Metered : f[t] = "SUCCESS"} :
    LET unknown == {t \in S \cap Metered : f[t] = "SUCCESS" => t \in silent} IN
      /\ unmetered' = (unmetered \ {<<t, attempts[t]>> : t \in S})
                        \cup {<<t, attempts[t]>> : t \in unknown}
      /\ \E more \in SUBSET {WorkflowOf[t] : t \in (S \cap Metered) \ unknown} :
           overspent' = overspent \cup more

\* Rows of S leave RUNNING for the statuses given by f: the owner is
\* cleared, a retry is counted, and the rows move to the end of the order.
Release(S, f) ==
  /\ status' = [t \in Task |-> IF t \in S THEN f[t] ELSE status[t]]
  /\ retries' = [t \in Task |-> IF t \in S /\ f[t] = "RETRYING" THEN retries[t] + 1
                                ELSE retries[t]]
  /\ owner' = [t \in Task |-> IF t \in S THEN NoOwner ELSE owner[t]]
  /\ due' = [t \in Task |-> IF t \in S THEN ~(f[t] = "RETRYING" /\ t \in Delayed) ELSE due[t]]
  /\ ahead' = MovedToEnd(S)
  /\ Account(S, f)
  /\ UNCHANGED <<attempts, limit, blocked>>

Finish(c, t, n, o) ==
  /\ MayFinish(c, t, n)
  /\ Release({t}, [u \in {t} |-> FinishedStatus(u, o)])
  /\ UNCHANGED <<registryVars, journalVars>>

----------------------------------------------------------------------------
(* recovery of interrupted rows *)

\* Mutant: recovery retries without looking at the budget.
RecoveryIgnoresBudget(t) == IF t \in Replayable THEN "RETRYING" ELSE "FAILED"

RecoveredStatus(t) ==
  IF t \in Replayable /\ retries[t] < limit[t] THEN "RETRYING" ELSE "FAILED"

\* RecoveryJournal.retry_scheduled: an open incident of the attempt closes.
Retried(S) == {<<t, attempts[t]>> : t \in {u \in S : RecoveredStatus(u) = "RETRYING"}}

CloseRetried(S) ==
  /\ incident' = [i \in Task \X Attempt |->
                    IF i \in Retried(S) /\ incident[i] \in OpenKind THEN "AUTO" ELSE incident[i]]
  /\ holds' = {i \in holds : ~(i \in Retried(S) /\ incident[i] \in OpenKind)}
  /\ UNCHANGED paused

\* _recover_rows
RecoverRows(S) ==
  /\ Release(S, [t \in S |-> RecoveredStatus(t)])
  /\ CloseRetried(S)
  /\ UNCHANGED registryVars

RunningOf(s) == {t \in Task : status[t] = "RUNNING" /\ WorkerSession(t) = s}

\* Mutant: fencing is taken for proof that the invocation stopped.
RecoverFenced(s) == state[s] \in {"FENCED", "STOPPED"}

\* recover_worker: only a stopped incarnation's rows (stopped sessions
\* always carry evidence).
MayRecover(s) == state[s] = "STOPPED"

RecoverWorker(s) ==
  /\ MayRecover(s) /\ RunningOf(s) # {}
  /\ RecoverRows(RunningOf(s))

\* recover_interrupted: offline recovery of the executions without session.
RecoverInterrupted ==
  LET running == {t \in Task : status[t] = "RUNNING"}
  IN  /\ running # {}
      /\ \A t \in running : WorkerSession(t) = NoSession
      /\ RecoverRows(running)

\* The registry's own transactions leave the tasks alone.
RegistryStep(A) == A /\ UNCHANGED <<taskVars, usageVars, journalVars>>
=============================================================================
