------------------------- MODULE StoreClientsProofs -------------------------
(***************************************************************************)
(* The clients of the store, for any number of tasks and clients.          *)
(*                                                                         *)
(* Clients without discipline (DurableQueue): the store keeps its books by *)
(* its transactions alone.  However late, lost or repeated reports are,    *)
(* the attempts of a task are its granted retries, stay within its budget, *)
(* and are never handed out twice.                                         *)
(*                                                                         *)
(* Engines without a session (EngineQueue): an engine that executes a task *)
(* owns its row and its attempt, whatever stale copies the engines hold,   *)
(* and although the rows of crashed engines are recovered offline.         *)
(***************************************************************************)
EXTENDS DurableQueue, EngineQueue, TaskStoreProofs

----------------------------------------------------------------------------
(* Clients without discipline.                                              *)

\* The tables keep their shape when a client or the registry takes a step.
LEMMA QueueTypingStep ==
  ASSUME QueueTypeOK, [QueueNext]_queueVars
  PROVE  QueueTypeOK'
<1>. USE DEF QueueTypeOK
<1>1. ASSUME NEW c \in Claimant, NEW t \in Task, NEW refused, ClaimRow(c, t, refused), NewCall(c, t)
      PROVE  QueueTypeOK'
  <2>1. NextAttempt(t) \in Nat
    BY DEF StoreTypeOK, TaskTypeOK, NextAttempt
  <2>. QED
    BY <1>1, <2>1, ClaimTyping DEF NewCall
<1>2. CASE \E s \in Session, t \in Task : SessionClaims(s, t)
  BY <1>1, <1>2 DEF SessionClaims, ClaimNext, Claimant
<1>3. CASE \E e \in Engine, t \in Task : EngineClaims(e, t)
  BY <1>1, <1>3 DEF EngineClaims, EngineClaim, Claimant
<1>4. CASE \E call \in calls, o \in Outcome : Reports(call, o)
  BY <1>4, FinishTyping DEF Reports
<1>5. ASSUME UNCHANGED storeVars PROVE StoreTypeOK'
  BY <1>5 DEF storeVars, registryVars, taskVars, usageVars, journalVars, StoreTypeOK,
              RegistryTypeOK, TaskTypeOK, JournalTypeOK
<1>6. CASE \E call \in calls : Vanishes(call)
  BY <1>5, <1>6 DEF Vanishes
<1>7. CASE StoreStep /\ UNCHANGED calls
  <2>1. ASSUME NEW s \in Session, RecoverWorker(s) PROVE StoreTypeOK'
    BY <2>1, RecoverTyping DEF RecoverWorker, RunningOf
  <2>2. ASSUME RecoverInterrupted PROVE StoreTypeOK'
    BY <2>2, RecoverTyping DEF RecoverInterrupted
  <2>. QED
    BY <1>7, <2>1, <2>2, SubmitTyping, BecomeDueTyping DEF StoreStep
<1>8. CASE RegistryMoves /\ UNCHANGED calls
  BY <1>8, RegistryStepTyping DEF RegistryMoves, RegistryStep
<1>9. CASE UNCHANGED queueVars
  BY <1>5, <1>9 DEF queueVars
<1>. QED
  BY <1>2, <1>3, <1>4, <1>6, <1>7, <1>8, <1>9 DEF QueueNext

\* The tables and the set of outstanding executions keep their shape.
THEOREM QueueTyping == QueueSpec => []QueueTypeOK
<1>1. QueueInit => QueueTypeOK
  BY StoreInitTyping DEF QueueInit, QueueTypeOK
<1>. QED
  BY <1>1, QueueTypingStep, PTL DEF QueueSpec

----------------------------------------------------------------------------
(* The books: each transaction keeps them (TaskStoreProofs). *)

\* The books are kept by every step.
LEMMA BooksStep ==
  ASSUME QueueTypeOK, BooksOK, [QueueNext]_queueVars
  PROVE  BooksOK'
<1>. USE DEF QueueTypeOK
<1>1. ASSUME UNCHANGED taskVars PROVE BooksOK'
  BY <1>1 DEF taskVars, BooksOK, Granted
<1>2. ASSUME NEW s \in Session, NEW t \in Task, SessionClaims(s, t) PROVE BooksOK'
  BY <1>2, ClaimNextKeepsBooks DEF SessionClaims
<1>3. ASSUME NEW e \in Engine, NEW t \in Task, EngineClaims(e, t) PROVE BooksOK'
  BY <1>3, ClaimKeepsBooks DEF EngineClaims, EngineClaim
<1>4. ASSUME NEW call \in calls, NEW o \in Outcome, Reports(call, o) PROVE BooksOK'
  BY <1>4, FinishKeepsBooks DEF Reports
<1>5. ASSUME NEW s \in Session, RecoverWorker(s) PROVE BooksOK'
  BY <1>5, RecoverKeepsBooks DEF RecoverWorker, RunningOf
<1>6. ASSUME RecoverInterrupted PROVE BooksOK'
  BY <1>6, RecoverKeepsBooks DEF RecoverInterrupted
<1>7. ASSUME NEW t \in Task, Submit(t) \/ BecomeDue(t) PROVE BooksOK'
  BY <1>7, SubmitKeepsBooks
<1>8. ASSUME NEW call \in calls, Vanishes(call) PROVE BooksOK'
  BY <1>1, <1>8 DEF Vanishes, storeVars
<1>9. ASSUME RegistryMoves PROVE BooksOK'
  BY <1>1, <1>9 DEF RegistryMoves, RegistryStep
<1>10. CASE UNCHANGED queueVars
  BY <1>1, <1>10 DEF queueVars, storeVars
<1>. QED
  BY <1>2, <1>3, <1>4, <1>5, <1>6, <1>7, <1>8, <1>9, <1>10 DEF QueueNext, StoreStep

\* The books are kept from the start.
LEMMA BooksAlways == QueueSpec => []BooksOK
<1>1. QueueInit => BooksOK
  BY TaskAssumption DEF QueueInit, StoreInit, BooksOK, Granted
<1>. QED
  BY <1>1, BooksStep, QueueTyping, PTL DEF QueueSpec

\* Every execution but the first was granted by exactly one retry.
THEOREM AccountingAlways == QueueSpec => []AttemptAccounting
<1>1. BooksOK => AttemptAccounting
  BY DEF BooksOK, AttemptAccounting, Granted
<1>. QED
  BY <1>1, BooksAlways, PTL

\* No task is executed more often than its retry budget allows.
THEOREM BudgetAlways == QueueSpec => []WithinBudget
<1>1. QueueTypeOK /\ BooksOK => WithinBudget
  BY DEF QueueTypeOK, StoreTypeOK, TaskTypeOK, BooksOK, WithinBudget, Granted
<1>. QED
  BY <1>1, BooksAlways, QueueTyping, PTL

----------------------------------------------------------------------------
(* Attempts are handed out once: every call bears a number the row has       *)
(* reached, and a claim takes the next one.                                  *)

CallsInv ==
  /\ OneExecutorPerAttempt
  /\ \A c \in calls : c[3] <= attempts[c[2]]

\* A claim opens a call nobody holds.
LEMMA ClaimKeepsCalls ==
  ASSUME QueueTypeOK, CallsInv, NEW c \in Claimant, NEW t \in Task, NEW refused,
         ClaimRow(c, t, refused), NewCall(c, t)
  PROVE  CallsInv'
<1>. USE DEF QueueTypeOK, StoreTypeOK, TaskTypeOK
<1>1. \A u \in Task : attempts'[u] = IF u = t THEN attempts[t] + 1 ELSE attempts[u]
  BY DEF ClaimRow, NextAttempt
<1>2. calls' = calls \cup {<<c, t, attempts[t] + 1>>}
  BY DEF NewCall, NextAttempt
<1>3. \A d \in calls : d[2] \in Task /\ d[3] \in Nat /\ d[3] <= attempts[d[2]]
  BY DEF CallsInv
<1>4. \A d \in calls' : d[3] <= attempts'[d[2]]
  BY <1>1, <1>2, <1>3
<1>5. \A d \in calls : ~(d[2] = t /\ d[3] = attempts[t] + 1)
  BY <1>3
<1>6. OneExecutorPerAttempt'
  BY <1>2, <1>5 DEF CallsInv, OneExecutorPerAttempt
<1>. QED
  BY <1>4, <1>6 DEF CallsInv

\* Every other step leaves the attempts alone and opens no call.
LEMMA CallsStep ==
  ASSUME QueueTypeOK, CallsInv, [QueueNext]_queueVars
  PROVE  CallsInv'
<1>1. ASSUME UNCHANGED attempts, calls' \subseteq calls PROVE CallsInv'
  BY <1>1 DEF CallsInv, OneExecutorPerAttempt
<1>2. CASE \E s \in Session, t \in Task : SessionClaims(s, t)
  BY <1>2, ClaimKeepsCalls DEF SessionClaims, ClaimNext, Claimant
<1>3. CASE \E e \in Engine, t \in Task : EngineClaims(e, t)
  BY <1>3, ClaimKeepsCalls DEF EngineClaims, EngineClaim, Claimant
<1>4. CASE \E call \in calls, o \in Outcome : Reports(call, o)
  BY <1>1, <1>4 DEF Reports, Finish, Release
<1>5. CASE \E call \in calls : Vanishes(call)
  BY <1>1, <1>5 DEF Vanishes, storeVars, taskVars
<1>6. CASE StoreStep /\ UNCHANGED calls
  BY <1>1, <1>6 DEF StoreStep, Submit, Insert, BecomeDue, RecoverWorker, RecoverInterrupted,
                    RecoverRows, Release
<1>7. CASE RegistryMoves /\ UNCHANGED calls
  BY <1>1, <1>7 DEF RegistryMoves, RegistryStep, taskVars
<1>8. CASE UNCHANGED queueVars
  BY <1>1, <1>8 DEF queueVars, storeVars, taskVars
<1>. QED
  BY <1>2, <1>3, <1>4, <1>5, <1>6, <1>7, <1>8 DEF QueueNext

\* One attempt of a task is never handed to two executors.
THEOREM OneExecutorAlways == QueueSpec => []OneExecutorPerAttempt
<1>1. QueueInit => CallsInv
  BY DEF QueueInit, CallsInv, OneExecutorPerAttempt
<1>2. CallsInv => OneExecutorPerAttempt
  BY DEF CallsInv
<1>. QED
  BY <1>1, <1>2, CallsStep, QueueTyping, PTL DEF QueueSpec

----------------------------------------------------------------------------
(* The store implements the life of a task.                                 *)

\* A row that leaves RUNNING ends, or is retried within its budget.
LEMMA ReleaseRefines ==
  ASSUME StoreTypeOK, BooksOK, NEW S \in SUBSET Task,
         \A t \in S : status[t] = "RUNNING",
         NEW f \in [S -> {"SUCCESS", "FAILED", "RETRYING"}],
         \A t \in S : f[t] = "RETRYING" => retries[t] < limit[t],
         Release(S, f)
  PROVE  Lifecycle!Next
<1>. SUFFICES ASSUME NEW t \in Task PROVE Lifecycle!Step(t) \/ Lifecycle!Stays(t)
  BY DEF Lifecycle!Next
<1>. USE DEF Release, StoreTypeOK, TaskTypeOK, Lifecycle!Keeps, Lifecycle!Moves
<1>1. CASE t \notin S
  BY <1>1 DEF Lifecycle!Stays
<1>2. CASE t \in S /\ f[t] = "RETRYING"
  <2>1. retries'[t] = retries[t] + 1 /\ status'[t] = "RETRYING" /\ limit' = limit
    BY <1>2
  <2>2. Lifecycle!Retry(t)
    BY <1>2, <2>1 DEF Lifecycle!Retry
  <2>. QED
    BY <2>2 DEF Lifecycle!Step
<1>3. CASE t \in S /\ f[t] \in {"SUCCESS", "FAILED"}
  BY <1>3 DEF Lifecycle!Step, Lifecycle!End
<1>. QED
  BY <1>1, <1>2, <1>3

\* A claim without refusals starts one task and leaves the others.
LEMMA ClaimRefines ==
  ASSUME StoreTypeOK, BooksOK, NEW c, NEW t \in Task, NEW refused \in SUBSET Llm,
         \A u \in refused : Dispatchable(u), ClaimRow(c, t, refused)
  PROVE  Lifecycle!Next
<1>1. refused = {}
  BY TaskAssumption DEF BooksOK, Dispatchable, Waiting
<1>. SUFFICES ASSUME NEW u \in Task PROVE Lifecycle!Step(u) \/ Lifecycle!Stays(u)
  BY DEF Lifecycle!Next
<1>2. Lifecycle!Keeps(u)
  BY DEF ClaimRow, Lifecycle!Keeps
<1>3. CASE u = t
  <2>1. Lifecycle!Start(u)
    BY <1>2, <1>3 DEF ClaimRow, Dispatchable, Waiting, StoreTypeOK, TaskTypeOK,
                      Lifecycle!Start, Lifecycle!Moves
  <2>. QED
    BY <2>1 DEF Lifecycle!Step
<1>4. CASE u # t
  BY <1>1, <1>2, <1>4 DEF ClaimRow, StoreTypeOK, TaskTypeOK, Lifecycle!Stays
<1>. QED
  BY <1>3, <1>4

\* Every step of the store is a step of the abstract life, or none.
LEMMA QueueRefines ==
  ASSUME QueueTypeOK, BooksOK, [QueueNext]_queueVars
  PROVE  [Lifecycle!Next]_(Lifecycle!vars)
<1>. USE DEF QueueTypeOK
<1>1. ASSUME UNCHANGED <<status, retries, limit>> PROVE UNCHANGED Lifecycle!vars
  BY <1>1 DEF Lifecycle!vars
<1>2. ASSUME NEW s \in Session, NEW t \in Task, SessionClaims(s, t) PROVE Lifecycle!Next
  <2>. DEFINE refused == {u \in Candidates(s) : OutOfBudget(u) /\ Precedes(u, t)}
  <2>1. refused \in SUBSET Llm /\ \A u \in refused : Dispatchable(u)
    BY DEF OutOfBudget, Candidates
  <2>2. ClaimRow(s, t, refused)
    BY <1>2 DEF SessionClaims, ClaimNext
  <2>. HIDE DEF refused
  <2>. QED
    BY <2>1, <2>2, ClaimRefines
<1>3. ASSUME NEW e \in Engine, NEW t \in Task, EngineClaims(e, t) PROVE Lifecycle!Next
  BY <1>3, ClaimRefines DEF EngineClaims, EngineClaim
<1>4. ASSUME NEW call \in calls, NEW o \in Outcome, Reports(call, o) PROVE Lifecycle!Next
  <2>. DEFINE t == call[2]
              f == [u \in {t} |-> FinishedStatus(u, o)]
  <2>1. t \in Task /\ status[t] = "RUNNING" /\ Release({t}, f)
    BY <1>4 DEF Reports, Finish, MayFinish
  <2>2. f \in [{t} -> {"SUCCESS", "FAILED", "RETRYING"}] /\ (f[t] = "RETRYING" => retries[t] < limit[t])
    BY DEF FinishedStatus
  <2>. HIDE DEF t, f
  <2>. QED
    BY <2>1, <2>2, ReleaseRefines
<1>5. ASSUME NEW S \in SUBSET Task, \A t \in S : status[t] = "RUNNING", RecoverRows(S)
      PROVE  Lifecycle!Next
  <2>. DEFINE f == [t \in S |-> RecoveredStatus(t)]
  <2>1. /\ f \in [S -> {"SUCCESS", "FAILED", "RETRYING"}]
        /\ \A t \in S : f[t] = "RETRYING" => retries[t] < limit[t]
    BY DEF RecoveredStatus
  <2>2. Release(S, f)
    BY <1>5 DEF RecoverRows
  <2>. HIDE DEF f
  <2>. QED
    BY <1>5, <2>1, <2>2, ReleaseRefines
<1>6. ASSUME NEW s \in Session, RecoverWorker(s) PROVE Lifecycle!Next
  BY <1>5, <1>6 DEF RecoverWorker, RunningOf
<1>7. ASSUME RecoverInterrupted PROVE Lifecycle!Next
  BY <1>5, <1>7 DEF RecoverInterrupted
<1>8. ASSUME NEW t \in Task, Submit(t) PROVE Lifecycle!Next
  <2>. SUFFICES ASSUME NEW u \in Task PROVE Lifecycle!Step(u) \/ Lifecycle!Stays(u)
    BY DEF Lifecycle!Next
  <2>1. Lifecycle!Keeps(u)
    BY <1>8 DEF Submit, Insert, Lifecycle!Keeps
  <2>2. CASE u = t
    BY <1>8, <2>1, <2>2 DEF Submit, StoreTypeOK, TaskTypeOK, Lifecycle!Step, Lifecycle!Submit,
                            Lifecycle!Moves
  <2>3. CASE u # t
    BY <1>8, <2>1, <2>3 DEF Submit, StoreTypeOK, TaskTypeOK, Lifecycle!Stays
  <2>. QED
    BY <2>2, <2>3
<1>9. ASSUME NEW t \in Task, BecomeDue(t) PROVE UNCHANGED Lifecycle!vars
  BY <1>1, <1>9 DEF BecomeDue
<1>10. ASSUME NEW call \in calls, Vanishes(call) PROVE UNCHANGED Lifecycle!vars
  BY <1>1, <1>10 DEF Vanishes, storeVars, taskVars
<1>11. ASSUME RegistryMoves PROVE UNCHANGED Lifecycle!vars
  BY <1>1, <1>11 DEF RegistryMoves, RegistryStep, taskVars
<1>12. CASE UNCHANGED queueVars
  BY <1>1, <1>12 DEF queueVars, storeVars, taskVars
<1>. QED
  BY <1>2, <1>3, <1>4, <1>6, <1>7, <1>8, <1>9, <1>10, <1>11, <1>12 DEF QueueNext, StoreStep

\* To a caller who sees statuses and retry counters, the store is the
\* abstract life of its tasks.
THEOREM QueueImplementsLifecycle == QueueSpec => ImplementsLifecycle
<1>1. QueueInit => Lifecycle!Init
  BY TaskAssumption DEF QueueInit, StoreInit, Lifecycle!Init
<1>. QED
  BY <1>1, QueueRefines, QueueTyping, BooksAlways, PTL DEF QueueSpec, ImplementsLifecycle, Lifecycle!Spec

----------------------------------------------------------------------------
(* Only a report writes a success, and only the owner's report is accepted. *)

\* The step property: a new success consumes the call that owns the row.
OwnerReported(t) ==
  \E call \in calls \ calls' :
    /\ call = <<owner[t], t, attempts[t]>>
    /\ owner[t] \in Session => state[owner[t]] \in {"ACTIVE", "SUSPECT", "STOPPING"}

\* Recovery and every other step write no success; a report passes the guard.
LEMMA SuccessStep ==
  ASSUME QueueTypeOK, [QueueNext]_queueVars,
         NEW t \in Task, status[t] # "SUCCESS", status'[t] = "SUCCESS"
  PROVE  OwnerReported(t)
<1>. USE DEF QueueTypeOK, StoreTypeOK, TaskTypeOK
<1>1. ASSUME NEW c, NEW u \in Task, NEW refused, ClaimRow(c, u, refused) PROVE FALSE
  BY <1>1 DEF ClaimRow
<1>2. ASSUME NEW S, RecoverRows(S) PROVE FALSE
  BY <1>2 DEF RecoverRows, Release, RecoveredStatus
<1>3. ASSUME UNCHANGED status PROVE FALSE
  BY <1>3
<1>4. CASE \E s \in Session, u \in Task : SessionClaims(s, u)
  BY <1>1, <1>4 DEF SessionClaims, ClaimNext
<1>5. CASE \E e \in Engine, u \in Task : EngineClaims(e, u)
  BY <1>1, <1>5 DEF EngineClaims, EngineClaim
<1>6. ASSUME NEW call \in calls, NEW o \in Outcome, Reports(call, o) PROVE OwnerReported(t)
  <2>1. MayFinish(call[1], call[2], call[3]) /\ call[2] = t
    BY <1>6 DEF Reports, Finish, Release
  <2>2. call = <<owner[t], t, attempts[t]>>
    BY <2>1 DEF MayFinish
  <2>3. call \in calls \ calls'
    BY <1>6 DEF Reports
  <2>. QED
    BY <2>1, <2>2, <2>3 DEF MayFinish, LiveStates, OwnerReported
<1>7. CASE StoreStep
  BY <1>2, <1>3, <1>7 DEF StoreStep, Submit, BecomeDue, RecoverWorker, RecoverInterrupted
<1>8. ASSUME NEW call \in calls, Vanishes(call) PROVE FALSE
  BY <1>3, <1>8 DEF Vanishes, storeVars, taskVars
<1>9. ASSUME RegistryMoves PROVE FALSE
  BY <1>3, <1>9 DEF RegistryMoves, RegistryStep, taskVars
<1>10. CASE UNCHANGED queueVars
  BY <1>3, <1>10 DEF queueVars, storeVars, taskVars
<1>. QED
  BY <1>4, <1>5, <1>6, <1>7, <1>8, <1>9, <1>10 DEF QueueNext

\* A result that is accepted comes from the execution that owns the row now,
\* however late, lost or repeated other reports are.
THEOREM SuccessComesFromTheOwnerAlways == QueueSpec => SuccessComesFromTheOwner
<1>1. QueueTypeOK /\ [QueueNext]_queueVars =>
        [\A t \in Task : status[t] # "SUCCESS" /\ status'[t] = "SUCCESS" =>
           \E call \in calls \ calls' :
             /\ call = <<owner[t], t, attempts[t]>>
             /\ owner[t] \in Session => state[owner[t]] \in {"ACTIVE", "SUSPECT", "STOPPING"}
        ]_queueVars
  BY SuccessStep DEF OwnerReported
<1>. QED
  BY <1>1, QueueTyping, PTL DEF QueueSpec, SuccessComesFromTheOwner

----------------------------------------------------------------------------
(* Engines without a session.                                               *)

EngineMode == {"down", "recovered", "idle", "looping", "executing", "over"}

EngineTypeOK ==
  /\ StoreTypeOK
  /\ mode \in [Engine -> EngineMode]
  /\ job \in [Engine -> (Task \cup {NoTask}) \X Nat]

\* The row of its job is still the engine's own, and a row of the model.
Secure(e) == job[e][1] \in Task /\ MayFinish(e, job[e][1], job[e][2])

EngineInv == EngineTypeOK /\ \A e \in Engine : mode[e] = "executing" => Secure(e)

\* An engine keeps its row as long as its job stays and the rows that run
\* move on without it.
LEMMA StaysSecure ==
  ASSUME NEW e \in Engine, Secure(e), job'[e] = job[e],
         LET t == job[e][1] IN
           status'[t] = status[t] /\ owner'[t] = owner[t] /\ attempts'[t] = attempts[t]
  PROVE  Secure(e)'
BY TaskAssumption DEF Secure, MayFinish

\* Steps of the store that change no row that runs.
LEMMA WaitingRowsOnly ==
  ASSUME EngineInv, NEW e \in Engine, mode[e] = "executing", NEW u \in Task, status[u] # "RUNNING",
         \A t \in Task \ {u} :
           status'[t] = status[t] /\ owner'[t] = owner[t] /\ attempts'[t] = attempts[t],
         job'[e] = job[e]
  PROVE  Secure(e)'
<1>1. Secure(e) /\ job[e][1] # u /\ job[e][1] \in Task
  BY DEF EngineInv, Secure, MayFinish
<1>. QED
  BY <1>1, StaysSecure

\* Every step keeps the tables in shape.
LEMMA EngineTyping ==
  ASSUME EngineInv, EngineNext
  PROVE  EngineTypeOK'
<1>. USE DEF EngineInv, EngineTypeOK, Becomes
<1>1. ASSUME UNCHANGED storeVars PROVE StoreTypeOK'
  BY <1>1 DEF storeVars, registryVars, taskVars, usageVars, journalVars, StoreTypeOK,
              RegistryTypeOK, TaskTypeOK, JournalTypeOK
<1>2. NoJob \in (Task \cup {NoTask}) \X Nat
  BY DEF NoJob
<1>3. ASSUME NEW e \in Engine, Boot(e) \/ Start(e) \/ EndsRun(e) \/ Crash(e) PROVE EngineTypeOK'
  BY <1>1, <1>2, <1>3 DEF Boot, Start, EndsRun, Crash, EngineMode
<1>4. ASSUME NEW e \in Engine, NEW t \in Task, ClaimsCopy(e, t) PROVE EngineTypeOK'
  <2>1. StoreTypeOK'
    BY <1>4, ClaimTyping DEF ClaimsCopy, EngineClaim, Claimant
  <2>2. NextAttempt(t) \in Nat
    BY DEF NextAttempt, StoreTypeOK, TaskTypeOK
  <2>. QED
    BY <1>4, <2>1, <2>2 DEF ClaimsCopy, EngineMode
<1>5. ASSUME NEW e \in Engine, NEW t \in Task, DropsCopy(e, t) \/ SubmitAgain(e, t) PROVE EngineTypeOK'
  BY <1>1, <1>5 DEF DropsCopy, SubmitAgain
<1>6. ASSUME NEW e \in Engine, NEW o \in Outcome, Completes(e, o) PROVE EngineTypeOK'
  <2>1. job[e][1] \in Task /\ Finish(e, job[e][1], job[e][2], o)
    BY <1>6 DEF Completes, Secure
  <2>2. StoreTypeOK'
    BY <2>1, FinishTyping
  <2>. QED
    BY <1>2, <1>6, <2>2 DEF Completes, EngineMode
<1>7. ASSUME NEW e \in Engine, RecoveringBoot(e) PROVE EngineTypeOK'
  BY <1>7, RecoverTyping DEF RecoveringBoot, RecoverInterrupted, EngineMode
<1>8. ASSUME NEW e \in Engine, NEW t \in Task, SubmitNew(e, t) PROVE EngineTypeOK'
  BY <1>8, SubmitTyping DEF SubmitNew
<1>9. CASE TimePasses
  BY <1>9, BecomeDueTyping DEF TimePasses, localVars
<1>. QED
  BY <1>3, <1>4, <1>5, <1>6, <1>7, <1>8, <1>9 DEF EngineNext, EngineStep

\* Every step keeps the rows with the engines that execute them.
LEMMA EngineStepKeeps ==
  ASSUME EngineInv, EngineNext, NEW d \in Engine, mode'[d] = "executing"
  PROVE  Secure(d)'
<1>. USE DEF EngineInv, EngineTypeOK, Becomes
<1>1. ASSUME UNCHANGED storeVars, mode[d] = "executing", job'[d] = job[d] PROVE Secure(d)'
  BY <1>1, StaysSecure DEF storeVars, taskVars
<1>2. ASSUME NEW e \in Engine, Boot(e) \/ Start(e) \/ EndsRun(e) \/ Crash(e) PROVE Secure(d)'
  <2>1. e # d
    BY <1>2 DEF Boot, Start, EndsRun, Crash
  <2>. QED
    BY <1>1, <1>2, <2>1 DEF Boot, Start, EndsRun, Crash
<1>3. ASSUME NEW e \in Engine, NEW t \in Task, ClaimsCopy(e, t) PROVE Secure(d)'
  <2>1. ClaimRow(e, t, {}) /\ mode[e] = "looping" /\ job' = [job EXCEPT ![e] = <<t, NextAttempt(t)>>]
    BY <1>3 DEF ClaimsCopy, EngineClaim
  <2>2. /\ status' = [status EXCEPT ![t] = "RUNNING"] /\ owner' = [owner EXCEPT ![t] = e]
        /\ attempts' = [attempts EXCEPT ![t] = NextAttempt(t)] /\ status[t] # "RUNNING"
    BY <2>1 DEF ClaimRow, Dispatchable, Waiting, StoreTypeOK, TaskTypeOK
  <2>3. CASE d = e
    <3>1. job'[e] = <<t, NextAttempt(t)>>
      BY <2>1
    <3>2. status'[t] = "RUNNING" /\ owner'[t] = e /\ attempts'[t] = NextAttempt(t)
      BY <2>2 DEF StoreTypeOK, TaskTypeOK
    <3>3. e \notin Session
      BY TaskAssumption
    <3>. QED
      BY <2>3, <3>1, <3>2, <3>3 DEF Secure, MayFinish
  <2>4. CASE d # e
    <3>1. mode[d] = "executing" /\ job'[d] = job[d]
      BY <1>3, <2>1, <2>4 DEF ClaimsCopy
    <3>2. \A u \in Task \ {t} : status'[u] = status[u] /\ owner'[u] = owner[u] /\ attempts'[u] = attempts[u]
      BY <2>2 DEF StoreTypeOK, TaskTypeOK
    <3>. QED
      BY <2>2, <3>1, <3>2, WaitingRowsOnly
  <2>. QED
    BY <2>3, <2>4
<1>4. ASSUME NEW e \in Engine, NEW t \in Task, DropsCopy(e, t) \/ SubmitAgain(e, t) PROVE Secure(d)'
  BY <1>1, <1>4 DEF DropsCopy, SubmitAgain
<1>5. ASSUME NEW e \in Engine, NEW o \in Outcome, Completes(e, o) PROVE Secure(d)'
  <2>. DEFINE t == job[e][1]
  <2>1. /\ mode[e] = "executing" /\ d # e /\ mode[d] = "executing" /\ job'[d] = job[d]
        /\ Finish(e, t, job[e][2], o)
    BY <1>5 DEF Completes
  <2>2. Secure(d) /\ job[d][1] # t
    BY <2>1 DEF Finish, MayFinish, Secure
  <2>3. LET u == job[d][1] IN
          status'[u] = status[u] /\ owner'[u] = owner[u] /\ attempts'[u] = attempts[u]
    BY <2>1, <2>2 DEF Finish, Release, Secure
  <2>. QED
    BY <2>1, <2>2, <2>3, StaysSecure
<1>6. ASSUME NEW e \in Engine, RecoveringBoot(e) PROVE FALSE
  BY <1>6 DEF RecoveringBoot, AllStopped
<1>7. ASSUME NEW e \in Engine, NEW t \in Task, SubmitNew(e, t) PROVE Secure(d)'
  BY <1>7, WaitingRowsOnly DEF SubmitNew, Submit, Insert, StoreTypeOK, TaskTypeOK
<1>8. CASE TimePasses
  BY <1>8, StaysSecure DEF TimePasses, BecomeDue, localVars
<1>. QED
  BY <1>2, <1>3, <1>4, <1>5, <1>6, <1>7, <1>8 DEF EngineNext, EngineStep

\* It holds from the start.
LEMMA EngineInvariance == EngineSpec => []EngineInv
<1>1. EngineInit => EngineInv
  BY StoreInitTyping DEF EngineInit, EngineInv, EngineTypeOK, EngineMode, NoJob
<1>2. EngineInv /\ [EngineNext]_engineVars => EngineInv'
  <2>1. ASSUME EngineInv, EngineNext PROVE EngineInv'
    BY <2>1, EngineTyping, EngineStepKeeps DEF EngineInv
  <2>2. ASSUME EngineInv, UNCHANGED engineVars PROVE EngineInv'
    BY <2>2
    DEF EngineInv, EngineTypeOK, Secure, MayFinish, engineVars, localVars, storeVars, registryVars, taskVars,
        usageVars, journalVars, StoreTypeOK, RegistryTypeOK, TaskTypeOK, JournalTypeOK
  <2>. QED
    BY <2>1, <2>2
<1>. QED
  BY <1>1, <1>2, PTL DEF EngineSpec

\* No two engines execute one task and no result is refused, however stale
\* the copies in the local queues are (persistence.py, claim and finish;
\* taskengine.py).
THEOREM OwnsWhatItRunsAlways == EngineSpec => []OwnsWhatItRuns
<1>1. EngineInv => OwnsWhatItRuns
  BY DEF EngineInv, Secure, OwnsWhatItRuns
<1>. QED
  BY <1>1, EngineInvariance, PTL
=============================================================================
