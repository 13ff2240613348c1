---------------------------- MODULE DurableQueue ----------------------------
(***************************************************************************)
(* The store under clients that keep no discipline at all: sessions and    *)
(* engines claim, their results arrive late, never, or after the row was   *)
(* taken over; sessions are fenced and declared stopped while their calls  *)
(* still run; recovery is called whenever the store lets it.  What holds   *)
(* here holds by the store's transactions alone, not by anybody's trust.   *)
(***************************************************************************)
EXTENDS TaskStore

VARIABLE calls   \* executions <<claimant, task, attempt>> that may report

queueVars == <<storeVars, calls>>

QueueTypeOK == StoreTypeOK /\ calls \subseteq Claimant \X Task \X Nat

QueueInit == StoreInit /\ calls = {}

NewCall(c, t) == calls' = calls \cup {<<c, t, NextAttempt(t)>>}

SessionClaims(s, t) == ClaimNext(s, t) /\ NewCall(s, t)
EngineClaims(e, t) == EngineClaim(e, t) /\ NewCall(e, t)

Reports(call, o) ==
  /\ Finish(call[1], call[2], call[3], o)
  /\ calls' = calls \ {call}

\* The execution never reports, or its report is refused.
Vanishes(call) == calls' = calls \ {call} /\ UNCHANGED storeVars

StoreStep ==
  \/ \E t \in Task : Submit(t) \/ BecomeDue(t)
  \/ \E s \in Session : RecoverWorker(s)
  \/ RecoverInterrupted

RegistryMoves == RegistryStep(RegistryNext)

QueueNext ==
  \/ \E s \in Session, t \in Task : SessionClaims(s, t)
  \/ \E e \in Engine, t \in Task : EngineClaims(e, t)
  \/ \E call \in calls, o \in Outcome : Reports(call, o)
  \/ \E call \in calls : Vanishes(call)
  \/ StoreStep /\ UNCHANGED calls
  \/ RegistryMoves /\ UNCHANGED calls

QueueSpec == QueueInit /\ [][QueueNext]_queueVars

----------------------------------------------------------------------------
(* Properties *)

\* attempt_count and retry_count tell the same story: every execution but
\* the first was granted by exactly one retry, whether the retry followed a
\* failure that was reported or an interruption that was recovered.
AttemptAccounting ==
  \A t \in Task :
    attempts[t] = retries[t] + (IF status[t] \in {"ABSENT"} \cup Waiting THEN 0 ELSE 1)

\* No task is executed more often than its retry budget allows.
WithinBudget == \A t \in Task : retries[t] <= limit[t] /\ attempts[t] <= limit[t] + 1

\* One attempt of a task is never handed to two executors.
OneExecutorPerAttempt ==
  \A c1, c2 \in calls : c1[2] = c2[2] /\ c1[3] = c2[3] => c1 = c2

\* A result that is accepted comes from the execution that owns the row now:
\* a SUCCESS is only written by the outstanding call of the current owner's
\* current attempt, whose session is not fenced; the reports of executions
\* whose row was taken over are refused.
SuccessComesFromTheOwner ==
  [][\A t \in Task :
       status[t] # "SUCCESS" /\ status'[t] = "SUCCESS" =>
         \E call \in calls \ calls' :
           /\ call = <<owner[t], t, attempts[t]>>
           /\ owner[t] \in Session => state[owner[t]] \in {"ACTIVE", "SUSPECT", "STOPPING"}
    ]_queueVars

\* The store implements the abstract life of a task.
Lifecycle == INSTANCE TaskLifecycle
  WITH phase <- status, spent <- retries, budget <- limit, Operators <- FALSE

ImplementsLifecycle == Lifecycle!Spec
=============================================================================
