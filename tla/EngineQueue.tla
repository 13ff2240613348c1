---------------------------- MODULE EngineQueue ----------------------------
(***************************************************************************)
(* Engines without a registered session that share one database            *)
(* (taskengine.py with database_path).  Each engine has a local queue with *)
(* copies of the rows as it last read them; the claim of a copy compares   *)
(* it with the row.  An engine runs once: whoever serves the database      *)
(* afterwards builds another one, which here takes the same name.  Engines *)
(* crash; a task that was executed meanwhile is recovered when an engine   *)
(* is built with recover_interrupted=True, which an operator does only     *)
(* while no engine executes.                                               *)
(***************************************************************************)
EXTENDS TaskStore, Sequences

CONSTANTS
  NoTask,
  MaxCrashes   \* bound on the crashes of engines

ASSUME EngineAssumption == NoTask \notin Task /\ MaxCrashes \in Nat

VARIABLES
  mode,    \* of an engine: "down", "recovered", "idle" (built, not started),
           \* "looping", "executing", or "over" once it has run
  copy,    \* the version of a task in the local queue, or NoCopy
  job,     \* the <<task, attempt>> an engine executes
  crashes

localVars == <<mode, copy, job, crashes>>
engineVars == <<storeVars, localVars>>

NoCopy == <<>>
NoJob == <<NoTask, 0>>

EngineInit ==
  /\ StoreInit
  /\ mode = [e \in Engine |-> "down"]
  /\ copy = [e \in Engine |-> [t \in Task |-> NoCopy]]
  /\ job = [e \in Engine |-> NoJob]
  /\ crashes = 0

Version(t) == <<status[t], attempts[t], retries[t]>>

\* Mutant: an engine that is built leaves scheduled retries to others.
OnlyNew(t) == status[t] = "PENDING" /\ t \notin blocked /\ ClaimGuard(t)

\* pending()
Pending(t) == status[t] \in Waiting /\ t \notin blocked /\ ClaimGuard(t)

Fresh == [t \in Task |-> IF Pending(t) THEN Version(t) ELSE NoCopy]

Becomes(e, m) == mode' = [mode EXCEPT ![e] = m]
Queues(e, t, v) == copy' = [copy EXCEPT ![e][t] = v]

----------------------------------------------------------------------------
(* Construction *)

\* A new engine, after a crash, a recovery, or the only run of the last one.
Boot(e) ==
  /\ mode[e] \in {"down", "recovered", "over"}
  /\ Becomes(e, "idle")
  /\ copy' = [copy EXCEPT ![e] = Fresh]
  /\ UNCHANGED <<storeVars, job, crashes>>

\* Mutant: an engine is built with recover_interrupted while others execute.
WheneverIdle(e) == mode[e] \in {"down", "idle", "over"}

\* The operator's promise: "Call ONLY after all previous workers using this
\* database have stopped".
AllStopped(e) == \A d \in Engine : mode[d] \notin {"looping", "executing"}

\* A new engine takes the place of one that is down or does nothing.
RecoveringBoot(e) ==
  /\ AllStopped(e)
  /\ RecoverInterrupted
  /\ Becomes(e, "recovered")
  /\ UNCHANGED <<copy, job, crashes>>

Crash(e) ==
  /\ mode[e] # "down" /\ crashes < MaxCrashes
  /\ Becomes(e, "down")
  /\ copy' = [copy EXCEPT ![e] = [t \in Task |-> NoCopy]]
  /\ job' = [job EXCEPT ![e] = NoJob]
  /\ crashes' = crashes + 1
  /\ UNCHANGED <<storeVars>>

----------------------------------------------------------------------------
(* submit and start *)

SubmitNew(e, t) ==
  /\ mode[e] # "down"
  /\ Submit(t)
  /\ Queues(e, t, <<"PENDING", 0, 0>>)
  /\ UNCHANGED <<mode, job, crashes>>

\* The same definition again: the row as it is, unless a copy is queued.
SubmitAgain(e, t) ==
  /\ mode[e] # "down" /\ copy[e][t] = NoCopy
  /\ Pending(t)
  /\ Queues(e, t, Version(t))
  /\ UNCHANGED <<storeVars, mode, job, crashes>>

\* start, of an engine that was not started before: of another one Worker._begin_run
\* raises RuntimeError.  A driver calls it when there is work.
Start(e) ==
  /\ mode[e] = "idle" /\ \E t \in Task : Pending(t)
  /\ Becomes(e, "looping")
  /\ copy' = [copy EXCEPT ![e] = Fresh]
  /\ UNCHANGED <<storeVars, job, crashes>>

----------------------------------------------------------------------------
(* Worker.process_next with a PersistentExecutor *)

\* The delay that a copy was queued with is over: for a copy of the row as it
\* is now, when the row is due.
Ready(e, t) == copy[e][t] # NoCopy /\ (copy[e][t] = Version(t) => due[t])

\* The head of the local queue, by priority; how the queue orders equal
\* priorities is left open.
FirstReady(e, t) == Ready(e, t) /\ \A u \in Task : Ready(e, u) => Priority[u] <= Priority[t]

\* The row is still in the state of which the engine has a copy.
Matches(e, t) == copy[e][t] = Version(t)

ClaimsCopy(e, t) ==
  /\ mode[e] = "looping" /\ FirstReady(e, t) /\ Matches(e, t)
  /\ EngineClaim(e, t)
  /\ job' = [job EXCEPT ![e] = <<t, NextAttempt(t)>>]
  /\ Becomes(e, "executing") /\ Queues(e, t, NoCopy)
  /\ UNCHANGED crashes

\* The claim finds no such row: the copy is dropped, whatever the row is now.
DropsCopy(e, t) ==
  /\ mode[e] = "looping" /\ FirstReady(e, t)
  /\ ~(Matches(e, t) /\ Dispatchable(t))
  /\ Queues(e, t, NoCopy)
  /\ UNCHANGED <<storeVars, mode, job, crashes>>

\* Only the engine whose attempt failed queues the retry.
RetryCopy(e, t) == IF status'[t] = "RETRYING" /\ copy[e][t] = NoCopy
                   THEN <<"RETRYING", attempts[t], retries'[t]>> ELSE copy[e][t]

Completes(e, o) ==
  LET t == job[e][1] IN
  /\ mode[e] = "executing"
  /\ Finish(e, t, job[e][2], o)
  /\ job' = [job EXCEPT ![e] = NoJob]
  /\ Becomes(e, "looping") /\ Queues(e, t, RetryCopy(e, t))
  /\ UNCHANGED crashes

QueueEmpty(e) == \A t \in Task : copy[e][t] = NoCopy

\* run returns and _finish_run stops the worker for good.
EndsRun(e) ==
  /\ mode[e] = "looping" /\ QueueEmpty(e)
  /\ Becomes(e, "over")
  /\ UNCHANGED <<storeVars, copy, job, crashes>>

----------------------------------------------------------------------------

EngineStep(e) ==
  \/ Boot(e) \/ Start(e) \/ EndsRun(e)
  \/ \E t \in Task : ClaimsCopy(e, t) \/ DropsCopy(e, t)
  \/ \E o \in Outcome : Completes(e, o)

TimePasses == \E t \in Task : BecomeDue(t) /\ UNCHANGED localVars

EngineNext ==
  \/ \E e \in Engine : EngineStep(e) \/ RecoveringBoot(e) \/ Crash(e)
  \/ \E e \in Engine, t \in Task : SubmitNew(e, t) \/ SubmitAgain(e, t)
  \/ TimePasses

\* Engines go on.  Of the driver: one that crashed or has run is followed by a new
\* engine, which is started when there is work.  Of the operator: one of the
\* engines built while all have stopped recovers.
EngineFairness ==
  /\ \A e \in Engine : WF_engineVars(EngineStep(e)) /\ WF_engineVars(RecoveringBoot(e))
  /\ WF_engineVars(TimePasses)

EngineSpec == EngineInit /\ [][EngineNext]_engineVars /\ EngineFairness

----------------------------------------------------------------------------
(* Properties *)

\* Whatever stale copies the engines hold, an engine that executes a task owns
\* the row and its attempt: no two engines execute the same task, and no
\* result is refused.
OwnsWhatItRuns ==
  \A e \in Engine : mode[e] = "executing" => MayFinish(e, job[e][1], job[e][2])

\* Every task that was submitted is finished, though engines drop copies,
\* crash before they queue a retry, and leave interrupted rows behind.
TasksEnd == \A t \in Task : status[t] # "ABSENT" ~> status[t] \in Finished
=============================================================================
