--------------------------- MODULE ReliableWorker ---------------------------
(***************************************************************************)
(* reliable_worker.py: consumer processes of the shared durable queue.     *)
(* Each incarnation (one session) runs two threads, the consumer loop      *)
(* (_run, _consume) and the heartbeat loop (_heartbeats), over the shared  *)
(* store.  Other actors interleave with them: overdue detection by any     *)
(* process, an operator who stops or fences sessions, and a supervisor who *)
(* attests that a fenced or draining process has really exited.            *)
(*                                                                         *)
(* Every call to the store is one transaction.  A call may also fail on    *)
(* its way (lock timeout, lost connection), before or after it committed.  *)
(***************************************************************************)
EXTENDS TaskStore

VARIABLES
  pc,        \* where the consumer thread is
  beating,   \* the heartbeat thread is alive
  stopSet,   \* the local _stop event
  job        \* the claimed <<task, attempt>> in the consumer's hands

workerVars == <<pc, beating, stopSet, job>>
vars == <<storeVars, workerVars>>

NoJob == <<>>

\* "call": the business callable is running, also past its soft timeout
\* (_invoke waits for it); "join" ... "confirm": the finally block of _run.
Working == {"poll", "claim", "call", "commit"}
Draining == {"join", "request", "confirm"}
Gone == {"exited", "dead"}
Control == {"new"} \cup Working \cup Draining \cup Gone

WorkerTypeOK ==
  /\ pc \in [Session -> Control]
  /\ beating \in [Session -> BOOLEAN]
  /\ stopSet \in [Session -> BOOLEAN]
  /\ job \in [Session -> (Task \X Nat) \cup {NoJob}]

TypeOK == StoreTypeOK /\ WorkerTypeOK

Init ==
  /\ StoreInit
  /\ pc = [s \in Session |-> "new"]
  /\ beating = [s \in Session |-> FALSE]
  /\ stopSet = [s \in Session |-> FALSE]
  /\ job = [s \in Session |-> NoJob]

Goto(s, place) == pc' = [pc EXCEPT ![s] = place]

----------------------------------------------------------------------------
(* start *)

Start(s) ==
  /\ pc[s] = "new" /\ RegistryStep(Register(s))
  /\ Goto(s, "poll")
  /\ beating' = [beating EXCEPT ![s] = TRUE]
  /\ UNCHANGED <<stopSet, job>>

\* A thread cannot be started: nothing ran, the session is drained at once.
\* The heartbeat thread may have been started before the consumer failed to.
StartFails(s) ==
  /\ pc[s] = "new" /\ RegistryStep(Register(s))
  /\ Goto(s, "request")
  /\ \E b \in BOOLEAN : beating' = [beating EXCEPT ![s] = b]
  /\ stopSet' = [stopSet EXCEPT ![s] = TRUE]
  /\ UNCHANGED job

----------------------------------------------------------------------------
(* The heartbeat thread *)

Beat(s) == beating[s] /\ RegistryStep(Heartbeat(s)) /\ UNCHANGED workerVars

\* Refused or failed: stop consuming, and stop beating.
BeatFails(s) ==
  /\ beating[s]
  /\ beating' = [beating EXCEPT ![s] = FALSE]
  /\ stopSet' = [stopSet EXCEPT ![s] = TRUE]
  /\ UNCHANGED <<storeVars, pc, job>>

\* Mutant: the finally block does not set _heartbeat_stop before it joins.
HeartbeatNeverStopped(s) == pc[s] \in Gone

\* _heartbeat_stop is set as soon as the consumer leaves its loop.
HeartbeatStop(s) == pc[s] \notin Working

BeatEnds(s) ==
  /\ beating[s] /\ HeartbeatStop(s)
  /\ beating' = [beating EXCEPT ![s] = FALSE]
  /\ UNCHANGED <<storeVars, pc, stopSet, job>>

----------------------------------------------------------------------------
(* The consumer thread *)

\* Leaving the loop, for whatever reason, sets _stop.
LeaveLoop(s) ==
  /\ Goto(s, "join")
  /\ stopSet' = [stopSet EXCEPT ![s] = TRUE]
  /\ job' = [job EXCEPT ![s] = NoJob]
  /\ UNCHANGED beating

\* while not self._stop.is_set()
LoopTop(s) ==
  /\ pc[s] = "poll"
  /\ \/ ~stopSet[s] /\ Goto(s, "claim") /\ UNCHANGED <<beating, stopSet, job>>
     \/ stopSet[s] /\ LeaveLoop(s)
  /\ UNCHANGED storeVars

Claims(s) ==
  /\ pc[s] = "claim"
  /\ \E t \in Task :
       /\ ClaimNext(s, t)
       /\ job' = [job EXCEPT ![s] = <<t, NextAttempt(t)>>]
  /\ Goto(s, "call")
  /\ UNCHANGED <<beating, stopSet>>

NotReady(s) == IsCurrent(s) /\ (state[s] = "SUSPECT" \/ (state[s] = "ACTIVE" /\ Overdue(s)))

\* No task, or WorkerNotReady: poll again.
ClaimsNothing(s) ==
  /\ pc[s] = "claim"
  /\ ClaimNone(s) \/ (NotReady(s) /\ UNCHANGED storeVars)
  /\ Goto(s, "poll")
  /\ UNCHANGED <<beating, stopSet, job>>

\* WorkerStopRequested or WorkerSessionMismatch.
ClaimRefused(s) ==
  /\ pc[s] = "claim" /\ ~Claimable(s) /\ ~NotReady(s)
  /\ LeaveLoop(s)
  /\ UNCHANGED storeVars

\* The call fails, and perhaps only its answer was lost: then the row is
\* RUNNING for an owner that nobody knows.
ClaimBreaks(s) ==
  /\ pc[s] = "claim"
  /\ LeaveLoop(s)
  /\ UNCHANGED storeVars \/ ClaimNone(s) \/ \E t \in Task : ClaimNext(s, t)

\* The business callable returns or raises.
Returns(s) ==
  /\ pc[s] = "call"
  /\ Goto(s, "commit")
  /\ UNCHANGED <<storeVars, beating, stopSet, job>>

Commits(s) ==
  /\ pc[s] = "commit"
  /\ \E o \in Outcome : Finish(s, job[s][1], job[s][2], o)
  /\ Goto(s, "poll")
  /\ job' = [job EXCEPT ![s] = NoJob]
  /\ UNCHANGED <<beating, stopSet>>

\* StaleExecutionError
CommitRefused(s) ==
  /\ pc[s] = "commit" /\ ~MayFinish(s, job[s][1], job[s][2])
  /\ LeaveLoop(s)
  /\ UNCHANGED storeVars

CommitBreaks(s) ==
  /\ pc[s] = "commit"
  /\ LeaveLoop(s)
  /\ UNCHANGED storeVars \/ \E o \in Outcome : Finish(s, job[s][1], job[s][2], o)

----------------------------------------------------------------------------
(* The finally block of _run: join the heartbeat, then two transactions *)

Joins(s) ==
  /\ pc[s] = "join" /\ ~beating[s]
  /\ Goto(s, "request")
  /\ UNCHANGED <<storeVars, beating, stopSet, job>>

RequestsDrain(s) ==
  /\ pc[s] = "request"
  /\ \/ RegistryStep(RequestStop(s)) /\ Goto(s, "confirm")
     \/ /\ IsCurrent(s) /\ state[s] \notin {"ACTIVE", "SUSPECT"}
        /\ Goto(s, "confirm") /\ UNCHANGED storeVars
     \/ Goto(s, "exited") /\ UNCHANGED storeVars     \* raised
  /\ UNCHANGED <<beating, stopSet, job>>

ConfirmsDrain(s) ==
  /\ pc[s] = "confirm"
  /\ \/ RegistryStep(ConfirmStopped(s))
     \/ UNCHANGED storeVars                          \* raised, or STOPPED
  /\ Goto(s, "exited")
  /\ UNCHANGED <<beating, stopSet, job>>

\* The process dies, in any place.
Crash(s) ==
  /\ pc[s] \in Working \cup Draining
  /\ Goto(s, "dead")
  /\ beating' = [beating EXCEPT ![s] = FALSE]
  /\ job' = [job EXCEPT ![s] = NoJob]
  /\ UNCHANGED <<storeVars, stopSet>>

ConsumerStep(s) ==
  \/ LoopTop(s) \/ Claims(s) \/ ClaimsNothing(s) \/ ClaimRefused(s) \/ ClaimBreaks(s)
  \/ Returns(s) \/ Commits(s) \/ CommitRefused(s) \/ CommitBreaks(s)
  \/ Joins(s) \/ RequestsDrain(s) \/ ConfirmsDrain(s)

HeartbeatStep(s) == Beat(s) \/ BeatFails(s) \/ BeatEnds(s)

WorkerStep(s) == Start(s) \/ StartFails(s) \/ HeartbeatStep(s) \/ ConsumerStep(s) \/ Crash(s)

----------------------------------------------------------------------------
(* Operators and supervisors *)

\* stop(): the local event first ...
StopLocally(s) ==
  /\ pc[s] \in Working
  /\ stopSet' = [stopSet EXCEPT ![s] = TRUE]
  /\ UNCHANGED <<storeVars, pc, beating, job>>

\* ... then request_stop, which anybody who knows the session may call too.
RequestsStop(s) == RegistryStep(RequestStop(s)) /\ UNCHANGED workerVars

StopsSession(s) == RegistryStep(Stop(s, HasRunning(s))) /\ UNCHANGED workerVars

Fences(s) == RegistryStep(Fence(s)) /\ UNCHANGED workerVars

\* Mutant: exit is attested while the process is still draining its call.
AttestsEarly(s) == pc[s] \in Working \cup Draining \cup Gone

\* Trusted evidence: the process or the runtime has really ended.
ExitEvidence(s) == pc[s] \in Gone

AttestsExit(s) ==
  /\ ExitEvidence(s)
  /\ RegistryStep(ConfirmStopped(s))
  /\ UNCHANGED workerVars

DetectsOverdue == RegistryStep(DetectOverdue) /\ UNCHANGED workerVars

Recovers(s) == RecoverWorker(s) /\ UNCHANGED workerVars

Submits(t) == Submit(t) /\ UNCHANGED workerVars

TimePasses ==
  /\ \/ \E s \in Session : RegistryStep(Expire(s))
     \/ \E t \in Task : BecomeDue(t)
  /\ UNCHANGED workerVars

SupervisorStep(s) ==
  \/ StopLocally(s) \/ RequestsStop(s) \/ StopsSession(s) \/ Fences(s)
  \/ AttestsExit(s) \/ Recovers(s)

Next ==
  \/ \E s \in Session : WorkerStep(s) \/ SupervisorStep(s)
  \/ \E t \in Task : Submits(t)
  \/ DetectsOverdue
  \/ TimePasses

Spec == Init /\ [][Next]_vars

----------------------------------------------------------------------------
(* Properties *)

Live(s) == pc[s] \in {"call", "commit"}

\* The row is RUNNING this very attempt for this very session, and the
\* session has not been declared stopped.
OwnsItsAttempt(s) ==
  /\ job[s] # NoJob
  /\ LET t == job[s][1] IN
       status[t] = "RUNNING" /\ owner[t] = s /\ attempts[t] = job[s][2]
  /\ state[s] \notin {"NEW", "STOPPED"}

\* An invocation that is running, or whose result is not yet committed,
\* still owns its row.  So neither suspicion nor fencing nor recovery ever
\* takes a live attempt away (worker_registry.py, the staged protocol;
\* persistence.py, recover_worker).
CallOwnsItsAttempt == \A s \in Session : Live(s) => OwnsItsAttempt(s)

\* No two invocations of one task ever run at the same time, although rows
\* are taken over after crashes, fencing and lost answers.
NoOverlap ==
  \A s1, s2 \in Session :
    pc[s1] = "call" /\ pc[s2] = "call" /\ job[s1][1] = job[s2][1] => s1 = s2

\* A session that stopped consuming for a local reason reaches the end of
\* its drain: the consumer, the heartbeat thread it joins and the two
\* closing transactions never wait for each other forever.
DrainEnds == \A s \in Session : stopSet[s] ~> (pc[s] \in Gone)
=============================================================================
