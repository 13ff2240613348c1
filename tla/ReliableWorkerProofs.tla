------------------------ MODULE ReliableWorkerProofs ------------------------
(***************************************************************************)
(* An invocation owns its attempt, and so invocations of one task never    *)
(* overlap: for any number of sessions, tasks and engines, with crashes,   *)
(* lost answers, fencing, drains and recoveries in any order.              *)
(***************************************************************************)
EXTENDS ReliableWorker, TaskStoreProofs

\* The whole state is well-formed when the system starts.
LEMMA InitTyping == Init => TypeOK
<1>1. Init => StoreTypeOK
  BY StoreInitTyping DEF Init
<1>2. Init => WorkerTypeOK
  BY DEF Init, WorkerTypeOK, Control, NoJob
<1>. QED
  BY <1>1, <1>2 DEF TypeOK

\* The tasks a claim considers are tasks.
LEMMA HandlesTyping ==
  \A s \in Session : Handles[s] \subseteq Task
BY TaskAssumption

\* No step of a worker or a supervisor damages the store: each is one of its
\* transactions, or leaves it alone.
LEMMA StoreStepTyping ==
  ASSUME TypeOK, CallOwnsItsAttempt, Next
  PROVE  StoreTypeOK'
<1>. USE DEF TypeOK
<1>1. ASSUME UNCHANGED storeVars PROVE StoreTypeOK'
  BY <1>1 DEF storeVars, registryVars, taskVars, usageVars, journalVars, StoreTypeOK, RegistryTypeOK,
              TaskTypeOK, JournalTypeOK
<1>2. ASSUME NEW A, RegistryStep(A), A => RegistryNext PROVE StoreTypeOK'
  BY <1>2, RegistryStepTyping DEF RegistryStep
<1>3. ASSUME NEW s \in Session, WorkerStep(s) PROVE StoreTypeOK'
  <2>1. CASE Start(s) \/ StartFails(s)
    <3>1. RegistryStep(Register(s))
      BY <2>1 DEF Start, StartFails
    <3>. QED
      BY <3>1, <1>2 DEF RegistryNext
  <2>2. CASE HeartbeatStep(s)
    <3>1. RegistryStep(Heartbeat(s)) \/ UNCHANGED storeVars
      BY <2>2 DEF HeartbeatStep, Beat, BeatFails, BeatEnds
    <3>. QED
      BY <3>1, <1>1, <1>2 DEF RegistryNext
  <2>3. CASE Claims(s) \/ ClaimBreaks(s)
    <3>1. \/ UNCHANGED storeVars
          \/ \E t \in Task, refused \in SUBSET Task : ClaimRow(s, t, refused)
          \/ \E refused \in SUBSET Task : Refuse(refused)
      BY <2>3, HandlesTyping DEF Claims, ClaimBreaks, ClaimNext, ClaimNone, Candidates
    <3>. QED
      BY <3>1, <1>1, ClaimTyping, RefuseTyping DEF Claimant
  <2>4. CASE Commits(s) \/ CommitBreaks(s)
    <3>. DEFINE t == job[s][1]
                n == job[s][2]
    <3>1. UNCHANGED storeVars \/ \E o \in Outcome : Finish(s, t, n, o)
      BY <2>4 DEF Commits, CommitBreaks
    <3>2. ASSUME NEW o \in Outcome, Finish(s, t, n, o) PROVE StoreTypeOK'
      <4>1. t \in Task
        BY <2>4 DEF Commits, CommitBreaks, CallOwnsItsAttempt, Live, OwnsItsAttempt, WorkerTypeOK
      <4>. QED
        BY <3>2, <4>1, FinishTyping
    <3>. QED
      BY <3>1, <3>2, <1>1
  <2>5. CASE RequestsDrain(s)
    <3>1. RegistryStep(RequestStop(s)) \/ UNCHANGED storeVars
      BY <2>5 DEF RequestsDrain
    <3>. QED
      BY <3>1, <1>1, <1>2 DEF RegistryNext
  <2>6. CASE ConfirmsDrain(s)
    <3>1. RegistryStep(ConfirmStopped(s)) \/ UNCHANGED storeVars
      BY <2>6 DEF ConfirmsDrain
    <3>. QED
      BY <3>1, <1>1, <1>2 DEF RegistryNext
  <2>7. CASE LoopTop(s) \/ ClaimRefused(s) \/ Returns(s) \/ CommitRefused(s) \/ Joins(s) \/ Crash(s)
    BY <2>7, <1>1 DEF LoopTop, ClaimRefused, Returns, CommitRefused, Joins, Crash
  <2>8. CASE ClaimsNothing(s)
    BY <2>8, <1>1, RefuseTyping DEF ClaimsNothing, ClaimNone
  <2>. QED
    BY <1>3, <2>1, <2>2, <2>3, <2>4, <2>5, <2>6, <2>7, <2>8 DEF WorkerStep, ConsumerStep
<1>4. ASSUME NEW s \in Session, SupervisorStep(s) PROVE StoreTypeOK'
  <2>1. CASE StopLocally(s)
    BY <2>1, <1>1 DEF StopLocally
  <2>2. CASE RequestsStop(s)
    BY <2>2, <1>2 DEF RequestsStop, RegistryNext
  <2>3. CASE StopsSession(s)
    <3>1. HasRunning(s) \in BOOLEAN
      BY DEF HasRunning
    <3>. QED
      BY <2>3, <3>1, <1>2 DEF StopsSession, RegistryNext
  <2>4. CASE Fences(s)
    BY <2>4, <1>2 DEF Fences, RegistryNext
  <2>5. CASE AttestsExit(s)
    BY <2>5, <1>2 DEF AttestsExit, RegistryNext
  <2>6. CASE Recovers(s)
    <3>1. RunningOf(s) \in SUBSET Task
      BY DEF RunningOf
    <3>. QED
      BY <2>6, <3>1, RecoverTyping DEF Recovers, RecoverWorker
  <2>. QED
    BY <1>4, <2>1, <2>2, <2>3, <2>4, <2>5, <2>6 DEF SupervisorStep
<1>5. ASSUME NEW t \in Task, Submits(t) PROVE StoreTypeOK'
  BY <1>5, SubmitTyping DEF Submits
<1>6. CASE DetectsOverdue
  BY <1>6, <1>2 DEF DetectsOverdue, RegistryNext
<1>7. CASE TimePasses
  <2>1. CASE \E s \in Session : RegistryStep(Expire(s))
    BY <2>1, <1>2 DEF RegistryNext
  <2>2. CASE \E t \in Task : BecomeDue(t)
    BY <2>2, BecomeDueTyping
  <2>. QED
    BY <1>7, <2>1, <2>2 DEF TimePasses
<1>. QED
  BY <1>3, <1>4, <1>5, <1>6, <1>7 DEF Next

\* The threads' own variables stay well-formed.
LEMMA WorkerStepTyping ==
  ASSUME TypeOK, Next
  PROVE  WorkerTypeOK'
<1>. USE DEF TypeOK, WorkerTypeOK, Goto, Control, Working, Draining, Gone
<1>1. ASSUME UNCHANGED workerVars PROVE WorkerTypeOK'
  BY <1>1 DEF workerVars
<1>2. ASSUME NEW s \in Session, ConsumerStep(s) PROVE WorkerTypeOK'
  <2>1. CASE Claims(s)
    <3>. PICK t \in Task : job' = [job EXCEPT ![s] = <<t, NextAttempt(t)>>]
      BY <2>1 DEF Claims
    <3>1. <<t, NextAttempt(t)>> \in Task \X Nat
      BY DEF StoreTypeOK, TaskTypeOK, NextAttempt
    <3>. QED
      BY <2>1, <3>1 DEF Claims
  <2>2. CASE LoopTop(s) \/ ClaimsNothing(s) \/ ClaimRefused(s) \/ ClaimBreaks(s)
    BY <2>2 DEF LoopTop, LeaveLoop, ClaimsNothing, ClaimRefused, ClaimBreaks
  <2>3. CASE Returns(s) \/ Commits(s) \/ CommitRefused(s) \/ CommitBreaks(s)
    BY <2>3 DEF Returns, Commits, CommitRefused, CommitBreaks, LeaveLoop
  <2>4. CASE Joins(s) \/ RequestsDrain(s) \/ ConfirmsDrain(s)
    BY <2>4 DEF Joins, RequestsDrain, ConfirmsDrain
  <2>. QED
    BY <1>2, <2>1, <2>2, <2>3, <2>4 DEF ConsumerStep
<1>3. ASSUME NEW s \in Session, WorkerStep(s) PROVE WorkerTypeOK'
  <2>1. CASE Start(s) \/ StartFails(s)
    BY <2>1 DEF Start, StartFails
  <2>2. CASE HeartbeatStep(s)
    BY <2>2, <1>1 DEF HeartbeatStep, Beat, BeatFails, BeatEnds
  <2>3. CASE Crash(s)
    BY <2>3 DEF Crash
  <2>. QED
    BY <1>2, <1>3, <2>1, <2>2, <2>3 DEF WorkerStep
<1>4. ASSUME NEW s \in Session, SupervisorStep(s) PROVE WorkerTypeOK'
  BY <1>1, <1>4
  DEF SupervisorStep, StopLocally, RequestsStop, StopsSession, Fences, AttestsExit, Recovers
<1>5. CASE (\E t \in Task : Submits(t)) \/ DetectsOverdue \/ TimePasses
  BY <1>1, <1>5 DEF Submits, DetectsOverdue, TimePasses
<1>. QED
  BY <1>3, <1>4, <1>5 DEF Next

\* The row r works on did not change hands.
RowKept(r) ==
  /\ status'[job[r][1]] = status[job[r][1]]
  /\ owner'[job[r][1]] = owner[job[r][1]]
  /\ attempts'[job[r][1]] = attempts[job[r][1]]

Owning(r) == TypeOK /\ Live(r) /\ OwnsItsAttempt(r)

\* A claim by a session takes a waiting row and refuses waiting rows, or ends
\* without a row; it never touches a running one.
LEMMA ClaimKeepsRow ==
  ASSUME NEW r \in Session, Owning(r), NEW s \in Session,
         ClaimNone(s) \/ \E t \in Task : ClaimNext(s, t)
  PROVE  RowKept(r) /\ state' = state
<1>1. job[r] \in Task \X Nat /\ status[job[r][1]] = "RUNNING"
  BY DEF Owning, OwnsItsAttempt, TypeOK, WorkerTypeOK
<1>2. \A u \in Candidates(s) : u # job[r][1]
  BY <1>1 DEF Candidates, Dispatchable, Waiting
<1>3. CASE ClaimNone(s)
  BY <1>1, <1>2, <1>3 DEF ClaimNone, Refuse, RowKept, registryVars, Owning, TypeOK, StoreTypeOK, TaskTypeOK
<1>4. ASSUME NEW t \in Task, ClaimNext(s, t) PROVE RowKept(r) /\ state' = state
  <2>1. t # job[r][1]
    BY <1>2, <1>4 DEF ClaimNext, NextTask
  <2>. QED
    BY <1>1, <1>2, <1>4, <2>1
    DEF ClaimNext, ClaimRow, RowKept, registryVars, Owning, TypeOK, StoreTypeOK, TaskTypeOK
<1>. QED
  BY <1>3, <1>4

\* Somebody else's result goes to somebody else's row.
LEMMA FinishKeepsRow ==
  ASSUME NEW r \in Session, Owning(r), NEW c, c # r, NEW t, NEW n, NEW o, Finish(c, t, n, o)
  PROVE  RowKept(r) /\ state' = state
<1>1. job[r] \in Task \X Nat /\ owner[job[r][1]] = r
  BY DEF Owning, OwnsItsAttempt, TypeOK, WorkerTypeOK
<1>2. t # job[r][1]
  BY <1>1 DEF Finish, MayFinish
<1>. QED
  BY <1>1, <1>2 DEF RowKept, Finish, Release, registryVars, Owning, TypeOK, StoreTypeOK, TaskTypeOK

\* Recovery takes rows of stopped sessions only, and r has not stopped.
LEMMA RecoverKeepsRow ==
  ASSUME NEW r \in Session, Owning(r), NEW s \in Session, RecoverWorker(s)
  PROVE  RowKept(r) /\ state' = state
<1>1. job[r] \in Task \X Nat /\ owner[job[r][1]] = r /\ state[r] # "STOPPED"
  BY DEF Owning, OwnsItsAttempt, TypeOK, WorkerTypeOK
<1>2. job[r][1] \notin RunningOf(s)
  BY <1>1, RegistryAssumption DEF RecoverWorker, MayRecover, RunningOf, WorkerSession
<1>. QED
  BY <1>1, <1>2 DEF RowKept, RecoverWorker, RecoverRows, Release, registryVars, Owning, TypeOK,
                    StoreTypeOK, TaskTypeOK

\* A registry transaction leaves the rows alone.
LEMMA RegistryKeepsRow ==
  ASSUME NEW r \in Session, NEW A, RegistryStep(A)
  PROVE  RowKept(r) /\ A
BY DEF RegistryStep, RowKept, taskVars

\* r still works on the same attempt, its row was kept, and its session was
\* not stopped: it still owns the attempt.
LEMMA KeepsOwning ==
  ASSUME NEW r \in Session, Owning(r), job'[r] = job[r], RowKept(r),
         state'[r] \notin {"NEW", "STOPPED"}
  PROVE  OwnsItsAttempt(r)'
BY DEF Owning, OwnsItsAttempt, RowKept

\* A step of one worker, seen by another one.
LEMMA OthersKeepOwning ==
  ASSUME NEW r \in Session, Owning(r), NEW s \in Session, s # r, WorkerStep(s)
  PROVE  OwnsItsAttempt(r)'
<1>. USE DEF Owning, TypeOK, WorkerTypeOK
<1>1. state[r] \notin {"NEW", "STOPPED"}
  BY DEF OwnsItsAttempt
<1>2. job'[r] = job[r]
  BY DEF WorkerStep, Start, StartFails, HeartbeatStep, Beat, BeatFails, BeatEnds, ConsumerStep,
         LoopTop, LeaveLoop, Claims, ClaimsNothing, ClaimRefused, ClaimBreaks, Returns, Commits,
         CommitRefused, CommitBreaks, Joins, RequestsDrain, ConfirmsDrain, Crash, workerVars
<1>3. ASSUME NEW A, RegistryStep(A), A => state'[r] = state[r] PROVE OwnsItsAttempt(r)'
  BY <1>1, <1>2, <1>3, RegistryKeepsRow, KeepsOwning
<1>4. ASSUME UNCHANGED storeVars PROVE OwnsItsAttempt(r)'
  <2>1. RowKept(r) /\ state' = state
    BY <1>4 DEF RowKept, storeVars, taskVars, registryVars
  <2>. QED
    BY <1>1, <1>2, <2>1, KeepsOwning
<1>5. CASE Start(s) \/ StartFails(s)
  BY <1>3, <1>5 DEF Start, StartFails, Register, StoreTypeOK, RegistryTypeOK
<1>6. CASE HeartbeatStep(s)
  BY <1>3, <1>4, <1>6 DEF HeartbeatStep, Beat, BeatFails, BeatEnds, Heartbeat, StoreTypeOK, RegistryTypeOK
<1>7. CASE Claims(s) \/ ClaimBreaks(s) \/ ClaimsNothing(s)
  <2>1. UNCHANGED storeVars \/ ClaimNone(s) \/ \E t \in Task : ClaimNext(s, t)
    BY <1>7 DEF Claims, ClaimBreaks, ClaimsNothing
  <2>. QED
    BY <2>1, <1>1, <1>2, <1>4, ClaimKeepsRow, KeepsOwning
<1>8. CASE Commits(s) \/ CommitBreaks(s)
  <2>1. UNCHANGED storeVars \/ \E o \in Outcome : Finish(s, job[s][1], job[s][2], o)
    BY <1>8 DEF Commits, CommitBreaks
  <2>. QED
    BY <2>1, <1>1, <1>2, <1>4, FinishKeepsRow, KeepsOwning
<1>9. CASE RequestsDrain(s) \/ ConfirmsDrain(s)
  BY <1>3, <1>4, <1>9 DEF RequestsDrain, ConfirmsDrain, RequestStop, ConfirmStopped, StoreTypeOK, RegistryTypeOK
<1>10. CASE LoopTop(s) \/ ClaimRefused(s) \/ Returns(s) \/ CommitRefused(s) \/ Joins(s) \/ Crash(s)
  BY <1>4, <1>10 DEF LoopTop, ClaimRefused, Returns, CommitRefused, Joins, Crash
<1>. QED
  BY <1>5, <1>6, <1>7, <1>8, <1>9, <1>10 DEF WorkerStep, ConsumerStep

\* A worker's own step: it enters an invocation by claiming, keeps it while
\* the call runs, and has nothing in hand otherwise.
LEMMA WorkerKeepsOwning ==
  ASSUME TypeOK, CallOwnsItsAttempt, NEW s \in Session, WorkerStep(s), Live(s)'
  PROVE  OwnsItsAttempt(s)'
<1>. USE DEF TypeOK, WorkerTypeOK, Goto
<1>1. CASE Claims(s)
  <2>. PICK t \in Task : ClaimNext(s, t) /\ job' = [job EXCEPT ![s] = <<t, NextAttempt(t)>>]
    BY <1>1 DEF Claims
  <2>1. job'[s] = <<t, NextAttempt(t)>>
    OBVIOUS
  <2>2. status'[t] = "RUNNING" /\ owner'[t] = s /\ attempts'[t] = NextAttempt(t)
    BY DEF ClaimNext, ClaimRow, StoreTypeOK, TaskTypeOK
  <2>3. state'[s] = "ACTIVE"
    BY DEF ClaimNext, Claimable, ClaimRow, registryVars
  <2>. QED
    BY <2>1, <2>2, <2>3 DEF OwnsItsAttempt, NoJob
<1>2. ASSUME Live(s), job'[s] = job[s], RegistryStep(Heartbeat(s)) \/ UNCHANGED storeVars
      PROVE OwnsItsAttempt(s)'
  <2>1. Owning(s)
    BY <1>2 DEF Owning, CallOwnsItsAttempt
  <2>2. RowKept(s) /\ (Heartbeat(s) \/ state' = state)
    BY <1>2, RegistryKeepsRow DEF RowKept, storeVars, taskVars, registryVars
  <2>3. state'[s] \notin {"NEW", "STOPPED"}
    BY <2>1, <2>2 DEF Owning, OwnsItsAttempt, Heartbeat, HeartbeatState, StoreTypeOK, RegistryTypeOK
  <2>. QED
    BY <1>2, <2>1, <2>2, <2>3, KeepsOwning
<1>3. CASE HeartbeatStep(s)
  BY <1>2, <1>3 DEF HeartbeatStep, Beat, BeatFails, BeatEnds, Live, workerVars
<1>4. CASE Returns(s)
  BY <1>2, <1>4 DEF Returns, Live
<1>5. CASE ConsumerStep(s) /\ ~Claims(s) /\ ~Returns(s)
  BY <1>5 DEF ConsumerStep, LoopTop, LeaveLoop, ClaimsNothing, ClaimRefused, ClaimBreaks, Commits,
              CommitRefused, CommitBreaks, Joins, RequestsDrain, ConfirmsDrain, Live
<1>6. CASE Start(s) \/ StartFails(s) \/ Crash(s)
  BY <1>6 DEF Start, StartFails, Crash, Live
<1>. QED
  BY <1>1, <1>3, <1>4, <1>5, <1>6 DEF WorkerStep, ConsumerStep

\* Supervisors stop a session only when it owns nothing, or with evidence
\* that its process has ended.
LEMMA SupervisorKeepsOwning ==
  ASSUME NEW r \in Session, Owning(r), NEW s \in Session, SupervisorStep(s)
  PROVE  OwnsItsAttempt(r)'
<1>. USE DEF Owning, TypeOK, WorkerTypeOK
<1>1. state[r] \notin {"NEW", "STOPPED"} /\ pc[r] \notin Gone
  BY DEF OwnsItsAttempt, Live, Gone
<1>2. job' = job
  BY DEF SupervisorStep, StopLocally, RequestsStop, StopsSession, Fences, AttestsExit, Recovers, workerVars
<1>3. ASSUME NEW A, RegistryStep(A), A => state'[r] \notin {"NEW", "STOPPED"}
      PROVE OwnsItsAttempt(r)'
  BY <1>2, <1>3, RegistryKeepsRow, KeepsOwning
<1>4. CASE StopLocally(s)
  <2>1. RowKept(r) /\ state' = state
    BY <1>4 DEF StopLocally, RowKept, storeVars, taskVars, registryVars
  <2>. QED
    BY <1>1, <1>2, <2>1, KeepsOwning
<1>5. CASE RequestsStop(s)
  BY <1>1, <1>3, <1>5 DEF RequestsStop, RequestStop, StoreTypeOK, RegistryTypeOK
<1>6. CASE StopsSession(s)
  <2>1. HasRunning(r)
    BY RegistryAssumption DEF OwnsItsAttempt, HasRunning, WorkerSession
  <2>2. Stop(s, HasRunning(s)) => s # r
    BY <2>1 DEF Stop
  <2>3. Stop(s, HasRunning(s)) => state'[r] \notin {"NEW", "STOPPED"}
    BY <1>1, <2>2 DEF Stop, StoreTypeOK, RegistryTypeOK
  <2>. QED
    BY <1>3, <1>6, <2>3 DEF StopsSession
<1>7. CASE Fences(s)
  BY <1>1, <1>3, <1>7 DEF Fences, Fence, StoreTypeOK, RegistryTypeOK
<1>8. CASE AttestsExit(s)
  BY <1>1, <1>3, <1>8 DEF AttestsExit, ExitEvidence, ConfirmStopped, StoreTypeOK, RegistryTypeOK
<1>9. CASE Recovers(s)
  BY <1>1, <1>2, <1>9, RecoverKeepsRow, KeepsOwning DEF Recovers
<1>. QED
  BY <1>4, <1>5, <1>6, <1>7, <1>8, <1>9 DEF SupervisorStep

\* Every step of the system lets every live invocation keep its attempt.
LEMMA OwnershipStep ==
  ASSUME TypeOK, CallOwnsItsAttempt, Next
  PROVE  CallOwnsItsAttempt'
<1>. SUFFICES ASSUME NEW r \in Session, Live(r)' PROVE OwnsItsAttempt(r)'
  BY DEF CallOwnsItsAttempt
<1>1. ASSUME NEW s \in Session, WorkerStep(s) PROVE OwnsItsAttempt(r)'
  <2>1. CASE s = r
    BY <1>1, <2>1, WorkerKeepsOwning
  <2>2. CASE s # r
    <3>1. pc'[r] = pc[r]
      BY <1>1, <2>2
      DEF WorkerStep, Start, StartFails, HeartbeatStep, Beat, BeatFails, BeatEnds, ConsumerStep,
          LoopTop, LeaveLoop, Claims, ClaimsNothing, ClaimRefused, ClaimBreaks, Returns, Commits,
          CommitRefused, CommitBreaks, Joins, RequestsDrain, ConfirmsDrain, Crash, workerVars,
          Goto, TypeOK, WorkerTypeOK
    <3>2. Owning(r)
      BY <3>1 DEF Owning, CallOwnsItsAttempt, Live
    <3>. QED
      BY <1>1, <2>2, <3>2, OthersKeepOwning
  <2>. QED
    BY <2>1, <2>2
<1>2. ASSUME pc' = pc PROVE Owning(r)
  BY <1>2 DEF Owning, CallOwnsItsAttempt, Live
<1>3. ASSUME NEW s \in Session, SupervisorStep(s) PROVE OwnsItsAttempt(r)'
  <2>1. pc' = pc
    BY <1>3 DEF SupervisorStep, StopLocally, RequestsStop, StopsSession, Fences, AttestsExit,
                Recovers, workerVars
  <2>. QED
    BY <1>2, <1>3, <2>1, SupervisorKeepsOwning
<1>4. CASE (\E t \in Task : Submits(t)) \/ DetectsOverdue \/ TimePasses
  <2>1. pc' = pc /\ job' = job
    BY <1>4 DEF Submits, DetectsOverdue, TimePasses, workerVars
  <2>2. Owning(r)
    BY <1>2, <2>1
  <2>3. job[r] \in Task \X Nat /\ status[job[r][1]] = "RUNNING" /\ state[r] \notin {"NEW", "STOPPED"}
    BY <2>2 DEF Owning, OwnsItsAttempt, TypeOK, WorkerTypeOK
  <2>4. RowKept(r)
    <3>1. ASSUME NEW t \in Task, Submit(t) \/ BecomeDue(t) PROVE RowKept(r)
      BY <2>2, <2>3, <3>1
      DEF Submit, Insert, BecomeDue, RowKept, Waiting, Owning, TypeOK, StoreTypeOK, TaskTypeOK
    <3>2. ASSUME NEW A, RegistryStep(A) PROVE RowKept(r)
      BY <3>2, RegistryKeepsRow
    <3>. QED
      BY <1>4, <3>1, <3>2 DEF Submits, DetectsOverdue, TimePasses
  <2>5. state'[r] \notin {"NEW", "STOPPED"}
    <3>1. ASSUME NEW s \in Session, RegistryStep(Expire(s)) PROVE state' = state
      BY <3>1 DEF RegistryStep, Expire
    <3>2. CASE DetectsOverdue
      BY <2>3, <3>2 DEF DetectsOverdue, RegistryStep, DetectOverdue
    <3>3. CASE (\E t \in Task : Submits(t)) \/ TimePasses
      BY <2>3, <3>1, <3>3 DEF Submits, Submit, TimePasses, BecomeDue, registryVars
    <3>. QED
      BY <1>4, <3>2, <3>3
  <2>. QED
    BY <2>1, <2>2, <2>4, <2>5, KeepsOwning
<1>. QED
  BY <1>1, <1>3, <1>4 DEF Next

----------------------------------------------------------------------------
(* Typing and ownership are inductive together: that a committing worker    *)
(* has a task in its hands is part of the second, and is what makes the     *)
(* row it writes a row of the table.                                        *)
WorkerInv == TypeOK /\ CallOwnsItsAttempt

\* The two invariants together survive every step.
LEMMA WorkerInvariance == Spec => []WorkerInv
<1>1. Init => WorkerInv
  BY InitTyping DEF Init, WorkerInv, CallOwnsItsAttempt, Live
<1>2. WorkerInv /\ [Next]_vars => WorkerInv'
  <2>1. ASSUME WorkerInv, Next PROVE WorkerInv'
    BY <2>1, StoreStepTyping, WorkerStepTyping, OwnershipStep DEF WorkerInv, TypeOK
  <2>2. ASSUME WorkerInv, UNCHANGED vars PROVE WorkerInv'
    BY <2>2
    DEF WorkerInv, vars, storeVars, registryVars, taskVars, usageVars, journalVars, workerVars, TypeOK,
        StoreTypeOK, RegistryTypeOK, TaskTypeOK, JournalTypeOK, WorkerTypeOK, CallOwnsItsAttempt,
        Live, OwnsItsAttempt
  <2>. QED
    BY <2>1, <2>2
<1>. QED
  BY <1>1, <1>2, PTL DEF Spec

\* The tables and the threads' variables keep their shape.
THEOREM WorkerTyping == Spec => []TypeOK
<1>1. WorkerInv => TypeOK
  BY DEF WorkerInv
<1>. QED
  BY <1>1, WorkerInvariance, PTL

\* A live invocation owns its attempt, whatever fencing, recovery, crash or
\* lost answer happens around it.
THEOREM OwnershipAlways == Spec => []CallOwnsItsAttempt
<1>1. WorkerInv => CallOwnsItsAttempt
  BY DEF WorkerInv
<1>. QED
  BY <1>1, WorkerInvariance, PTL

\* Two invocations of one task never run at the same time: the row has one
\* owner, and both would own it.
THEOREM NoOverlapAlways == Spec => []NoOverlap
<1>1. CallOwnsItsAttempt => NoOverlap
  BY DEF CallOwnsItsAttempt, OwnsItsAttempt, Live, NoOverlap
<1>. QED
  BY <1>1, OwnershipAlways, PTL
=============================================================================
