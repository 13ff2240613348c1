-------------------------- MODULE RemoteWorkerProofs --------------------------
(***************************************************************************)
(* What an invocation owns, what a consumer knows of its rows, and that    *)
(* late results keep the retry budget, for any number of local and remote  *)
(* workers, tasks and requests under way: also when requests are executed  *)
(* after their client drained, died, was fenced or was declared stopped.   *)
(***************************************************************************)
EXTENDS RemoteWorker, ReliableWorkerProofs

\* The row t runs for the session s, which has not stopped.
Held(s, t) == status[t] = "RUNNING" /\ owner[t] = s /\ state[s] \notin {"NEW", "STOPPED"}

\* A step after which t still runs the same attempt for s.
KeepsHeld(s, t) == Held(s, t)' /\ attempts'[t] = attempts[t]

EndStatus == {"SUCCESS", "FAILED", "RETRYING"}

\* What may be said of a request that is under way: who waits for it, or has
\* stopped to.
Sound(r) ==
  /\ r[2] \in Session
  /\ r[1] = "claimed" => /\ r[3] \in Task /\ r = <<"claimed", r[2], r[3]>>
                         /\ pc[r[2]] = "claim" /\ Held(r[2], r[3])
  /\ r[1] = "claim" => pc[r[2]] \in Draining \cup Gone
  /\ r[1] \in {"finish", "write"} => r[3] \in Task /\ pc[r[2]] \in Draining \cup Gone
  /\ r[1] = "write" => r[5] \in EndStatus
  /\ r[1] = "confirm" => pc[r[2]] \in Gone

\* One answer at a time is built for a session.
OneAnswer ==
  \A q, r \in wire : q[1] = "claimed" /\ r[1] = "claimed" /\ q[2] = r[2] => q = r

WireOK == OneAnswer /\ \A r \in wire : Sound(r)

----------------------------------------------------------------------------
(* Who may touch a row that is held *)

\* The registry leaves the rows alone.
LEMMA RegistryKeepsHeld ==
  ASSUME NEW s, NEW t, Held(s, t), NEW A, RegistryStep(A), A => state'[s] \notin {"NEW", "STOPPED"}
  PROVE  KeepsHeld(s, t)
BY DEF Held, KeepsHeld, RegistryStep, taskVars

\* A step that does not touch the store.
LEMMA IdleKeepsHeld ==
  ASSUME NEW s, NEW t, Held(s, t), UNCHANGED storeVars
  PROVE  KeepsHeld(s, t)
BY DEF Held, KeepsHeld, storeVars, registryVars, taskVars

\* A claim takes a waiting row, and refuses waiting rows.
LEMMA ClaimKeepsHeld ==
  ASSUME StoreTypeOK, NEW s \in Session, NEW t \in Task, Held(s, t), NEW c \in Session,
         ClaimNone(c) \/ \E u \in Task : ClaimNext(c, u)
  PROVE  KeepsHeld(s, t)
<1>. USE DEF StoreTypeOK, TaskTypeOK, Held, KeepsHeld
<1>1. t \notin Candidates(c)
  BY DEF Candidates, Dispatchable, Waiting
<1>2. CASE ClaimNone(c)
  BY <1>1, <1>2 DEF ClaimNone, Refuse, registryVars
<1>3. ASSUME NEW u \in Task, ClaimNext(c, u) PROVE KeepsHeld(s, t)
  <2>1. u # t
    BY <1>1, <1>3 DEF ClaimNext, NextTask
  <2>. QED
    BY <1>1, <1>3, <2>1 DEF ClaimNext, ClaimRow, registryVars
<1>. QED
  BY <1>2, <1>3

\* Rows that leave RUNNING leave the others as they are.
LEMMA ReleaseKeepsHeld ==
  ASSUME NEW s \in Session, NEW t \in Task, Held(s, t), NEW S, t \notin S, NEW f, Release(S, f),
         UNCHANGED registryVars
  PROVE  KeepsHeld(s, t)
BY DEF Held, KeepsHeld, Release, registryVars

\* A result of another session goes to another row.
LEMMA FinishKeepsHeld ==
  ASSUME NEW s \in Session, NEW t \in Task, Held(s, t), NEW c, c # s, NEW u, NEW n, NEW o,
         Finish(c, u, n, o)
  PROVE  KeepsHeld(s, t)
<1>1. t \notin {u}
  BY DEF Finish, MayFinish, Held
<1>. QED
  BY <1>1, ReleaseKeepsHeld DEF Finish

\* Recovery takes the rows of sessions that have stopped.
LEMMA RecoverKeepsHeld ==
  ASSUME NEW s \in Session, NEW t \in Task, Held(s, t), NEW c \in Session, RecoverWorker(c)
  PROVE  KeepsHeld(s, t)
<1>1. t \notin RunningOf(c)
  BY RegistryAssumption DEF Held, RecoverWorker, MayRecover, RunningOf, WorkerSession
<1>. QED
  BY <1>1, ReleaseKeepsHeld DEF RecoverWorker, RecoverRows

\* A row that was claimed and not answered is kept by everybody, as long as
\* its consumer waits for the answer.
LEMMA NextKeepsHeld ==
  ASSUME TypeOK, Next, NEW s \in Session, NEW t \in Task, Held(s, t), pc[s] = "claim", pc'[s] = pc[s]
  PROVE  KeepsHeld(s, t)
<1>. USE DEF TypeOK, WorkerTypeOK
<1>1. state[s] \notin {"NEW", "STOPPED"} /\ pc[s] \notin Gone
  BY DEF Held, Gone
<1>2. ASSUME NEW c \in Session, WorkerStep(c) PROVE KeepsHeld(s, t)
  <2>1. CASE Start(c) \/ StartFails(c)
    BY <1>1, <2>1, RegistryKeepsHeld DEF Start, StartFails, Register, StoreTypeOK, RegistryTypeOK
  <2>2. CASE HeartbeatStep(c)
    BY <1>1, <2>2, RegistryKeepsHeld, IdleKeepsHeld
    DEF HeartbeatStep, Beat, BeatFails, BeatEnds, Heartbeat, HeartbeatState, StoreTypeOK, RegistryTypeOK
  <2>3. CASE Claims(c) \/ ClaimBreaks(c) \/ ClaimsNothing(c)
    <3>1. UNCHANGED storeVars \/ ClaimNone(c) \/ \E u \in Task : ClaimNext(c, u)
      BY <2>3 DEF Claims, ClaimBreaks, ClaimsNothing
    <3>. QED
      BY <3>1, IdleKeepsHeld, ClaimKeepsHeld
  <2>4. CASE Commits(c) \/ CommitBreaks(c)
    <3>1. c # s
      BY <2>4 DEF Commits, CommitBreaks
    <3>2. UNCHANGED storeVars \/ \E o \in Outcome : Finish(c, job[c][1], job[c][2], o)
      BY <2>4 DEF Commits, CommitBreaks
    <3>. QED
      BY <3>1, <3>2, IdleKeepsHeld, FinishKeepsHeld
  <2>5. CASE RequestsDrain(c)
    BY <1>1, <2>5, RegistryKeepsHeld, IdleKeepsHeld
    DEF RequestsDrain, RequestStop, StoreTypeOK, RegistryTypeOK
  <2>6. CASE ConfirmsDrain(c)
    <3>1. c # s
      BY <2>6 DEF ConfirmsDrain
    <3>. QED
      BY <1>1, <2>6, <3>1, RegistryKeepsHeld, IdleKeepsHeld
      DEF ConfirmsDrain, ConfirmStopped, StoreTypeOK, RegistryTypeOK
  <2>7. CASE LoopTop(c) \/ ClaimRefused(c) \/ Returns(c) \/ CommitRefused(c) \/ Joins(c) \/ Crash(c)
    BY <2>7, IdleKeepsHeld DEF LoopTop, ClaimRefused, Returns, CommitRefused, Joins, Crash
  <2>. QED
    BY <1>2, <2>1, <2>2, <2>3, <2>4, <2>5, <2>6, <2>7 DEF WorkerStep, ConsumerStep
<1>3. ASSUME NEW c \in Session, SupervisorStep(c) PROVE KeepsHeld(s, t)
  <2>1. CASE StopLocally(c)
    BY <2>1, IdleKeepsHeld DEF StopLocally
  <2>2. CASE RequestsStop(c)
    BY <1>1, <2>2, RegistryKeepsHeld DEF RequestsStop, RequestStop, StoreTypeOK, RegistryTypeOK
  <2>3. CASE StopsSession(c)
    <3>1. HasRunning(s)
      BY RegistryAssumption DEF Held, HasRunning, WorkerSession
    <3>2. Stop(c, HasRunning(c)) => state'[s] \notin {"NEW", "STOPPED"}
      BY <1>1, <3>1 DEF Stop, StoreTypeOK, RegistryTypeOK
    <3>. QED
      BY <2>3, <3>2, RegistryKeepsHeld DEF StopsSession
  <2>4. CASE Fences(c)
    BY <1>1, <2>4, RegistryKeepsHeld DEF Fences, Fence, StoreTypeOK, RegistryTypeOK
  <2>5. CASE AttestsExit(c)
    <3>1. c # s
      BY <1>1, <2>5 DEF AttestsExit, ExitEvidence
    <3>. QED
      BY <1>1, <2>5, <3>1, RegistryKeepsHeld DEF AttestsExit, ConfirmStopped, StoreTypeOK, RegistryTypeOK
  <2>6. CASE Recovers(c)
    BY <2>6, RecoverKeepsHeld DEF Recovers
  <2>. QED
    BY <1>3, <2>1, <2>2, <2>3, <2>4, <2>5, <2>6 DEF SupervisorStep
<1>4. ASSUME NEW u \in Task, Submit(u) \/ BecomeDue(u) PROVE KeepsHeld(s, t)
  BY <1>4 DEF Submit, Insert, BecomeDue, Held, KeepsHeld, Waiting, registryVars, StoreTypeOK, TaskTypeOK
<1>5. CASE (\E u \in Task : Submits(u)) \/ DetectsOverdue \/ TimePasses
  <2>1. ASSUME NEW c \in Session, RegistryStep(Expire(c)) PROVE KeepsHeld(s, t)
    BY <1>1, <2>1, RegistryKeepsHeld DEF Expire
  <2>2. CASE DetectsOverdue
    BY <1>1, <2>2, RegistryKeepsHeld DEF DetectsOverdue, DetectOverdue
  <2>. QED
    BY <1>4, <1>5, <2>1, <2>2 DEF Submits, TimePasses
<1>. QED
  BY <1>2, <1>3, <1>5 DEF Next

----------------------------------------------------------------------------
(* What the service may do to a row, whoever asked for it *)

\* A session that has stopped waiting for its calls never waits again.
LEMMA LeavesForGood ==
  ASSUME TypeOK, Next, NEW s \in Session
  PROVE  /\ pc[s] \in Draining \cup Gone => pc'[s] \in Draining \cup Gone
         /\ pc[s] \in Gone => pc'[s] \in Gone
<1>. USE DEF TypeOK, WorkerTypeOK, Goto, Draining, Gone
<1>1. ASSUME NEW c \in Session, WorkerStep(c)
      PROVE  /\ pc[s] \in Draining \cup Gone => pc'[s] \in Draining \cup Gone
             /\ pc[s] \in Gone => pc'[s] \in Gone
  <2>1. CASE Start(c) \/ StartFails(c) \/ HeartbeatStep(c) \/ Crash(c)
    BY <2>1 DEF Start, StartFails, HeartbeatStep, Beat, BeatFails, BeatEnds, Crash, Working, workerVars
  <2>2. CASE LoopTop(c) \/ Claims(c) \/ ClaimsNothing(c) \/ ClaimRefused(c) \/ ClaimBreaks(c)
    BY <2>2 DEF LoopTop, LeaveLoop, Claims, ClaimsNothing, ClaimRefused, ClaimBreaks
  <2>3. CASE Returns(c) \/ Commits(c) \/ CommitRefused(c) \/ CommitBreaks(c)
    BY <2>3 DEF Returns, Commits, CommitRefused, CommitBreaks, LeaveLoop
  <2>4. CASE Joins(c) \/ RequestsDrain(c) \/ ConfirmsDrain(c)
    BY <2>4 DEF Joins, RequestsDrain, ConfirmsDrain
  <2>. QED
    BY <1>1, <2>1, <2>2, <2>3, <2>4 DEF WorkerStep, ConsumerStep
<1>2. ASSUME NEW c \in Session, SupervisorStep(c) PROVE pc' = pc
  BY <1>2 DEF SupervisorStep, StopLocally, RequestsStop, StopsSession, Fences, AttestsExit, Recovers, workerVars
<1>3. CASE (\E t \in Task : Submits(t)) \/ DetectsOverdue \/ TimePasses
  BY <1>3 DEF Submits, DetectsOverdue, TimePasses, workerVars
<1>. QED
  BY <1>1, <1>2, <1>3 DEF Next

\* A request that is executed late leaves the rows of the sessions that still
\* wait for something: its own session does not.
LEMMA ArrivalKeepsHeld ==
  ASSUME StoreTypeOK, NEW r, Sound(r), Executes(r),
         NEW s \in Session, NEW t \in Task, Held(s, t), pc[s] \notin Gone
  PROVE  KeepsHeld(s, t)
<1>. DEFINE c == r[2]
<1>. USE DEF StoreTypeOK, RegistryTypeOK
<1>1. c \in Session /\ state[s] \notin {"NEW", "STOPPED"}
  BY DEF Sound, Held
<1>2. CASE r[1] = "new" /\ RegistryStep(Register(c))
  BY <1>1, <1>2, RegistryKeepsHeld DEF Register
<1>3. CASE r[1] = "heartbeat" /\ RegistryStep(Heartbeat(c))
  BY <1>1, <1>3, RegistryKeepsHeld DEF Heartbeat, HeartbeatState
<1>4. CASE r[1] = "request" /\ RegistryStep(RequestStop(c))
  BY <1>1, <1>4, RegistryKeepsHeld DEF RequestStop
<1>5. CASE r[1] = "confirm" /\ RegistryStep(ConfirmStopped(c))
  <2>1. c # s
    BY <1>5 DEF Sound
  <2>. QED
    BY <1>1, <1>5, <2>1, RegistryKeepsHeld DEF ConfirmStopped
<1>6. CASE r[1] = "claim" /\ (ClaimNone(c) \/ \E u \in Task : ClaimNext(c, u))
  BY <1>1, <1>6, ClaimKeepsHeld
<1>. QED
  BY <1>2, <1>3, <1>4, <1>5, <1>6 DEF Executes

\* So does a result that is written late.
LEMMA WriteKeepsHeld ==
  ASSUME NEW r, Sound(r), Writes(r), NEW s \in Session, NEW t \in Task, Held(s, t),
         pc[s] \notin Draining \cup Gone
  PROVE  KeepsHeld(s, t)
<1>1. t \notin {r[3]}
  BY DEF Writes, MayWrite, MayFinish, Held, Sound
<1>. QED
  BY <1>1, ReleaseKeepsHeld DEF Writes

\* A late request damages no table.
LEMMA ArrivalTyping ==
  ASSUME StoreTypeOK, NEW r, Sound(r), Executes(r)
  PROVE  StoreTypeOK'
<1>. DEFINE c == r[2]
<1>1. c \in Session
  BY DEF Sound
<1>2. ASSUME NEW A, RegistryStep(A), A => RegistryNext PROVE StoreTypeOK'
  BY <1>2, RegistryStepTyping DEF RegistryStep
<1>3. CASE \/ RegistryStep(Register(c)) \/ RegistryStep(Heartbeat(c))
           \/ RegistryStep(RequestStop(c)) \/ RegistryStep(ConfirmStopped(c))
  BY <1>1, <1>2, <1>3 DEF RegistryNext
<1>4. CASE ClaimNone(c) \/ \E u \in Task : ClaimNext(c, u)
  BY <1>1, <1>4, ClaimTyping, RefuseTyping DEF ClaimNone, ClaimNext, Claimant
<1>. QED
  BY <1>3, <1>4 DEF Executes

\* A late write damages no table.
LEMMA WriteTyping ==
  ASSUME StoreTypeOK, NEW r, Sound(r), Writes(r)
  PROVE  StoreTypeOK'
<1>. DEFINE f == [t \in {r[3]} |-> r[5]]
<1>1. {r[3]} \in SUBSET Task /\ f \in [{r[3]} -> {"SUCCESS", "FAILED", "RETRYING"}]
  BY DEF Writes, Sound, EndStatus
<1>2. Release({r[3]}, f)
  BY DEF Writes
<1>3. TaskTypeOK'
  BY <1>1, <1>2, ReleaseTyping DEF StoreTypeOK
<1>4. RegistryTypeOK' /\ JournalTypeOK'
  BY DEF StoreTypeOK, Writes, RegistryTypeOK, JournalTypeOK, registryVars, journalVars
<1>. QED
  BY <1>3, <1>4 DEF StoreTypeOK

----------------------------------------------------------------------------
(* Ownership, with the requests under way, is inductive *)

RemoteInv == TypeOK /\ CallOwnsItsAttempt /\ WireOK

\* A live invocation owns its row when the row it works on is kept.
LEMMA HeldIsOwned ==
  ASSUME TypeOK, NEW s \in Session, Live(s), OwnsItsAttempt(s), job'[s] = job[s],
         KeepsHeld(s, job[s][1])
  PROVE  OwnsItsAttempt(s)'
BY DEF TypeOK, WorkerTypeOK, OwnsItsAttempt, KeepsHeld, Held

\* The row a live invocation works on is held.
LEMMA OwnedIsHeld ==
  ASSUME TypeOK, NEW s \in Session, OwnsItsAttempt(s)
  PROVE  job[s][1] \in Task /\ Held(s, job[s][1])
BY DEF TypeOK, WorkerTypeOK, OwnsItsAttempt, Held

\* What is said of a request stays true as long as nobody goes back to wait
\* for it, and the row of a claim is kept.
LEMMA StaysSound ==
  ASSUME NEW r, Sound(r),
         pc[r[2]] \in Draining \cup Gone => pc'[r[2]] \in Draining \cup Gone,
         pc[r[2]] \in Gone => pc'[r[2]] \in Gone,
         r[1] = "claimed" => pc'[r[2]] = pc[r[2]] /\ KeepsHeld(r[2], r[3])
  PROVE  Sound(r)'
BY DEF Sound, KeepsHeld

\* A step of ReliableWorker.
LEMMA AnsweredInv == ASSUME RemoteInv, Answered PROVE RemoteInv'
<1>. USE DEF RemoteInv, Answered
<1>1. TypeOK' /\ CallOwnsItsAttempt'
  BY StoreStepTyping, WorkerStepTyping, OwnershipStep DEF TypeOK
<1>2. ASSUME NEW r \in wire PROVE Sound(r)'
  <2>1. Sound(r) /\ r[2] \in Session
    BY DEF WireOK, Sound
  <2>2. CASE r[1] = "claimed"
    <3>1. pc'[r[2]] = pc[r[2]]
      BY <2>1, <2>2 DEF Claimed
    <3>2. KeepsHeld(r[2], r[3])
      BY <2>1, <2>2, <3>1, NextKeepsHeld DEF Sound
    <3>. QED
      BY <2>1, <2>2, <3>1, <3>2, StaysSound DEF Sound, Draining, Gone
  <2>3. CASE r[1] # "claimed"
    BY <2>1, <2>3, LeavesForGood, StaysSound
  <2>. QED
    BY <2>2, <2>3
<1>. QED
  BY <1>1, <1>2 DEF WireOK, OneAnswer

\* The client stops waiting: nothing changes but its own place.
LEMMA LeavingInv ==
  ASSUME RemoteInv, UNCHANGED storeVars, WorkerTypeOK', NEW s \in Session,
         \A c \in Session \ {s} : pc'[c] = pc[c] /\ job'[c] = job[c],
         ~Live(s)' \/ (pc'[s] = pc[s] /\ job'[s] = job[s]),
         pc[s] \in Draining \cup Gone => pc'[s] \in Draining \cup Gone,
         pc[s] \in Gone => pc'[s] \in Gone,
         \A r \in wire' : r[1] = "claimed" => r \in wire /\ pc'[r[2]] = pc[r[2]],
         \A r \in wire' \ wire : Sound(r)'
  PROVE  RemoteInv'
<1>. USE DEF RemoteInv
<1>1. StoreTypeOK'
  BY DEF TypeOK, storeVars, registryVars, taskVars, usageVars, journalVars, StoreTypeOK,
         RegistryTypeOK, TaskTypeOK, JournalTypeOK
<1>2. CallOwnsItsAttempt'
  BY DEF CallOwnsItsAttempt, Live, OwnsItsAttempt, storeVars, registryVars, taskVars
<1>3. ASSUME NEW r \in wire PROVE r \in wire' => Sound(r)'
  <2>1. Sound(r) /\ r[2] \in Session
    BY DEF WireOK, Sound
  <2>2. r[1] = "claimed" => KeepsHeld(r[2], r[3])
    BY <2>1, IdleKeepsHeld DEF Sound
  <2>. QED
    BY <2>1, <2>2, StaysSound
<1>4. OneAnswer'
  BY DEF WireOK, OneAnswer
<1>. QED
  BY <1>1, <1>2, <1>3, <1>4 DEF TypeOK, WireOK

\* What a client leaves under way, once it no longer waits for it.
LEMMA InFlightSound ==
  ASSUME TypeOK, CallOwnsItsAttempt, NEW s \in Session, pc[s] \in Calling, NEW r \in InFlight(s),
         pc'[s] \in Draining \cup Gone, pc[s] = "confirm" => pc'[s] \in Gone
  PROVE  Sound(r)' /\ r[1] # "claimed" /\ r[2] = s
<1>1. CASE pc[s] = "commit"
  <2>1. PICK o \in Outcome : r = <<"finish", s, job[s][1], job[s][2], o>>
    BY <1>1 DEF InFlight
  <2>2. job[s][1] \in Task
    BY <1>1, OwnedIsHeld DEF CallOwnsItsAttempt, Live
  <2>. QED
    BY <2>1, <2>2 DEF Sound
<1>2. CASE pc[s] # "commit"
  <2>1. r = <<pc[s], s>>
    BY <1>2 DEF InFlight
  <2>2. pc[s] \in {"new", "claim", "request", "confirm"}
    BY <1>2 DEF Calling
  <2>. QED
    BY <2>1, <2>2 DEF Sound
<1>. QED
  BY <1>1, <1>2

\* The steps of a client that is not answered.
LEMMA ClientInv ==
  ASSUME RemoteInv, NEW s \in Session, ClientStep(s)
  PROVE  RemoteInv'
<1>. USE DEF RemoteInv
<1>1. CASE GivesUp(s)
  <2>. PICK r \in InFlight(s) : wire' = wire \cup {r}
    BY <1>1 DEF GivesUp
  <2>1. pc[s] \in Calling /\ UNCHANGED storeVars /\ Claimed(s) = {}
    BY <1>1 DEF GivesUp, Asks
  <2>2. /\ WorkerTypeOK'
        /\ pc'[s] \in Draining \cup Gone
        /\ pc[s] \notin {"claim", "commit"} => pc'[s] \in Gone
        /\ \A c \in Session \ {s} : pc'[c] = pc[c] /\ job'[c] = job[c]
    BY <1>1, <2>1 DEF GivesUp, AfterNoAnswer, LeaveLoop, Goto, TypeOK, WorkerTypeOK, Control, Draining,
                      Gone, NoJob
  <2>3. Sound(r)' /\ r[1] # "claimed"
    BY <2>1, <2>2, InFlightSound
  <2>4. pc[s] \notin Gone
    BY <2>1 DEF Calling, Gone
  <2>5. \A q \in wire : q[1] = "claimed" => pc'[q[2]] = pc[q[2]]
    BY <2>1, <2>2 DEF Claimed, WireOK, Sound
  <2>. QED
    BY <2>1, <2>2, <2>3, <2>4, <2>5, LeavingInv DEF Live, Draining, Gone
<1>2. CASE DiesCalling(s)
  <2>. PICK r \in InFlight(s) : wire' = wire \cup {r}
    BY <1>2 DEF DiesCalling
  <2>1. pc[s] \in Calling /\ UNCHANGED storeVars /\ Claimed(s) = {}
    BY <1>2 DEF DiesCalling, Crash, Asks
  <2>2. /\ WorkerTypeOK' /\ pc'[s] \in Gone
        /\ \A c \in Session \ {s} : pc'[c] = pc[c] /\ job'[c] = job[c]
    BY <1>2 DEF DiesCalling, Crash, Goto, TypeOK, WorkerTypeOK, Control, Gone, NoJob
  <2>3. Sound(r)' /\ r[1] # "claimed"
    BY <2>1, <2>2, InFlightSound
  <2>4. \A q \in wire : q[1] = "claimed" => pc'[q[2]] = pc[q[2]]
    BY <2>1, <2>2 DEF Claimed, WireOK, Sound
  <2>. QED
    BY <2>1, <2>2, <2>3, <2>4, LeavingInv DEF Live, Draining, Gone
<1>3. CASE BeatGivesUp(s)
  <2>1. /\ WorkerTypeOK' /\ pc' = pc /\ job' = job /\ UNCHANGED storeVars
        /\ wire' = wire \cup {<<"heartbeat", s>>}
    BY <1>3 DEF BeatGivesUp, BeatFails, TypeOK, WorkerTypeOK
  <2>2. Sound(<<"heartbeat", s>>)'
    BY DEF Sound
  <2>. QED
    BY <2>1, <2>2, LeavingInv
<1>4. CASE GivesUpAnswer(s)
  <2>1. /\ WorkerTypeOK' /\ UNCHANGED storeVars /\ wire' = wire \ Claimed(s)
        /\ pc'[s] \in {"join", "dead"}
        /\ \A c \in Session \ {s} : pc'[c] = pc[c] /\ job'[c] = job[c]
    BY <1>4 DEF GivesUpAnswer, LeaveLoop, Crash, Goto, TypeOK, WorkerTypeOK, Control, Draining, Gone, NoJob
  <2>2. pc[s] \notin Gone
    BY <1>4 DEF GivesUpAnswer, LeaveLoop, Crash, Working, Draining, Gone
  <2>3. \A q \in wire' : q[1] = "claimed" => q \in wire /\ pc'[q[2]] = pc[q[2]]
    BY <2>1 DEF Claimed, WireOK, Sound
  <2>. QED
    BY <2>1, <2>2, <2>3, LeavingInv DEF Live, Draining, Gone
<1>5. CASE ServesClaim(s)
  <2>. PICK t \in Task : ClaimNext(s, t) /\ wire' = wire \cup {<<"claimed", s, t>>}
    BY <1>5 DEF ServesClaim
  <2>1. pc[s] = "claim" /\ Claimed(s) = {} /\ UNCHANGED workerVars
    BY <1>5 DEF ServesClaim
  <2>2. StoreTypeOK' /\ WorkerTypeOK'
    BY <2>1, ClaimTyping DEF ClaimNext, Claimant, TypeOK, WorkerTypeOK, workerVars
  <2>3. ASSUME NEW c \in Session, Live(c)' PROVE OwnsItsAttempt(c)'
    <3>1. Live(c) /\ job'[c] = job[c]
      BY <2>1, <2>3 DEF Live, workerVars
    <3>2. KeepsHeld(c, job[c][1])
      BY <3>1, OwnedIsHeld, ClaimKeepsHeld DEF CallOwnsItsAttempt, TypeOK
    <3>. QED
      BY <3>1, <3>2, HeldIsOwned DEF CallOwnsItsAttempt
  <2>4. Held(s, t)'
    BY DEF Held, ClaimNext, Claimable, ClaimRow, registryVars, TypeOK, StoreTypeOK, TaskTypeOK
  <2>5. Sound(<<"claimed", s, t>>)'
    BY <2>1, <2>4 DEF Sound, workerVars
  <2>6. ASSUME NEW r \in wire PROVE Sound(r)'
    <3>1. Sound(r) /\ r[2] \in Session
      BY DEF WireOK, Sound
    <3>2. r[1] = "claimed" => KeepsHeld(r[2], r[3])
      BY <3>1, ClaimKeepsHeld DEF Sound, TypeOK
    <3>. QED
      BY <2>1, <3>1, <3>2, StaysSound DEF workerVars
  <2>7. OneAnswer'
    BY <2>1 DEF WireOK, OneAnswer, Claimed
  <2>. QED
    BY <2>2, <2>3, <2>5, <2>6, <2>7 DEF TypeOK, CallOwnsItsAttempt, WireOK
<1>. QED
  BY <1>1, <1>2, <1>3, <1>4, <1>5 DEF ClientStep

\* The service changes rows and sessions for a request that nobody waits for.
LEMMA LateInv ==
  ASSUME RemoteInv, NEW r \in wire, wire' = wire \ {r}, UNCHANGED workerVars, StoreTypeOK',
         \A s \in Session, t \in Task :
           Held(s, t) /\ pc[s] \notin Draining \cup Gone => KeepsHeld(s, t)
  PROVE  RemoteInv'
<1>. USE DEF RemoteInv
<1>1. WorkerTypeOK'
  BY DEF TypeOK, WorkerTypeOK, workerVars
<1>2. ASSUME NEW c \in Session, Live(c)' PROVE OwnsItsAttempt(c)'
  <2>1. Live(c) /\ job'[c] = job[c]
    BY <1>2 DEF Live, workerVars
  <2>2. KeepsHeld(c, job[c][1])
    BY <2>1, OwnedIsHeld DEF CallOwnsItsAttempt, Live, Draining, Gone
  <2>. QED
    BY <2>1, <2>2, HeldIsOwned DEF CallOwnsItsAttempt
<1>3. ASSUME NEW q \in wire PROVE Sound(q)'
  <2>1. Sound(q) /\ q[2] \in Session
    BY DEF WireOK, Sound
  <2>2. q[1] = "claimed" => KeepsHeld(q[2], q[3])
    BY <2>1 DEF Sound, Draining, Gone
  <2>. QED
    BY <2>1, <2>2, StaysSound DEF workerVars
<1>. QED
  BY <1>1, <1>2, <1>3 DEF TypeOK, CallOwnsItsAttempt, WireOK, OneAnswer

\* The steps of the service.
LEMMA ServiceInv ==
  ASSUME RemoteInv, NEW r \in wire, ServiceStep(r)
  PROVE  RemoteInv'
<1>. USE DEF RemoteInv
<1>. DEFINE s == r[2]
<1>0. Sound(r) /\ s \in Session
  BY DEF WireOK, Sound
<1>1. CASE AnswersClaim(r)
  <2>1. /\ r[1] = "claimed" /\ pc[s] = "claim" /\ wire' = wire \ {r} /\ UNCHANGED storeVars
        /\ job' = [job EXCEPT ![s] = <<r[3], attempts[r[3]]>>]
        /\ pc' = [pc EXCEPT ![s] = "call"] /\ UNCHANGED <<beating, stopSet>>
    BY <1>1 DEF AnswersClaim, Claimed, Goto
  <2>2. r[3] \in Task /\ Held(s, r[3])
    BY <1>0, <2>1 DEF Sound
  <2>3. StoreTypeOK'
    BY <2>1 DEF TypeOK, storeVars, registryVars, taskVars, usageVars, journalVars, StoreTypeOK,
                RegistryTypeOK, TaskTypeOK, JournalTypeOK
  <2>4. <<r[3], attempts[r[3]]>> \in Task \X Nat
    BY <2>2 DEF TypeOK, StoreTypeOK, TaskTypeOK
  <2>5. WorkerTypeOK'
    BY <2>1, <2>4 DEF TypeOK, WorkerTypeOK, Control, Working
  <2>6. OwnsItsAttempt(s)'
    <3>1. job'[s] = <<r[3], attempts[r[3]]>>
      BY <1>0, <2>1 DEF TypeOK, WorkerTypeOK
    <3>. QED
      BY <2>1, <2>2, <3>1 DEF OwnsItsAttempt, Held, NoJob, storeVars, registryVars, taskVars
  <2>7. ASSUME NEW c \in Session, c # s, Live(c)' PROVE OwnsItsAttempt(c)'
    BY <2>1, <2>7 DEF CallOwnsItsAttempt, Live, OwnsItsAttempt, storeVars, registryVars, taskVars,
                      TypeOK, WorkerTypeOK
  <2>8. ASSUME NEW q \in wire, q # r PROVE Sound(q)'
    <3>1. Sound(q) /\ q[2] \in Session
      BY DEF WireOK, Sound
    <3>2. q[1] = "claimed" => q[2] # s
      BY <2>1, <2>8 DEF WireOK, OneAnswer
    <3>3. q[1] = "claimed" => KeepsHeld(q[2], q[3])
      BY <2>1, <3>1, IdleKeepsHeld DEF Sound
    <3>. QED
      BY <2>1, <3>1, <3>2, <3>3, StaysSound DEF TypeOK, WorkerTypeOK, Draining, Gone
  <2>. QED
    BY <2>1, <2>3, <2>5, <2>6, <2>7, <2>8 DEF TypeOK, CallOwnsItsAttempt, WireOK, OneAnswer
<1>2. CASE Arrives(r)
  <2>1. Executes(r) /\ wire' = wire \ {r} /\ UNCHANGED workerVars
    BY <1>2 DEF Arrives
  <2>. QED
    BY <1>0, <2>1, ArrivalKeepsHeld, ArrivalTyping, LateInv DEF TypeOK
<1>3. CASE Decides(r)
  <2>. PICK u : /\ u = <<"write", r[2], r[3], r[4], FinishedStatus(r[3], r[5])>>
                /\ wire' = (wire \ {r}) \cup {u}
    BY <1>3 DEF Decides
  <2>1. r[1] = "finish" /\ UNCHANGED vars
    BY <1>3 DEF Decides
  <2>2. FinishedStatus(r[3], r[5]) \in EndStatus
    BY DEF FinishedStatus, EndStatus
  <2>3. Sound(u)' /\ u[1] = "write"
    BY <1>0, <2>1, <2>2 DEF Sound, vars, workerVars
  <2>4. /\ UNCHANGED storeVars /\ pc' = pc /\ job' = job /\ WorkerTypeOK'
    BY <2>1 DEF vars, workerVars, TypeOK, WorkerTypeOK
  <2>. QED
    BY <1>0, <2>3, <2>4, LeavingInv
<1>4. CASE Writes(r)
  <2>1. wire' = wire \ {r} /\ UNCHANGED workerVars
    BY <1>4 DEF Writes
  <2>. QED
    BY <1>0, <1>4, <2>1, WriteKeepsHeld, WriteTyping, LateInv DEF TypeOK
<1>5. CASE Lost(r)
  <2>1. /\ UNCHANGED storeVars /\ pc' = pc /\ job' = job /\ WorkerTypeOK' /\ wire' = wire \ {r}
    BY <1>5 DEF Lost, vars, workerVars, TypeOK, WorkerTypeOK
  <2>. QED
    BY <1>0, <2>1, LeavingInv
<1>. QED
  BY <1>1, <1>2, <1>3, <1>4, <1>5 DEF ServiceStep

\* The three parts survive every step.
LEMMA RemoteInvariance == RemoteSpec => []RemoteInv
<1>1. RemoteInit => RemoteInv
  BY InitTyping DEF RemoteInit, Init, RemoteInv, CallOwnsItsAttempt, Live, WireOK, OneAnswer
<1>2. RemoteInv /\ [RemoteNext]_remoteVars => RemoteInv'
  <2>1. ASSUME RemoteInv, RemoteNext PROVE RemoteInv'
    BY <2>1, AnsweredInv, ClientInv, ServiceInv, RemoteAssumption DEF RemoteNext
  <2>2. ASSUME RemoteInv, UNCHANGED remoteVars PROVE RemoteInv'
    BY <2>2
    DEF RemoteInv, remoteVars, vars, storeVars, registryVars, taskVars, usageVars, journalVars, workerVars,
        TypeOK, StoreTypeOK, RegistryTypeOK, TaskTypeOK, JournalTypeOK, WorkerTypeOK, CallOwnsItsAttempt,
        Live, OwnsItsAttempt, WireOK, OneAnswer, Sound, Held
  <2>. QED
    BY <2>1, <2>2
<1>. QED
  BY <1>1, <1>2, PTL DEF RemoteSpec

\* A live invocation owns its attempt, although claims, results, heartbeats,
\* stops and confirmations of any worker may be executed long after they
\* were given up (remote.py, call and _dispatch).
THEOREM RemoteOwnershipAlways == RemoteSpec => []CallOwnsItsAttempt
<1>1. RemoteInv => CallOwnsItsAttempt
  BY DEF RemoteInv
<1>. QED
  BY <1>1, RemoteInvariance, PTL

\* Nor do invocations of one task overlap, on whatever hosts they run.
THEOREM RemoteNoOverlapAlways == RemoteSpec => []NoOverlap
<1>1. RemoteInv => NoOverlap
  BY DEF RemoteInv, CallOwnsItsAttempt, OwnsItsAttempt, Live, NoOverlap
<1>. QED
  BY <1>1, RemoteInvariance, PTL
----------------------------------------------------------------------------
(* Which rows a step lets run *)

\* A claim by a session, as a step of the rows.
LEMMA ClaimNextMovesOn ==
  ASSUME StoreTypeOK, NEW c \in Session, NEW t \in Task, ClaimNext(c, t)
  PROVE  /\ RowsMoveOn({c}) /\ owner'[t] = c /\ attempts'[t] = NextAttempt(t)
         /\ \A u \in Task \ {t} : attempts'[u] = attempts[u]
BY ClaimMovesOn DEF ClaimNext

\* A committed result, as a step of the rows.
LEMMA FinishMovesOn ==
  ASSUME StoreTypeOK, NEW c, NEW t, NEW n, NEW o, Finish(c, t, n, o)
  PROVE  RowsMoveOn({}) /\ (t \in Task => status'[t] # "RUNNING")
<1>. DEFINE f == [u \in {t} |-> FinishedStatus(u, o)]
<1>1. (\A u \in {t} : f[u] # "RUNNING") /\ Release({t}, f)
  BY DEF Finish, FinishedStatus
<1>. HIDE DEF f
<1>. QED
  BY <1>1, ReleaseMovesOn

\* A row only starts to run for a session that claims it, or that claimed it
\* and leaves its loop because the answer is lost.
LEMMA NextMovesOn ==
  ASSUME TypeOK, Next
  PROVE  \E C \in SUBSET Session : RowsMoveOn(C) /\ \A c \in C : pc'[c] = "join" \/ Claims(c)
<1>. USE DEF TypeOK, WorkerTypeOK
<1>. DEFINE Goal == \E C \in SUBSET Session : RowsMoveOn(C) /\ \A c \in C : pc'[c] = "join" \/ Claims(c)
<1>0. RowsMoveOn({}) => Goal
  OBVIOUS
<1>1. ASSUME UNCHANGED taskVars PROVE Goal
  BY <1>0, <1>1, IdleMovesOn
<1>2. ASSUME NEW c \in Session, WorkerStep(c) PROVE Goal
  <2>1. CASE Start(c) \/ StartFails(c) \/ HeartbeatStep(c)
    BY <1>1, <2>1 DEF Start, StartFails, HeartbeatStep, Beat, BeatFails, BeatEnds, RegistryStep, storeVars
  <2>2. CASE Claims(c)
    <3>. PICK t \in Task : ClaimNext(c, t)
      BY <2>2 DEF Claims
    <3>1. RowsMoveOn({c})
      BY ClaimNextMovesOn
    <3>. QED
      BY <2>2, <3>1
  <2>3. CASE ClaimBreaks(c)
    <3>1. pc'[c] = "join"
      BY <2>3 DEF ClaimBreaks, LeaveLoop, Goto
    <3>2. CASE UNCHANGED storeVars
      BY <1>1, <3>2 DEF storeVars
    <3>3. CASE ClaimNone(c)
      BY <1>0, <3>3, RefuseMovesOn DEF ClaimNone
    <3>4. CASE \E t \in Task : ClaimNext(c, t)
      <4>1. RowsMoveOn({c})
        BY <3>4, ClaimNextMovesOn
      <4>. QED
        BY <3>1, <4>1
    <3>. QED
      BY <2>3, <3>2, <3>3, <3>4 DEF ClaimBreaks
  <2>4. CASE ClaimsNothing(c)
    BY <1>0, <1>1, <2>4, RefuseMovesOn DEF ClaimsNothing, ClaimNone, storeVars
  <2>5. CASE Commits(c) \/ CommitBreaks(c)
    <3>1. UNCHANGED storeVars \/ \E o \in Outcome : Finish(c, job[c][1], job[c][2], o)
      BY <2>5 DEF Commits, CommitBreaks
    <3>2. (\E o \in Outcome : Finish(c, job[c][1], job[c][2], o)) => RowsMoveOn({})
      BY FinishMovesOn
    <3>. QED
      BY <1>0, <1>1, <3>1, <3>2 DEF storeVars
  <2>6. CASE LoopTop(c) \/ ClaimRefused(c) \/ Returns(c) \/ CommitRefused(c) \/ Joins(c) \/ Crash(c)
    BY <1>1, <2>6 DEF LoopTop, ClaimRefused, Returns, CommitRefused, Joins, Crash, storeVars
  <2>7. CASE RequestsDrain(c) \/ ConfirmsDrain(c)
    BY <1>1, <2>7 DEF RequestsDrain, ConfirmsDrain, RegistryStep, storeVars
  <2>. QED
    BY <1>2, <2>1, <2>2, <2>3, <2>4, <2>5, <2>6, <2>7 DEF WorkerStep, ConsumerStep
<1>3. ASSUME NEW c \in Session, SupervisorStep(c) PROVE Goal
  <2>1. CASE Recovers(c)
    <3>. DEFINE S == RunningOf(c)
                f == [t \in S |-> RecoveredStatus(t)]
    <3>1. (\A t \in S : f[t] # "RUNNING") /\ Release(S, f)
      BY <2>1 DEF Recovers, RecoverWorker, RecoverRows, RecoveredStatus
    <3>. HIDE DEF S, f
    <3>. QED
      BY <1>0, <3>1, ReleaseMovesOn
  <2>2. CASE ~Recovers(c)
    BY <1>1, <1>3, <2>2 DEF SupervisorStep, StopLocally, RequestsStop, StopsSession, Fences, AttestsExit,
                            RegistryStep, storeVars
  <2>. QED
    BY <2>1, <2>2
<1>4. CASE \E t \in Task : Submits(t)
  BY <1>0, <1>4, SubmitMovesOn DEF Submits
<1>5. CASE DetectsOverdue \/ TimePasses
  BY <1>0, <1>1, <1>5, SubmitMovesOn DEF DetectsOverdue, TimePasses, RegistryStep
<1>. QED
  BY <1>2, <1>3, <1>4, <1>5 DEF Next

\* A late request lets a row run for its own session only.
LEMMA ArrivalMovesOn ==
  ASSUME StoreTypeOK, NEW r, Sound(r), Executes(r)
  PROVE  \E C \in SUBSET Session : RowsMoveOn(C) /\ \A c \in C : pc[c] \in Draining \cup Gone
<1>. DEFINE c == r[2]
<1>1. CASE r[1] # "claim"
  BY <1>1, IdleMovesOn DEF Executes, RegistryStep
<1>2. CASE r[1] = "claim"
  <2>1. c \in Session /\ pc[c] \in Draining \cup Gone
    BY <1>2 DEF Sound
  <2>2. CASE ClaimNone(c)
    BY <2>2, RefuseMovesOn DEF ClaimNone
  <2>3. CASE \E t \in Task : ClaimNext(c, t)
    <3>1. RowsMoveOn({c})
      BY <2>1, <2>3, ClaimNextMovesOn
    <3>. QED
      BY <2>1, <3>1
  <2>. QED
    BY <1>2, <2>2, <2>3 DEF Executes
<1>. QED
  BY <1>1, <1>2

\* A late result.
LEMMA WriteMovesOn ==
  ASSUME StoreTypeOK, NEW r, Sound(r), Writes(r)
  PROVE  RowsMoveOn({})
<1>. DEFINE f == [t \in {r[3]} |-> r[5]]
<1>1. (\A u \in {r[3]} : f[u] # "RUNNING") /\ Release({r[3]}, f)
  BY DEF Writes, Sound, EndStatus
<1>. HIDE DEF f
<1>. QED
  BY <1>1, ReleaseMovesOn
----------------------------------------------------------------------------
(* A session at work knows its rows *)

Early == {"new"} \cup Working

Owns(s, t) == status[t] = "RUNNING" /\ owner[t] = s

\* The hands of a session are empty between its calls; while it may still
\* consume, the row it owns is in its hands or in an answer on its way.
Knows(s) ==
  /\ pc[s] \notin {"call", "commit"} => job[s] = NoJob
  /\ pc[s] \in Early =>
       \A t \in Task : Owns(s, t) => job[s] = <<t, attempts[t]>> \/ <<"claimed", s, t>> \in wire

KnowsInv == \A s \in Session : Knows(s)

\* Empty hands hold no row.
LEMMA NoJobIsEmpty == \A t, n : NoJob # <<t, n>>
BY DEF NoJob

\* A session that stays at its place, or not, keeps what it has in its hands
\* unless it claims, commits or leaves its loop.
LEMMA HandsStep ==
  ASSUME TypeOK, Next, NEW s \in Session
  PROVE  \/ job'[s] = job[s] /\ (pc'[s] \in {"call", "commit"} <=> pc[s] \in {"call", "commit"})
         \/ Claims(s)
         \/ Commits(s) /\ pc'[s] = "poll" /\ job'[s] = NoJob
         \/ job'[s] = NoJob /\ pc'[s] \in Draining \cup Gone
<1>. USE DEF TypeOK, WorkerTypeOK, Goto, Draining, Gone
<1>1. ASSUME NEW c \in Session, WorkerStep(c), c # s PROVE job'[s] = job[s] /\ pc'[s] = pc[s]
  BY <1>1
  DEF WorkerStep, Start, StartFails, HeartbeatStep, Beat, BeatFails, BeatEnds, Crash, workerVars, ConsumerStep,
      LoopTop, LeaveLoop, Claims, ClaimsNothing, ClaimRefused, ClaimBreaks, Returns, Commits, CommitRefused,
      CommitBreaks, Joins, RequestsDrain, ConfirmsDrain
<1>2. CASE Start(s) \/ StartFails(s) \/ HeartbeatStep(s)
  BY <1>2 DEF Start, StartFails, HeartbeatStep, Beat, BeatFails, BeatEnds, workerVars
<1>3. CASE ClaimRefused(s) \/ ClaimBreaks(s) \/ CommitRefused(s) \/ CommitBreaks(s) \/ Crash(s)
  BY <1>3 DEF ClaimRefused, ClaimBreaks, CommitRefused, CommitBreaks, Crash, LeaveLoop, NoJob
<1>4. CASE LoopTop(s) \/ ClaimsNothing(s) \/ Returns(s) \/ Joins(s) \/ RequestsDrain(s) \/ ConfirmsDrain(s)
  BY <1>4 DEF LoopTop, LeaveLoop, ClaimsNothing, Returns, Joins, RequestsDrain, ConfirmsDrain, NoJob
<1>5. CASE Commits(s)
  BY <1>5 DEF Commits, NoJob
<1>6. CASE ~(\E c \in Session : WorkerStep(c))
  BY <1>6 DEF Next, SupervisorStep, StopLocally, RequestsStop, StopsSession, Fences, AttestsExit, Recovers,
              Submits, DetectsOverdue, TimePasses, workerVars
<1>. QED
  BY <1>1, <1>2, <1>3, <1>4, <1>5, <1>6 DEF WorkerStep, ConsumerStep

\* A step of ReliableWorker.
LEMMA AnsweredKnows ==
  ASSUME RemoteInv, KnowsInv, Answered
  PROVE  KnowsInv'
<1>. USE DEF RemoteInv, TypeOK, WorkerTypeOK
<1>. SUFFICES ASSUME NEW s \in Session PROVE Knows(s)'
  BY DEF KnowsInv
<1>0. Next /\ wire' = wire /\ Knows(s)
  BY DEF Answered, KnowsInv
<1>. PICK C \in SUBSET Session : RowsMoveOn(C) /\ \A c \in C : pc'[c] = "join" \/ Claims(c)
  BY <1>0, NextMovesOn
<1>1. ASSUME pc'[s] \in Early PROVE pc[s] \in Early /\ pc'[s] # "join"
  <2>1. pc'[s] \notin Draining \cup Gone
    BY <1>1 DEF Early, Working, Draining, Gone
  <2>. QED
    BY <1>0, <2>1, LeavesForGood DEF Early, Control, Draining
<1>2. CASE Claims(s)
  <2>. PICK t \in Task : ClaimNext(s, t) /\ job' = [job EXCEPT ![s] = <<t, NextAttempt(t)>>]
    BY <1>2 DEF Claims
  <2>1. pc[s] = "claim" /\ pc'[s] = "call"
    BY <1>2 DEF Claims, Goto
  <2>2. Claimed(s) = {}
    BY <2>1 DEF Answered
  <2>3. \A u \in Task : ~Owns(s, u)
    <3>1. job[s] = NoJob /\ pc[s] \in Early
      BY <1>0, <2>1 DEF Knows, Early, Working
    <3>2. \A u \in Task : <<"claimed", s, u>> \notin wire
      BY <2>2 DEF Claimed
    <3>. QED
      BY <1>0, <3>1, <3>2, NoJobIsEmpty DEF Knows
  <2>4. /\ RowsMoveOn({s}) /\ attempts'[t] = NextAttempt(t)
        /\ \A u \in Task \ {t} : attempts'[u] = attempts[u]
    BY ClaimNextMovesOn
  <2>5. ASSUME NEW u \in Task, Owns(s, u)' PROVE u = t
    BY <2>3, <2>4, <2>5 DEF RowsMoveOn, SameExecution, Owns, StoreTypeOK, TaskTypeOK
  <2>. QED
    BY <2>1, <2>4, <2>5 DEF Knows
<1>3. ASSUME ~Claims(s), NEW t \in Task, Owns(s, t)', pc'[s] \in Early
      PROVE  Owns(s, t) /\ attempts'[t] = attempts[t]
  BY <1>1, <1>3 DEF RowsMoveOn, SameExecution, Owns
<1>4. CASE /\ ~Claims(s) /\ job'[s] = job[s]
           /\ pc'[s] \in {"call", "commit"} <=> pc[s] \in {"call", "commit"}
  BY <1>0, <1>1, <1>3, <1>4 DEF Knows
<1>5. CASE ~Claims(s) /\ Commits(s) /\ pc'[s] = "poll" /\ job'[s] = NoJob
  <2>1. pc[s] = "commit" /\ pc[s] \in Early
    BY <1>5 DEF Commits, Early, Working
  <2>2. ASSUME NEW t \in Task, Owns(s, t)' PROVE FALSE
    <3>1. Owns(s, t) /\ attempts'[t] = attempts[t]
      BY <1>3, <1>5, <2>2 DEF Early, Working
    <3>2. <<"claimed", s, t>> \notin wire
      BY <2>1 DEF WireOK, Sound
    <3>3. job[s] = <<t, attempts[t]>>
      BY <1>0, <2>1, <3>1, <3>2 DEF Knows
    <3>4. status'[t] # "RUNNING"
      BY <1>5, <3>3, FinishMovesOn DEF Commits
    <3>. QED
      BY <2>2, <3>4 DEF Owns
  <2>. QED
    BY <1>5, <2>2 DEF Knows
<1>6. CASE job'[s] = NoJob /\ pc'[s] \in Draining \cup Gone
  BY <1>6 DEF Knows, Early, Working, Draining, Gone
<1>. QED
  BY <1>0, <1>2, <1>4, <1>5, <1>6, HandsStep

\* A step of a client that changes no row.
LEMMA LeavingKnows ==
  ASSUME KnowsInv, UNCHANGED storeVars, NEW s \in Session,
         \A c \in Session \ {s} : pc'[c] = pc[c] /\ job'[c] = job[c],
         \/ pc'[s] = pc[s] /\ job'[s] = job[s]
         \/ pc'[s] \in Draining \cup Gone /\ job'[s] = NoJob,
         \A c \in Session, t \in Task :
           pc'[c] \in Early /\ <<"claimed", c, t>> \in wire => <<"claimed", c, t>> \in wire'
  PROVE  KnowsInv'
<1>1. UNCHANGED <<status, owner, attempts>>
  BY DEF storeVars, taskVars
<1>. QED
  BY <1>1 DEF KnowsInv, Knows, Owns, Early, Working, Draining, Gone

\* A step of the service that leaves the hands alone.
LEMMA LateKnows ==
  ASSUME StoreTypeOK, KnowsInv, UNCHANGED workerVars, NEW C \in SUBSET Session, RowsMoveOn(C),
         \A c \in C : pc[c] \in Draining \cup Gone,
         \A c \in Session, t \in Task : <<"claimed", c, t>> \in wire => <<"claimed", c, t>> \in wire'
  PROVE  KnowsInv'
<1>. SUFFICES ASSUME NEW s \in Session PROVE Knows(s)'
  BY DEF KnowsInv
<1>1. Knows(s) /\ pc' = pc /\ job' = job
  BY DEF KnowsInv, workerVars
<1>2. ASSUME pc[s] \in Early, NEW t \in Task, Owns(s, t)' PROVE Owns(s, t) /\ attempts'[t] = attempts[t]
  BY <1>2 DEF RowsMoveOn, SameExecution, Owns, Early, Working, Draining, Gone
<1>. QED
  BY <1>1, <1>2 DEF Knows

\* The steps of a client that is not answered.
LEMMA ClientKnows ==
  ASSUME RemoteInv, KnowsInv, NEW s \in Session, ClientStep(s)
  PROVE  KnowsInv'
<1>. USE DEF RemoteInv, TypeOK, WorkerTypeOK, Goto
<1>1. CASE GivesUp(s)
  <2>1. pc[s] \in Calling /\ UNCHANGED storeVars /\ wire \subseteq wire'
    BY <1>1 DEF GivesUp, Asks
  <2>2. pc'[s] \in Draining \cup Gone /\ job'[s] = NoJob
    BY <1>1, <2>1 DEF GivesUp, AfterNoAnswer, LeaveLoop, Calling, Draining, Gone, KnowsInv, Knows, NoJob
  <2>3. \A c \in Session \ {s} : pc'[c] = pc[c] /\ job'[c] = job[c]
    BY <1>1 DEF GivesUp, AfterNoAnswer, LeaveLoop
  <2>. QED
    BY <2>1, <2>2, <2>3, LeavingKnows
<1>2. CASE DiesCalling(s)
  <2>1. /\ UNCHANGED storeVars /\ wire \subseteq wire'
        /\ pc'[s] \in Gone /\ job'[s] = NoJob
        /\ \A c \in Session \ {s} : pc'[c] = pc[c] /\ job'[c] = job[c]
    BY <1>2 DEF DiesCalling, Crash, Gone, NoJob
  <2>. QED
    BY <2>1, LeavingKnows
<1>3. CASE BeatGivesUp(s)
  BY <1>3, LeavingKnows DEF BeatGivesUp, BeatFails
<1>4. CASE GivesUpAnswer(s)
  <2>1. /\ UNCHANGED storeVars /\ wire' = wire \ Claimed(s)
        /\ pc'[s] \in Draining \cup Gone /\ job'[s] = NoJob
        /\ \A c \in Session \ {s} : pc'[c] = pc[c] /\ job'[c] = job[c]
    BY <1>4 DEF GivesUpAnswer, LeaveLoop, Crash, Draining, Gone, NoJob
  <2>2. \A c \in Session, t \in Task :
          pc'[c] \in Early /\ <<"claimed", c, t>> \in wire => <<"claimed", c, t>> \in wire'
    BY <2>1 DEF Claimed, Early, Working, Draining, Gone
  <2>. QED
    BY <2>1, <2>2, LeavingKnows
<1>5. CASE ServesClaim(s)
  <2>. PICK t \in Task : ClaimNext(s, t) /\ wire' = wire \cup {<<"claimed", s, t>>}
    BY <1>5 DEF ServesClaim
  <2>1. /\ RowsMoveOn({s}) /\ owner'[t] = s
        /\ \A u \in Task \ {t} : attempts'[u] = attempts[u]
    BY ClaimNextMovesOn
  <2>2. pc' = pc /\ job' = job
    BY <1>5 DEF ServesClaim, workerVars
  <2>3. ASSUME NEW c \in Session, NEW u \in Task, Owns(c, u)', <<c, u>> # <<s, t>>
        PROVE  Owns(c, u) /\ attempts'[u] = attempts[u]
    BY <2>1, <2>3 DEF RowsMoveOn, SameExecution, Owns, StoreTypeOK, TaskTypeOK
  <2>. QED
    BY <2>2, <2>3 DEF KnowsInv, Knows
<1>. QED
  BY <1>1, <1>2, <1>3, <1>4, <1>5 DEF ClientStep

\* The steps of the service.
LEMMA ServiceKnows ==
  ASSUME RemoteInv, KnowsInv, NEW r \in wire, ServiceStep(r)
  PROVE  KnowsInv'
<1>. USE DEF RemoteInv, TypeOK, WorkerTypeOK
<1>. DEFINE s == r[2]
<1>0. Sound(r) /\ s \in Session
  BY DEF WireOK, Sound
<1>1. CASE AnswersClaim(r)
  <2>. DEFINE t == r[3]
  <2>1. /\ r[1] = "claimed" /\ wire' = wire \ {r} /\ UNCHANGED storeVars
        /\ pc[s] = "claim" /\ pc' = [pc EXCEPT ![s] = "call"]
        /\ job' = [job EXCEPT ![s] = <<t, attempts[t]>>]
    BY <1>1 DEF AnswersClaim, Claimed, Goto
  <2>2. UNCHANGED <<status, owner, attempts>>
    BY <2>1 DEF storeVars, taskVars
  <2>3. ASSUME NEW u \in Task, Owns(s, u) PROVE u = t
    <3>1. <<"claimed", s, u>> \in wire
      <4>1. Knows(s) /\ pc[s] \in Early /\ job[s] = NoJob
        BY <1>0, <2>1 DEF KnowsInv, Knows, Early, Working
      <4>. QED
        BY <2>3, <4>1, NoJobIsEmpty DEF Knows
    <3>. QED
      BY <2>1, <3>1 DEF WireOK, OneAnswer
  <2>4. Knows(s)'
    BY <1>0, <2>1, <2>2, <2>3 DEF Knows, Owns
  <2>5. ASSUME NEW c \in Session, c # s PROVE Knows(c)'
    BY <1>0, <2>1, <2>2, <2>5 DEF KnowsInv, Knows, Owns
  <2>. QED
    BY <2>4, <2>5 DEF KnowsInv
<1>2. CASE Arrives(r)
  <2>1. Executes(r) /\ wire' = wire \ {r} /\ UNCHANGED workerVars /\ r[1] # "claimed"
    BY <1>2 DEF Arrives, Executes
  <2>. PICK C \in SUBSET Session : RowsMoveOn(C) /\ \A c \in C : pc[c] \in Draining \cup Gone
    BY <1>0, <2>1, ArrivalMovesOn
  <2>. QED
    BY <2>1, LateKnows
<1>3. CASE Decides(r)
  BY <1>0, <1>3, LeavingKnows DEF Decides, vars, workerVars
<1>4. CASE Writes(r)
  <2>1. r[1] = "write" /\ wire' = wire \ {r} /\ UNCHANGED workerVars
    BY <1>4 DEF Writes
  <2>2. RowsMoveOn({})
    BY <1>0, <1>4, <2>1, WriteMovesOn
  <2>. QED
    BY <2>1, <2>2, LateKnows
<1>5. CASE Lost(r)
  <2>1. UNCHANGED vars /\ wire' = wire \ {r} /\ r \notin Claimed(s)
    BY <1>5 DEF Lost
  <2>2. r[1] # "claimed"
    BY <2>1 DEF Claimed
  <2>. QED
    BY <1>0, <2>1, <2>2, LeavingKnows DEF vars, workerVars
<1>. QED
  BY <1>1, <1>2, <1>3, <1>4, <1>5 DEF ServiceStep

\* It is known from the start.
LEMMA KnowledgeInvariance == RemoteSpec => []KnowsInv
<1>1. RemoteInit => KnowsInv
  BY DEF RemoteInit, Init, StoreInit, KnowsInv, Knows, Owns
<1>2. RemoteInv /\ KnowsInv /\ [RemoteNext]_remoteVars => KnowsInv'
  <2>1. ASSUME RemoteInv, KnowsInv, RemoteNext PROVE KnowsInv'
    BY <2>1, AnsweredKnows, ClientKnows, ServiceKnows, RemoteAssumption DEF RemoteNext
  <2>2. ASSUME KnowsInv, UNCHANGED remoteVars PROVE KnowsInv'
    BY <2>2 DEF KnowsInv, Knows, Owns, remoteVars, vars, storeVars, taskVars, workerVars
  <2>. QED
    BY <2>1, <2>2
<1>. QED
  BY <1>1, <1>2, RemoteInvariance, PTL DEF RemoteSpec

\* While a session works, the rows it owns are in its hands: what a late
\* claim left with it belongs to a session that never consumes again
\* (reliable_worker.py, _consume and _run; remote.py, call).
THEOREM ConsumerKnowsAlways == RemoteSpec => []ConsumerKnowsItsRows
<1>1. KnowsInv => ConsumerKnowsItsRows
  BY RegistryAssumption DEF KnowsInv, Knows, Owns, Early, ConsumerKnowsItsRows, RunningOf, WorkerSession
<1>. QED
  BY <1>1, KnowledgeInvariance, PTL
----------------------------------------------------------------------------
(* A retry that was decided still fits when it is written *)

\* The attempt it was decided for is not ahead of the row; and while the row
\* still runs that attempt, the budget has not been spent otherwise.
Fits(r) ==
  r[1] = "write" =>
    /\ r[4] \in Nat /\ r[4] <= attempts[r[3]]
    /\ status[r[3]] = "RUNNING" /\ attempts[r[3]] = r[4] /\ r[5] = "RETRYING" =>
         retries[r[3]] < limit[r[3]]

BudgetInv == BooksOK /\ \A r \in wire : Fits(r)

\* A row that moves on leaves an old decision behind, or is where it was.
LEMMA StaysFit ==
  ASSUME StoreTypeOK, NEW C, RowsMoveOn(C), NEW r, Sound(r), Fits(r)
  PROVE  Fits(r)'
<1>. SUFFICES ASSUME r[1] = "write" PROVE Fits(r)'
  BY DEF Fits
<1>. DEFINE t == r[3]
<1>1. t \in Task /\ attempts[t] \in Nat /\ attempts'[t] >= attempts[t] /\ limit'[t] = limit[t]
  BY DEF Sound, RowsMoveOn, StoreTypeOK, TaskTypeOK
<1>2. attempts'[t] \in Nat
  BY <1>1 DEF RowsMoveOn
<1>3. r[4] \in Nat /\ r[4] <= attempts[t]
  BY DEF Fits
<1>4. ASSUME status'[t] = "RUNNING", attempts'[t] = r[4], r[5] = "RETRYING"
      PROVE  retries'[t] < limit'[t]
  <2>1. SameExecution(t)
    BY <1>1, <1>3, <1>4 DEF RowsMoveOn
  <2>. QED
    BY <1>1, <1>4, <2>1 DEF SameExecution, Fits
<1>. QED
  BY <1>1, <1>2, <1>3, <1>4 DEF Fits

\* The books, when a step of ReliableWorker is taken.
LEMMA NextKeepsBooks ==
  ASSUME TypeOK, BooksOK, Next, \A s \in Session : pc[s] = "commit" => job[s][1] \in Task
  PROVE  BooksOK'
<1>. USE DEF TypeOK
<1>1. ASSUME UNCHANGED taskVars PROVE BooksOK'
  BY <1>1 DEF taskVars, BooksOK, Granted
<1>2. ASSUME NEW c \in Session, WorkerStep(c) PROVE BooksOK'
  <2>1. CASE Start(c) \/ StartFails(c) \/ HeartbeatStep(c) \/ RequestsDrain(c) \/ ConfirmsDrain(c)
    BY <1>1, <2>1 DEF Start, StartFails, HeartbeatStep, Beat, BeatFails, BeatEnds, RequestsDrain,
                      ConfirmsDrain, RegistryStep, storeVars
  <2>2. CASE Claims(c) \/ ClaimsNothing(c) \/ ClaimBreaks(c)
    <3>1. UNCHANGED storeVars \/ ClaimNone(c) \/ \E t \in Task : ClaimNext(c, t)
      BY <2>2 DEF Claims, ClaimsNothing, ClaimBreaks
    <3>. QED
      BY <1>1, <3>1, ClaimNextKeepsBooks, RefuseKeepsBooks DEF storeVars
  <2>3. CASE Commits(c) \/ CommitBreaks(c)
    <3>1. /\ job[c][1] \in Task
          /\ UNCHANGED storeVars \/ \E o \in Outcome : Finish(c, job[c][1], job[c][2], o)
      BY <2>3 DEF Commits, CommitBreaks
    <3>. QED
      BY <1>1, <3>1, FinishKeepsBooks DEF storeVars
  <2>4. CASE LoopTop(c) \/ ClaimRefused(c) \/ Returns(c) \/ CommitRefused(c) \/ Joins(c) \/ Crash(c)
    BY <1>1, <2>4 DEF LoopTop, ClaimRefused, Returns, CommitRefused, Joins, Crash, storeVars
  <2>. QED
    BY <1>2, <2>1, <2>2, <2>3, <2>4 DEF WorkerStep, ConsumerStep
<1>3. ASSUME NEW c \in Session, SupervisorStep(c) PROVE BooksOK'
  <2>1. CASE Recovers(c)
    BY <2>1, RecoverKeepsBooks DEF Recovers, RecoverWorker, RunningOf
  <2>2. CASE ~Recovers(c)
    BY <1>1, <1>3, <2>2 DEF SupervisorStep, StopLocally, RequestsStop, StopsSession, Fences, AttestsExit,
                            RegistryStep, storeVars
  <2>. QED
    BY <2>1, <2>2
<1>4. CASE (\E t \in Task : Submits(t)) \/ DetectsOverdue \/ TimePasses
  BY <1>1, <1>4, SubmitKeepsBooks DEF Submits, DetectsOverdue, TimePasses, RegistryStep
<1>. QED
  BY <1>2, <1>3, <1>4 DEF Next

\* A late result is entered as the decision says, if it fits.
LEMMA WriteKeepsBooks ==
  ASSUME StoreTypeOK, BooksOK, NEW r, Sound(r), Fits(r), Writes(r)
  PROVE  BooksOK'
<1>. DEFINE t == r[3]
            f == [u \in {t} |-> r[5]]
<1>1. t \in Task /\ status[t] = "RUNNING" /\ attempts[t] = r[4] /\ Release({t}, f)
  BY DEF Writes, MayWrite, MayFinish, Sound
<1>2. f \in [{t} -> {"SUCCESS", "FAILED", "RETRYING"}] /\ (f[t] = "RETRYING" => retries[t] < limit[t])
  BY <1>1 DEF Writes, Sound, EndStatus, Fits
<1>. HIDE DEF t, f
<1>. QED
  BY <1>1, <1>2, ReleaseKeepsBooks

\* What every step leaves of the books and of the decisions under way.
LEMMA BudgetStep ==
  ASSUME RemoteInv, BudgetInv, RemoteNext
  PROVE  BudgetInv'
<1>. USE DEF RemoteInv, TypeOK
<1>1. ASSUME NEW C, RowsMoveOn(C), BooksOK', \A r \in wire' \ wire : Fits(r)' PROVE BudgetInv'
  BY <1>1, StaysFit DEF BudgetInv, WireOK
<1>2. ASSUME UNCHANGED storeVars, \A r \in wire' \ wire : Fits(r)' PROVE BudgetInv'
  <2>1. BooksOK'
    BY <1>2 DEF BudgetInv, BooksOK, Granted, storeVars, taskVars
  <2>. QED
    BY <1>1, <1>2, <2>1, IdleMovesOn DEF storeVars
<1>3. CASE Answered
  <2>1. \A s \in Session : pc[s] = "commit" => job[s][1] \in Task
    BY OwnedIsHeld DEF CallOwnsItsAttempt, Live
  <2>2. BooksOK' /\ wire' = wire
    BY <1>3, <2>1, NextKeepsBooks DEF Answered, BudgetInv
  <2>. QED
    BY <1>1, <1>3, <2>2, NextMovesOn DEF Answered
<1>4. ASSUME NEW s \in Session, ClientStep(s) PROVE BudgetInv'
  <2>1. CASE ServesClaim(s)
    <3>. PICK t \in Task : ClaimNext(s, t) /\ wire' = wire \cup {<<"claimed", s, t>>}
      BY <2>1 DEF ServesClaim
    <3>1. RowsMoveOn({s}) /\ BooksOK'
      BY ClaimNextMovesOn, ClaimNextKeepsBooks DEF BudgetInv
    <3>. QED
      BY <1>1, <3>1 DEF Fits
  <2>2. CASE GivesUp(s) \/ DiesCalling(s)
    <3>1. PICK r \in InFlight(s) : wire' = wire \cup {r}
      BY <2>2 DEF GivesUp, DiesCalling
    <3>2. UNCHANGED storeVars /\ pc[s] \in Calling
      BY <2>2 DEF GivesUp, DiesCalling, Crash, Asks
    <3>3. r[1] # "write"
      BY <3>2 DEF InFlight, Calling
    <3>. QED
      BY <1>2, <3>1, <3>2, <3>3 DEF Fits
  <2>3. CASE BeatGivesUp(s) \/ GivesUpAnswer(s)
    BY <1>2, <2>3 DEF BeatGivesUp, BeatFails, GivesUpAnswer, Crash, Fits
  <2>. QED
    BY <1>4, <2>1, <2>2, <2>3 DEF ClientStep
<1>5. ASSUME NEW r \in wire, ServiceStep(r) PROVE BudgetInv'
  <2>. DEFINE s == r[2]
  <2>0. Sound(r) /\ Fits(r) /\ s \in Session
    BY DEF WireOK, Sound, BudgetInv
  <2>1. CASE AnswersClaim(r) \/ Lost(r)
    BY <1>2, <2>1 DEF AnswersClaim, Lost, vars
  <2>2. CASE Arrives(r)
    <3>1. Executes(r) /\ wire' = wire \ {r}
      BY <2>2 DEF Arrives
    <3>2. CASE UNCHANGED storeVars
      BY <1>2, <3>1, <3>2
    <3>3. BooksOK'
      <4>1. CASE r[1] # "claim"
        BY <3>1, <4>1 DEF Executes, RegistryStep, BudgetInv, BooksOK, Granted, taskVars
      <4>2. CASE r[1] = "claim"
        BY <2>0, <3>1, <4>2, ClaimNextKeepsBooks, RefuseKeepsBooks DEF Executes, BudgetInv
      <4>. QED
        BY <4>1, <4>2
    <3>. QED
      BY <1>1, <2>0, <3>1, <3>3, ArrivalMovesOn
  <2>3. CASE Decides(r)
    <3>. PICK u : /\ u = <<"write", s, r[3], r[4], FinishedStatus(r[3], r[5])>>
                  /\ wire' = (wire \ {r}) \cup {u}
      BY <2>3 DEF Decides
    <3>1. UNCHANGED storeVars /\ r[3] \in Task /\ attempts[r[3]] = r[4]
      BY <2>0, <2>3 DEF Decides, Sound, vars
    <3>2. r[4] \in Nat /\ (FinishedStatus(r[3], r[5]) = "RETRYING" => retries[r[3]] < limit[r[3]])
      BY <3>1 DEF StoreTypeOK, TaskTypeOK, FinishedStatus
    <3>3. u[3] = r[3] /\ u[4] = r[4] /\ u[5] = FinishedStatus(r[3], r[5])
      OBVIOUS
    <3>4. Fits(u)'
      BY <3>1, <3>2, <3>3 DEF Fits, storeVars, taskVars, StoreTypeOK, TaskTypeOK
    <3>. QED
      BY <1>2, <3>1, <3>4
  <2>4. CASE Writes(r)
    <3>1. wire' = wire \ {r}
      BY <2>4 DEF Writes
    <3>. QED
      BY <1>1, <2>0, <2>4, <3>1, WriteMovesOn, WriteKeepsBooks DEF BudgetInv
  <2>. QED
    BY <1>5, <2>1, <2>2, <2>3, <2>4 DEF ServiceStep
<1>. QED
  BY <1>3, <1>4, <1>5, RemoteAssumption DEF RemoteNext

\* The budget holds from the start.
LEMMA BudgetInvariance == RemoteSpec => []BudgetInv
<1>1. RemoteInit => BudgetInv
  BY TaskAssumption DEF RemoteInit, Init, StoreInit, BudgetInv, BooksOK, Granted
<1>2. RemoteInv /\ BudgetInv /\ [RemoteNext]_remoteVars => BudgetInv'
  <2>1. ASSUME BudgetInv, UNCHANGED remoteVars PROVE BudgetInv'
    BY <2>1 DEF BudgetInv, BooksOK, Granted, Fits, remoteVars, vars, storeVars, taskVars
  <2>. QED
    BY <2>1, BudgetStep
<1>. QED
  BY <1>1, <1>2, RemoteInvariance, PTL DEF RemoteSpec

\* No late result, decided on a row that was read in an earlier transaction,
\* grants more executions than the retry budget (remote.py, _finish).
THEOREM LateResultsKeepBudgetAlways == RemoteSpec => []LateResultsKeepBudget
<1>1. BudgetInv => LateResultsKeepBudget
  BY DEF BudgetInv, BooksOK, Granted, LateResultsKeepBudget
<1>. QED
  BY <1>1, BudgetInvariance, PTL
=============================================================================
