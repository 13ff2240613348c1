--------------------------- MODULE WorkerRegistry ---------------------------
(***************************************************************************)
(* The durable worker registry of worker_registry.py: the tables           *)
(* worker_registry (one row per worker id) and worker_sessions (one row    *)
(* per incarnation of a worker).  Every action is one SQLite transaction   *)
(* (BEGIN IMMEDIATE ... COMMIT), hence atomic.  A call that raises rolls   *)
(* back and is simply not a step.                                          *)
(*                                                                         *)
(* Clocks are abstracted to the age of a session's last heartbeat:         *)
(*   0         younger than heartbeat_timeout,                             *)
(*   1         older than heartbeat_timeout (overdue),                     *)
(*   FenceAge  older than heartbeat_timeout + fence_after.                 *)
(* FenceAge = 1 is a coordinator configured with fence_after = 0.          *)
(***************************************************************************)
EXTENDS Naturals

CONSTANTS
  Worker,      \* worker ids
  Session,     \* session uuids, each drawn at most once
  WorkerOf,    \* the worker id under which a session registers
  NoSession,   \* "this worker id has never registered"
  FenceAge     \* age at which the recovery coordinator fences a suspect

ASSUME RegistryAssumption ==
  /\ WorkerOf \in [Session -> Worker]
  /\ NoSession \notin Session
  /\ FenceAge \in {1, 2}

VARIABLES
  current,        \* worker_registry.session_id
  active,         \* worker_registry.status = 'ACTIVE'
  state,          \* worker_sessions.state; "NEW" before the row exists
  stopRequested,  \* worker_sessions.stop_requested
  age             \* age class of worker_sessions.last_heartbeat_at

registryVars == <<current, active, state, stopRequested, age>>

SessionState == {"NEW", "ACTIVE", "SUSPECT", "FENCED", "STOPPING", "STOPPED"}

RegistryTypeOK ==
  /\ current \in [Worker -> Session \cup {NoSession}]
  /\ active \in [Worker -> BOOLEAN]
  /\ state \in [Session -> SessionState]
  /\ stopRequested \in [Session -> BOOLEAN]
  /\ age \in [Session -> 0..FenceAge]

RegistryInit ==
  /\ current = [w \in Worker |-> NoSession]
  /\ active = [w \in Worker |-> FALSE]
  /\ state = [s \in Session |-> "NEW"]
  /\ stopRequested = [s \in Session |-> FALSE]
  /\ age = [s \in Session |-> 0]

----------------------------------------------------------------------------
(* Guards *)

\* _session: the session is the one its worker id currently points to.
IsCurrent(s) == current[WorkerOf[s]] = s

\* Mutant: registration takes the worker id over.
RegisterTakesOver(s) == state[s] = "NEW"

\* register: the worker id has no ACTIVE row.  The session uuid is fresh.
MayRegister(s) == state[s] = "NEW" /\ ~active[WorkerOf[s]]

\* Mutant: a heartbeat revives a fenced session.
HeartbeatRevivesFenced == {"ACTIVE", "SUSPECT", "STOPPING", "FENCED"}

\* States in which a session may heartbeat (and, in finish, commit).
LiveStates == {"ACTIVE", "SUSPECT", "STOPPING"}

\* Mutant: a resumed heartbeat forgets that a stop was requested.
HeartbeatForgetsStop(s) == "ACTIVE"

\* heartbeat: a draining session stays draining.
HeartbeatState(s) == IF stopRequested[s] THEN "STOPPING" ELSE "ACTIVE"

Overdue(s) == age[s] >= 1

\* _require_claimable: current, ACTIVE and not overdue.
Claimable(s) == IsCurrent(s) /\ state[s] = "ACTIVE" /\ ~Overdue(s)

----------------------------------------------------------------------------
(* Transactions *)

\* `now` is read before the transaction begins, so a registration that
\* waited for the writer lock may already be overdue when it commits.
Register(s) ==
  /\ MayRegister(s)
  /\ current' = [current EXCEPT ![WorkerOf[s]] = s]
  /\ active' = [active EXCEPT ![WorkerOf[s]] = TRUE]
  /\ state' = [state EXCEPT ![s] = "ACTIVE"]
  /\ \E a \in 0..FenceAge : age' = [age EXCEPT ![s] = a]
  /\ UNCHANGED stopRequested

MayHeartbeat(s) == IsCurrent(s) /\ state[s] \in LiveStates /\ active[WorkerOf[s]]

\* `now` is read before the transaction begins and the column takes
\* MAX(last_heartbeat_at, now): the age never grows, and may not shrink.
Heartbeat(s) ==
  /\ MayHeartbeat(s)
  /\ state' = [state EXCEPT ![s] = HeartbeatState(s)]
  /\ \E a \in 0..age[s] : age' = [age EXCEPT ![s] = a]
  /\ UNCHANGED <<current, active, stopRequested>>

\* stop: refused for a fenced session and for one that owns RUNNING tasks.
Stop(s, hasRunning) ==
  /\ IsCurrent(s)
  /\ state[s] # "FENCED" /\ ~hasRunning
  /\ active[WorkerOf[s]]
  /\ active' = [active EXCEPT ![WorkerOf[s]] = FALSE]
  /\ state' = [state EXCEPT ![s] = "STOPPED"]
  /\ UNCHANGED <<current, stopRequested, age>>

\* detect_overdue: every overdue session becomes suspect in one transaction.
DetectOverdue ==
  /\ state' = [s \in Session |-> IF state[s] \in {"ACTIVE", "STOPPING"} /\ Overdue(s)
                                   THEN "SUSPECT" ELSE state[s]]
  /\ UNCHANGED <<current, active, stopRequested, age>>

\* Mutant: a draining session that falls silent is not looked at.
ScanForgetsDraining(s) ==
  IF state[s] \in {"ACTIVE", "SUSPECT"} /\ age[s] >= FenceAge THEN "FENCED"
  ELSE IF state[s] = "ACTIVE" /\ Overdue(s) THEN "SUSPECT"
  ELSE state[s]

\* First part of RecoverySystem.tick: suspicion, then fencing of the
\* suspects past fence_after, in the same transaction.
ScannedState(s) ==
  IF state[s] \in {"ACTIVE", "STOPPING", "SUSPECT"} /\ age[s] >= FenceAge THEN "FENCED"
  ELSE IF state[s] \in {"ACTIVE", "STOPPING"} /\ Overdue(s) THEN "SUSPECT"
  ELSE state[s]

ScanSessions ==
  /\ state' = [s \in Session |-> ScannedState(s)]
  /\ UNCHANGED <<current, active, stopRequested, age>>

Fence(s) ==
  /\ IsCurrent(s) /\ state[s] = "SUSPECT"
  /\ state' = [state EXCEPT ![s] = "FENCED"]
  /\ UNCHANGED <<current, active, stopRequested, age>>

RequestStop(s) ==
  /\ IsCurrent(s) /\ state[s] \in {"ACTIVE", "SUSPECT"}
  /\ state' = [state EXCEPT ![s] = "STOPPING"]
  /\ stopRequested' = [stopRequested EXCEPT ![s] = TRUE]
  /\ UNCHANGED <<current, active, age>>

\* States from which exit may be confirmed (STOPPED is accepted, as a no-op).
ConfirmStates == {"FENCED", "STOPPING"}

\* confirm_stopped: fenced or draining, and evidence that no call is left.
ConfirmStopped(s) ==
  /\ IsCurrent(s) /\ state[s] \in ConfirmStates
  /\ state' = [state EXCEPT ![s] = "STOPPED"]
  /\ active' = [active EXCEPT ![WorkerOf[s]] = FALSE]
  /\ UNCHANGED <<current, stopRequested, age>>

\* RecoverySystem._confirm looks the session up by its uuid alone.
ConfirmSession(s) ==
  /\ state[s] \in ConfirmStates
  /\ state' = [state EXCEPT ![s] = "STOPPED"]
  /\ active' = [w \in Worker |-> active[w] /\ current[w] # s]
  /\ UNCHANGED <<current, stopRequested, age>>

\* Time passes: a registered session's last heartbeat gets older.
Expire(s) ==
  /\ state[s] \notin {"NEW", "STOPPED"} /\ age[s] < FenceAge
  /\ age' = [age EXCEPT ![s] = @ + 1]
  /\ UNCHANGED <<current, active, state, stopRequested>>

\* Whether the session still owns RUNNING tasks is the task table's
\* business; here it may be either.
RegistryNext ==
  \/ \E s \in Session : Register(s)
  \/ \E s \in Session : Heartbeat(s)
  \/ \E s \in Session, hasRunning \in BOOLEAN : Stop(s, hasRunning)
  \/ \E s \in Session : Fence(s)
  \/ \E s \in Session : RequestStop(s)
  \/ \E s \in Session : ConfirmStopped(s)
  \/ \E s \in Session : ConfirmSession(s)
  \/ \E s \in Session : Expire(s)
  \/ DetectOverdue
  \/ ScanSessions

RegistrySpec == RegistryInit /\ [][RegistryNext]_registryVars

----------------------------------------------------------------------------
(* Properties *)

\* The two tables agree: a worker id is ACTIVE exactly while the session it
\* points to has not stopped, and a session the id no longer points to has
\* stopped.  Hence at most one incarnation of a worker id can ever claim,
\* heartbeat or commit, however registrations, fencing and confirmations
\* interleave (worker_registry.py, register, stop and confirm_stopped).
OneLiveSession ==
  /\ \A s \in Session : state[s] \notin {"NEW", "STOPPED"} =>
       IsCurrent(s) /\ active[WorkerOf[s]]
  /\ \A w \in Worker : active[w] =>
       /\ current[w] \in Session
       /\ state[current[w]] \notin {"NEW", "STOPPED"}

\* A session only winds down.  A request to stop is never withdrawn, and the
\* session never becomes claimable again, although suspicion and a resumed
\* heartbeat rewrite its state in between (heartbeat, the choice of the state
\* it resumes to); a fenced session can only be confirmed stopped, and a
\* stopped one never changes, whatever late heartbeat arrives.
SessionsWindDown ==
  [][\A s \in Session :
       /\ stopRequested[s] => stopRequested'[s]
       /\ stopRequested'[s] => state'[s] \notin {"NEW", "ACTIVE"}
       /\ state[s] = "FENCED" => state'[s] \in {"FENCED", "STOPPED"}
       /\ state[s] = "STOPPED" => state'[s] = "STOPPED"]_registryVars
=============================================================================
