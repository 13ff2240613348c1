---------------------------- MODULE RemoteWorker ----------------------------
(***************************************************************************)
(* remote.py: a reliable worker on another host, whose calls to the store  *)
(* and the registry are HTTP requests to a RecoveryService.  A call that   *)
(* is answered in time is the call of ReliableWorker.  A call that is not  *)
(* raises RemoteTransportError at the client, and its request is still on  *)
(* its way: the service may execute it later, once, or never - also when   *)
(* the client has meanwhile drained, died or been fenced.  Clients never   *)
(* send a request again.                                                   *)
(***************************************************************************)
EXTENDS ReliableWorker

CONSTANTS
  Remote,      \* the sessions of workers on other hosts
  MaxWire      \* bound on the requests on their way

ASSUME RemoteAssumption == Remote \subseteq Session /\ MaxWire \in Nat

VARIABLE wire   \* the requests given up by their clients, and the claims
                \* that are executed but not yet answered

remoteVars == <<vars, wire>>

RemoteInit == Init /\ wire = {}

\* The request that the consumer thread has in flight.
InFlight(s) ==
  IF pc[s] = "commit"
  THEN {<<"finish", s, job[s][1], job[s][2], o>> : o \in Outcome}
  ELSE {<<pc[s], s>>}

Calling == {"new", "claim", "commit", "request", "confirm"}

\* An executed claim whose answer is being built.
Claimed(s) == {r \in wire : r[1] = "claimed" /\ r[2] = s}

Room == Cardinality(wire) < MaxWire

Asks(s) == pc[s] \in Calling /\ Claimed(s) = {} /\ Room

----------------------------------------------------------------------------
(* The client gives up *)

\* Mutant: a claim that was not answered is sent again.
ClaimsAgain(s) == Goto(s, "poll") /\ UNCHANGED <<beating, stopSet, job>>

\* RemoteTransportError leaves the consumer loop.
AfterNoAnswer(s) == LeaveLoop(s)

\* start() raises, the loop is left, or the drain ends where it is.
GivesUp(s) ==
  /\ Asks(s)
  /\ \E r \in InFlight(s) : wire' = wire \cup {r}
  /\ IF pc[s] \in {"claim", "commit"} THEN AfterNoAnswer(s)
     ELSE Goto(s, "exited") /\ UNCHANGED <<beating, stopSet, job>>
  /\ UNCHANGED storeVars

\* The process dies with its request on the way.
DiesCalling(s) ==
  /\ Asks(s) /\ Crash(s)
  /\ \E r \in InFlight(s) : wire' = wire \cup {r}

\* The heartbeat thread fails closed.
BeatGivesUp(s) == Room /\ BeatFails(s) /\ wire' = wire \cup {<<"heartbeat", s>>}

\* Nobody waits for the answer of a claim any more.
GivesUpAnswer(s) ==
  /\ Claimed(s) # {} /\ wire' = wire \ Claimed(s)
  /\ (pc[s] = "claim" /\ LeaveLoop(s) /\ UNCHANGED storeVars) \/ Crash(s)

----------------------------------------------------------------------------
(* The service *)

\* claim_next commits, then the payload is read in a transaction of its own.
ServesClaim(s) ==
  /\ pc[s] = "claim" /\ Claimed(s) = {} /\ Room
  /\ \E t \in Task : ClaimNext(s, t) /\ wire' = wire \cup {<<"claimed", s, t>>}
  /\ UNCHANGED workerVars

\* The client takes the attempt number from the payload.
AnswersClaim(r) ==
  /\ r \in Claimed(r[2]) /\ pc[r[2]] = "claim"
  /\ wire' = wire \ {r}
  /\ job' = [job EXCEPT ![r[2]] = <<r[3], attempts[r[3]]>>]
  /\ Goto(r[2], "call")
  /\ UNCHANGED <<storeVars, beating, stopSet>>

\* _dispatch executes a request whose client is gone, or refuses it, which
\* is as if it got lost.
Executes(r) ==
  \/ r[1] = "new" /\ RegistryStep(Register(r[2]))
  \/ r[1] = "heartbeat" /\ RegistryStep(Heartbeat(r[2]))
  \/ r[1] = "request" /\ RegistryStep(RequestStop(r[2]))
  \/ r[1] = "confirm" /\ RegistryStep(ConfirmStopped(r[2]))
  \/ r[1] = "claim" /\ (ClaimNone(r[2]) \/ \E t \in Task : ClaimNext(r[2], t))

Arrives(r) == r \in wire /\ Executes(r) /\ wire' = wire \ {r} /\ UNCHANGED workerVars

\* _finish: the service reads the row and decides on the retry ...
Decides(r) ==
  /\ r \in wire /\ r[1] = "finish"
  /\ LET s == r[2]  t == r[3]  n == r[4] IN
       /\ status[t] = "RUNNING" /\ owner[t] = s /\ attempts[t] = n
       /\ wire' = (wire \ {r}) \cup {<<"write", s, t, n, FinishedStatus(t, r[5])>>}
  /\ UNCHANGED vars

\* Mutant: the write trusts the read.
WritesUnchecked(s, t, n) == status[t] = "RUNNING"

\* ... and store.finish checks the row again when it writes.
MayWrite(s, t, n) == MayFinish(s, t, n)

Writes(r) ==
  /\ r \in wire /\ r[1] = "write"
  /\ MayWrite(r[2], r[3], r[4])
  /\ Release({r[3]}, [t \in {r[3]} |-> r[5]])
  /\ wire' = wire \ {r}
  /\ UNCHANGED <<registryVars, journalVars, workerVars>>

\* Lost on the way, refused, or cut off between the two transactions.
Lost(r) == r \in wire \ Claimed(r[2]) /\ wire' = wire \ {r} /\ UNCHANGED vars

ClientStep(s) ==
  \/ GivesUp(s) \/ DiesCalling(s) \/ BeatGivesUp(s) \/ GivesUpAnswer(s) \/ ServesClaim(s)

ServiceStep(r) == AnswersClaim(r) \/ Arrives(r) \/ Decides(r) \/ Writes(r) \/ Lost(r)

\* A consumer that waits for the answer of its claim does nothing else.
Answered ==
  /\ Next /\ UNCHANGED wire
  /\ \A s \in Session : Claimed(s) # {} => pc'[s] = pc[s]

RemoteNext ==
  \/ Answered
  \/ \E s \in Remote : ClientStep(s)
  \/ \E r \in wire : ServiceStep(r)

RemoteSpec == RemoteInit /\ [][RemoteNext]_remoteVars

----------------------------------------------------------------------------
(* Properties *)

RemoteTypeOK ==
  /\ TypeOK
  /\ \A r \in wire :
       /\ r[1] \in Calling \cup {"heartbeat", "finish", "claimed", "write"}
       /\ r[2] \in Session

\* While the consumer of a session works, the rows the session owns are the
\* one in its hands: a row that a late claim left with it, unknown to its
\* client, belongs to a session that never consumes again, and is there to be
\* recovered (reliable_worker.py, _consume and _run; remote.py, call).
ConsumerKnowsItsRows ==
  \A s \in Session : pc[s] \in Working =>
    \A t \in RunningOf(s) : job[s] = <<t, attempts[t]>> \/ <<"claimed", s, t>> \in wire

\* The retry decided on a row that was read earlier still fits the row that
\* is written: no late result grants more executions than the budget
\* (remote.py, _finish).
LateResultsKeepBudget ==
  \A t \in Task :
    /\ retries[t] <= limit[t]
    /\ attempts[t] = retries[t] + (IF status[t] \in Waiting \cup {"ABSENT"} THEN 0 ELSE 1)
=============================================================================
