-------------------------- MODULE ManagementAccess --------------------------
(***************************************************************************)
(* How the requests of the management service reach the database, and how  *)
(* the service stops (management.py, persistence.py).                      *)
(*                                                                         *)
(* A request takes one of MaxConcurrency handler slots, then one of        *)
(* Capacity pooled connections, in the order of arrival, and keeps it      *)
(* until the end of its scope.  A write also waits for its turn in the     *)
(* FIFO of the writers of this store, which it shares with the loop of the *)
(* coordinator.  Waiting for a connection or for a turn may time out.      *)
(*                                                                         *)
(* A pooled connection is named after the request that opened it.          *)
(***************************************************************************)
EXTENDS Naturals, Sequences, FiniteSets, SequencesExt

CONSTANTS
  Request,
  Writes,          \* requests that write, then read back what they wrote
  Coordinator,     \* the thread of _coordinate
  NoHandle,
  Capacity,        \* database_concurrency
  MaxConcurrency

Thread == Request \cup {Coordinator}

ASSUME AccessAssumption ==
  /\ Writes \subseteq Request /\ IsFiniteSet(Request)
  /\ Coordinator \notin Request /\ NoHandle \notin Request
  /\ MaxConcurrency \in Nat \ {0} /\ Capacity \in 1..MaxConcurrency

VARIABLES
  serving,    \* the accept loop: "new", "serving" or "ended"
  inFlight,   \* handler slots taken (_BoundedServer._active)
  pc,         \* where a thread is
  asleep,     \* threads inside Condition.wait
  leases, idle, waiters, poolClosed,   \* of the _ConnectionPool
  open,       \* pooled connections that are open
  handle,     \* scope['db'] of a request
  tickets,    \* _writer_waiters
  outcome,    \* the answer to a request
  committed,  \* writes that were committed
  stop,       \* ManagementService._closed and _stop
  shut,       \* the progress of shutdown()
  drained, result  \* what drain and shutdown returned

poolVars == <<leases, idle, waiters, poolClosed, open, handle>>
serverVars == <<serving, inFlight>>
answerVars == <<outcome, committed>>
stopVars == <<stop, shut, drained, result>>
accessVars == <<serverVars, pc, asleep, poolVars, tickets, answerVars, stopVars>>

AccessInit ==
  /\ serving = "new" /\ inFlight = 0
  /\ pc = [x \in Thread |-> IF x = Coordinator THEN "off" ELSE "new"]
  /\ asleep = {}
  /\ leases = 0 /\ idle = <<>> /\ waiters = <<>> /\ poolClosed = FALSE
  /\ open = {} /\ handle = [r \in Request |-> NoHandle]
  /\ tickets = <<>>
  /\ outcome = [r \in Request |-> "none"] /\ committed = {}
  /\ stop = FALSE /\ shut = "idle" /\ drained = FALSE /\ result = FALSE

Goto(x, place) == pc' = [pc EXCEPT ![x] = place]
Say(r, answer) == outcome' = [outcome EXCEPT ![r] = answer]

----------------------------------------------------------------------------
(* _BoundedServer *)

\* process_request with a free slot: a thread starts to handle the request.
Admit(r) ==
  /\ serving = "serving" /\ pc[r] = "new"
  /\ inFlight < MaxConcurrency
  /\ inFlight' = inFlight + 1
  /\ Goto(r, "admitted")
  /\ UNCHANGED <<serving, asleep, poolVars, tickets, answerVars, stopVars>>

\* process_request without a free slot (503, overloaded), or without a thread for
\* the request (no answer; the slot is released at once): in no case is it handled.
TurnAway(r) ==
  /\ serving = "serving" /\ pc[r] = "new"
  /\ Say(r, "turned away")
  /\ Goto(r, "done")
  /\ UNCHANGED <<serverVars, asleep, poolVars, tickets, committed, stopVars>>

\* The response to what succeeded may be larger than max_response_bytes: a 413,
\* also when a write was committed before.
Response(r) == IF outcome[r] = "ok" THEN {"ok", "oversized"} ELSE {outcome[r]}

\* _handle answers, or finds that the client has gone, and the slot is free.
Answer(r) ==
  /\ pc[r] = "answering"
  /\ inFlight' = inFlight - 1
  /\ \E answer \in Response(r) : Say(r, answer)
  /\ Goto(r, "done")
  /\ UNCHANGED <<serving, asleep, poolVars, tickets, committed, stopVars>>

----------------------------------------------------------------------------
(* _ConnectionPool *)

\* deque.remove: x waits in one place of the line.
Without(line, x) == RemoveAt(line, CHOOSE i \in DOMAIN line : line[i] = x)

\* notify_all, after waiters and leases have become line and n.  Every waiter
\* wakes up; those that may not go on yet wait again, and nothing else changes.
PoolNotified(line, n) ==
  IF line # <<>> /\ n < Capacity THEN asleep \ {Head(line)} ELSE asleep

MayLease(r) == Head(waiters) = r /\ leases < Capacity

Unleased == leases - 1

\* The request is refused before it uses the database: an APIError of _handle, or
\* of dispatch, or a definition that is not valid.
Refuse(r) ==
  /\ pc[r] = "admitted"
  /\ Say(r, "refused") /\ Goto(r, "answering")
  /\ UNCHANGED <<serverVars, asleep, poolVars, tickets, committed, stopVars>>

EnterScope(r) ==
  /\ pc[r] = "admitted"
  /\ waiters' = Append(waiters, r)
  /\ asleep' = IF waiters = <<>> /\ leases < Capacity THEN asleep ELSE asleep \cup {r}
  /\ Goto(r, "acquiring")
  /\ UNCHANGED <<serverVars, leases, idle, poolClosed, open, handle, tickets,
                 answerVars, stopVars>>

Lease(r) ==
  /\ pc[r] = "acquiring" /\ r \notin asleep /\ MayLease(r)
  /\ waiters' = Tail(waiters)
  /\ leases' = leases + 1
  /\ asleep' = PoolNotified(Tail(waiters), leases + 1)
  /\ IF idle = <<>>
     THEN Goto(r, "opening") /\ UNCHANGED <<idle, handle>>
     ELSE /\ Goto(r, "leased")
          /\ handle' = [handle EXCEPT ![r] = Last(idle)]
          /\ idle' = Front(idle)
  /\ UNCHANGED <<serverVars, poolClosed, open, tickets, answerVars, stopVars>>

\* Mutant: a lease that ends with an error tells nobody.
NobodyNotified == asleep

\* Whom the end of a lease wakes that the connection did not survive.
LeaseLost == PoolNotified(waiters, Unleased)

\* acquire gives up: _WriteContentionError, and the answer is 503.
LeaseTimesOut(r) ==
  /\ pc[r] = "acquiring" /\ ~MayLease(r)
  /\ waiters' = Without(waiters, r)
  /\ asleep' = PoolNotified(Without(waiters, r), leases) \ {r}
  /\ Say(r, "unavailable") /\ Goto(r, "answering")
  /\ UNCHANGED <<serverVars, leases, idle, poolClosed, open, handle, tickets, committed, stopVars>>

Opened(r) ==
  /\ pc[r] = "opening"
  /\ open' = open \cup {r}
  /\ handle' = [handle EXCEPT ![r] = r]
  /\ Goto(r, "leased")
  /\ UNCHANGED <<serverVars, asleep, leases, idle, waiters, poolClosed, tickets, answerVars, stopVars>>

\* The factory fails: the lease is given back.
OpenFails(r) ==
  /\ pc[r] = "opening"
  /\ leases' = Unleased
  /\ asleep' = LeaseLost
  /\ Say(r, "unavailable") /\ Goto(r, "answering")
  /\ UNCHANGED <<serverVars, idle, waiters, poolClosed, open, handle, tickets, committed, stopVars>>

ForgetsHandle(r) == [handle EXCEPT ![r] = NoHandle]
Keeps == ~poolClosed /\ Len(idle) < Capacity

\* The end of a lease in a scope.  A write that was committed goes on to read.
EndLease(r) ==
  /\ pc[r] = "leaving"
  /\ Goto(r, IF outcome[r] = "none" THEN "leased" ELSE "returning")
  /\ UNCHANGED <<serverVars, asleep, poolVars, tickets, answerVars, stopVars>>

\* The rollback that ends a lease fails: the connection is discarded.
Discard(r) ==
  /\ pc[r] = "leaving"
  /\ open' = open \ {handle[r]}
  /\ handle' = ForgetsHandle(r)
  /\ leases' = Unleased
  /\ asleep' = LeaseLost
  /\ Say(r, "unavailable") /\ Goto(r, "returning")
  /\ UNCHANGED <<serverVars, idle, waiters, poolClosed, tickets, committed, stopVars>>

\* The end of the scope: release(), unless the connection was discarded.
ExitScope(r) ==
  /\ pc[r] = "returning"
  /\ IF handle[r] = NoHandle
     THEN Goto(r, "answering") /\ UNCHANGED <<leases, idle, handle, asleep>>
     ELSE /\ leases' = Unleased
          /\ asleep' = PoolNotified(waiters, Unleased)
          /\ IF Keeps
             THEN /\ idle' = Append(idle, handle[r])
                  /\ handle' = [handle EXCEPT ![r] = NoHandle]
                  /\ Goto(r, "answering")
             ELSE Goto(r, "closing") /\ UNCHANGED <<idle, handle>>
  /\ UNCHANGED <<serverVars, waiters, poolClosed, open, tickets, answerVars, stopVars>>

CloseHandle(r) ==
  /\ pc[r] = "closing"
  /\ open' = open \ {handle[r]}
  /\ handle' = [handle EXCEPT ![r] = NoHandle]
  /\ Goto(r, "answering")
  /\ UNCHANGED <<serverVars, asleep, leases, idle, waiters, poolClosed, tickets, answerVars, stopVars>>

----------------------------------------------------------------------------
(* _transaction and _writer_slot *)

\* notify_all of the writers, after tickets has become line.
QueueNotified(line) == IF line # <<>> THEN asleep \ {Head(line)} ELSE asleep

\* x gets a ticket, and waits unless it is the first one.
Enqueue(x) ==
  /\ tickets' = Append(tickets, x)
  /\ asleep' = IF tickets = <<>> THEN asleep ELSE asleep \cup {x}

MayWrite(x) == Head(tickets) = x

TakeTurn(x) ==
  /\ pc[x] = "queued" /\ x \notin asleep /\ MayWrite(x)
  /\ Goto(x, "writing")
  /\ UNCHANGED <<serverVars, asleep, poolVars, tickets, answerVars, stopVars>>

\* Mutant: who gives up removes the first ticket instead of its own.
PopsFirst(x) == Tail(tickets)

WithoutTicket(x) == Without(tickets, x)

\* The wait for a turn times out; x goes on at the given place.
TurnTimesOut(x, place) ==
  /\ pc[x] = "queued" /\ ~MayWrite(x)
  /\ tickets' = WithoutTicket(x)
  /\ asleep' = QueueNotified(WithoutTicket(x)) \ {x}
  /\ Goto(x, place)

\* The ticket of x, the first one, leaves when the transaction has ended.
EndTurn(x, place) ==
  /\ pc[x] = "writing"
  /\ tickets' = Tail(tickets)
  /\ asleep' = QueueNotified(Tail(tickets))
  /\ Goto(x, place)

----------------------------------------------------------------------------
(* dispatch: a read, or a write and the read of what it wrote *)

Reading(r) == r \notin Writes \/ r \in committed

QueueWrite(r) ==
  /\ pc[r] = "leased" /\ ~Reading(r)
  /\ Enqueue(r) /\ Goto(r, "queued")
  /\ UNCHANGED <<serverVars, poolVars, answerVars, stopVars>>

WriteTimesOut(r) ==
  /\ TurnTimesOut(r, "leaving")
  /\ Say(r, "unavailable")
  /\ UNCHANGED <<serverVars, poolVars, committed, stopVars>>

Commit(r) ==
  /\ EndTurn(r, "leaving")
  /\ committed' = committed \cup {r}
  /\ UNCHANGED <<serverVars, poolVars, outcome, stopVars>>

\* A 4xx when the request conflicts with the state or names what is not there,
\* a 5xx when the database fails.
Errors == {"refused", "unavailable"}

\* The write conflicts, another process has the database, or the disk is full.
RollBack(r) ==
  /\ EndTurn(r, "leaving")
  /\ \E answer \in Errors : Say(r, answer)
  /\ UNCHANGED <<serverVars, poolVars, committed, stopVars>>

Read(r) ==
  /\ pc[r] = "leased" /\ Reading(r)
  /\ Say(r, "ok")
  /\ Goto(r, "leaving")
  /\ UNCHANGED <<serverVars, asleep, poolVars, tickets, committed, stopVars>>

\* Mutant: a read that fails after the commit is answered like one before it.
AnyError(r) == Errors

\* What a write has committed is never deleted, so it is found again.
ReadErrors(r) == IF r \in committed THEN {"unavailable"} ELSE Errors

\* Reading fails: also what some writes read before they write.
ReadFails(r) ==
  /\ pc[r] = "leased"
  /\ \E answer \in ReadErrors(r) : Say(r, answer)
  /\ Goto(r, "leaving")
  /\ UNCHANGED <<serverVars, asleep, poolVars, tickets, committed, stopVars>>

----------------------------------------------------------------------------
(* _coordinate_loop, with a connection of its own that is not pooled *)

\* Mutant: the loop does not look at the event.
NeverEnds == FALSE

LoopEnds == stop

CoordinatorLoop ==
  /\ pc[Coordinator] = "loop"
  /\ IF LoopEnds
     THEN Goto(Coordinator, "ended") /\ UNCHANGED <<tickets, asleep>>
     ELSE Goto(Coordinator, "queued") /\ Enqueue(Coordinator)
  /\ UNCHANGED <<serverVars, poolVars, answerVars, stopVars>>

Tick ==
  /\ EndTurn(Coordinator, "loop")
  /\ UNCHANGED <<serverVars, poolVars, answerVars, stopVars>>

TickTimesOut ==
  /\ TurnTimesOut(Coordinator, "loop")
  /\ UNCHANGED <<serverVars, poolVars, answerVars, stopVars>>

----------------------------------------------------------------------------
(* start and shutdown *)

Start ==
  /\ serving = "new" /\ ~stop
  /\ serving' = "serving"
  /\ Goto(Coordinator, "loop")
  /\ UNCHANGED <<inFlight, asleep, poolVars, tickets, answerVars, stopVars>>

\* shutdown up to server_close: the accept loop has ended.
BeginShutdown ==
  /\ shut = "idle"
  /\ stop' = TRUE
  /\ serving' = "ended"
  /\ shut' = "draining"
  /\ UNCHANGED <<inFlight, pc, asleep, poolVars, tickets, answerVars, drained, result>>

\* Mutant: drain reports success when it gives up.
DrainsAnyhow == TRUE

DrainGivesUp == FALSE

Drain ==
  /\ shut = "draining" /\ inFlight = 0
  /\ drained' = TRUE /\ shut' = "joining"
  /\ UNCHANGED <<serverVars, pc, asleep, poolVars, tickets, answerVars, stop, result>>

DrainExpires ==
  /\ shut = "draining" /\ inFlight > 0
  /\ drained' = DrainGivesUp /\ shut' = "joining"
  /\ UNCHANGED <<serverVars, pc, asleep, poolVars, tickets, answerVars, stop, result>>

CoordinatorOver == pc[Coordinator] \in {"off", "ended"}

Join ==
  /\ shut = "joining" /\ CoordinatorOver
  /\ shut' = "closing"
  /\ UNCHANGED <<serverVars, pc, asleep, poolVars, tickets, answerVars, stop, drained, result>>

JoinExpires ==
  /\ shut = "joining" /\ ~CoordinatorOver
  /\ shut' = "closing"
  /\ UNCHANGED <<serverVars, pc, asleep, poolVars, tickets, answerVars, stop, drained, result>>

ClosePool ==
  /\ shut = "closing"
  /\ poolClosed' = TRUE
  /\ open' = open \ ToSet(idle)
  /\ idle' = <<>>
  /\ result' = (drained /\ CoordinatorOver)
  /\ shut' = "returned"
  /\ UNCHANGED <<serverVars, pc, asleep, leases, waiters, handle, tickets, answerVars, stop, drained>>

----------------------------------------------------------------------------

\* What a handler does once it has been admitted, timeouts apart.
HandlerStep(r) ==
  \/ Refuse(r) \/ EnterScope(r) \/ Lease(r)
  \/ Opened(r) \/ OpenFails(r)
  \/ QueueWrite(r) \/ TakeTurn(r) \/ Commit(r) \/ RollBack(r)
  \/ Read(r) \/ ReadFails(r) \/ EndLease(r) \/ Discard(r) \/ ExitScope(r) \/ CloseHandle(r)
  \/ Answer(r)

CoordinatorStep ==
  CoordinatorLoop \/ TakeTurn(Coordinator) \/ Tick

ShutdownStep == Drain \/ Join \/ ClosePool

Expires ==
  \/ \E r \in Request : LeaseTimesOut(r) \/ WriteTimesOut(r)
  \/ TickTimesOut \/ DrainExpires \/ JoinExpires

AccessNext ==
  \/ Start \/ BeginShutdown
  \/ \E r \in Request : Admit(r) \/ TurnAway(r) \/ HandlerStep(r)
  \/ CoordinatorStep \/ ShutdownStep \/ Expires

\* Threads go on; nothing has to time out.
AccessFairness ==
  /\ \A r \in Request : WF_accessVars(HandlerStep(r))
  /\ WF_accessVars(CoordinatorStep)
  /\ WF_accessVars(ShutdownStep)

AccessSpec == AccessInit /\ [][AccessNext]_accessVars /\ AccessFairness

----------------------------------------------------------------------------
(* Properties *)

Handling(r) == pc[r] \notin {"new", "done"}
Leasing(r) == pc[r] = "opening" \/ (handle[r] # NoHandle /\ pc[r] # "closing")

\* The pool counts its leases right whatever fails on the way - the factory, a
\* rollback, a wait that is given up -, and the connections lent or kept are
\* never more than its capacity.
LeasesBounded ==
  /\ leases = Cardinality({r \in Request : Leasing(r)})
  /\ leases + Len(idle) <= Capacity

\* No connection is lent to two requests, or kept while it is lent, or kept
\* or lent once it has been closed.
HandlesExclusive ==
  /\ \A r \in Request : handle[r] # NoHandle =>
       /\ handle[r] \in open \ ToSet(idle)
       /\ \A q \in Request \ {r} : handle[q] # handle[r]
  /\ ToSet(idle) \subseteq open
  /\ Cardinality(ToSet(idle)) = Len(idle)

\* Writers of this store never compete for the database, whoever gives up
\* waiting: the one that writes has the first ticket.
OneWriter ==
  /\ \A x \in Thread : pc[x] = "writing" => tickets # <<>> /\ Head(tickets) = x
  /\ ToSet(tickets) = {x \in Thread : pc[x] \in {"queued", "writing"}}

\* Also when shutdown has run out of time, no connection outlives the last
\* request that used it.
NothingLeftOpen ==
  poolClosed /\ (\A r \in Request : ~Handling(r)) => open = {}

\* The bounded resources stay sound under failures, timeouts and shutdown.
ResourcesAreSound == LeasesBounded /\ HandlesExclusive /\ OneWriter /\ NothingLeftOpen

\* shutdown returns True only when no request is being handled, the
\* coordinator has ended and every connection is closed, and none begins later.
ShutdownIsComplete ==
  result => /\ \A r \in Request : ~Handling(r)
            /\ CoordinatorOver
            /\ open = {}

\* A write that is answered with success was committed, also when the answer
\* turns out too large to be sent; one that was turned away or refused - before
\* the database, in its transaction, or by what it reads first - was not.  A 5xx
\* of the database promises nothing: it may follow the commit.
AnswersAreTrue ==
  \A r \in Writes :
    /\ outcome[r] \in {"ok", "oversized"} => r \in committed
    /\ outcome[r] \in {"turned away", "refused"} => r \notin committed

\* Every request that was admitted is answered, without the help of a timeout
\* and however often the coordinator writes: no wakeup is lost, no handler
\* waits for another one that waits for it, and the FIFO starves nobody.
RequestsAreAnswered == \A r \in Request : Handling(r) ~> pc[r] = "done"

\* shutdown returns, also before its deadlines.
ShutdownReturns == shut # "idle" ~> shut = "returned"

=============================================================================
