--------------------------- MODULE LocalExecution ---------------------------
(***************************************************************************)
(* Execution inside one process, without a database: the priority queue of *)
(* queue.py, and the threads that consume it - Worker.run and WorkerLoop   *)
(* (worker.py), ConcurrentWorker.run with its pool (concurrency.py) -,     *)
(* the executor that holds a task's lock for the whole call, soft timeouts *)
(* and retries.                                                            *)
(*                                                                         *)
(* A step ends where a thread gives up the queue lock or a task lock, or   *)
(* would wait for one.  The lock of a task is held by the thread that      *)
(* executes it.  The queue lock is held across steps only by a thread that *)
(* waits for a task lock inside enqueue (enqueuer).  The callable of a     *)
(* task with a time limit runs in a thread of its own, whose result is     *)
(* dropped once the limit has passed and whose submissions are a caller's. *)
(***************************************************************************)
EXTENDS Naturals, Sequences, FiniteSets, SequencesExt

CONSTANTS
  Task,
  Runner,     \* workers driven by Worker.run: until the queue is empty
  Loop,       \* workers driven by a WorkerLoop: until they are stopped
  Pool,       \* ConcurrentWorkers
  Slot,       \* threads of their pools (max_workers of each)
  PoolOf,     \* the worker a slot belongs to
  Caller,     \* a thread that submits
  Nobody,
  NoTask,
  Weight,     \* Task.priority
  Budget,     \* RetryPolicy.limit_for
  Later,      \* tasks with a future scheduled_at, or with a retry delay
  Limited,    \* tasks with a time limit
  Child,      \* the task that the callable of a task submits, or NoTask
  Resubmits,  \* tasks that callers submit again
  Casts       \* the sets of workers that share the queue; the others were
              \* stopped before they started

Consumer == Runner \cup Loop \cup Pool
Thread == Consumer \cup Slot \cup {Caller}

ASSUME LocalAssumption ==
  /\ PoolOf \in [Slot -> Pool]
  /\ Weight \in [Task -> Nat] /\ Budget \in [Task -> Nat]
  /\ Child \in [Task -> Task \cup {NoTask}]
  /\ \A t \in Limited : Child[t] = NoTask
  /\ Casts \subseteq SUBSET Consumer
  /\ NoTask \notin Task /\ Nobody \notin Thread
  /\ Slot \cap Consumer = {} /\ Caller \notin Consumer \cup Slot

VARIABLES
  status, attempts, retries,  \* of the Task objects
  strays,    \* abandoned attempts <<task, attempt>> whose callable goes on
  line,      \* the queued tasks, by sequence
  waits,     \* those of them that are not due yet (the delayed heap)
  submitted, \* tasks given to the queue (TaskEngine._submitted_tasks)
  enqueuer,  \* the thread that keeps the queue lock, or Nobody
  pc, hand,  \* where a thread is, and the task it deals with
  life,      \* Worker._status
  sleep,     \* Condition.wait: "awake", "forever" or "timed"
  wakes,     \* stop() calls that have not notified the queue yet
  reaping    \* completed futures the pool's thread is about to evaluate

taskVars == <<status, attempts, retries>>
queueVars == <<line, waits, submitted, enqueuer>>
localVars == <<taskVars, strays, queueVars, pc, hand, life, sleep, wakes, reaping>>

LocalInit ==
  /\ status = [t \in Task |-> "PENDING"]
  /\ attempts = [t \in Task |-> 0] /\ retries = [t \in Task |-> 0]
  /\ strays = {} /\ line = <<>> /\ waits = {} /\ submitted = {} /\ enqueuer = Nobody
  /\ pc = [x \in Thread |-> IF x \in Consumer THEN "new" ELSE "idle"]
  /\ hand = [x \in Thread |-> NoTask]
  /\ \E cast \in Casts : life = [c \in Consumer |-> IF c \in cast THEN "CREATED" ELSE "STOPPED"]
  /\ sleep = [c \in Consumer |-> "awake"]
  /\ wakes = {}
  /\ reaping = [c \in Pool |-> {}]

Goto(x, place) == pc' = [pc EXCEPT ![x] = place]
Take(x, t) == hand' = [hand EXCEPT ![x] = t]
Stopping(c) == life[c] = "STOPPING"

----------------------------------------------------------------------------
(* The queue *)

Queued == ToSet(line)
Ready == Queued \ waits

\* A thread that executes a task holds its lock until the call has ended.
Executing == {"submit", "call"}
LockedFor(x, t) == \A y \in Thread \ {x} : ~(pc[y] \in Executing /\ hand[y] = t)
QueueFree(x) == enqueuer \in {Nobody, x}

Waiting == {"PENDING", "RETRYING"}
Finished == {"SUCCESS", "FAILED"}

Queueable(t) ==
  /\ status[t] \in Waiting
  /\ status[t] = "PENDING" => attempts[t] = 0
  /\ t \notin Queued

\* Mutant: a task that is not due yet wakes nobody.
NotifiesIfReady(t) == IF t \in Later THEN sleep ELSE [c \in Consumer |-> "awake"]

NotifyAll(t) == [c \in Consumer |-> "awake"]

\* enqueue by thread x, which gets both locks.
Enqueue(x, t) ==
  /\ QueueFree(x) /\ LockedFor(x, t)
  /\ enqueuer' = Nobody
  /\ submitted' = submitted \cup {t}
  /\ IF Queueable(t)
     THEN /\ line' = Append(line, t)
          /\ waits' = IF t \in Later THEN waits \cup {t} ELSE waits
          /\ sleep' = NotifyAll(t)
     ELSE UNCHANGED <<line, waits, sleep>>

\* enqueue holds the queue lock while another thread executes the task.
KeepsQueueLock(x, t) ==
  /\ enqueuer = Nobody /\ ~LockedFor(x, t)
  /\ enqueuer' = x
  /\ UNCHANGED <<taskVars, line, waits, submitted, pc, hand, life, sleep, wakes, reaping>>

\* _dequeue_locked: the heaviest due task, the earliest of those.
Before(t, u) ==
  \/ Weight[t] > Weight[u]
  \/ Weight[t] = Weight[u] /\ SelectInSeq(line, LAMBDA v : v = t) < SelectInSeq(line, LAMBDA v : v = u)

First(t) == t \in Ready /\ \A u \in Ready \ {t} : Before(t, u)

Pop(x, t) ==
  /\ QueueFree(x) /\ First(t)
  /\ \E i \in DOMAIN line : line[i] = t /\ line' = RemoveAt(line, i)
  /\ UNCHANGED <<waits, submitted, enqueuer>>

\* A delayed task gets due: who waited for a deadline wakes up.
Due(t) ==
  /\ t \in waits
  /\ waits' = waits \ {t}
  /\ sleep' = [c \in Consumer |-> IF sleep[c] = "timed" THEN "awake" ELSE sleep[c]]
  /\ UNCHANGED <<taskVars, line, submitted, enqueuer, pc, hand, life, wakes, reaping>>

----------------------------------------------------------------------------
(* Executor.execute, by a consumer's own thread or by a slot of its pool *)

\* Mutant: a second holder executes whatever it finds.
ExecutesAnything(t) == TRUE

Executable(t) == status[t] \in Waiting /\ (status[t] = "PENDING" => attempts[t] = 0)

Execute(x) ==
  /\ pc[x] = "execute"
  /\ LET t == hand[x] IN
       /\ LockedFor(x, t)
       /\ IF Executable(t)
          THEN /\ status' = [status EXCEPT ![t] = "RUNNING"]
               /\ attempts' = [attempts EXCEPT ![t] = @ + 1]
               /\ Goto(x, IF Child[t] = NoTask THEN "call" ELSE "submit")
          ELSE Goto(x, IF x \in Slot THEN "error" ELSE "raise") /\ UNCHANGED <<status, attempts>>
  /\ UNCHANGED <<retries, queueVars, hand, life, sleep, wakes, reaping>>

\* The callable submits a task of its own, holding the lock of this one.
CallSubmits(x) ==
  /\ pc[x] = "submit"
  /\ Enqueue(x, Child[hand[x]])
  /\ Goto(x, "call")
  /\ UNCHANGED <<taskVars, hand, life, wakes, reaping>>

CallWaits(x) == pc[x] = "submit" /\ KeepsQueueLock(x, Child[hand[x]])

Ended(x, s) ==
  /\ status' = [status EXCEPT ![hand[x]] = s]
  /\ Goto(x, "after")
  /\ UNCHANGED <<attempts, retries, queueVars, hand, life, sleep, wakes, reaping>>

\* The callable returns or raises.
Returns(x) ==
  /\ pc[x] = "call"
  /\ \E s \in Finished : Ended(x, s)
  /\ UNCHANGED strays

\* run_with_timeout: the limit passes first; the callable goes on.
TimesOut(x) ==
  /\ pc[x] = "call" /\ hand[x] \in Limited
  /\ Ended(x, "FAILED")
  /\ strays' = strays \cup {<<hand[x], attempts[hand[x]]>>}

\* Mutant: the outcome of an abandoned attempt is written to the task.
LandsLate(i) == [status EXCEPT ![i[1]] = "SUCCESS"]

\* The outcome of an abandoned attempt stays in the lists of its own thread.
LandsNowhere(i) == status

StrayEnds(i) ==
  /\ i \in strays
  /\ strays' = strays \ {i}
  /\ status' = LandsNowhere(i)
  /\ UNCHANGED <<attempts, retries, queueVars, pc, hand, life, sleep, wakes, reaping>>

ExecutorStep(x) ==
  \/ (Execute(x) \/ CallSubmits(x) \/ CallWaits(x)) /\ UNCHANGED strays
  \/ Returns(x) \/ TimesOut(x)

----------------------------------------------------------------------------
(* The life of a worker *)

\* _begin_run
Begins(c, at) ==
  /\ pc[c] = "new" /\ life[c] = "CREATED"
  /\ life' = [life EXCEPT ![c] = "RUNNING"]
  /\ Goto(c, at)
  /\ UNCHANGED <<taskVars, queueVars, hand, sleep, wakes, reaping>>

BeginsRun(c)  == c \notin Loop /\ Begins(c, IF c \in Pool THEN "fill" ELSE "top")
StartsLoop(c) == c \in Loop /\ Begins(c, "top")

\* Mutant: stop() does not notify the queue.
WakesNobody(c) == {}

WakesLater(c) == {c}

\* stop(), first the status, then the queue.
Stops(c) ==
  /\ life[c] \in {"CREATED", "RUNNING"}
  /\ life' = [life EXCEPT ![c] = IF life[c] = "CREATED" THEN "STOPPED" ELSE "STOPPING"]
  /\ wakes' = wakes \cup WakesLater(c)
  /\ UNCHANGED <<taskVars, queueVars, pc, hand, sleep, reaping>>

StopsWorker(c) == c \notin Loop /\ Stops(c)
StopsLoop(c)   == c \in Loop /\ Stops(c)   \* its own flag, then its worker

WakesWaiters(c) ==
  /\ c \in wakes /\ QueueFree(Nobody)
  /\ wakes' = wakes \ {c}
  /\ sleep' = [d \in Consumer |-> "awake"]
  /\ UNCHANGED <<taskVars, queueVars, pc, hand, life, reaping>>

Busy(c) == {s \in Slot : PoolOf[s] = c /\ pc[s] # "idle"}
Idle(c) == {s \in Slot : PoolOf[s] = c /\ pc[s] = "idle"}

\* _finish_run, after the pool has ended the calls it was given.  A loop also
\* wakes the other waiters.
Finishes(c) ==
  /\ pc[c] \in {"exit", "raise"}
  /\ \A s \in Busy(c) : pc[s] \in {"after", "error"}
  /\ life' = [life EXCEPT ![c] = "STOPPED"]
  /\ pc' = [x \in Thread |-> IF x = c THEN (IF pc[c] = "exit" THEN "ended" ELSE "broken")
                             ELSE IF x \in Busy(c) THEN "idle" ELSE pc[x]]
  /\ hand' = [x \in Thread |-> IF x \in {c} \cup Busy(c) THEN NoTask ELSE hand[x]]
  /\ wakes' = IF c \in Loop THEN wakes \cup {c} ELSE wakes
  /\ reaping' = [d \in Pool |-> IF d = c THEN {} ELSE reaping[d]]
  /\ UNCHANGED <<taskVars, queueVars, sleep>>

----------------------------------------------------------------------------
(* process_next *)

\* The loop conditions of run and _run; is_empty() decides whether to wait.
Top(c) ==
  /\ pc[c] = "top"
  /\ Goto(c, IF Stopping(c) THEN "exit"
             ELSE IF c \in Loop \/ line # <<>> THEN "take" ELSE "poll")
  /\ Take(c, NoTask)
  /\ UNCHANGED <<taskVars, queueVars, life, sleep, wakes, reaping>>

\* dequeue
Polls(c) ==
  /\ pc[c] = "poll" /\ QueueFree(c)
  /\ \/ \E t \in Task : Pop(c, t) /\ Take(c, t) /\ Goto(c, "got")
     \/ Ready = {} /\ Goto(c, "exit") /\ UNCHANGED <<queueVars, hand>>
  /\ UNCHANGED <<taskVars, life, sleep, wakes, reaping>>

\* dequeue_wait
Takes(c) ==
  /\ pc[c] = "take" /\ sleep[c] = "awake" /\ QueueFree(c)
  /\ \/ /\ ~Stopping(c)
        /\ \E t \in Task : Pop(c, t) /\ Take(c, t) /\ Goto(c, "got")
        /\ UNCHANGED sleep
     \/ /\ Stopping(c)
        /\ Goto(c, IF c \in Pool THEN "fill" ELSE "top")
        /\ UNCHANGED <<queueVars, hand, sleep>>
     \/ /\ ~Stopping(c) /\ Ready = {}
        /\ sleep' = [sleep EXCEPT ![c] = IF waits = {} THEN "forever" ELSE "timed"]
        /\ UNCHANGED <<queueVars, hand, pc>>
  /\ UNCHANGED <<taskVars, life, wakes, reaping>>

\* Mutant: a stop that raced the dequeue leaves with the task in its hands.
DropsTask(c) == IF Stopping(c) THEN (IF c \in Pool THEN "fill" ELSE "top") ELSE "execute"

\* The second look at the stop request: put the task back, or go on.
NextWithTask(c) == IF Stopping(c) THEN "putback" ELSE "execute"

Got(c) ==
  /\ pc[c] = "got" /\ (c \notin Pool \/ Stopping(c))
  /\ Goto(c, NextWithTask(c))
  /\ UNCHANGED <<taskVars, queueVars, hand, life, sleep, wakes, reaping>>

\* enqueue of the task in hand raises if somebody else queued it meanwhile.
PutsBack(c) ==
  /\ pc[c] \in {"putback", "undo", "requeue"}
  /\ Enqueue(c, hand[c])
  /\ Goto(c, IF pc[c] = "undo" \/ ~Queueable(hand[c]) THEN "raise"
             ELSE IF c \notin Pool THEN "top"
             ELSE IF pc[c] = "putback" THEN "fill" ELSE "reap")
  /\ Take(c, NoTask)
  /\ UNCHANGED <<taskVars, life, wakes, reaping>>

PutBackWaits(c) == pc[c] \in {"putback", "undo", "requeue"} /\ KeepsQueueLock(c, hand[c])

\* Mutant: the last retry is granted twice.
RetriesOnceMore(t) == status[t] = "FAILED" /\ retries[t] <= Budget[t]

\* RetryPolicy.should_retry, of a failure that is not classified
ShouldRetry(t) == status[t] = "FAILED" /\ retries[t] < Budget[t]

\* _handle_failure and begin_retry
HandlesFailure(c) ==
  /\ c \in Consumer /\ pc[c] = "after"
  /\ LET t == hand[c] IN
       /\ LockedFor(c, t)
       /\ IF ShouldRetry(t)
          THEN /\ status' = [status EXCEPT ![t] = "RETRYING"]
               /\ retries' = [retries EXCEPT ![t] = @ + 1]
               /\ Goto(c, "requeue")
          ELSE Goto(c, IF c \in Pool THEN "reap" ELSE "top") /\ UNCHANGED <<status, retries>>
  /\ UNCHANGED <<attempts, queueVars, hand, life, sleep, wakes, reaping>>

ConsumerStep(c) ==
  \/ BeginsRun(c) \/ StartsLoop(c) \/ Top(c) \/ Polls(c) \/ Takes(c) \/ Got(c) \/ PutsBack(c)
  \/ PutBackWaits(c) \/ HandlesFailure(c) \/ Finishes(c)

----------------------------------------------------------------------------
(* ConcurrentWorker.run *)

\* pool.submit, or its failure: the task goes back, and run raises.
Hands(c, t) ==
  \/ \E s \in Idle(c) :
       /\ pc' = [pc EXCEPT ![c] = "fill", ![s] = "execute"]
       /\ hand' = [hand EXCEPT ![c] = NoTask, ![s] = t]
  \/ Goto(c, "undo") /\ Take(c, t)

HandsOver(c) ==
  /\ pc[c] = "got" /\ c \in Pool /\ ~Stopping(c)
  /\ Hands(c, hand[c])
  /\ UNCHANGED <<taskVars, queueVars, life, sleep, wakes, reaping>>

\* Under the worker's lifecycle lock: no task is taken once it stops.
Fills(c) ==
  /\ pc[c] = "fill" /\ QueueFree(c) /\ Idle(c) # {} /\ ~Stopping(c)
  /\ \E t \in Task : Pop(c, t) /\ Hands(c, t)
  /\ UNCHANGED <<taskVars, life, sleep, wakes, reaping>>

\* Nothing to take.  No call in flight: leave, or wait for a delayed task.
\* Otherwise wait for a call to end, with a deadline only if a slot is free
\* and the queue not empty: a later submission does not wake this thread.
Chooses(c) ==
  /\ pc[c] = "fill" /\ QueueFree(c)
  /\ Idle(c) = {} \/ Stopping(c) \/ Ready = {}
  /\ IF Busy(c) = {}
     THEN Goto(c, IF Stopping(c) \/ line = <<>> THEN "exit" ELSE "take")
     ELSE Goto(c, IF Idle(c) # {} /\ line # <<>> THEN "await soon" ELSE "await")
  /\ UNCHANGED <<taskVars, queueVars, hand, life, sleep, wakes, reaping>>

Done(c) == {s \in Busy(c) : pc[s] \in {"after", "error"}}

Awaits(c) ==
  /\ (pc[c] = "await" /\ Done(c) # {}) \/ pc[c] = "await soon"
  /\ reaping' = [reaping EXCEPT ![c] = Done(c)]
  /\ Goto(c, "reap")
  /\ UNCHANGED <<taskVars, queueVars, hand, life, sleep, wakes>>

\* future.result(), which raises what execute raised.
Reaps(c) ==
  /\ pc[c] = "reap"
  /\ \/ \E s \in reaping[c] :
          /\ reaping' = [reaping EXCEPT ![c] = @ \ {s}]
          /\ pc' = [pc EXCEPT ![s] = "idle", ![c] = IF pc[s] = "error" THEN "raise" ELSE "after"]
          /\ hand' = [hand EXCEPT ![s] = NoTask, ![c] = hand[s]]
     \/ reaping[c] = {} /\ Goto(c, "fill") /\ UNCHANGED <<hand, reaping>>
  /\ UNCHANGED <<taskVars, queueVars, life, sleep, wakes>>

PoolStep(c) == HandsOver(c) \/ Fills(c) \/ Chooses(c) \/ Awaits(c) \/ Reaps(c)

----------------------------------------------------------------------------
(* A thread that submits: each task once, those of Resubmits as it likes.   *)
(* A submission that is refused at once changes nothing and is no step.     *)

Submits(t) ==
  /\ pc[Caller] = "idle" /\ (t \in Resubmits \/ t \notin submitted)
  /\ Queueable(t)
  /\ Enqueue(Caller, t)
  /\ UNCHANGED <<taskVars, pc, hand, life, wakes, reaping>>

\* It waits for the task's lock, and keeps the queue's.
SubmitWaits(t) ==
  /\ t \in Resubmits \/ t \notin submitted
  /\ pc[Caller] = "idle" /\ enqueuer = Nobody /\ ~LockedFor(Caller, t)
  /\ enqueuer' = Caller
  /\ Goto(Caller, "enqueue") /\ Take(Caller, t)
  /\ UNCHANGED <<taskVars, line, waits, submitted, life, sleep, wakes, reaping>>

SubmitGoesOn ==
  /\ pc[Caller] = "enqueue"
  /\ Enqueue(Caller, hand[Caller])
  /\ Goto(Caller, "idle") /\ Take(Caller, NoTask)
  /\ UNCHANGED <<taskVars, life, wakes, reaping>>

Advances(x) ==
  \/ x \in Consumer \cup Slot /\ ExecutorStep(x)
  \/ x \in Consumer /\ ConsumerStep(x) /\ UNCHANGED strays
  \/ x \in Pool /\ PoolStep(x) /\ UNCHANGED strays

\* The end of a stop() call, of a delay, or of a wait inside enqueue.
Settles ==
  /\ (\E c \in Consumer : WakesWaiters(c)) \/ (\E t \in Task : Due(t)) \/ SubmitGoesOn
  /\ UNCHANGED strays

LocalNext ==
  \/ \E x \in Consumer \cup Slot : Advances(x)
  \/ Settles
  \/ \E c \in Consumer : (StopsWorker(c) \/ StopsLoop(c)) /\ UNCHANGED strays
  \/ \E t \in Task : (Submits(t) \/ SubmitWaits(t)) /\ UNCHANGED strays
  \/ \E i \in strays : StrayEnds(i)

\* Threads are scheduled, callables end, time passes, and a call that has
\* begun goes on; nobody has to stop, start or submit.
LocalFairness ==
  /\ \A x \in Consumer \cup Slot : WF_localVars(pc[x] # "new" /\ Advances(x))
  /\ WF_localVars(Settles)

LocalSpec == LocalInit /\ [][LocalNext]_localVars /\ LocalFairness

----------------------------------------------------------------------------
(* Properties *)

\* Between the tasks, with a task in hand, and inside enqueue or execute.
Place ==
  {"new", "idle", "top", "poll", "take", "fill", "await", "await soon", "reap", "exit", "raise",
   "error", "ended", "broken"}
    \cup {"got", "execute", "putback", "undo", "requeue", "after"}
    \cup {"enqueue", "submit", "call"}

LocalTypeOK ==
  /\ status \in [Task -> Waiting \cup Finished \cup {"RUNNING"}]
  /\ attempts \in [Task -> Nat] /\ retries \in [Task -> Nat]
  /\ line \in Seq(Task) /\ waits \subseteq Queued /\ submitted \subseteq Task
  /\ enqueuer \in Thread \cup {Nobody}
  /\ strays \subseteq Task \X Nat
  /\ pc \in [Thread -> Place]
  /\ hand \in [Thread -> Task \cup {NoTask}]
  /\ life \in [Consumer -> {"CREATED", "RUNNING", "STOPPING", "STOPPED"}]
  /\ sleep \in [Consumer -> {"awake", "forever", "timed"}]
  /\ wakes \subseteq Consumer
  /\ reaping \in [Pool -> SUBSET Slot]

\* A task that waits to be executed is in the queue, or in the hands of a
\* thread that will execute it or put it back: neither a stop that races a
\* dequeue, nor a failed hand-over to the pool, nor an error raised for
\* another task loses it (worker.py, process_next; concurrency.py, run).
NothingLost ==
  \A t \in submitted : status[t] \in Waiting =>
    \/ t \in Queued
    \/ \E x \in Thread : hand[x] = t /\ pc[x] \in {"got", "execute", "putback", "undo", "requeue"}

\* However often callers submit a task again while consumers hold it, it is
\* executed once and then once per granted retry, and never after its success
\* (executor.py, execute; retry.py, begin_retry).
ExecutedAsGranted ==
  \A t \in Task :
    /\ attempts[t] = retries[t] + (IF status[t] \in Waiting THEN 0 ELSE 1)
    /\ retries[t] <= Budget[t]

\* What a task ends with is the outcome of its current attempt, reported by
\* the thread that executes it; an attempt that was abandoned at its time
\* limit never speaks again (timeout.py, run_with_timeout).
OutcomeOfLiveAttempt ==
  [][\A t \in Task : status'[t] \in Finished /\ status'[t] # status[t] =>
       /\ status[t] = "RUNNING"
       /\ \E x \in Consumer \cup Slot :
            pc[x] = "call" /\ hand[x] = t /\ pc'[x] = "after"]_localVars

\* In memory, too, a task has the life that the durable store promises, as
\* soon as one reads a failure as one once its consumer is through with it:
\* until then it may still be retried (worker.py, _handle_failure).  Whatever
\* stops, submits again or fails meanwhile, a success is final, and so is a
\* failure that is not retried.
Undecided(t) == status[t] = "FAILED" /\ \E x \in Thread : pc[x] = "after" /\ hand[x] = t

Phase ==
  [t \in Task |-> IF t \notin submitted THEN "ABSENT"
                 ELSE IF Undecided(t) THEN "RUNNING" ELSE status[t]]

LocalLifecycle == INSTANCE TaskLifecycle
  WITH phase <- Phase, spent <- retries, budget <- Budget, Operators <- FALSE

ImplementsLocalLifecycle == LocalLifecycle!Spec

\* A worker that is asked to stop stops, also when it sleeps on an empty
\* queue while the request arrives (worker.py, stop and dequeue_wait).
StopEnds == \A c \in Consumer : (life[c] = "STOPPING") ~> (life[c] = "STOPPED")

\* While a loop runs, what was submitted gets executed, and retried as long
\* as its budget lasts, unless an error ended a consumer that shared the
\* queue (queue.py, the waits of dequeue_wait).
Broken == \E c \in Consumer : pc[c] \in {"raise", "undo", "broken"}

WorkIsDone ==
  \A c \in Loop, t \in Task :
    (t \in submitted /\ life[c] = "RUNNING") ~>
      \/ status[t] = "SUCCESS" \/ (status[t] = "FAILED" /\ retries[t] = Budget[t])
      \/ life[c] # "RUNNING" \/ Broken

\* "The queue lock first, then the task lock" (queue.py:54): no thread that
\* holds a task's lock waits for the queue lock while its holder waits for
\* that task.
LocksInOrder ==
  ~ \E x \in Consumer \cup Slot :
      /\ pc[x] = "submit" /\ enqueuer \notin {Nobody, x}
      /\ hand[enqueuer] = hand[x]
=============================================================================
