------------------------ MODULE LocalExecutionProofs ------------------------
(***************************************************************************)
(* Execution inside one process, for any number of tasks, loops, pools and *)
(* slots: no task is lost, none is executed more often than it was         *)
(* granted, and no outcome comes from an abandoned attempt.                *)
(***************************************************************************)
EXTENDS LocalExecution, SequenceTheorems, TLAPS

\* Whoever is there has a task in hand that it will execute or put back ...
Holding == {"got", "execute", "putback", "undo", "requeue"}

\* ... or one that it deals with in another way.
Occupied == Holding \cup Executing \cup {"after", "enqueue"}

HandsOK ==
  \A x \in Thread :
    /\ pc[x] \in Occupied => hand[x] \in Task
    /\ pc[x] = "submit" => Child[hand[x]] # NoTask

\* The lock of a task: one thread executes it, and it is RUNNING as long.
ExecutesAlone ==
  \A x \in Thread : pc[x] \in Executing =>
    /\ status[hand[x]] = "RUNNING"
    /\ \A y \in Thread : pc[y] \in Executing /\ hand[y] = hand[x] => y = x

\* A task that was retried is not PENDING any more.
PendingIsFresh == \A t \in Task : status[t] = "PENDING" => retries[t] = 0

\* The pool evaluates calls that have ended.
ReapsTheEnded ==
  \A c \in Pool : \A s \in reaping[c] : PoolOf[s] = c /\ pc[s] \in {"after", "error"}

LocalInv ==
  /\ LocalTypeOK /\ HandsOK /\ ExecutesAlone /\ PendingIsFresh /\ ReapsTheEnded
  /\ ExecutedAsGranted /\ NothingLost

----------------------------------------------------------------------------
(* The queue.                                                               *)

LEMMA QueueAppends ==
  ASSUME line \in Seq(Task), NEW t \in Task, line' = Append(line, t)
  PROVE  line' \in Seq(Task) /\ Queued' = Queued \cup {t}
<1>1. line' \in Seq(Task) /\ Len(line') = Len(line) + 1
  OBVIOUS
<1>2. \A i \in 1..Len(line) : line'[i] = line[i]
  OBVIOUS
<1>3. line'[Len(line) + 1] = t
  OBVIOUS
<1>4. DOMAIN line = 1..Len(line) /\ DOMAIN line' = 1..(Len(line) + 1) /\ Len(line) \in Nat
  BY <1>1
<1>. QED
  BY <1>1, <1>2, <1>3, <1>4 DEF Queued, ToSet

LEMMA QueueRemoves ==
  ASSUME line \in Seq(Task), NEW i \in DOMAIN line, line' = RemoveAt(line, i)
  PROVE  line' \in Seq(Task) /\ Queued \subseteq Queued' \cup {line[i]} /\ Queued' \subseteq Queued
<1>. DEFINE front == SubSeq(line, 1, i - 1)
            back == SubSeq(line, i + 1, Len(line))
<1>1. i \in 1..Len(line) /\ Len(line) \in Nat /\ DOMAIN line = 1..Len(line)
  OBVIOUS
<1>2. /\ front \in Seq(Task) /\ Len(front) = i - 1
      /\ \A j \in 1..(i - 1) : front[j] = line[j]
  BY <1>1
<1>3. /\ back \in Seq(Task) /\ Len(back) = Len(line) - i
      /\ \A j \in 1..(Len(line) - i) : back[j] = line[i + j]
  BY <1>1
<1>4. line' = front \o back
  BY DEF RemoveAt
<1>. HIDE DEF front, back
<1>5. /\ line' \in Seq(Task) /\ Len(line') = Len(line) - 1
      /\ \A j \in 1..(i - 1) : line'[j] = line[j]
      /\ \A j \in 1..(Len(line) - i) : line'[i - 1 + j] = line[i + j]
  <2>1. /\ line' \in Seq(Task) /\ Len(line') = Len(front) + Len(back)
        /\ \A j \in 1..(Len(front) + Len(back)) :
             line'[j] = IF j <= Len(front) THEN front[j] ELSE back[j - Len(front)]
    <3>1. /\ front \o back \in Seq(Task) /\ Len(front \o back) = Len(front) + Len(back)
          /\ \A j \in 1..(Len(front) + Len(back)) :
               (front \o back)[j] = IF j <= Len(front) THEN front[j] ELSE back[j - Len(front)]
      BY Zenon, <1>2, <1>3, ConcatProperties
    <3>. QED
      BY Zenon, <1>4, <3>1
  <2>2. Len(line') = Len(line) - 1
    BY <1>1, <1>2, <1>3, <2>1
  <2>3. ASSUME NEW j \in 1..(i - 1) PROVE line'[j] = line[j]
    BY <1>1, <1>2, <1>3, <2>1
  <2>4. ASSUME NEW j \in 1..(Len(line) - i) PROVE line'[i - 1 + j] = line[i + j]
    <3>1. i - 1 + j \in 1..(Len(front) + Len(back)) /\ ~(i - 1 + j <= Len(front)) /\ i - 1 + j - Len(front) = j
      BY <1>1, <1>2, <1>3
    <3>. QED
      BY <1>3, <2>1, <3>1
  <2>. QED
    BY <2>1, <2>2, <2>3, <2>4
<1>6. ASSUME NEW j \in 1..Len(line), j # i PROVE \E k \in DOMAIN line' : line'[k] = line[j]
  <2>1. CASE j < i
    BY <1>1, <1>5, <2>1
  <2>2. CASE j > i
    <3>1. j - i \in 1..(Len(line) - i) /\ i - 1 + (j - i) = j - 1 /\ i + (j - i) = j
      BY <1>1, <2>2
    <3>2. line'[j - 1] = line[j]
      BY <1>5, <3>1
    <3>3. j - 1 \in DOMAIN line'
      BY <1>1, <1>5, <2>2
    <3>. QED
      BY <3>2, <3>3
  <2>. QED
    BY <1>1, <1>6, <2>1, <2>2
<1>7. ASSUME NEW k \in DOMAIN line' PROVE \E j \in DOMAIN line : line[j] = line'[k]
  <2>1. k \in 1..(Len(line) - 1)
    BY <1>1, <1>5
  <2>2. CASE k < i
    BY <1>1, <1>5, <2>1, <2>2
  <2>3. CASE k >= i
    <3>1. k - i + 1 \in 1..(Len(line) - i) /\ i - 1 + (k - i + 1) = k /\ i + (k - i + 1) \in 1..Len(line)
      BY <1>1, <2>1, <2>3
    <3>2. line'[k] = line[i + (k - i + 1)]
      BY <1>5, <3>1
    <3>. QED
      BY <1>1, <3>1, <3>2
  <2>. QED
    BY <1>1, <2>1, <2>2, <2>3
<1>8. Queued \subseteq Queued' \cup {line[i]}
  BY <1>1, <1>6 DEF Queued, ToSet
<1>9. Queued' \subseteq Queued
  BY <1>7 DEF Queued, ToSet
<1>. QED
  BY <1>5, <1>8, <1>9

\* What enqueue does, whether it takes the task or refuses it.
LEMMA EnqueueQueues ==
  ASSUME LocalTypeOK, NEW x \in Thread, NEW t \in Task, Enqueue(x, t)
  PROVE  /\ line' \in Seq(Task) /\ waits' \subseteq Queued' /\ Queued \subseteq Queued'
         /\ submitted' = submitted \cup {t} /\ enqueuer' = Nobody
         /\ sleep' \in [Consumer -> {"awake", "forever", "timed"}]
         /\ Queueable(t) => t \in Queued'
         /\ Queued' \subseteq Queued \cup {t}
<1>. USE DEF LocalTypeOK
<1>1. CASE Queueable(t)
  <2>1. /\ line' = Append(line, t) /\ waits' \in {waits, waits \cup {t}}
        /\ sleep' = [c \in Consumer |-> "awake"]
    BY <1>1 DEF Enqueue, NotifyAll
  <2>2. line' \in Seq(Task) /\ Queued' = Queued \cup {t}
    BY <2>1, QueueAppends
  <2>. QED
    BY <2>1, <2>2 DEF Enqueue
<1>2. CASE ~Queueable(t)
  <2>1. UNCHANGED <<line, waits, sleep>>
    BY <1>2 DEF Enqueue
  <2>2. Queued' = Queued
    BY <2>1 DEF Queued
  <2>. QED
    BY <1>2, <2>1, <2>2 DEF Enqueue
<1>. QED
  BY <1>1, <1>2

LEMMA PopTakes ==
  ASSUME LocalTypeOK, NEW x, NEW t, Pop(x, t)
  PROVE  /\ line' \in Seq(Task) /\ waits' \subseteq Queued' /\ Queued \subseteq Queued' \cup {t}
         /\ t \in Task /\ UNCHANGED <<waits, submitted, enqueuer>>
         /\ Queued' \subseteq Queued /\ t \in Queued
<1>1. PICK i \in DOMAIN line : line[i] = t /\ line' = RemoveAt(line, i)
  BY DEF Pop
<1>2. line' \in Seq(Task) /\ Queued \subseteq Queued' \cup {t} /\ Queued' \subseteq Queued
  BY <1>1, QueueRemoves DEF LocalTypeOK
<1>3. t \notin waits /\ t \in Queued
  BY DEF Pop, First, Ready
<1>4. t \in Task
  BY <1>1 DEF LocalTypeOK
<1>. QED
  BY <1>2, <1>3, <1>4 DEF Pop, LocalTypeOK

----------------------------------------------------------------------------
(* Steps that execute nothing: threads move, and pass tasks on.             *)

\* The task is in the queue, or in the hands of somebody who keeps it.
Kept(t) == t \in Queued \/ \E x \in Thread : hand[x] = t /\ pc[x] \in Holding

Rests(x) == pc'[x] = pc[x] /\ hand'[x] = hand[x]

\* A thread that moves on has a task in hand where it needs one, begins no
\* execution, and leaves no task that it kept.
MovesOn(x) ==
  /\ pc'[x] \in Occupied => hand'[x] \in Task
  /\ pc'[x] \in Executing => pc'[x] = "call" /\ pc[x] = "submit" /\ hand'[x] = hand[x]
  /\ \A t \in Task : pc[x] \in Holding /\ hand[x] = t /\ status[t] \in Waiting => Kept(t)'

LEMMA QuietStep ==
  ASSUME LocalInv, LocalTypeOK', UNCHANGED taskVars,
         \A x \in Thread : Rests(x) \/ MovesOn(x),
         \A t \in Queued : Kept(t)',
         \A t \in submitted' \ submitted : status[t] \in Waiting => Kept(t)',
         ReapsTheEnded'
  PROVE  LocalInv'
<1>. USE DEF LocalInv
<1>1. status' = status /\ retries' = retries /\ attempts' = attempts
  BY DEF taskVars
<1>2. HandsOK'
  BY DEF HandsOK, Rests, MovesOn, Executing
<1>3. \A x \in Thread : pc'[x] \in Executing => pc[x] \in Executing /\ hand'[x] = hand[x]
  BY DEF Rests, MovesOn, Executing
<1>4. ExecutesAlone'
  BY <1>1, <1>3 DEF ExecutesAlone
<1>5. ASSUME NEW t, status[t] \in Waiting, Kept(t) PROVE Kept(t)'
  <2>1. ASSUME NEW x \in Thread, hand[x] = t, pc[x] \in Holding PROVE Kept(t)'
    <3>1. CASE Rests(x)
      BY <2>1, <3>1 DEF Rests, Kept
    <3>2. CASE MovesOn(x)
      <4>1. t \in Task
        BY <2>1 DEF HandsOK, Occupied
      <4>. QED
        BY <1>5, <2>1, <3>2, <4>1 DEF MovesOn
    <3>. QED
      BY <3>1, <3>2
  <2>. QED
    BY <1>5, <2>1 DEF Kept
<1>6. NothingLost'
  <2>. SUFFICES ASSUME NEW t \in submitted', status[t] \in Waiting PROVE Kept(t)'
    BY <1>1 DEF NothingLost, Kept, Holding
  <2>1. t \in submitted => Kept(t)
    BY DEF NothingLost, Kept, Holding
  <2>. QED
    BY <1>5, <2>1
<1>7. PendingIsFresh' /\ ExecutedAsGranted'
  BY <1>1 DEF PendingIsFresh, ExecutedAsGranted
<1>. QED
  BY <1>2, <1>4, <1>6, <1>7

\* A task that waits, and is not queued, may be queued.
LEMMA WaitingIsQueueable ==
  ASSUME LocalInv, NEW t \in Task, status[t] \in Waiting
  PROVE  (t \notin Queued => Queueable(t)) /\ Executable(t)
<1>1. status[t] = "PENDING" => attempts[t] = 0
  BY DEF LocalInv, PendingIsFresh, ExecutedAsGranted, Waiting
<1>. QED
  BY <1>1 DEF Queueable, Executable

\* The variables that no property is about keep their type.
OthersOK ==
  /\ line \in Seq(Task) /\ waits \subseteq Queued /\ submitted \subseteq Task
  /\ enqueuer \in Thread \cup {Nobody} /\ strays \subseteq Task \X Nat
  /\ life \in [Consumer -> {"CREATED", "RUNNING", "STOPPING", "STOPPED"}]
  /\ sleep \in [Consumer -> {"awake", "forever", "timed"}] /\ wakes \subseteq Consumer

\* No thread moves.
LEMMA NobodyMoves ==
  ASSUME LocalInv, UNCHANGED <<taskVars, pc, hand, reaping>>, OthersOK',
         Queued \subseteq Queued',
         \A t \in submitted' \ submitted : status[t] \in Waiting => t \in Queued'
  PROVE  LocalInv'
<1>. USE DEF LocalInv
<1>1. LocalTypeOK'
  BY DEF LocalTypeOK, OthersOK, taskVars
<1>2. \A x \in Thread : Rests(x)
  BY DEF Rests
<1>3. \A t \in Queued' : Kept(t)'
  BY DEF Kept
<1>4. ReapsTheEnded'
  BY DEF ReapsTheEnded
<1>. QED
  BY <1>1, <1>2, <1>3, <1>4, QuietStep

\* One thread moves, to a place where it executes nothing.
LEMMA OneMoves ==
  ASSUME LocalInv, UNCHANGED taskVars, OthersOK',
         NEW c \in Thread, c \in Slot => pc[c] \notin {"after", "error"},
         NEW p \in Place \ Executing, NEW h \in Task \cup {NoTask}, p \in Occupied => h \in Task,
         pc' = [pc EXCEPT ![c] = p], hand' = [hand EXCEPT ![c] = h],
         reaping' \in [Pool -> SUBSET Slot], \A d \in Pool : reaping'[d] \subseteq reaping[d],
         \A t \in Queued : t \in Queued' \/ (t = h /\ p \in Holding),
         \A t \in submitted' \ submitted : status[t] \in Waiting => t \in Queued',
         pc[c] \in Holding /\ status[hand[c]] \in Waiting => hand[c] \in Queued' \/ (h = hand[c] /\ p \in Holding)
  PROVE  LocalInv'
<1>. USE DEF LocalInv
<1>1. /\ pc'[c] = p /\ hand'[c] = h /\ \A x \in Thread \ {c} : Rests(x)
      /\ pc' \in [Thread -> Place] /\ hand' \in [Thread -> Task \cup {NoTask}]
  BY DEF LocalTypeOK, Rests
<1>2. LocalTypeOK'
  BY <1>1 DEF LocalTypeOK, OthersOK, taskVars
<1>3. \A t : t \in Queued' \/ (t = h /\ p \in Holding) => Kept(t)'
  BY <1>1 DEF Kept
<1>4. MovesOn(c)
  BY <1>1, <1>3 DEF MovesOn
<1>5. ReapsTheEnded'
  BY <1>1 DEF ReapsTheEnded, Rests, Thread
<1>. QED
  BY <1>1, <1>2, <1>3, <1>4, <1>5, QuietStep

\* While the queue rests.
LEMMA QueueRests ==
  ASSUME LocalInv, UNCHANGED <<line, waits, submitted>>
  PROVE  Queued' = Queued /\ line' \in Seq(Task) /\ waits' \subseteq Queued' /\ submitted' \subseteq Task
BY DEF LocalInv, LocalTypeOK, Queued

\* What stop, a delay and a wait for locks do.
LEMMA SettlingStep ==
  ASSUME LocalInv, UNCHANGED strays,
         \/ \E c \in Consumer : WakesWaiters(c) \/ Stops(c)
         \/ \E t \in Task : Due(t) \/ Submits(t)
         \/ \E x \in Consumer \cup Slot : CallWaits(x) \/ PutBackWaits(x)
  PROVE  LocalInv'
<1>. USE DEF LocalTypeOK
<1>1. LocalTypeOK /\ Consumer \subseteq Thread /\ Slot \subseteq Thread
  BY DEF LocalInv, Thread
<1>2. ASSUME NEW c \in Consumer, WakesWaiters(c) PROVE LocalInv'
  <2>1. UNCHANGED <<line, waits, submitted>> /\ UNCHANGED <<taskVars, pc, hand, reaping>>
    BY <1>2 DEF WakesWaiters, queueVars
  <2>2. OthersOK'
    BY <1>1, <1>2, <2>1, QueueRests DEF WakesWaiters, OthersOK, queueVars
  <2>. QED
    BY <2>1, <2>2, NobodyMoves, QueueRests
<1>3. ASSUME NEW c \in Consumer, Stops(c) PROVE LocalInv'
  <2>1. UNCHANGED <<line, waits, submitted>> /\ UNCHANGED <<taskVars, pc, hand, reaping>>
    BY <1>3 DEF Stops, queueVars
  <2>2. OthersOK'
    BY <1>1, <1>3, <2>1, QueueRests DEF Stops, OthersOK, queueVars, WakesLater
  <2>. QED
    BY <2>1, <2>2, NobodyMoves, QueueRests
<1>4. ASSUME NEW t \in Task, Due(t) PROVE LocalInv'
  <2>1. UNCHANGED <<line, submitted>> /\ UNCHANGED <<taskVars, pc, hand, reaping>>
    BY <1>4 DEF Due
  <2>2. OthersOK' /\ Queued' = Queued
    BY <1>1, <1>4, <2>1 DEF Due, OthersOK, Queued
  <2>. QED
    BY <2>1, <2>2, NobodyMoves
<1>5. ASSUME NEW t \in Task, Submits(t) PROVE LocalInv'
  <2>1. Caller \in Thread /\ Enqueue(Caller, t) /\ UNCHANGED <<taskVars, pc, hand, life, wakes, reaping>>
    BY <1>5 DEF Submits, Thread
  <2>2. OthersOK'
    BY <1>1, <2>1, EnqueueQueues DEF OthersOK
  <2>3. status[t] \in Waiting => t \in Queued'
    BY <1>1, <2>1, EnqueueQueues, WaitingIsQueueable
  <2>. QED
    BY <1>1, <2>1, <2>2, <2>3, NobodyMoves, EnqueueQueues
<1>6. ASSUME NEW x \in Thread, NEW t, KeepsQueueLock(x, t) PROVE LocalInv'
  <2>1. UNCHANGED <<line, waits, submitted>> /\ UNCHANGED <<taskVars, pc, hand, reaping>>
    BY <1>6 DEF KeepsQueueLock
  <2>2. OthersOK'
    BY <1>1, <1>6, <2>1, QueueRests DEF KeepsQueueLock, OthersOK
  <2>. QED
    BY <2>1, <2>2, NobodyMoves, QueueRests
<1>. QED
  BY <1>1, <1>2, <1>3, <1>4, <1>5, <1>6 DEF CallWaits, PutBackWaits

\* The caller of submit that had to wait for a lock.
LEMMA CallerStep ==
  ASSUME LocalInv, UNCHANGED strays, SubmitGoesOn \/ \E t \in Task : SubmitWaits(t)
  PROVE  LocalInv'
<1>. USE DEF LocalTypeOK
<1>1. /\ LocalTypeOK /\ Caller \in Thread \ Slot /\ hand \in [Thread -> Task \cup {NoTask}]
      /\ reaping \in [Pool -> SUBSET Slot]
  BY LocalAssumption DEF LocalInv, Thread
<1>2. ASSUME NEW t \in Task, SubmitWaits(t) PROVE LocalInv'
  <2>1. /\ UNCHANGED <<line, waits, submitted>> /\ UNCHANGED taskVars /\ reaping' = reaping
        /\ pc' = [pc EXCEPT ![Caller] = "enqueue"] /\ hand' = [hand EXCEPT ![Caller] = t]
        /\ pc[Caller] = "idle"
    BY <1>2 DEF SubmitWaits, Goto, Take
  <2>2. OthersOK'
    BY <1>1, <1>2, <2>1, QueueRests DEF SubmitWaits, OthersOK
  <2>3. "enqueue" \in Place \ Executing /\ "idle" \notin Holding
    BY DEF Place, Executing, Holding
  <2>. QED
    BY <1>1, <2>1, <2>2, <2>3, OneMoves, QueueRests
<1>3. CASE SubmitGoesOn
  <2>. DEFINE t == hand[Caller]
  <2>1. /\ Enqueue(Caller, t) /\ UNCHANGED <<taskVars, life, wakes, reaping>>
        /\ pc' = [pc EXCEPT ![Caller] = "idle"] /\ hand' = [hand EXCEPT ![Caller] = NoTask]
        /\ pc[Caller] = "enqueue"
    BY <1>3 DEF SubmitGoesOn, Goto, Take
  <2>2. t \in Task
    BY <1>1, <2>1 DEF LocalInv, HandsOK, Occupied
  <2>. HIDE DEF t
  <2>3. OthersOK'
    BY <1>1, <2>1, <2>2, EnqueueQueues DEF OthersOK
  <2>4. status[t] \in Waiting => t \in Queued'
    BY <1>1, <2>1, <2>2, EnqueueQueues, WaitingIsQueueable
  <2>5. "idle" \in Place \ Executing /\ "enqueue" \notin Holding /\ "idle" \notin Occupied
    BY DEF Place, Executing, Holding, Occupied
  <2>6. Queued \subseteq Queued' /\ submitted' = submitted \cup {t}
    BY <1>1, <2>1, <2>2, EnqueueQueues
  <2>. QED
    BY <1>1, <2>1, <2>3, <2>4, <2>5, <2>6, OneMoves
<1>. QED
  BY <1>2, <1>3

----------------------------------------------------------------------------
(* Consumers between two executions.                                        *)

\* A consumer that holds no task goes somewhere, while the queue rests.
LEMMA WalksOn ==
  ASSUME LocalInv, UNCHANGED <<taskVars, queueVars, strays>>, NEW c \in Consumer,
         pc[c] \notin Holding, NEW p \in Place \ (Executing \cup Occupied), NEW h \in Task \cup {NoTask},
         pc' = [pc EXCEPT ![c] = p], hand' = [hand EXCEPT ![c] = h],
         life' \in [Consumer -> {"CREATED", "RUNNING", "STOPPING", "STOPPED"}],
         sleep' \in [Consumer -> {"awake", "forever", "timed"}], wakes' \subseteq Consumer,
         UNCHANGED reaping
  PROVE  LocalInv'
<1>1. c \in Thread \ Slot /\ LocalTypeOK
  BY LocalAssumption DEF LocalInv, Thread
<1>2. UNCHANGED <<line, waits, submitted, enqueuer>>
  BY DEF queueVars
<1>3. OthersOK' /\ Queued' = Queued /\ reaping' \in [Pool -> SUBSET Slot]
  BY <1>1, <1>2, QueueRests DEF OthersOK, LocalTypeOK
<1>. QED
  BY <1>1, <1>2, <1>3, OneMoves

LEMMA WalkingStep ==
  ASSUME LocalInv, NEW c \in Consumer, UNCHANGED strays,
         BeginsRun(c) \/ StartsLoop(c) \/ Top(c) \/ (c \in Pool /\ Chooses(c))
  PROVE  LocalInv'
<1>1. LocalTypeOK /\ hand[c] \in Task \cup {NoTask} /\ hand = [hand EXCEPT ![c] = hand[c]]
  BY DEF LocalInv, LocalTypeOK, Thread
<1>. USE DEF LocalTypeOK
<1>2. ASSUME NEW at \in {"fill", "top"}, Begins(c, at) PROVE LocalInv'
  <2>1. at \in Place \ (Executing \cup Occupied) /\ "new" \notin Holding
    BY DEF Place, Executing, Occupied, Holding
  <2>2. life' \in [Consumer -> {"CREATED", "RUNNING", "STOPPING", "STOPPED"}]
    BY <1>1, <1>2 DEF Begins
  <2>3. /\ UNCHANGED <<taskVars, queueVars, hand, sleep, wakes, reaping>>
        /\ pc[c] = "new" /\ pc' = [pc EXCEPT ![c] = at]
    BY <1>2 DEF Begins, Goto
  <2>4. sleep' \in [Consumer -> {"awake", "forever", "timed"}] /\ wakes' \subseteq Consumer
    BY <1>1, <2>3
  <2>5. hand' = [hand EXCEPT ![c] = hand[c]]
    BY <1>1, <2>3
  <2>. QED
    BY <1>1, <2>1, <2>2, <2>3, <2>4, <2>5, WalksOn
<1>3. CASE Top(c)
  <2>1. PICK p \in {"exit", "take", "poll"} : pc' = [pc EXCEPT ![c] = p]
    BY <1>3 DEF Top, Goto
  <2>2. p \in Place \ (Executing \cup Occupied) /\ "top" \notin Holding
    BY DEF Place, Executing, Occupied, Holding
  <2>. QED
    BY <1>1, <1>3, <2>1, <2>2, WalksOn DEF Top, Take
<1>4. CASE Chooses(c)
  <2>1. PICK p \in {"exit", "take", "await", "await soon"} : pc' = [pc EXCEPT ![c] = p]
    BY <1>4 DEF Chooses, Goto
  <2>2. p \in Place \ (Executing \cup Occupied) /\ "fill" \notin Holding
    BY DEF Place, Executing, Occupied, Holding
  <2>. QED
    BY <1>1, <1>4, <2>1, <2>2, WalksOn DEF Chooses
<1>. QED
  BY <1>2, <1>3, <1>4 DEF BeginsRun, StartsLoop

\* A consumer takes a task out of the queue, and has it in hand.
LEMMA TakesOne ==
  ASSUME LocalInv, NEW c \in Consumer, NEW t, Pop(c, t), NEW p \in Holding,
         pc[c] \notin Holding, pc' = [pc EXCEPT ![c] = p], hand' = [hand EXCEPT ![c] = t],
         UNCHANGED <<taskVars, strays, life, sleep, wakes, reaping>>
  PROVE  LocalInv'
<1>1. c \in Thread \ Slot /\ LocalTypeOK
  BY LocalAssumption DEF LocalInv, Thread
<1>2. /\ line' \in Seq(Task) /\ waits' \subseteq Queued' /\ Queued \subseteq Queued' \cup {t}
      /\ t \in Task /\ UNCHANGED <<waits, submitted, enqueuer>>
  BY <1>1, PopTakes
<1>3. OthersOK' /\ reaping' \in [Pool -> SUBSET Slot]
  BY <1>1, <1>2 DEF OthersOK, LocalTypeOK
<1>4. p \in Place \ Executing
  BY DEF Place, Executing, Holding
<1>5. /\ \A u \in Queued : u \in Queued' \/ (u = t /\ p \in Holding)
      /\ submitted' \ submitted = {} /\ \A d \in Pool : reaping'[d] \subseteq reaping[d]
  BY <1>2
<1>. QED
  BY <1>1, <1>2, <1>3, <1>4, <1>5, OneMoves

LEMMA TakingStep ==
  ASSUME LocalInv, NEW c \in Consumer, UNCHANGED strays, Polls(c) \/ Takes(c)
  PROVE  LocalInv'
<1>1. LocalTypeOK /\ hand[c] \in Task \cup {NoTask} /\ hand = [hand EXCEPT ![c] = hand[c]]
  BY DEF LocalInv, LocalTypeOK, Thread
<1>. USE DEF LocalTypeOK
<1>2. {"poll", "take"} \cap Holding = {} /\ "got" \in Holding
      /\ {"exit", "fill", "top", "take"} \subseteq Place \ (Executing \cup Occupied)
  BY DEF Place, Executing, Occupied, Holding
<1>3. ASSUME NEW t, Pop(c, t), Take(c, t), Goto(c, "got"), pc[c] \in {"poll", "take"},
             UNCHANGED <<taskVars, life, sleep, wakes, reaping>>
      PROVE  LocalInv'
  BY <1>2, <1>3, TakesOne DEF Take, Goto
<1>4. CASE Polls(c)
  <2>1. CASE Ready = {} /\ Goto(c, "exit") /\ UNCHANGED <<queueVars, hand>>
    BY <1>1, <1>2, <1>4, <2>1, WalksOn DEF Polls, Goto
  <2>. QED
    BY <1>3, <1>4, <2>1 DEF Polls
<1>5. CASE Takes(c)
  <2>1. CASE Stopping(c) /\ Goto(c, IF c \in Pool THEN "fill" ELSE "top") /\ UNCHANGED <<queueVars, hand, sleep>>
    <3>1. PICK p \in {"fill", "top"} : pc' = [pc EXCEPT ![c] = p]
      BY <2>1 DEF Goto
    <3>. QED
      BY <1>1, <1>2, <1>5, <2>1, <3>1, WalksOn DEF Takes
  <2>2. CASE /\ sleep' = [sleep EXCEPT ![c] = IF waits = {} THEN "forever" ELSE "timed"]
             /\ UNCHANGED <<queueVars, hand, pc>>
    <3>1. pc[c] = "take" /\ pc' = [pc EXCEPT ![c] = "take"]
      BY <1>1, <1>5, <2>2 DEF Takes
    <3>2. sleep' \in [Consumer -> {"awake", "forever", "timed"}]
      BY <1>1, <2>2
    <3>3. UNCHANGED <<taskVars, life, wakes, reaping>> /\ hand' = [hand EXCEPT ![c] = hand[c]]
      BY <1>1, <1>5, <2>2 DEF Takes
    <3>4. life' \in [Consumer -> {"CREATED", "RUNNING", "STOPPING", "STOPPED"}] /\ wakes' \subseteq Consumer
      BY <1>1, <3>3
    <3>. QED
      BY <1>1, <1>2, <2>2, <3>1, <3>2, <3>3, <3>4, WalksOn
  <2>3. CASE ~Stopping(c) /\ (\E t \in Task : Pop(c, t) /\ Take(c, t) /\ Goto(c, "got")) /\ UNCHANGED sleep
    BY <1>3, <1>5, <2>3 DEF Takes
  <2>. QED
    BY <1>5, <2>1, <2>2, <2>3 DEF Takes
<1>. QED
  BY <1>4, <1>5

\* The second look at the stop request, and the way back into the queue.
LEMMA HoldingStep ==
  ASSUME LocalInv, NEW c \in Consumer, UNCHANGED strays, Got(c) \/ PutsBack(c)
  PROVE  LocalInv'
<1>. USE DEF LocalTypeOK
<1>1. /\ LocalTypeOK /\ c \in Thread \ Slot /\ HandsOK
      /\ reaping \in [Pool -> SUBSET Slot] /\ hand = [hand EXCEPT ![c] = hand[c]]
  BY LocalAssumption DEF LocalInv, Thread
<1>2. CASE Got(c)
  <2>1. PICK p \in {"putback", "execute"} : pc' = [pc EXCEPT ![c] = p]
    BY <1>2 DEF Got, Goto, NextWithTask
  <2>2. /\ UNCHANGED <<taskVars, line, waits, submitted, enqueuer, life, sleep, wakes, reaping>>
        /\ hand' = [hand EXCEPT ![c] = hand[c]] /\ pc[c] = "got"
    BY <1>1, <1>2 DEF Got, queueVars
  <2>3. hand[c] \in Task /\ p \in Place \ Executing /\ p \in Holding
    BY <1>1, <2>2 DEF HandsOK, Occupied, Holding, Place, Executing
  <2>4. OthersOK' /\ Queued' = Queued
    BY <1>1, <2>2, QueueRests DEF OthersOK
  <2>. QED
    BY <1>1, <2>1, <2>2, <2>3, <2>4, OneMoves
<1>3. CASE PutsBack(c)
  <2>. DEFINE t == hand[c]
  <2>1. PICK p \in {"raise", "top", "fill", "reap"} : pc' = [pc EXCEPT ![c] = p]
    BY <1>3 DEF PutsBack, Goto
  <2>2. /\ Enqueue(c, t) /\ UNCHANGED <<taskVars, life, wakes, reaping>>
        /\ hand' = [hand EXCEPT ![c] = NoTask] /\ pc[c] \in {"putback", "undo", "requeue"}
    BY <1>3 DEF PutsBack, Take
  <2>3. t \in Task /\ p \in Place \ Executing /\ p \notin Occupied
    BY <1>1, <2>2 DEF HandsOK, Occupied, Holding, Place, Executing
  <2>. HIDE DEF t
  <2>4. OthersOK'
    BY <1>1, <2>2, <2>3, EnqueueQueues DEF OthersOK
  <2>5. Queued \subseteq Queued' /\ submitted' = submitted \cup {t} /\ (Queueable(t) => t \in Queued')
    BY <1>1, <2>2, <2>3, EnqueueQueues
  <2>6. status[t] \in Waiting => t \in Queued'
    BY <2>3, <2>5, WaitingIsQueueable
  <2>. QED
    BY <1>1, <2>1, <2>2, <2>3, <2>4, <2>5, <2>6, OneMoves DEF t
<1>. QED
  BY <1>2, <1>3

\* A pool hands a task over to an idle slot, or has to put it back.
LEMMA HandingStep ==
  ASSUME LocalInv, UNCHANGED <<taskVars, strays, life, sleep, wakes, reaping>>, NEW c \in Pool,
         NEW t \in Task, pc[c] = "got" => hand[c] = t, pc[c] \in {"got", "fill"},
         Hands(c, t), OthersOK', \A u \in Queued : u \in Queued' \/ u = t, submitted' = submitted
  PROVE  LocalInv'
<1>. USE DEF LocalTypeOK
<1>1. /\ LocalTypeOK /\ c \in Thread \ Slot /\ reaping \in [Pool -> SUBSET Slot]
      /\ "undo" \in Place \ Executing /\ "undo" \in Holding
  BY LocalAssumption DEF LocalInv, Thread, Consumer, Place, Executing, Holding
<1>2. CASE Goto(c, "undo") /\ Take(c, t)
  <2>1. pc[c] \in Holding => hand[c] = t
    BY DEF Holding
  <2>. QED
    BY <1>1, <1>2, <2>1, OneMoves DEF Goto, Take
<1>3. ASSUME NEW s \in Idle(c),
             pc' = [pc EXCEPT ![c] = "fill", ![s] = "execute"],
             hand' = [hand EXCEPT ![c] = NoTask, ![s] = t]
      PROVE  LocalInv'
  <2>1. s \in Slot /\ s \in Thread /\ s # c /\ pc[s] = "idle"
    BY <1>1 DEF Idle, Thread
  <2>2. /\ pc'[c] = "fill" /\ hand'[c] = NoTask /\ pc'[s] = "execute" /\ hand'[s] = t
        /\ \A x \in Thread \ {c, s} : Rests(x)
        /\ pc' \in [Thread -> Place] /\ hand' \in [Thread -> Task \cup {NoTask}]
    BY <1>1, <1>3, <2>1 DEF Rests, Place
  <2>3. LocalTypeOK'
    BY <1>1, <2>2 DEF OthersOK, taskVars
  <2>4. Kept(t)' /\ \A u \in Queued' : Kept(u)'
    BY <2>1, <2>2 DEF Kept, Holding
  <2>5. MovesOn(c) /\ MovesOn(s)
    BY <2>1, <2>2, <2>4 DEF MovesOn, Occupied, Holding, Executing
  <2>6. ReapsTheEnded'
    <3>. SUFFICES ASSUME NEW d \in Pool, NEW r \in reaping[d] PROVE PoolOf[r] = d /\ pc'[r] \in {"after", "error"}
      BY DEF ReapsTheEnded
    <3>1. PoolOf[r] = d /\ pc[r] \in {"after", "error"} /\ r \in Thread \ {c}
      BY <1>1 DEF LocalInv, ReapsTheEnded, Thread
    <3>. QED
      BY <2>1, <2>2, <3>1 DEF Rests
  <2>. QED
    BY <2>2, <2>3, <2>4, <2>5, <2>6, QuietStep
<1>. QED
  BY <1>2, <1>3 DEF Hands

LEMMA FillingStep ==
  ASSUME LocalInv, NEW c \in Pool, UNCHANGED strays, HandsOver(c) \/ Fills(c)
  PROVE  LocalInv'
<1>. USE DEF LocalTypeOK
<1>1. LocalTypeOK /\ c \in Thread
  BY DEF LocalInv, Thread, Consumer
<1>2. CASE HandsOver(c)
  <2>1. hand[c] \in Task /\ pc[c] = "got" /\ Hands(c, hand[c])
    BY <1>1, <1>2 DEF HandsOver, LocalInv, HandsOK, Occupied, Holding
  <2>2. UNCHANGED <<taskVars, line, waits, submitted, enqueuer, life, sleep, wakes, reaping>>
    BY <1>2 DEF HandsOver, queueVars
  <2>3. OthersOK' /\ Queued' = Queued
    BY <1>1, <2>2, QueueRests DEF OthersOK
  <2>. QED
    BY <2>1, <2>2, <2>3, HandingStep
<1>3. ASSUME NEW t \in Task, Fills(c), Pop(c, t), Hands(c, t) PROVE LocalInv'
  <2>1. pc[c] = "fill" /\ UNCHANGED <<taskVars, life, sleep, wakes, reaping>>
    BY <1>3 DEF Fills
  <2>2. /\ line' \in Seq(Task) /\ waits' \subseteq Queued' /\ Queued \subseteq Queued' \cup {t}
        /\ UNCHANGED <<waits, submitted, enqueuer>>
    BY <1>1, <1>3, PopTakes
  <2>3. OthersOK'
    BY <1>1, <2>1, <2>2 DEF OthersOK
  <2>4. \A u \in Queued : u \in Queued' \/ u = t
    BY <2>2
  <2>. QED
    BY <1>3, <2>1, <2>2, <2>3, <2>4, HandingStep
<1>. QED
  BY <1>2, <1>3 DEF Fills

\* A pool waits for a call to end, evaluates one, or ends with them all.
LEMMA ReapingStep ==
  ASSUME LocalInv, NEW c \in Pool, UNCHANGED strays, Awaits(c) \/ Reaps(c)
  PROVE  LocalInv'
<1>. USE DEF LocalTypeOK
<1>1. /\ LocalTypeOK /\ c \in Thread \ Slot /\ c \in Consumer /\ Slot \subseteq Thread
      /\ {"fill", "reap", "raise", "idle"} \subseteq Place \ (Executing \cup Occupied)
      /\ {"reap", "await", "await soon"} \cap Holding = {} /\ "after" \in Place
  <2>1. LocalTypeOK /\ c \in Thread \ Slot /\ c \in Consumer /\ Slot \subseteq Thread
    BY LocalAssumption DEF LocalInv, Thread, Consumer
  <2>. QED
    BY <2>1 DEF Place, Executing, Occupied, Holding
<1>2. /\ UNCHANGED <<line, waits, submitted, enqueuer, life, sleep, wakes>> /\ UNCHANGED taskVars
      /\ Queued' = Queued
  BY DEF Awaits, Reaps, queueVars, Queued
<1>3. OthersOK'
  BY <1>1, <1>2, QueueRests DEF OthersOK
<1>4. (\A t \in Queued : Kept(t)') /\ submitted' \ submitted = {}
  BY <1>2 DEF Kept
<1>5. CASE Awaits(c)
  <2>1. /\ reaping' = [reaping EXCEPT ![c] = Done(c)] /\ pc' = [pc EXCEPT ![c] = "reap"] /\ hand' = hand
        /\ pc[c] \in {"await", "await soon"}
    BY <1>5 DEF Awaits, Goto
  <2>2. LocalTypeOK'
    BY <1>1, <1>2, <1>3, <2>1 DEF OthersOK, taskVars, Done, Busy
  <2>3. (\A x \in Thread \ {c} : Rests(x)) /\ MovesOn(c)
    BY <1>1, <2>1 DEF Rests, MovesOn
  <2>4. ReapsTheEnded'
    <3>. SUFFICES ASSUME NEW d \in Pool, NEW s \in reaping'[d]
                  PROVE  PoolOf[s] = d /\ pc'[s] \in {"after", "error"}
      BY DEF ReapsTheEnded
    <3>1. PoolOf[s] = d /\ pc[s] \in {"after", "error"} /\ s \in Slot
      <4>1. CASE d = c
        BY <1>1, <2>1, <4>1 DEF Done, Busy
      <4>2. CASE d # c
        <5>1. s \in reaping[d]
          BY <1>1, <2>1, <4>2
        <5>. QED
          BY <1>1, <5>1 DEF LocalInv, ReapsTheEnded
      <4>. QED
        BY <4>1, <4>2
    <3>. QED
      BY <1>1, <2>1, <3>1
  <2>. QED
    BY <1>2, <1>4, <2>2, <2>3, <2>4, QuietStep
<1>6. CASE reaping[c] = {} /\ Goto(c, "fill") /\ UNCHANGED <<hand, reaping>> /\ Reaps(c)
  <2>1. pc[c] = "reap" /\ pc' = [pc EXCEPT ![c] = "fill"] /\ UNCHANGED <<taskVars, queueVars, life, sleep, wakes>>
    BY <1>6 DEF Reaps, Goto
  <2>2. hand' = [hand EXCEPT ![c] = hand[c]] /\ hand[c] \in Task \cup {NoTask}
    BY <1>1, <1>6
  <2>3. /\ life' \in [Consumer -> {"CREATED", "RUNNING", "STOPPING", "STOPPED"}]
        /\ sleep' \in [Consumer -> {"awake", "forever", "timed"}] /\ wakes' \subseteq Consumer
    BY <1>1, <2>1
  <2>. QED
    BY <1>1, <1>6, <2>1, <2>2, <2>3, WalksOn
<1>7. ASSUME NEW s \in reaping[c], pc[c] = "reap",
             reaping' = [reaping EXCEPT ![c] = @ \ {s}],
             pc' = [pc EXCEPT ![s] = "idle", ![c] = IF pc[s] = "error" THEN "raise" ELSE "after"],
             hand' = [hand EXCEPT ![s] = NoTask, ![c] = hand[s]]
      PROVE  LocalInv'
  <2>1. s \in Slot /\ s \in Thread /\ s # c /\ PoolOf[s] = c /\ pc[s] \in {"after", "error"}
    BY <1>1, <1>7 DEF LocalInv, ReapsTheEnded
  <2>2. pc[s] = "after" => hand[s] \in Task
    BY <2>1 DEF LocalInv, HandsOK, Occupied
  <2>3. /\ pc'[s] = "idle" /\ hand'[s] = NoTask /\ hand'[c] = hand[s]
        /\ pc'[c] \in {"raise", "after"} /\ (pc'[c] = "after" => pc[s] = "after")
        /\ \A x \in Thread \ {c, s} : Rests(x)
        /\ pc' \in [Thread -> Place] /\ hand' \in [Thread -> Task \cup {NoTask}]
    BY <1>1, <1>7, <2>1 DEF Rests
  <2>4. LocalTypeOK'
    BY <1>1, <1>2, <1>3, <1>7, <2>3 DEF OthersOK, taskVars
  <2>5. MovesOn(c) /\ MovesOn(s)
    BY <1>1, <1>7, <2>1, <2>2, <2>3 DEF MovesOn, Holding, Occupied, Executing
  <2>6. ReapsTheEnded'
    <3>. SUFFICES ASSUME NEW d \in Pool, NEW r \in reaping'[d]
                  PROVE  PoolOf[r] = d /\ pc'[r] \in {"after", "error"}
      BY DEF ReapsTheEnded
    <3>1. r \in reaping[d] /\ (d = c => r # s)
      BY <1>1, <1>7
    <3>2. PoolOf[r] = d /\ pc[r] \in {"after", "error"} /\ r \in Slot
      BY <1>1, <3>1 DEF LocalInv, ReapsTheEnded
    <3>3. r \in Thread \ {c, s}
      BY <1>1, <2>1, <3>1, <3>2
    <3>. QED
      BY <2>3, <3>2, <3>3 DEF Rests
  <2>. QED
    BY <1>2, <1>4, <2>3, <2>4, <2>5, <2>6, QuietStep
<1>. QED
  BY <1>5, <1>6, <1>7 DEF Reaps

LEMMA FinishingStep ==
  ASSUME LocalInv, NEW c \in Consumer, UNCHANGED strays, Finishes(c)
  PROVE  LocalInv'
<1>. USE DEF LocalTypeOK
<1>1. /\ LocalTypeOK /\ c \in Thread \ Slot /\ Slot \subseteq Thread
      /\ {"idle", "ended", "broken"} \subseteq Place \ (Executing \cup Occupied)
      /\ {"exit", "raise", "after", "error"} \cap Holding = {}
  BY LocalAssumption DEF LocalInv, Thread, Place, Executing, Occupied, Holding
<1>2. /\ UNCHANGED <<line, waits, submitted, enqueuer, sleep>> /\ UNCHANGED taskVars
      /\ pc[c] \in {"exit", "raise"} /\ \A s \in Busy(c) : pc[s] \in {"after", "error"}
      /\ life' = [life EXCEPT ![c] = "STOPPED"] /\ wakes' \subseteq wakes \cup {c}
  BY DEF Finishes, queueVars
<1>3. /\ \A x \in Thread \ ({c} \cup Busy(c)) : Rests(x)
      /\ pc'[c] \in {"ended", "broken"} /\ hand'[c] = NoTask
      /\ \A x \in Busy(c) : pc'[x] = "idle" /\ hand'[x] = NoTask
      /\ pc' \in [Thread -> Place] /\ hand' \in [Thread -> Task \cup {NoTask}]
  BY <1>1 DEF Finishes, Rests, Busy
<1>4. reaping' \in [Pool -> SUBSET Slot] /\ \A d \in Pool : d # c => reaping'[d] = reaping[d]
  BY <1>1 DEF Finishes
<1>5. c \in Pool => reaping'[c] = {}
  BY DEF Finishes
<1>6. OthersOK' /\ Queued' = Queued
  BY <1>1, <1>2, QueueRests DEF OthersOK
<1>7. LocalTypeOK'
  BY <1>1, <1>2, <1>3, <1>4, <1>6 DEF OthersOK, taskVars
<1>8. \A x \in {c} \cup Busy(c) : MovesOn(x)
  BY <1>1, <1>2, <1>3 DEF MovesOn
<1>9. ReapsTheEnded'
  <2>. SUFFICES ASSUME NEW d \in Pool, NEW r \in reaping'[d]
                PROVE  PoolOf[r] = d /\ pc'[r] \in {"after", "error"}
    BY DEF ReapsTheEnded
  <2>1. d # c /\ r \in reaping[d]
    BY <1>4, <1>5
  <2>2. PoolOf[r] = d /\ pc[r] \in {"after", "error"} /\ r \in Slot
    BY <1>1, <2>1 DEF LocalInv, ReapsTheEnded
  <2>3. r \in Thread \ ({c} \cup Busy(c))
    BY <1>1, <2>1, <2>2 DEF Busy
  <2>. QED
    BY <1>3, <2>2, <2>3 DEF Rests
<1>10. \A t \in Queued : Kept(t)'
  BY <1>6 DEF Kept
<1>. QED
  BY <1>2, <1>3, <1>7, <1>8, <1>9, <1>10, QuietStep

----------------------------------------------------------------------------
(* Executions.                                                              *)

\* The thread x, alone with task t, gives it a status and moves on.
LEMMA WorksAlone ==
  ASSUME LocalInv, NEW x \in Thread, NEW t \in Task, hand[x] = t, LockedFor(x, t),
         x \in Slot => pc[x] \notin {"after", "error"},
         UNCHANGED <<line, waits, submitted, hand, reaping>>, OthersOK',
         NEW p \in Place, p \in Executing => pc[x] \in Occupied,
         NEW s \in {"RUNNING", "RETRYING"} \cup Finished, NEW a \in Nat, NEW r \in Nat,
         a = r + (IF s = "RETRYING" THEN 0 ELSE 1), r <= Budget[t],
         p \in Executing => s = "RUNNING", p = "submit" => Child[t] # NoTask,
         s = "RETRYING" => p \in Holding,
         status' = [status EXCEPT ![t] = s], attempts' = [attempts EXCEPT ![t] = a],
         retries' = [retries EXCEPT ![t] = r], pc' = [pc EXCEPT ![x] = p]
  PROVE  LocalInv'
<1>1. /\ LocalTypeOK /\ HandsOK /\ ExecutesAlone /\ PendingIsFresh /\ ReapsTheEnded
      /\ ExecutedAsGranted /\ NothingLost
  BY DEF LocalInv
<1>2. /\ status' \in [Task -> Waiting \cup Finished \cup {"RUNNING"}] /\ pc' \in [Thread -> Place]
      /\ attempts' \in [Task -> Nat] /\ retries' \in [Task -> Nat]
      /\ status'[t] = s /\ attempts'[t] = a /\ retries'[t] = r
      /\ \A u \in Task \ {t} : status'[u] = status[u] /\ attempts'[u] = attempts[u] /\ retries'[u] = retries[u]
  BY <1>1 DEF LocalTypeOK, Waiting
<1>3. pc'[x] = p /\ \A y \in Thread \ {x} : pc'[y] = pc[y]
  BY <1>1 DEF LocalTypeOK
<1>4. LocalTypeOK'
  BY <1>1, <1>2 DEF LocalTypeOK, OthersOK
<1>5. HandsOK'
  BY <1>1, <1>3 DEF HandsOK
<1>6. ExecutesAlone'
  <2>. SUFFICES ASSUME NEW y \in Thread, pc'[y] \in Executing
                PROVE  /\ status'[hand[y]] = "RUNNING"
                       /\ \A z \in Thread : pc'[z] \in Executing /\ hand[z] = hand[y] => z = y
    BY DEF ExecutesAlone
  <2>1. CASE y = x
    BY <1>2, <1>3, <2>1 DEF LockedFor
  <2>2. CASE y # x
    <3>1. pc[y] \in Executing /\ hand[y] # t
      BY <1>3, <2>2 DEF LockedFor
    <3>2. hand[y] \in Task
      BY <1>1, <3>1 DEF HandsOK, Occupied
    <3>. QED
      BY <1>1, <1>2, <1>3, <2>2, <3>1, <3>2 DEF ExecutesAlone
  <2>. QED
    BY <2>1, <2>2
<1>7. PendingIsFresh'
  BY <1>1, <1>2 DEF PendingIsFresh, Finished
<1>8. ReapsTheEnded'
  <2>. SUFFICES ASSUME NEW c \in Pool, NEW y \in reaping[c] PROVE PoolOf[y] = c /\ pc'[y] \in {"after", "error"}
    BY DEF ReapsTheEnded
  <2>1. PoolOf[y] = c /\ pc[y] \in {"after", "error"} /\ y \in Slot
    BY <1>1 DEF ReapsTheEnded, LocalTypeOK
  <2>. QED
    BY <1>3, <2>1 DEF Thread
<1>9. ExecutedAsGranted'
  <2>1. (status'[t] \in Waiting) <=> (s = "RETRYING")
    BY <1>2 DEF Waiting, Finished
  <2>2. attempts'[t] = retries'[t] + (IF status'[t] \in Waiting THEN 0 ELSE 1) /\ retries'[t] <= Budget[t]
    BY <1>2, <2>1
  <2>. QED
    BY <1>1, <1>2, <2>2 DEF ExecutedAsGranted
<1>10. NothingLost'
  <2>. SUFFICES ASSUME NEW u \in submitted, status'[u] \in Waiting PROVE Kept(u)'
    BY DEF NothingLost, Kept, Holding
  <2>1. u \in Task /\ Queued' = Queued
    BY <1>1 DEF LocalTypeOK, Queued
  <2>2. CASE u = t
    BY <1>2, <1>3, <2>2 DEF Kept, Waiting, Finished
  <2>3. CASE u # t
    <3>1. status[u] \in Waiting
      BY <1>2, <2>1, <2>3
    <3>2. Kept(u)
      BY <1>1, <3>1 DEF NothingLost, Kept, Holding
    <3>3. ASSUME NEW y \in Thread, hand[y] = u, pc[y] \in Holding PROVE Kept(u)'
      BY <1>3, <2>3, <3>3 DEF Kept
    <3>. QED
      BY <2>1, <3>2, <3>3 DEF Kept
  <2>. QED
    BY <2>2, <2>3
<1>. QED
  BY <1>4, <1>5, <1>6, <1>7, <1>8, <1>9, <1>10 DEF LocalInv

\* The executor begins an attempt, or refuses to.
LEMMA ExecuteStep ==
  ASSUME LocalInv, NEW x \in Consumer \cup Slot, UNCHANGED strays, Execute(x)
  PROVE  LocalInv'
<1>. DEFINE t == hand[x]
<1>1. /\ LocalTypeOK /\ HandsOK /\ ExecutedAsGranted /\ x \in Thread
      /\ reaping \in [Pool -> SUBSET Slot] /\ hand \in [Thread -> Task \cup {NoTask}]
  BY DEF LocalInv, Thread, LocalTypeOK
<1>2. /\ pc[x] = "execute" /\ LockedFor(x, t)
      /\ UNCHANGED <<retries, line, waits, submitted, enqueuer, hand, life, sleep, wakes, reaping>>
  BY DEF Execute, queueVars
<1>3. pc[x] \in Occupied /\ pc[x] \in Holding /\ "execute" \notin {"after", "error"}
  BY <1>2 DEF Occupied, Holding
<1>4. t \in Task
  BY <1>1, <1>3 DEF HandsOK
<1>5. OthersOK' /\ Queued' = Queued
  BY <1>1, <1>2, QueueRests DEF OthersOK, LocalTypeOK
<1>6. CASE Executable(t)
  <2>1. PICK p \in {"call", "submit"} : pc' = [pc EXCEPT ![x] = p] /\ (p = "submit" => Child[t] # NoTask)
    BY <1>6 DEF Execute, Goto
  <2>2. status' = [status EXCEPT ![t] = "RUNNING"] /\ attempts' = [attempts EXCEPT ![t] = attempts[t] + 1]
    BY <1>6 DEF Execute
  <2>3. /\ attempts[t] \in Nat /\ retries[t] \in Nat /\ attempts[t] + 1 \in Nat
        /\ retries' = [retries EXCEPT ![t] = retries[t]]
    BY <1>1, <1>2, <1>4 DEF LocalTypeOK
  <2>4. attempts[t] = retries[t] /\ retries[t] <= Budget[t]
    BY <1>1, <1>4, <1>6, <2>3 DEF ExecutedAsGranted, Executable
  <2>5. attempts[t] + 1 = retries[t] + (IF "RUNNING" = "RETRYING" THEN 0 ELSE 1)
    BY <2>4
  <2>6. p \in Place
    BY DEF Place
  <2>. HIDE DEF t
  <2>. QED
    BY <1>1, <1>2, <1>3, <1>4, <1>5, <2>1, <2>2, <2>3, <2>4, <2>5, <2>6, WorksAlone DEF t
<1>7. CASE ~Executable(t)
  <2>1. PICK p \in {"error", "raise"} : pc' = [pc EXCEPT ![x] = p]
    BY <1>7 DEF Execute, Goto
  <2>2. UNCHANGED taskVars /\ status[t] \notin Waiting
    BY <1>2, <1>4, <1>7, WaitingIsQueueable DEF Execute, taskVars
  <2>3. p \in Place \ Executing /\ p \notin Occupied
    BY DEF Place, Executing, Occupied, Holding
  <2>4. hand' = [hand EXCEPT ![x] = t]
    BY <1>1, <1>2
  <2>. HIDE DEF t
  <2>5. submitted' \ submitted = {} /\ \A d \in Pool : reaping'[d] \subseteq reaping[d]
    BY <1>2
  <2>. QED
    BY <1>1, <1>2, <1>3, <1>4, <1>5, <2>1, <2>2, <2>3, <2>4, <2>5, OneMoves DEF t
<1>. QED
  BY <1>6, <1>7

\* The call ends, or its time limit passes.
LEMMA EndingStep ==
  ASSUME LocalInv, NEW x \in Consumer \cup Slot, Returns(x) \/ TimesOut(x)
  PROVE  LocalInv'
<1>. DEFINE t == hand[x]
<1>1. LocalTypeOK /\ HandsOK /\ ExecutedAsGranted /\ ExecutesAlone /\ x \in Thread
  BY DEF LocalInv, Thread
<1>2. PICK s \in Finished : Ended(x, s)
  BY DEF Returns, TimesOut, Finished
<1>3. /\ pc[x] = "call" /\ status' = [status EXCEPT ![t] = s] /\ pc' = [pc EXCEPT ![x] = "after"]
      /\ UNCHANGED <<attempts, retries, line, waits, submitted, enqueuer, hand, life, sleep, wakes, reaping>>
  BY <1>2 DEF Returns, TimesOut, Ended, Goto, queueVars
<1>4. pc[x] \in Occupied /\ pc[x] \in Executing /\ "after" \in Place \ Executing
  BY <1>3 DEF Occupied, Executing, Place
<1>5. t \in Task
  BY <1>1, <1>4 DEF HandsOK
<1>6. LockedFor(x, t) /\ status[t] = "RUNNING"
  BY <1>1, <1>4 DEF ExecutesAlone, LockedFor
<1>7. attempts[t] \in Nat /\ strays' \subseteq Task \X Nat
  BY <1>1, <1>5 DEF Returns, TimesOut, LocalTypeOK
<1>8. OthersOK'
  BY <1>1, <1>3, <1>7, QueueRests DEF OthersOK, LocalTypeOK
<1>9. /\ retries[t] \in Nat /\ attempts' = [attempts EXCEPT ![t] = attempts[t]]
      /\ retries' = [retries EXCEPT ![t] = retries[t]]
  BY <1>1, <1>3, <1>5 DEF LocalTypeOK
<1>10. attempts[t] = retries[t] + (IF s = "RETRYING" THEN 0 ELSE 1) /\ retries[t] <= Budget[t]
  BY <1>1, <1>5, <1>6 DEF ExecutedAsGranted, Waiting, Finished
<1>11. s # "RETRYING" /\ "after" # "submit" /\ pc[x] \notin {"after", "error"} /\ s \in {"RUNNING", "RETRYING"} \cup Finished
  BY <1>3 DEF Finished
<1>. HIDE DEF t
<1>. QED
  BY <1>1, <1>3, <1>4, <1>5, <1>6, <1>7, <1>8, <1>9, <1>10, <1>11, WorksAlone DEF t

\* A failure is retried, or stands.
LEMMA FailingStep ==
  ASSUME LocalInv, NEW c, UNCHANGED strays, HandlesFailure(c)
  PROVE  LocalInv'
<1>. DEFINE t == hand[c]
<1>1. /\ LocalTypeOK /\ HandsOK /\ ExecutedAsGranted /\ c \in Thread \ Slot
      /\ reaping \in [Pool -> SUBSET Slot] /\ hand \in [Thread -> Task \cup {NoTask}]
  BY LocalAssumption DEF LocalInv, Thread, LocalTypeOK, HandlesFailure
<1>2. /\ pc[c] = "after" /\ LockedFor(c, t)
      /\ UNCHANGED <<attempts, line, waits, submitted, enqueuer, hand, life, sleep, wakes, reaping>>
  BY DEF HandlesFailure, queueVars
<1>3. pc[c] \in Occupied /\ pc[c] \notin Holding
  BY <1>2 DEF Occupied, Holding
<1>4. t \in Task
  BY <1>1, <1>3 DEF HandsOK
<1>5. OthersOK' /\ Queued' = Queued
  BY <1>1, <1>2, QueueRests DEF OthersOK, LocalTypeOK
<1>6. CASE ShouldRetry(t)
  <2>1. /\ pc' = [pc EXCEPT ![c] = "requeue"] /\ status' = [status EXCEPT ![t] = "RETRYING"]
        /\ retries' = [retries EXCEPT ![t] = retries[t] + 1]
    BY <1>6 DEF HandlesFailure, Goto
  <2>2. /\ attempts[t] \in Nat /\ retries[t] \in Nat /\ retries[t] + 1 \in Nat /\ Budget[t] \in Nat
        /\ attempts' = [attempts EXCEPT ![t] = attempts[t]]
    BY <1>1, <1>2, <1>4, LocalAssumption DEF LocalTypeOK
  <2>3. retries[t] + 1 <= Budget[t] /\ attempts[t] = (retries[t] + 1) + (IF "RETRYING" = "RETRYING" THEN 0 ELSE 1)
    BY <1>1, <1>4, <1>6, <2>2 DEF ExecutedAsGranted, ShouldRetry, Waiting
  <2>4. "requeue" \in Place \ Executing /\ "requeue" \in Holding /\ "requeue" # "submit"
    BY DEF Place, Executing, Holding
  <2>. HIDE DEF t
  <2>. QED
    BY <1>1, <1>2, <1>3, <1>4, <1>5, <2>1, <2>2, <2>3, <2>4, WorksAlone DEF t
<1>7. CASE ~ShouldRetry(t)
  <2>1. PICK p \in {"reap", "top"} : pc' = [pc EXCEPT ![c] = p]
    BY <1>7 DEF HandlesFailure, Goto
  <2>2. UNCHANGED taskVars
    BY <1>2, <1>7 DEF HandlesFailure, taskVars
  <2>3. p \in Place \ Executing /\ p \notin Occupied
    BY DEF Place, Executing, Occupied, Holding
  <2>4. hand' = [hand EXCEPT ![c] = t]
    BY <1>1, <1>2
  <2>. HIDE DEF t
  <2>5. submitted' \ submitted = {} /\ \A d \in Pool : reaping'[d] \subseteq reaping[d]
    BY <1>2
  <2>. QED
    BY <1>1, <1>2, <1>3, <1>4, <1>5, <2>1, <2>2, <2>3, <2>4, <2>5, OneMoves DEF t
<1>. QED
  BY <1>6, <1>7

\* The callable submits the task of its own.
LEMMA CallingStep ==
  ASSUME LocalInv, NEW x \in Consumer \cup Slot, UNCHANGED strays, CallSubmits(x)
  PROVE  LocalInv'
<1>. DEFINE u == Child[hand[x]]
<1>1. LocalTypeOK /\ HandsOK /\ ReapsTheEnded /\ x \in Thread
  BY DEF LocalInv, Thread
<1>2. /\ pc[x] = "submit" /\ Enqueue(x, u) /\ pc' = [pc EXCEPT ![x] = "call"]
      /\ UNCHANGED <<status, attempts, retries, hand, life, wakes, reaping>>
  BY DEF CallSubmits, Goto, taskVars
<1>3. u \in Task
  BY <1>1, <1>2, LocalAssumption DEF HandsOK, Occupied, Executing
<1>. HIDE DEF u
<1>4. /\ line' \in Seq(Task) /\ waits' \subseteq Queued' /\ Queued \subseteq Queued'
      /\ submitted' = submitted \cup {u} /\ enqueuer' = Nobody
      /\ sleep' \in [Consumer -> {"awake", "forever", "timed"}]
      /\ Queueable(u) => u \in Queued'
  BY <1>1, <1>2, <1>3, EnqueueQueues
<1>5. /\ pc'[x] = "call" /\ pc' \in [Thread -> Place] /\ \A y \in Thread \ {x} : Rests(y)
  BY <1>1, <1>2 DEF LocalTypeOK, Place, Rests
<1>6. LocalTypeOK'
  BY <1>1, <1>2, <1>3, <1>4, <1>5 DEF LocalTypeOK
<1>7. MovesOn(x)
  BY <1>1, <1>2, <1>5 DEF MovesOn, HandsOK, Occupied, Executing, Holding
<1>8. ReapsTheEnded'
  <2>. SUFFICES ASSUME NEW c \in Pool, NEW y \in reaping[c] PROVE PoolOf[y] = c /\ pc'[y] \in {"after", "error"}
    BY <1>2 DEF ReapsTheEnded
  <2>1. PoolOf[y] = c /\ pc[y] \in {"after", "error"} /\ y \in Slot
    BY <1>1 DEF ReapsTheEnded, LocalTypeOK
  <2>. QED
    BY <1>2, <1>5, <2>1 DEF Thread, Rests
<1>9. (\A t \in Queued : Kept(t)') /\ \A t \in submitted' \ submitted : status[t] \in Waiting => Kept(t)'
  BY <1>3, <1>4, WaitingIsQueueable DEF Kept
<1>10. UNCHANGED taskVars
  BY <1>2 DEF taskVars
<1>. QED
  BY <1>4, <1>5, <1>6, <1>7, <1>8, <1>9, <1>10, QuietStep

\* The callable of an abandoned attempt ends.
LEMMA StrayStep ==
  ASSUME LocalInv, NEW i \in strays, StrayEnds(i)
  PROVE  LocalInv'
<1>1. /\ UNCHANGED <<line, waits, submitted, enqueuer, life, sleep, wakes>> /\ strays' \subseteq strays
      /\ UNCHANGED <<taskVars, pc, hand, reaping>>
  BY DEF StrayEnds, LandsNowhere, queueVars, taskVars
<1>2. OthersOK' /\ Queued' = Queued
  BY <1>1, QueueRests DEF OthersOK, LocalInv, LocalTypeOK
<1>. QED
  BY <1>1, <1>2, NobodyMoves

LEMMA AdvancingStep ==
  ASSUME LocalInv, NEW x \in Consumer \cup Slot, Advances(x)
  PROVE  LocalInv'
<1>1. CASE ExecutorStep(x)
  <2>1. CASE UNCHANGED strays /\ CallWaits(x)
    BY <2>1, SettlingStep
  <2>2. CASE UNCHANGED strays /\ Execute(x)
    BY <2>2, ExecuteStep
  <2>3. CASE UNCHANGED strays /\ CallSubmits(x)
    BY <2>3, CallingStep
  <2>4. CASE Returns(x) \/ TimesOut(x)
    BY <2>4, EndingStep
  <2>. QED
    BY <1>1, <2>1, <2>2, <2>3, <2>4 DEF ExecutorStep
<1>2. ASSUME x \in Consumer, ConsumerStep(x), UNCHANGED strays PROVE LocalInv'
  <2>1. CASE BeginsRun(x) \/ StartsLoop(x) \/ Top(x)
    BY <1>2, <2>1, WalkingStep
  <2>2. CASE Polls(x) \/ Takes(x)
    BY <1>2, <2>2, TakingStep
  <2>3. CASE Got(x) \/ PutsBack(x)
    BY <1>2, <2>3, HoldingStep
  <2>4. CASE PutBackWaits(x)
    BY <1>2, <2>4, SettlingStep
  <2>5. CASE HandlesFailure(x)
    BY <1>2, <2>5, FailingStep
  <2>6. CASE Finishes(x)
    BY <1>2, <2>6, FinishingStep
  <2>. QED
    BY <1>2, <2>1, <2>2, <2>3, <2>4, <2>5, <2>6 DEF ConsumerStep
<1>3. ASSUME x \in Pool, PoolStep(x), UNCHANGED strays PROVE LocalInv'
  <2>1. CASE HandsOver(x) \/ Fills(x)
    BY <1>3, <2>1, FillingStep
  <2>2. CASE Chooses(x)
    BY <1>3, <2>2, WalkingStep DEF Consumer
  <2>3. CASE Awaits(x) \/ Reaps(x)
    BY <1>3, <2>3, ReapingStep
  <2>. QED
    BY <1>3, <2>1, <2>2, <2>3 DEF PoolStep
<1>. QED
  BY <1>1, <1>2, <1>3 DEF Advances

LEMMA LocalStarts ==
  ASSUME LocalInit
  PROVE  LocalInv
<1>1. line = <<>> /\ Queued = {}
  BY DEF LocalInit, Queued, ToSet
<1>2. LocalTypeOK
  BY <1>1 DEF LocalInit, LocalTypeOK, Waiting, Place
<1>3. \A x \in Thread : pc[x] \in {"new", "idle"}
  BY DEF LocalInit
<1>4. HandsOK /\ ExecutesAlone
  BY <1>3 DEF HandsOK, ExecutesAlone, Occupied, Holding, Executing
<1>5. PendingIsFresh /\ ReapsTheEnded /\ NothingLost
  BY DEF LocalInit, PendingIsFresh, ReapsTheEnded, NothingLost
<1>6. ExecutedAsGranted
  BY LocalAssumption DEF LocalInit, ExecutedAsGranted, Waiting
<1>. QED
  BY <1>2, <1>4, <1>5, <1>6 DEF LocalInv

LEMMA LocalStep ==
  ASSUME LocalInv, [LocalNext]_localVars
  PROVE  LocalInv'
<1>1. ASSUME NEW x \in Consumer \cup Slot, Advances(x) PROVE LocalInv'
  BY <1>1, AdvancingStep
<1>2. CASE Settles
  BY <1>2, SettlingStep, CallerStep DEF Settles
<1>3. ASSUME NEW c \in Consumer, StopsWorker(c) \/ StopsLoop(c), UNCHANGED strays PROVE LocalInv'
  BY <1>3, SettlingStep DEF StopsWorker, StopsLoop
<1>4. ASSUME NEW t \in Task, Submits(t) \/ SubmitWaits(t), UNCHANGED strays PROVE LocalInv'
  BY <1>4, SettlingStep, CallerStep
<1>5. ASSUME NEW i \in strays, StrayEnds(i) PROVE LocalInv'
  BY <1>5, StrayStep
<1>6. CASE UNCHANGED localVars
  <2>1. UNCHANGED <<line, waits, submitted, enqueuer, strays, life, sleep, wakes>> /\ UNCHANGED <<taskVars, pc, hand, reaping>>
    BY <1>6 DEF localVars, queueVars
  <2>2. OthersOK' /\ Queued' = Queued
    BY <2>1, QueueRests DEF OthersOK, LocalInv, LocalTypeOK
  <2>. QED
    BY <2>1, <2>2, NobodyMoves
<1>. QED
  BY <1>1, <1>2, <1>3, <1>4, <1>5, <1>6 DEF LocalNext

LEMMA LocalInvariant == LocalSpec => []LocalInv
<1>. QED
  BY LocalStarts, LocalStep, PTL DEF LocalSpec

----------------------------------------------------------------------------
(* What it means for the tasks.                                             *)

\* Queue, threads and tasks keep their types (queue.py, worker.py,
\* concurrency.py).
THEOREM LocalTyping == LocalSpec => []LocalTypeOK
<1>1. LocalInv => LocalTypeOK
  BY DEF LocalInv
<1>. QED
  BY <1>1, LocalInvariant, PTL

\* A submitted task that waits to be executed is queued, or held by a thread
\* that will execute it or put it back (worker.py, process_next;
\* concurrency.py, run).
THEOREM NothingEverLost == LocalSpec => []NothingLost
<1>1. LocalInv => NothingLost
  BY DEF LocalInv
<1>. QED
  BY <1>1, LocalInvariant, PTL

\* A task is executed once, and once more per granted retry
\* (executor.py, execute; retry.py, begin_retry).
THEOREM ExecutedAsGrantedAlways == LocalSpec => []ExecutedAsGranted
<1>1. LocalInv => ExecutedAsGranted
  BY DEF LocalInv
<1>. QED
  BY <1>1, LocalInvariant, PTL

\* A step that writes no outcome.
NoOutcome == \A t \in Task : status'[t] \in Finished => status'[t] = status[t]

LEMMA OutcomesOfTheExecutor ==
  ASSUME LocalInv, NEW x \in Consumer \cup Slot, ExecutorStep(x)
  PROVE  NoOutcome \/ Returns(x) \/ TimesOut(x)
<1>1. LocalTypeOK
  BY DEF LocalInv
<1>2. CASE Execute(x)
  BY <1>1, <1>2 DEF Execute, NoOutcome, Finished, LocalTypeOK
<1>3. CASE CallSubmits(x) \/ CallWaits(x)
  BY <1>3 DEF CallSubmits, CallWaits, KeepsQueueLock, NoOutcome, taskVars
<1>. QED
  BY <1>2, <1>3 DEF ExecutorStep

LEMMA OutcomesOfTheConsumers ==
  ASSUME LocalInv, NEW c, ConsumerStep(c) \/ PoolStep(c)
  PROVE  NoOutcome
<1>1. LocalTypeOK
  BY DEF LocalInv
<1>2. CASE HandlesFailure(c)
  BY <1>1, <1>2 DEF HandlesFailure, NoOutcome, Finished, LocalTypeOK
<1>3. CASE BeginsRun(c) \/ StartsLoop(c) \/ Top(c) \/ Polls(c) \/ Takes(c) \/ Got(c) \/ PutsBack(c)
  BY <1>3 DEF BeginsRun, StartsLoop, Begins, Top, Polls, Takes, Got, PutsBack, NoOutcome, taskVars
<1>4. CASE PutBackWaits(c) \/ Finishes(c)
  BY <1>4 DEF PutBackWaits, KeepsQueueLock, Finishes, NoOutcome, taskVars
<1>5. CASE PoolStep(c)
  BY <1>5 DEF PoolStep, HandsOver, Fills, Chooses, Awaits, Reaps, NoOutcome, taskVars
<1>. QED
  BY <1>2, <1>3, <1>4, <1>5 DEF ConsumerStep

LEMMA OutcomesOfTheOthers ==
  ASSUME Settles \/ (\E c \in Consumer : StopsWorker(c) \/ StopsLoop(c))
           \/ (\E t \in Task : Submits(t) \/ SubmitWaits(t)) \/ \E i \in strays : StrayEnds(i)
  PROVE  NoOutcome
<1>1. CASE Settles
  BY <1>1 DEF Settles, WakesWaiters, Due, SubmitGoesOn, NoOutcome, taskVars
<1>2. CASE \E c \in Consumer : StopsWorker(c) \/ StopsLoop(c)
  BY <1>2 DEF StopsWorker, StopsLoop, Stops, NoOutcome, taskVars
<1>3. CASE \E t \in Task : Submits(t) \/ SubmitWaits(t)
  BY <1>3 DEF Submits, SubmitWaits, NoOutcome, taskVars
<1>4. CASE \E i \in strays : StrayEnds(i)
  BY <1>4 DEF StrayEnds, LandsNowhere, NoOutcome
<1>. QED
  BY <1>1, <1>2, <1>3, <1>4

\* The outcome of a task is written by the thread that executes its attempt,
\* as the call ends or as its limit passes; an abandoned attempt never
\* writes one (timeout.py, run_with_timeout; executor.py, execute).
THEOREM OutcomesAreLive == LocalSpec => OutcomeOfLiveAttempt
<1>. DEFINE Live ==
       \A t \in Task : status'[t] \in Finished /\ status'[t] # status[t] =>
         /\ status[t] = "RUNNING"
         /\ \E x \in Consumer \cup Slot : pc[x] = "call" /\ hand[x] = t /\ pc'[x] = "after"
<1>1. ASSUME LocalInv, [LocalNext]_localVars PROVE [Live]_localVars
  <2>1. NoOutcome => Live
    BY DEF NoOutcome
  <2>2. ASSUME NEW x \in Consumer \cup Slot, Returns(x) \/ TimesOut(x) PROVE Live
    <3>1. x \in Thread /\ LocalTypeOK /\ ExecutesAlone /\ hand[x] \in Task \cup {NoTask}
      BY <1>1 DEF LocalInv, LocalTypeOK, Thread
    <3>2. PICK s \in Finished : status' = [status EXCEPT ![hand[x]] = s] /\ pc[x] = "call" /\ pc' = [pc EXCEPT ![x] = "after"]
      BY <2>2 DEF Returns, TimesOut, Ended, Goto, Finished
    <3>3. pc'[x] = "after" /\ status[hand[x]] = "RUNNING"
      BY <3>1, <3>2 DEF LocalTypeOK, ExecutesAlone, Executing
    <3>4. \A t \in Task : t # hand[x] => status'[t] = status[t]
      BY <3>1, <3>2 DEF LocalTypeOK
    <3>. QED
      BY <3>2, <3>3, <3>4
  <2>3. ASSUME NEW x \in Consumer \cup Slot, Advances(x) PROVE Live
    BY <1>1, <2>1, <2>2, <2>3, OutcomesOfTheExecutor, OutcomesOfTheConsumers DEF Advances
  <2>4. CASE UNCHANGED localVars
    BY <2>4
  <2>. QED
    BY <1>1, <2>1, <2>3, <2>4, OutcomesOfTheOthers DEF LocalNext
<1>. QED
  BY <1>1, LocalInvariant, PTL DEF LocalSpec, OutcomeOfLiveAttempt

----------------------------------------------------------------------------
(* The life of a task.                                                      *)

Bears == Holding \cup Executing \cup {"after"}

\* Nobody deals with a task before it was submitted.
SubmittedFirst ==
  /\ \A t \in Task : t \notin submitted => status[t] = "PENDING"
  /\ Queued \subseteq submitted
  /\ \A x \in Thread : pc[x] \in Bears => hand[x] \in submitted

\* Threads move: a task is submitted, or the last that could retry a failure
\* is through with it.
LEMMA QuietPass ==
  ASSUME SubmittedFirst, status' = status, retries' = retries,
         submitted \subseteq submitted', Queued' \subseteq submitted',
         \A x \in Thread : pc'[x] \in Bears =>
           hand'[x] \in submitted' \/ (pc[x] \in Bears /\ hand'[x] = hand[x]),
         \A x \in Thread : pc'[x] = "after" => \E y \in Thread : pc[y] = "after" /\ hand[y] = hand'[x]
  PROVE  SubmittedFirst' /\ LocalLifecycle!Next
<1>1. SubmittedFirst'
  BY DEF SubmittedFirst
<1>2. ASSUME NEW t \in Task PROVE LocalLifecycle!Step(t) \/ LocalLifecycle!Stays(t)
  <2>. USE DEF LocalLifecycle!Keeps, LocalLifecycle!Moves, Phase
  <2>1. Undecided(t)' => Undecided(t)
    BY DEF Undecided
  <2>2. LocalLifecycle!Keeps(t)
    OBVIOUS
  <2>3. CASE t \notin submitted
    BY <2>2, <2>3 DEF SubmittedFirst, Undecided, LocalLifecycle!Step, LocalLifecycle!Stays, LocalLifecycle!Submit
  <2>4. CASE t \in submitted
    BY <2>1, <2>2, <2>4 DEF Undecided, LocalLifecycle!Step, LocalLifecycle!Stays, LocalLifecycle!End
  <2>. QED
    BY <2>3, <2>4
<1>. QED
  BY <1>1, <1>2 DEF LocalLifecycle!Next

\* One thread moves, and not to the end of a call.
LEMMA OnePasses ==
  ASSUME LocalTypeOK, SubmittedFirst, status' = status, retries' = retries,
         submitted \subseteq submitted', Queued' \subseteq submitted',
         NEW c \in Thread, NEW p, p # "after", NEW h, p \in Bears => h \in submitted',
         pc' = [pc EXCEPT ![c] = p], hand' = [hand EXCEPT ![c] = h]
  PROVE  SubmittedFirst' /\ LocalLifecycle!Next
<1>1. pc'[c] = p /\ hand'[c] = h /\ \A x \in Thread \ {c} : Rests(x)
  BY DEF LocalTypeOK, Rests
<1>. QED
  BY <1>1, QuietPass DEF Rests

\* No thread moves.
LEMMA NobodyPasses ==
  ASSUME SubmittedFirst, UNCHANGED <<status, retries, pc, hand>>,
         submitted \subseteq submitted', Queued' \subseteq submitted'
  PROVE  SubmittedFirst' /\ LocalLifecycle!Next
BY QuietPass

\* A thread gives the task in its hands another status.
LEMMA WorkerPasses ==
  ASSUME LocalTypeOK, SubmittedFirst, NEW x \in Thread, NEW t \in Task, hand[x] = t, pc[x] \in Bears,
         UNCHANGED <<line, submitted, hand>>, NEW p, NEW s,
         status' = [status EXCEPT ![t] = s], pc' = [pc EXCEPT ![x] = p],
         \A u \in Task \ {t} : retries'[u] = retries[u],
         LocalLifecycle!Step(t) \/ LocalLifecycle!Stays(t)
  PROVE  SubmittedFirst' /\ LocalLifecycle!Next
<1>1. /\ status'[t] = s /\ \A u \in Task \ {t} : status'[u] = status[u]
      /\ pc'[x] = p /\ \A y \in Thread \ {x} : pc'[y] = pc[y]
  BY DEF LocalTypeOK
<1>2. t \in submitted /\ Queued' = Queued
  BY DEF SubmittedFirst, Queued
<1>3. SubmittedFirst'
  BY <1>1, <1>2 DEF SubmittedFirst
<1>4. ASSUME NEW u \in Task \ {t} PROVE LocalLifecycle!Stays(u)
  <2>1. Undecided(u)' <=> Undecided(u)
    BY <1>1 DEF Undecided
  <2>. QED
    BY <1>1, <2>1 DEF LocalLifecycle!Stays, LocalLifecycle!Keeps, Phase
<1>. QED
  BY <1>3, <1>4 DEF LocalLifecycle!Next

\* The queue, when nobody adds to it.
LEMMA QueueKnown ==
  ASSUME SubmittedFirst, UNCHANGED <<line, submitted>>
  PROVE  submitted \subseteq submitted' /\ Queued' \subseteq submitted'
BY DEF SubmittedFirst, Queued

\* The queue, when a thread submits.
LEMMA EnqueueKnown ==
  ASSUME LocalTypeOK, SubmittedFirst, NEW x \in Thread, NEW t \in Task, Enqueue(x, t)
  PROVE  submitted \subseteq submitted' /\ Queued' \subseteq submitted'
BY EnqueueQueues DEF SubmittedFirst

LEMMA SettlingPasses ==
  ASSUME LocalInv, SubmittedFirst,
         \/ \E c \in Consumer : WakesWaiters(c) \/ Stops(c)
         \/ \E t \in Task : Due(t) \/ Submits(t) \/ SubmitWaits(t)
         \/ \E x \in Consumer \cup Slot : CallWaits(x) \/ PutBackWaits(x)
         \/ \E i \in strays : StrayEnds(i)
         \/ SubmitGoesOn
         \/ UNCHANGED localVars
  PROVE  SubmittedFirst' /\ LocalLifecycle!Next
<1>1. LocalTypeOK /\ HandsOK /\ Caller \in Thread
  BY DEF LocalInv, Thread
<1>2. CASE UNCHANGED <<line, submitted>> /\ UNCHANGED <<status, retries, pc, hand>>
  BY <1>2, QueueKnown, NobodyPasses
<1>3. ASSUME NEW t \in Task, Submits(t) PROVE SubmittedFirst' /\ LocalLifecycle!Next
  <2>1. Enqueue(Caller, t) /\ UNCHANGED <<status, retries, pc, hand>>
    BY <1>3 DEF Submits, taskVars
  <2>. QED
    BY <1>1, <2>1, EnqueueKnown, NobodyPasses
<1>4. ASSUME NEW t \in Task, SubmitWaits(t) PROVE SubmittedFirst' /\ LocalLifecycle!Next
  <2>1. /\ UNCHANGED <<line, submitted>> /\ status' = status /\ retries' = retries
        /\ pc' = [pc EXCEPT ![Caller] = "enqueue"] /\ hand' = [hand EXCEPT ![Caller] = t]
    BY <1>4 DEF SubmitWaits, Goto, Take, taskVars
  <2>2. "enqueue" \notin Bears /\ "enqueue" # "after"
    BY DEF Bears, Holding, Executing
  <2>. QED
    BY <1>1, <2>1, <2>2, QueueKnown, OnePasses
<1>5. CASE SubmitGoesOn
  <2>1. /\ Enqueue(Caller, hand[Caller]) /\ status' = status /\ retries' = retries
        /\ pc' = [pc EXCEPT ![Caller] = "idle"] /\ hand' = [hand EXCEPT ![Caller] = NoTask]
    BY <1>5 DEF SubmitGoesOn, Goto, Take, taskVars
  <2>2. "idle" \notin Bears /\ "idle" # "after"
    BY DEF Bears, Holding, Executing
  <2>3. hand[Caller] \in Task
    BY <1>1, <1>5 DEF SubmitGoesOn, HandsOK, Occupied
  <2>4. submitted \subseteq submitted' /\ Queued' \subseteq submitted'
    BY <1>1, <2>1, <2>3, EnqueueKnown
  <2>. QED
    BY <1>1, <2>1, <2>2, <2>4, OnePasses
<1>6. ASSUME NEW x, NEW t, KeepsQueueLock(x, t)
      PROVE  UNCHANGED <<line, submitted>> /\ UNCHANGED <<status, retries, pc, hand>>
  BY <1>6 DEF KeepsQueueLock, taskVars
<1>7. ASSUME NEW c, WakesWaiters(c) \/ Stops(c)
      PROVE  UNCHANGED <<line, submitted>> /\ UNCHANGED <<status, retries, pc, hand>>
  BY <1>7 DEF WakesWaiters, Stops, queueVars, taskVars
<1>8. ASSUME (\E t \in Task : Due(t)) \/ (\E i \in strays : StrayEnds(i)) \/ UNCHANGED localVars
      PROVE  UNCHANGED <<line, submitted>> /\ UNCHANGED <<status, retries, pc, hand>>
  BY <1>8 DEF Due, StrayEnds, LandsNowhere, localVars, queueVars, taskVars
<1>. QED
  BY <1>2, <1>3, <1>4, <1>5, <1>6, <1>7, <1>8 DEF CallWaits, PutBackWaits

\* A consumer goes on, with the queue as it is, and with no task in hand, or
\* the one that it held.
LEMMA WalkingPasses ==
  ASSUME LocalInv, SubmittedFirst, NEW c \in Consumer,
         \/ BeginsRun(c) \/ StartsLoop(c) \/ Top(c) \/ Got(c)
         \/ c \in Pool /\ (Chooses(c) \/ Awaits(c))
  PROVE  SubmittedFirst' /\ LocalLifecycle!Next
<1>1. LocalTypeOK /\ c \in Thread /\ hand = [hand EXCEPT ![c] = hand[c]]
  BY DEF LocalInv, LocalTypeOK, Thread
<1>2. UNCHANGED <<line, submitted>> /\ status' = status /\ retries' = retries
  BY DEF BeginsRun, StartsLoop, Begins, Top, Got, Chooses, Awaits, queueVars, taskVars
<1>3. PICK p \in Place \ {"after"} : pc' = [pc EXCEPT ![c] = p] /\ (p \in Bears => pc[c] = "got" /\ hand' = hand)
  <2>1. {"fill", "top", "exit", "take", "poll", "await", "await soon", "reap", "putback", "execute"} \subseteq Place \ {"after"}
    BY DEF Place
  <2>2. {"fill", "top", "exit", "take", "poll", "await", "await soon", "reap"} \cap Bears = {}
    BY DEF Bears, Holding, Executing
  <2>3. CASE BeginsRun(c) \/ StartsLoop(c)
    BY <2>1, <2>2, <2>3 DEF BeginsRun, StartsLoop, Begins, Goto
  <2>4. CASE Top(c)
    BY <2>1, <2>2, <2>4 DEF Top, Goto
  <2>5. CASE Got(c)
    BY <2>1, <2>5 DEF Got, Goto, NextWithTask
  <2>6. CASE Chooses(c)
    BY <2>1, <2>2, <2>6 DEF Chooses, Goto
  <2>7. CASE Awaits(c)
    BY <2>1, <2>2, <2>7 DEF Awaits, Goto
  <2>. QED
    BY <2>3, <2>4, <2>5, <2>6, <2>7
<1>4. PICK h : hand' = [hand EXCEPT ![c] = h] /\ (hand' = hand => h = hand[c])
  <2>1. hand' = hand \/ hand' = [hand EXCEPT ![c] = NoTask]
    BY DEF BeginsRun, StartsLoop, Begins, Top, Take, Got, Chooses, Awaits
  <2>2. CASE hand' = hand
    BY <1>1, <2>2
  <2>3. CASE hand' # hand
    BY <2>1, <2>3
  <2>. QED
    BY <2>2, <2>3
<1>5. p \in Bears => h \in submitted'
  BY <1>1, <1>2, <1>3, <1>4 DEF SubmittedFirst, Bears, Holding
<1>. QED
  BY <1>1, <1>2, <1>3, <1>4, <1>5, QueueKnown, OnePasses

\* A consumer looks for a task, or puts one back.
LEMMA TakingPasses ==
  ASSUME LocalInv, SubmittedFirst, NEW c \in Consumer, Polls(c) \/ Takes(c) \/ PutsBack(c)
  PROVE  SubmittedFirst' /\ LocalLifecycle!Next
<1>1. LocalTypeOK /\ HandsOK /\ c \in Thread /\ hand = [hand EXCEPT ![c] = hand[c]]
  BY DEF LocalInv, LocalTypeOK, Thread
<1>2. status' = status /\ retries' = retries
  BY DEF Polls, Takes, PutsBack, taskVars
<1>3. {"exit", "fill", "top", "take", "raise", "reap"} \cap Bears = {} /\ "got" # "after"
      /\ "after" \notin {"exit", "fill", "top", "take", "raise", "reap"}
  BY DEF Bears, Holding, Executing
<1>4. ASSUME NEW t, Pop(c, t), Take(c, t), Goto(c, "got") PROVE SubmittedFirst' /\ LocalLifecycle!Next
  <2>1. t \in Queued /\ Queued' \subseteq Queued /\ submitted' = submitted
    BY <1>1, <1>4, PopTakes
  <2>2. t \in submitted' /\ Queued' \subseteq submitted' /\ submitted \subseteq submitted'
    BY <2>1 DEF SubmittedFirst
  <2>. QED
    BY <1>1, <1>2, <1>3, <1>4, <2>2, OnePasses DEF Take, Goto
<1>5. ASSUME UNCHANGED queueVars, hand' = hand, NEW p \in {"exit", "fill", "top", "take"}, pc' = [pc EXCEPT ![c] = p]
      PROVE  SubmittedFirst' /\ LocalLifecycle!Next
  <2>1. UNCHANGED <<line, submitted>> /\ hand' = [hand EXCEPT ![c] = hand[c]]
    BY <1>1, <1>5 DEF queueVars
  <2>. QED
    BY <1>1, <1>2, <1>3, <1>5, <2>1, QueueKnown, OnePasses
<1>6. CASE Polls(c)
  BY <1>4, <1>5, <1>6 DEF Polls, Goto
<1>7. CASE Takes(c)
  <2>1. CASE Stopping(c) /\ Goto(c, IF c \in Pool THEN "fill" ELSE "top") /\ UNCHANGED <<queueVars, hand, sleep>>
    BY <1>5, <2>1 DEF Goto
  <2>2. CASE UNCHANGED <<queueVars, hand, pc>>
    <3>1. pc' = [pc EXCEPT ![c] = "take"] /\ hand' = hand
      BY <1>1, <1>7, <2>2 DEF Takes, LocalTypeOK
    <3>. QED
      BY <1>5, <2>2, <3>1
  <2>3. CASE \E t \in Task : Pop(c, t) /\ Take(c, t) /\ Goto(c, "got")
    BY <1>4, <2>3
  <2>. QED
    BY <1>7, <2>1, <2>2, <2>3 DEF Takes
<1>8. CASE PutsBack(c)
  <2>1. PICK p \in {"raise", "top", "fill", "reap"} : pc' = [pc EXCEPT ![c] = p]
    BY <1>8 DEF PutsBack, Goto
  <2>2. Enqueue(c, hand[c]) /\ hand' = [hand EXCEPT ![c] = NoTask] /\ hand[c] \in Task
    BY <1>1, <1>8 DEF PutsBack, Take, HandsOK, Occupied, Holding
  <2>3. submitted \subseteq submitted' /\ Queued' \subseteq submitted'
    BY <1>1, <2>2, EnqueueKnown
  <2>. QED
    BY <1>1, <1>2, <1>3, <2>1, <2>2, <2>3, OnePasses
<1>. QED
  BY <1>6, <1>7, <1>8

\* A pool hands a task over to a slot.
LEMMA HandingPasses ==
  ASSUME LocalInv, SubmittedFirst, NEW c \in Pool, HandsOver(c) \/ Fills(c)
  PROVE  SubmittedFirst' /\ LocalLifecycle!Next
<1>1. LocalTypeOK /\ c \in Thread \ Slot
  BY LocalAssumption DEF LocalInv, Thread, Consumer
<1>2. PICK t : /\ Hands(c, t) /\ t \in submitted' /\ submitted \subseteq submitted' /\ Queued' \subseteq submitted'
               /\ status' = status /\ retries' = retries
  <2>1. CASE HandsOver(c)
    <3>1. Hands(c, hand[c]) /\ UNCHANGED <<line, submitted>> /\ status' = status /\ retries' = retries /\ pc[c] = "got"
      BY <2>1 DEF HandsOver, queueVars, taskVars
    <3>2. hand[c] \in submitted
      BY <1>1, <3>1 DEF SubmittedFirst, Bears, Holding
    <3>. QED
      BY <3>1, <3>2, QueueKnown
  <2>2. CASE Fills(c)
    <3>1. PICK t : Pop(c, t) /\ Hands(c, t)
      BY <2>2 DEF Fills
    <3>2. t \in Queued /\ Queued' \subseteq Queued /\ submitted' = submitted
      BY <1>1, <3>1, PopTakes
    <3>. QED
      BY <2>2, <3>1, <3>2 DEF Fills, SubmittedFirst, taskVars
  <2>. QED
    BY <2>1, <2>2
<1>3. CASE Goto(c, "undo") /\ Take(c, t)
  BY <1>1, <1>2, <1>3, OnePasses DEF Goto, Take
<1>4. ASSUME NEW s \in Idle(c),
             pc' = [pc EXCEPT ![c] = "fill", ![s] = "execute"],
             hand' = [hand EXCEPT ![c] = NoTask, ![s] = t]
      PROVE  SubmittedFirst' /\ LocalLifecycle!Next
  <2>1. s \in Slot /\ s \in Thread /\ s # c
    BY <1>1 DEF Idle, Thread
  <2>2. /\ pc'[c] = "fill" /\ pc'[s] = "execute" /\ hand'[s] = t
        /\ \A x \in Thread \ {c, s} : Rests(x)
    BY <1>1, <1>4, <2>1 DEF LocalTypeOK, Rests
  <2>3. "fill" \notin Bears
    BY DEF Bears, Holding, Executing
  <2>. QED
    BY <1>2, <2>2, <2>3, QuietPass DEF Rests
<1>. QED
  BY <1>2, <1>3, <1>4 DEF Hands

\* A pool evaluates a call that has ended, or a worker is through.
LEMMA ReapingPasses ==
  ASSUME LocalInv, SubmittedFirst, NEW c \in Pool, Reaps(c)
  PROVE  SubmittedFirst' /\ LocalLifecycle!Next
<1>1. LocalTypeOK /\ ReapsTheEnded /\ c \in Thread \ Slot /\ hand = [hand EXCEPT ![c] = hand[c]]
  BY LocalAssumption DEF LocalInv, LocalTypeOK, Thread, Consumer
<1>2. UNCHANGED <<line, submitted>> /\ status' = status /\ retries' = retries
  BY DEF Reaps, queueVars, taskVars
<1>3. {"fill", "raise", "idle"} \cap Bears = {} /\ "fill" # "after"
  BY DEF Bears, Holding, Executing
<1>4. CASE Goto(c, "fill") /\ hand' = hand
  <2>1. hand' = [hand EXCEPT ![c] = hand[c]]
    BY <1>1, <1>4
  <2>. QED
    BY <1>1, <1>2, <1>3, <1>4, <2>1, QueueKnown, OnePasses DEF Goto
<1>5. ASSUME NEW s \in reaping[c],
             pc' = [pc EXCEPT ![s] = "idle", ![c] = IF pc[s] = "error" THEN "raise" ELSE "after"],
             hand' = [hand EXCEPT ![s] = NoTask, ![c] = hand[s]]
      PROVE  SubmittedFirst' /\ LocalLifecycle!Next
  <2>1. s \in Slot /\ s \in Thread /\ s # c /\ pc[s] \in {"after", "error"}
    BY <1>1, <1>5 DEF LocalTypeOK, ReapsTheEnded, Thread
  <2>2. /\ pc'[s] = "idle" /\ hand'[c] = hand[s] /\ \A x \in Thread \ {c, s} : Rests(x)
        /\ pc'[c] = "raise" \/ (pc'[c] = "after" /\ pc[s] = "after")
    BY <1>1, <1>5, <2>1 DEF LocalTypeOK, Rests
  <2>3. pc[s] = "after" => hand[s] \in submitted'
    BY <1>2, <2>1 DEF SubmittedFirst, Bears
  <2>4. \A x \in Thread : pc'[x] \in Bears =>
          hand'[x] \in submitted' \/ (pc[x] \in Bears /\ hand'[x] = hand[x])
    BY <1>3, <2>2, <2>3 DEF Rests
  <2>5. \A x \in Thread : pc'[x] = "after" => \E y \in Thread : pc[y] = "after" /\ hand[y] = hand'[x]
    BY <2>1, <2>2 DEF Rests
  <2>. QED
    BY <1>2, <2>4, <2>5, QueueKnown, QuietPass
<1>. QED
  BY <1>4, <1>5 DEF Reaps

LEMMA FinishingPasses ==
  ASSUME LocalInv, SubmittedFirst, NEW c \in Consumer, Finishes(c)
  PROVE  SubmittedFirst' /\ LocalLifecycle!Next
<1>1. UNCHANGED <<line, submitted>> /\ status' = status /\ retries' = retries
  BY DEF Finishes, queueVars, taskVars
<1>2. \A x \in Thread : Rests(x) \/ pc'[x] \in {"ended", "broken", "idle"}
  BY DEF Finishes, Rests
<1>3. {"ended", "broken", "idle"} \cap (Bears \cup {"after"}) = {}
  BY DEF Bears, Holding, Executing
<1>4. \A x \in Thread : pc'[x] = "after" => Rests(x)
  BY <1>2, <1>3
<1>. QED
  BY <1>1, <1>2, <1>3, <1>4, QueueKnown, QuietPass DEF Rests

\* The executor.
LEMMA ExecutingPasses ==
  ASSUME LocalInv, SubmittedFirst, NEW x \in Consumer \cup Slot, Execute(x) \/ CallSubmits(x) \/ Returns(x) \/ TimesOut(x)
  PROVE  SubmittedFirst' /\ LocalLifecycle!Next
<1>. DEFINE t == hand[x]
<1>1. LocalTypeOK /\ HandsOK /\ ExecutesAlone /\ x \in Thread /\ hand = [hand EXCEPT ![x] = t]
  BY DEF LocalInv, LocalTypeOK, Thread
<1>2. pc[x] \in {"execute", "submit", "call"} /\ pc[x] \in Bears /\ pc[x] \in Occupied
  BY DEF Execute, CallSubmits, Returns, TimesOut, Bears, Holding, Executing, Occupied
<1>3. t \in Task /\ t \in submitted
  BY <1>1, <1>2 DEF HandsOK, SubmittedFirst
<1>4. {"error", "raise"} \cap Bears = {} /\ "after" \notin {"error", "raise", "call"}
  BY DEF Bears, Holding, Executing
<1>5. CASE Execute(x) /\ Executable(t)
  <2>1. PICK p \in {"call", "submit"} : pc' = [pc EXCEPT ![x] = p]
    BY <1>5 DEF Execute, Goto
  <2>2. UNCHANGED <<line, submitted, hand>> /\ status' = [status EXCEPT ![t] = "RUNNING"] /\ retries' = retries
    BY <1>5 DEF Execute, queueVars
  <2>3. LocalLifecycle!Start(t)
    <3>1. status'[t] = "RUNNING" /\ status[t] \in Waiting /\ t \in submitted'
      BY <1>1, <1>3, <1>5, <2>2 DEF LocalTypeOK, Executable
    <3>2. \A u \in Task : /\ status[u] # "FAILED" => ~Undecided(u)
                          /\ status'[u] # "FAILED" => ~Undecided(u)'
      BY DEF Undecided
    <3>3. Phase[t] \in {"PENDING", "RETRYING"} /\ Phase'[t] = "RUNNING"
      BY <1>3, <3>1, <3>2 DEF Phase, Waiting
    <3>. QED
      BY <2>2, <3>3 DEF LocalLifecycle!Start, LocalLifecycle!Moves, LocalLifecycle!Keeps
  <2>. HIDE DEF t
  <2>. QED
    BY <1>1, <1>2, <1>3, <2>1, <2>2, <2>3, WorkerPasses DEF t, LocalLifecycle!Step
<1>6. CASE Execute(x) /\ ~Executable(t)
  <2>1. PICK p \in {"error", "raise"} : pc' = [pc EXCEPT ![x] = p]
    BY <1>6 DEF Execute, Goto
  <2>2. UNCHANGED <<line, submitted, hand>> /\ status' = status /\ retries' = retries
    BY <1>6 DEF Execute, queueVars
  <2>3. hand' = [hand EXCEPT ![x] = t]
    BY <1>1, <2>2
  <2>. HIDE DEF t
  <2>. QED
    BY <1>1, <1>4, <2>1, <2>2, <2>3, QueueKnown, OnePasses
<1>7. CASE CallSubmits(x)
  <2>1. /\ Enqueue(x, Child[t]) /\ pc' = [pc EXCEPT ![x] = "call"] /\ hand' = [hand EXCEPT ![x] = t]
        /\ status' = status /\ retries' = retries
    BY <1>1, <1>7 DEF CallSubmits, Goto, taskVars
  <2>2. Child[t] \in Task
    BY <1>1, <1>3, <1>7, LocalAssumption DEF CallSubmits, HandsOK
  <2>3. submitted \subseteq submitted' /\ Queued' \subseteq submitted'
    BY <1>1, <2>1, <2>2, EnqueueKnown
  <2>4. t \in submitted'
    BY <1>3, <2>3
  <2>. HIDE DEF t
  <2>. QED
    BY <1>1, <1>4, <2>1, <2>3, <2>4, OnePasses
<1>8. CASE Returns(x) \/ TimesOut(x)
  <2>1. PICK s \in Finished : Ended(x, s) /\ pc[x] = "call"
    BY <1>8 DEF Returns, TimesOut, Finished
  <2>2. /\ status' = [status EXCEPT ![t] = s] /\ pc' = [pc EXCEPT ![x] = "after"]
        /\ UNCHANGED <<line, submitted, hand>> /\ retries' = retries
    BY <2>1 DEF Ended, Goto, queueVars
  <2>3. /\ status[t] = "RUNNING" /\ status'[t] = s /\ t \in submitted'
        /\ pc'[x] = "after" /\ hand'[x] = hand[x]
    BY <1>1, <1>3, <2>1, <2>2 DEF ExecutesAlone, Executing, LocalTypeOK
  <2>4. Phase[t] = "RUNNING"
    BY <1>3, <2>3 DEF Phase, Undecided
  <2>5. Phase'[t] = IF s = "FAILED" THEN "RUNNING" ELSE "SUCCESS"
    <3>1. s = "FAILED" => Undecided(hand[x])'
      BY <1>1, <2>2, <2>3 DEF Undecided
    <3>2. s # "FAILED" => ~Undecided(hand[x])'
      BY <2>2, <2>3 DEF Undecided
    <3>. QED
      BY <1>3, <2>2, <2>3, <3>1, <3>2 DEF Phase, Finished
  <2>6. LocalLifecycle!End(t) \/ LocalLifecycle!Stays(t)
    BY <2>2, <2>4, <2>5 DEF LocalLifecycle!End, LocalLifecycle!Stays, LocalLifecycle!Moves, LocalLifecycle!Keeps
  <2>. HIDE DEF t
  <2>. QED
    BY <1>1, <1>2, <1>3, <2>2, <2>6, WorkerPasses DEF t, LocalLifecycle!Step
<1>. QED
  BY <1>5, <1>6, <1>7, <1>8

\* The consumer decides about a failure.
LEMMA DecidingPasses ==
  ASSUME LocalInv, SubmittedFirst, NEW c, HandlesFailure(c)
  PROVE  SubmittedFirst' /\ LocalLifecycle!Next
<1>. DEFINE t == hand[c]
<1>1. LocalTypeOK /\ HandsOK /\ c \in Thread /\ hand = [hand EXCEPT ![c] = t]
  BY DEF LocalInv, LocalTypeOK, Thread, HandlesFailure
<1>2. pc[c] = "after" /\ pc[c] \in Bears /\ pc[c] \in Occupied
  BY DEF HandlesFailure, Bears, Occupied
<1>3. t \in Task /\ t \in submitted
  BY <1>1, <1>2 DEF HandsOK, SubmittedFirst
<1>4. UNCHANGED <<line, submitted, hand>>
  BY DEF HandlesFailure, queueVars
<1>5. CASE ShouldRetry(t)
  <2>1. /\ pc' = [pc EXCEPT ![c] = "requeue"] /\ status' = [status EXCEPT ![t] = "RETRYING"]
        /\ retries' = [retries EXCEPT ![t] = retries[t] + 1]
    BY <1>5 DEF HandlesFailure, Goto
  <2>2. /\ status'[t] = "RETRYING" /\ status[t] = "FAILED" /\ t \in submitted'
        /\ retries'[t] = retries[t] + 1 /\ retries[t] + 1 <= Budget[t]
        /\ \A u \in Task \ {t} : retries'[u] = retries[u]
    <3>1. retries[t] \in Nat /\ Budget[t] \in Nat /\ retries[t] < Budget[t] /\ status[t] = "FAILED"
      BY <1>1, <1>3, <1>5, LocalAssumption DEF LocalTypeOK, ShouldRetry
    <3>2. retries[t] + 1 <= Budget[t]
      BY <3>1
    <3>3. status'[t] = "RETRYING" /\ retries'[t] = retries[t] + 1 /\ t \in submitted'
      BY <1>1, <1>3, <1>4, <2>1 DEF LocalTypeOK
    <3>4. \A u \in Task \ {t} : retries'[u] = retries[u]
      BY <1>1, <1>3, <2>1 DEF LocalTypeOK
    <3>. QED
      BY <3>1, <3>2, <3>3, <3>4
  <2>3. Undecided(t)
    BY <1>1, <1>2, <2>2 DEF Undecided
  <2>4. \A u \in Task : status'[u] = "RETRYING" => ~Undecided(u)'
    BY DEF Undecided
  <2>5. Phase[t] = "RUNNING" /\ Phase'[t] = "RETRYING"
    BY <1>3, <2>2, <2>3, <2>4 DEF Phase
  <2>6. LocalLifecycle!Retry(t)
    BY <2>2, <2>5 DEF LocalLifecycle!Retry, LocalLifecycle!Moves
  <2>. HIDE DEF t
  <2>. QED
    BY <1>1, <1>2, <1>3, <1>4, <2>1, <2>2, <2>6, WorkerPasses DEF t, LocalLifecycle!Step
<1>6. CASE ~ShouldRetry(t)
  <2>1. PICK p \in {"reap", "top"} : pc' = [pc EXCEPT ![c] = p]
    BY <1>6 DEF HandlesFailure, Goto
  <2>2. status' = status /\ retries' = retries /\ hand' = [hand EXCEPT ![c] = t]
    BY <1>1, <1>4, <1>6 DEF HandlesFailure
  <2>3. p \notin Bears /\ p # "after"
    BY DEF Bears, Holding, Executing
  <2>. HIDE DEF t
  <2>. QED
    BY <1>1, <1>4, <2>1, <2>2, <2>3, QueueKnown, OnePasses
<1>. QED
  BY <1>5, <1>6

LEMMA LifeStep ==
  ASSUME LocalInv, SubmittedFirst, [LocalNext]_localVars
  PROVE  SubmittedFirst' /\ LocalLifecycle!Next
<1>1. ASSUME NEW x \in Consumer \cup Slot, Advances(x) PROVE SubmittedFirst' /\ LocalLifecycle!Next
  <2>1. CASE ExecutorStep(x)
    BY <2>1, ExecutingPasses, SettlingPasses DEF ExecutorStep
  <2>2. ASSUME x \in Consumer, ConsumerStep(x) PROVE SubmittedFirst' /\ LocalLifecycle!Next
    BY <2>2, WalkingPasses, TakingPasses, SettlingPasses, DecidingPasses, FinishingPasses DEF ConsumerStep
  <2>3. ASSUME x \in Pool, PoolStep(x) PROVE SubmittedFirst' /\ LocalLifecycle!Next
    <3>1. x \in Consumer
      BY <2>3 DEF Consumer
    <3>. QED
      BY <2>3, <3>1, HandingPasses, WalkingPasses, ReapingPasses DEF PoolStep
  <2>. QED
    BY <1>1, <2>1, <2>2, <2>3 DEF Advances
<1>2. CASE Settles
  BY <1>2, SettlingPasses DEF Settles
<1>3. CASE (\E c \in Consumer : StopsWorker(c) \/ StopsLoop(c)) \/ UNCHANGED localVars
  BY <1>3, SettlingPasses DEF StopsWorker, StopsLoop
<1>4. CASE (\E t \in Task : Submits(t) \/ SubmitWaits(t)) \/ \E i \in strays : StrayEnds(i)
  BY <1>4, SettlingPasses
<1>. QED
  BY <1>1, <1>2, <1>3, <1>4 DEF LocalNext

\* In memory a task has the life that the durable store promises, for any
\* workers, pools and budgets: a success is final, and so is a failure once
\* its consumer is through with it (worker.py, _handle_failure).
THEOREM MemoryImplementsLifecycle == LocalSpec => ImplementsLocalLifecycle
<1>1. LocalInit => SubmittedFirst /\ LocalLifecycle!Init
  <2>. SUFFICES ASSUME LocalInit PROVE SubmittedFirst /\ LocalLifecycle!Init
    OBVIOUS
  <2>1. Queued = {} /\ submitted = {} /\ status = [t \in Task |-> "PENDING"]
    BY DEF LocalInit, Queued, ToSet
  <2>2. \A x \in Thread : pc[x] \notin Bears
    BY DEF LocalInit, Bears, Holding, Executing
  <2>3. Phase = [t \in Task |-> "ABSENT"]
    BY <2>1 DEF Phase
  <2>. QED
    BY <2>1, <2>2, <2>3, LocalAssumption DEF SubmittedFirst, LocalLifecycle!Init, LocalInit
<1>2. LocalInv /\ SubmittedFirst /\ [LocalNext]_localVars =>
        SubmittedFirst' /\ [LocalLifecycle!Next]_(LocalLifecycle!vars)
  BY LifeStep
<1>. QED
  BY <1>1, <1>2, LocalInvariant, PTL DEF LocalSpec, ImplementsLocalLifecycle, LocalLifecycle!Spec
=============================================================================
