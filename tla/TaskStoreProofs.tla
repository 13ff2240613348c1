--------------------------- MODULE TaskStoreProofs ---------------------------
(***************************************************************************)
(* First the registry: its invariants, for any number of workers and       *)
(* sessions.  Then what each transaction of the durable store does to the  *)
(* shape of its tables, to the books of attempts and retries, and to the   *)
(* executions under way, for any number of tasks, sessions, engines and    *)
(* workflows; the lemmas are cited by the proofs about programs that use   *)
(* the store.                                                              *)
(***************************************************************************)
EXTENDS TaskStore, TLAPS

(* The registry.  DrainSticks is inductive alone; OneLiveSession needs to   *)
(* know that a worker id only points to its own sessions, or stopping one   *)
(* session could leave another worker id ACTIVE without a live one.         *)

\* A worker id only ever points to a session that registered under it.
CurrentIsOwn == \A w \in Worker : current[w] # NoSession => WorkerOf[current[w]] = w

RegistryInv == RegistryTypeOK /\ OneLiveSession /\ CurrentIsOwn

\* A session that was asked to stop is not claimable.
DrainSticks == \A s \in Session : stopRequested[s] => state[s] \notin {"NEW", "ACTIVE"}

\* Every transaction of the registry keeps the shape of both tables.
LEMMA RegistryTypingStep == RegistryTypeOK /\ [RegistryNext]_registryVars => RegistryTypeOK'
<1>. SUFFICES ASSUME RegistryTypeOK, [RegistryNext]_registryVars
              PROVE  RegistryTypeOK'
  OBVIOUS
<1>. USE RegistryAssumption DEF RegistryTypeOK, SessionState
<1>1. ASSUME NEW s \in Session, Register(s) PROVE RegistryTypeOK'
  BY <1>1 DEF Register, MayRegister
<1>2. ASSUME NEW s \in Session, Heartbeat(s) PROVE RegistryTypeOK'
  BY <1>2 DEF Heartbeat, MayHeartbeat, LiveStates, HeartbeatState
<1>3. ASSUME NEW s \in Session, NEW h \in BOOLEAN, Stop(s, h) PROVE RegistryTypeOK'
  BY <1>3 DEF Stop
<1>4. ASSUME NEW s \in Session, Fence(s) PROVE RegistryTypeOK'
  BY <1>4 DEF Fence
<1>5. ASSUME NEW s \in Session, RequestStop(s) PROVE RegistryTypeOK'
  BY <1>5 DEF RequestStop
<1>6. ASSUME NEW s \in Session, ConfirmStopped(s) PROVE RegistryTypeOK'
  BY <1>6 DEF ConfirmStopped, ConfirmStates
<1>7. ASSUME NEW s \in Session, ConfirmSession(s) PROVE RegistryTypeOK'
  BY <1>7 DEF ConfirmSession, ConfirmStates
<1>8. ASSUME NEW s \in Session, Expire(s) PROVE RegistryTypeOK'
  BY <1>8 DEF Expire
<1>9. CASE DetectOverdue
  BY <1>9 DEF DetectOverdue
<1>10. CASE ScanSessions
  BY <1>10 DEF ScanSessions, ScannedState
<1>11. CASE UNCHANGED registryVars
  BY <1>11 DEF registryVars
<1>. QED
  BY <1>1, <1>2, <1>3, <1>4, <1>5, <1>6, <1>7, <1>8, <1>9, <1>10, <1>11 DEF RegistryNext

\* The two tables agree after every transaction, if they agreed before it.
LEMMA RegistryInvStep == RegistryInv /\ [RegistryNext]_registryVars => RegistryInv'
<1>. SUFFICES ASSUME RegistryInv, [RegistryNext]_registryVars
              PROVE  OneLiveSession' /\ CurrentIsOwn'
  BY RegistryTypingStep DEF RegistryInv
<1>. USE RegistryAssumption DEF RegistryInv, RegistryTypeOK, OneLiveSession, CurrentIsOwn, IsCurrent
<1>1. ASSUME NEW s \in Session, Register(s) PROVE OneLiveSession' /\ CurrentIsOwn'
  BY <1>1 DEF Register, MayRegister
<1>2. ASSUME NEW s \in Session, Heartbeat(s) PROVE OneLiveSession' /\ CurrentIsOwn'
  BY <1>2 DEF Heartbeat, MayHeartbeat, LiveStates, HeartbeatState
<1>3. ASSUME NEW s \in Session, NEW h \in BOOLEAN, Stop(s, h) PROVE OneLiveSession' /\ CurrentIsOwn'
  BY <1>3 DEF Stop
<1>4. ASSUME NEW s \in Session, Fence(s) PROVE OneLiveSession' /\ CurrentIsOwn'
  BY <1>4 DEF Fence
<1>5. ASSUME NEW s \in Session, RequestStop(s) PROVE OneLiveSession' /\ CurrentIsOwn'
  BY <1>5 DEF RequestStop
<1>6. ASSUME NEW s \in Session, ConfirmStopped(s) PROVE OneLiveSession' /\ CurrentIsOwn'
  BY <1>6 DEF ConfirmStopped, ConfirmStates
<1>7. ASSUME NEW s \in Session, ConfirmSession(s) PROVE OneLiveSession' /\ CurrentIsOwn'
  BY <1>7 DEF ConfirmSession, ConfirmStates
<1>8. ASSUME NEW s \in Session, Expire(s) PROVE OneLiveSession' /\ CurrentIsOwn'
  BY <1>8 DEF Expire
<1>9. CASE DetectOverdue
  BY <1>9 DEF DetectOverdue
<1>10. CASE ScanSessions
  BY <1>10 DEF ScanSessions, ScannedState
<1>11. CASE UNCHANGED registryVars
  BY <1>11 DEF registryVars
<1>. QED
  BY <1>1, <1>2, <1>3, <1>4, <1>5, <1>6, <1>7, <1>8, <1>9, <1>10, <1>11 DEF RegistryNext

\* A session that was asked to drain stays unclaimable.
LEMMA DrainStep ==
  RegistryTypeOK /\ DrainSticks /\ [RegistryNext]_registryVars => DrainSticks'
<1>. SUFFICES ASSUME RegistryTypeOK, DrainSticks, [RegistryNext]_registryVars
              PROVE  DrainSticks'
  OBVIOUS
<1>. USE DEF RegistryTypeOK, DrainSticks
<1>1. ASSUME NEW s \in Session, Register(s) PROVE DrainSticks'
  BY <1>1 DEF Register, MayRegister
<1>2. ASSUME NEW s \in Session, Heartbeat(s) PROVE DrainSticks'
  BY <1>2 DEF Heartbeat, MayHeartbeat, LiveStates, HeartbeatState
<1>3. ASSUME NEW s \in Session, NEW h \in BOOLEAN, Stop(s, h) PROVE DrainSticks'
  BY <1>3 DEF Stop
<1>4. ASSUME NEW s \in Session, Fence(s) PROVE DrainSticks'
  BY <1>4 DEF Fence
<1>5. ASSUME NEW s \in Session, RequestStop(s) PROVE DrainSticks'
  BY <1>5 DEF RequestStop
<1>6. ASSUME NEW s \in Session, ConfirmStopped(s) PROVE DrainSticks'
  BY <1>6 DEF ConfirmStopped, ConfirmStates
<1>7. ASSUME NEW s \in Session, ConfirmSession(s) PROVE DrainSticks'
  BY <1>7 DEF ConfirmSession, ConfirmStates
<1>8. ASSUME NEW s \in Session, Expire(s) PROVE DrainSticks'
  BY <1>8 DEF Expire
<1>9. CASE DetectOverdue
  BY <1>9 DEF DetectOverdue
<1>10. CASE ScanSessions
  BY <1>10 DEF ScanSessions, ScannedState
<1>11. CASE UNCHANGED registryVars
  BY <1>11 DEF registryVars
<1>. QED
  BY <1>1, <1>2, <1>3, <1>4, <1>5, <1>6, <1>7, <1>8, <1>9, <1>10, <1>11 DEF RegistryNext

\* Requests to stop, revocation and stopping are final in every transaction.
LEMMA RevocationStep ==
  ASSUME RegistryTypeOK, RegistryNext, NEW r \in Session
  PROVE  /\ stopRequested[r] => stopRequested'[r]
         /\ state[r] = "FENCED" => state'[r] \in {"FENCED", "STOPPED"}
         /\ state[r] = "STOPPED" => state'[r] = "STOPPED"
<1>. DEFINE Final == /\ stopRequested[r] => stopRequested'[r]
                     /\ state[r] = "FENCED" => state'[r] \in {"FENCED", "STOPPED"}
                     /\ state[r] = "STOPPED" => state'[r] = "STOPPED"
<1>. USE DEF RegistryTypeOK
<1>1. ASSUME NEW s \in Session, Register(s) PROVE Final
  BY <1>1 DEF Register, MayRegister
<1>2. ASSUME NEW s \in Session, Heartbeat(s) PROVE Final
  BY <1>2 DEF Heartbeat, MayHeartbeat, LiveStates, HeartbeatState
<1>3. ASSUME NEW s \in Session, NEW h \in BOOLEAN, Stop(s, h) PROVE Final
  BY <1>3 DEF Stop
<1>4. ASSUME NEW s \in Session, Fence(s) PROVE Final
  BY <1>4 DEF Fence
<1>5. ASSUME NEW s \in Session, RequestStop(s) PROVE Final
  BY <1>5 DEF RequestStop
<1>6. ASSUME NEW s \in Session, ConfirmStopped(s) PROVE Final
  BY <1>6 DEF ConfirmStopped, ConfirmStates
<1>7. ASSUME NEW s \in Session, ConfirmSession(s) PROVE Final
  BY <1>7 DEF ConfirmSession, ConfirmStates
<1>8. ASSUME NEW s \in Session, Expire(s) PROVE Final
  BY <1>8 DEF Expire
<1>9. CASE DetectOverdue
  BY <1>9 DEF DetectOverdue
<1>10. CASE ScanSessions
  BY <1>10 DEF ScanSessions, ScannedState
<1>. QED
  BY <1>1, <1>2, <1>3, <1>4, <1>5, <1>6, <1>7, <1>8, <1>9, <1>10 DEF RegistryNext

\* The tables keep their shape in every reachable state.
THEOREM RegistryTyping == RegistrySpec => []RegistryTypeOK
<1>1. RegistryInit => RegistryTypeOK
  BY RegistryAssumption DEF RegistryInit, RegistryTypeOK, SessionState
<1>. QED
  BY <1>1, RegistryTypingStep, PTL DEF RegistrySpec

\* However registrations, fencing and confirmations interleave, a worker id
\* is ACTIVE exactly while its one current session has not stopped.
THEOREM OneLiveSessionAlways == RegistrySpec => []OneLiveSession
<1>1. RegistryInit => RegistryInv
  BY RegistryAssumption
  DEF RegistryInit, RegistryInv, RegistryTypeOK, SessionState, OneLiveSession, CurrentIsOwn
<1>2. RegistryInv => OneLiveSession
  BY DEF RegistryInv
<1>. QED
  BY <1>1, <1>2, RegistryInvStep, PTL DEF RegistrySpec

\* A session asked to stop is never claimable again, a fenced one can only
\* stop, and a stopped one never changes.
THEOREM SessionsAlwaysWindDown == RegistrySpec => SessionsWindDown
<1>1. RegistryInit => DrainSticks
  BY DEF RegistryInit, DrainSticks
<1>2. RegistryTypeOK /\ DrainSticks' /\ [RegistryNext]_registryVars =>
        [\A s \in Session :
           /\ stopRequested[s] => stopRequested'[s]
           /\ stopRequested'[s] => state'[s] \notin {"NEW", "ACTIVE"}
           /\ state[s] = "FENCED" => state'[s] \in {"FENCED", "STOPPED"}
           /\ state[s] = "STOPPED" => state'[s] = "STOPPED"]_registryVars
  BY RevocationStep DEF DrainSticks
<1>. QED
  BY <1>1, <1>2, DrainStep, RegistryTyping, PTL DEF RegistrySpec, SessionsWindDown

----------------------------------------------------------------------------
(* The transactions of the store: the shape of its tables.                  *)

\* The tables are well-formed when they are created.
LEMMA StoreInitTyping == StoreInit => StoreTypeOK
<1>1. StoreInit => RegistryTypeOK
  BY RegistryAssumption DEF StoreInit, RegistryInit, RegistryTypeOK, SessionState
<1>2. StoreInit => TaskTypeOK
  BY TaskAssumption DEF StoreInit, TaskTypeOK, TaskStatus
<1>3. StoreInit => JournalTypeOK
  BY DEF StoreInit, JournalTypeOK, IncidentState
<1>. QED
  BY <1>1, <1>2, <1>3 DEF StoreTypeOK

\* The usage of attempts that ended.
LEMMA AccountTyping ==
  ASSUME TaskTypeOK, NEW S \in SUBSET Task, NEW f, Account(S, f)
  PROVE  unmetered' \subseteq Task \X Nat /\ overspent' \subseteq Workflow
<1>1. \A t \in S : <<t, attempts[t]>> \in Task \X Nat
  BY DEF TaskTypeOK
<1>2. unmetered' \subseteq Task \X Nat
  <2>. PICK silent \in SUBSET {t \in S \cap Metered : f[t] = "SUCCESS"} :
         unmetered' = (unmetered \ {<<t, attempts[t]>> : t \in S})
                        \cup {<<t, attempts[t]>> : t \in {u \in S \cap Metered : f[u] = "SUCCESS" => u \in silent}}
    BY DEF Account
  <2>. QED
    BY <1>1 DEF TaskTypeOK
<1>3. \A t \in S \cap Metered : WorkflowOf[t] \in Workflow
  BY TaskAssumption DEF Metered
<1>4. overspent' \subseteq Workflow
  BY <1>3 DEF Account, TaskTypeOK
<1>. QED
  BY <1>2, <1>4

\* Rows that leave RUNNING end in one of the three statuses of a finished
\* execution, and stay well-formed.
LEMMA ReleaseTyping ==
  ASSUME TaskTypeOK, NEW S \in SUBSET Task,
         NEW f \in [S -> {"SUCCESS", "FAILED", "RETRYING"}], Release(S, f)
  PROVE  TaskTypeOK'
<1>. USE DEF Release, TaskTypeOK
<1>1. status' \in [Task -> TaskStatus]
  BY DEF TaskStatus
<1>2. retries' \in [Task -> Nat]
  OBVIOUS
<1>3. owner' \in [Task -> Claimant \cup {NoOwner}]
  OBVIOUS
<1>4. due' \in [Task -> BOOLEAN]
  OBVIOUS
<1>5. ahead' \in [Task -> SUBSET Task]
  BY DEF MovedToEnd, Present
<1>6. unmetered' \subseteq Task \X Nat /\ overspent' \subseteq Workflow
  BY AccountTyping
<1>. QED
  BY <1>1, <1>2, <1>3, <1>4, <1>5, <1>6

\* A submission.
LEMMA SubmitTyping ==
  ASSUME StoreTypeOK, NEW t \in Task, Submit(t)
  PROVE  StoreTypeOK'
<1>1. TaskTypeOK'
  BY DEF StoreTypeOK, Submit, Insert, TaskTypeOK, TaskStatus, Present, usageVars
<1>2. RegistryTypeOK' /\ JournalTypeOK'
  BY DEF StoreTypeOK, Submit, RegistryTypeOK, JournalTypeOK, registryVars, journalVars
<1>. QED
  BY <1>1, <1>2 DEF StoreTypeOK

\* A delay that passes.
LEMMA BecomeDueTyping ==
  ASSUME StoreTypeOK, NEW t \in Task, BecomeDue(t)
  PROVE  StoreTypeOK'
<1>1. TaskTypeOK'
  BY DEF StoreTypeOK, BecomeDue, TaskTypeOK, usageVars
<1>2. RegistryTypeOK' /\ JournalTypeOK'
  BY DEF StoreTypeOK, BecomeDue, RegistryTypeOK, JournalTypeOK, registryVars, journalVars
<1>. QED
  BY <1>1, <1>2 DEF StoreTypeOK

\* A claim, by a session or by an engine, with the rows it refused.
LEMMA ClaimTyping ==
  ASSUME StoreTypeOK, NEW c \in Claimant, NEW t \in Task, NEW refused, ClaimRow(c, t, refused)
  PROVE  StoreTypeOK'
<1>1. TaskTypeOK'
  BY DEF StoreTypeOK, ClaimRow, NextAttempt, TaskTypeOK, TaskStatus, usageVars
<1>2. RegistryTypeOK' /\ JournalTypeOK'
  BY DEF StoreTypeOK, ClaimRow, RegistryTypeOK, JournalTypeOK, registryVars, journalVars
<1>. QED
  BY <1>1, <1>2 DEF StoreTypeOK

\* A claim that ends without a row.
LEMMA RefuseTyping ==
  ASSUME StoreTypeOK, NEW refused, Refuse(refused)
  PROVE  StoreTypeOK'
<1>1. TaskTypeOK'
  BY DEF StoreTypeOK, Refuse, TaskTypeOK, TaskStatus, usageVars
<1>2. RegistryTypeOK' /\ JournalTypeOK'
  BY DEF StoreTypeOK, Refuse, RegistryTypeOK, JournalTypeOK, registryVars, journalVars
<1>. QED
  BY <1>1, <1>2 DEF StoreTypeOK

\* A committed result.
LEMMA FinishTyping ==
  ASSUME StoreTypeOK, NEW c, NEW t \in Task, NEW n, NEW o \in Outcome, Finish(c, t, n, o)
  PROVE  StoreTypeOK'
<1>1. TaskTypeOK'
  <2>. DEFINE f == [u \in {t} |-> FinishedStatus(u, o)]
  <2>1. f \in [{t} -> {"SUCCESS", "FAILED", "RETRYING"}]
    BY DEF FinishedStatus
  <2>2. Release({t}, f)
    BY DEF Finish
  <2>. QED
    BY <2>1, <2>2, ReleaseTyping DEF StoreTypeOK
<1>2. RegistryTypeOK' /\ JournalTypeOK'
  BY DEF StoreTypeOK, Finish, RegistryTypeOK, JournalTypeOK, registryVars, journalVars
<1>. QED
  BY <1>1, <1>2 DEF StoreTypeOK

\* The recovery of a set of interrupted rows, with the incidents it closes.
LEMMA RecoverTyping ==
  ASSUME StoreTypeOK, NEW S \in SUBSET Task, RecoverRows(S)
  PROVE  StoreTypeOK'
<1>1. TaskTypeOK'
  <2>. DEFINE f == [t \in S |-> RecoveredStatus(t)]
  <2>1. f \in [S -> {"SUCCESS", "FAILED", "RETRYING"}]
    BY DEF RecoveredStatus
  <2>2. Release(S, f)
    BY DEF RecoverRows
  <2>. QED
    BY <2>1, <2>2, ReleaseTyping DEF StoreTypeOK
<1>2. JournalTypeOK'
  BY DEF StoreTypeOK, RecoverRows, CloseRetried, JournalTypeOK, IncidentState
<1>3. RegistryTypeOK'
  BY DEF StoreTypeOK, RecoverRows, RegistryTypeOK, registryVars
<1>. QED
  BY <1>1, <1>2, <1>3 DEF StoreTypeOK

\* A transaction of the registry.
LEMMA RegistryStepTyping ==
  ASSUME StoreTypeOK, [RegistryNext]_registryVars, UNCHANGED <<taskVars, usageVars, journalVars>>
  PROVE  StoreTypeOK'
<1>1. RegistryTypeOK'
  BY RegistryTypingStep DEF StoreTypeOK
<1>2. TaskTypeOK' /\ JournalTypeOK'
  BY DEF StoreTypeOK, TaskTypeOK, JournalTypeOK, taskVars, usageVars, journalVars
<1>. QED
  BY <1>1, <1>2 DEF StoreTypeOK

----------------------------------------------------------------------------
(* The books.  A generation node may be refused, and so fail without an     *)
(* attempt; but such nodes belong to workflows, whose rows nobody inserts   *)
(* here.                                                                    *)

Granted(t) == retries[t] + (IF status[t] \in {"ABSENT"} \cup Waiting THEN 0 ELSE 1)

BooksOK ==
  \A t \in Task :
    /\ attempts[t] = Granted(t)
    /\ retries[t] <= limit[t]
    /\ WorkflowOf[t] # NoWorkflow => status[t] = "ABSENT"

\* What a step has to leave behind, task by task.
BookKept(t) ==
  /\ attempts'[t] = retries'[t] + (IF status'[t] \in {"ABSENT"} \cup Waiting THEN 0 ELSE 1)
  /\ retries'[t] <= limit'[t]
  /\ WorkflowOf[t] # NoWorkflow => status'[t] = "ABSENT"

\* A claim opens the attempt it counts.
LEMMA ClaimKeepsBooks ==
  ASSUME StoreTypeOK, BooksOK, NEW c, NEW t \in Task, NEW refused \in SUBSET Llm,
         \A u \in refused : Dispatchable(u), ClaimRow(c, t, refused)
  PROVE  BooksOK'
<1>1. refused = {}
  BY TaskAssumption DEF BooksOK, Dispatchable, Waiting
<1>2. status[t] \in Waiting
  BY DEF ClaimRow, Dispatchable
<1>. SUFFICES ASSUME NEW u \in Task PROVE BookKept(u)
  BY DEF BooksOK, BookKept, Granted
<1>3. retries'[u] = retries[u] /\ limit'[u] = limit[u]
  BY DEF ClaimRow
<1>4. CASE u = t
  <2>1. attempts'[u] = attempts[u] + 1 /\ status'[u] = "RUNNING"
    BY <1>4 DEF ClaimRow, NextAttempt, StoreTypeOK, TaskTypeOK
  <2>. QED
    BY <1>2, <1>3, <1>4, <2>1 DEF BooksOK, BookKept, Granted, Waiting, StoreTypeOK, TaskTypeOK
<1>5. CASE u # t
  <2>1. attempts'[u] = attempts[u] /\ status'[u] = status[u]
    BY <1>1, <1>5 DEF ClaimRow, StoreTypeOK, TaskTypeOK
  <2>. QED
    BY <1>3, <2>1 DEF BooksOK, BookKept, Granted
<1>. QED
  BY <1>4, <1>5

\* An execution that ends is counted as a retry exactly when it is retried,
\* and it is retried within the budget only.
LEMMA ReleaseKeepsBooks ==
  ASSUME StoreTypeOK, BooksOK, NEW S \in SUBSET Task,
         \A t \in S : status[t] = "RUNNING",
         NEW f \in [S -> {"SUCCESS", "FAILED", "RETRYING"}],
         \A t \in S : f[t] = "RETRYING" => retries[t] < limit[t],
         Release(S, f)
  PROVE  BooksOK'
<1>. SUFFICES ASSUME NEW u \in Task PROVE BookKept(u)
  BY DEF BooksOK, BookKept, Granted
<1>. USE DEF Release, StoreTypeOK, TaskTypeOK
<1>1. attempts'[u] = attempts[u] /\ limit'[u] = limit[u]
  OBVIOUS
<1>2. CASE u \in S
  <2>1. attempts[u] = retries[u] + 1
    BY <1>2 DEF BooksOK, Granted, Waiting
  <2>2. status'[u] = f[u] /\ retries'[u] = (IF f[u] = "RETRYING" THEN retries[u] + 1 ELSE retries[u])
    BY <1>2
  <2>3. WorkflowOf[u] = NoWorkflow
    BY <1>2 DEF BooksOK
  <2>4. CASE f[u] = "RETRYING"
    BY <1>1, <1>2, <2>1, <2>2, <2>3, <2>4 DEF BookKept, Waiting
  <2>5. CASE f[u] \in {"SUCCESS", "FAILED"}
    BY <1>1, <2>1, <2>2, <2>3, <2>5 DEF BooksOK, BookKept, Waiting
  <2>. QED
    BY <1>2, <2>4, <2>5
<1>3. CASE u \notin S
  BY <1>1, <1>3 DEF BooksOK, BookKept, Granted
<1>. QED
  BY <1>2, <1>3

\* A session claims by claim_next.
LEMMA ClaimNextKeepsBooks ==
  ASSUME StoreTypeOK, BooksOK, NEW s \in Session, NEW t \in Task, ClaimNext(s, t)
  PROVE  BooksOK'
<1>. DEFINE refused == {u \in Candidates(s) : OutOfBudget(u) /\ Precedes(u, t)}
<1>1. refused \in SUBSET Llm /\ \A u \in refused : Dispatchable(u)
  BY DEF OutOfBudget, Candidates
<1>2. ClaimRow(s, t, refused)
  BY DEF ClaimNext
<1>. HIDE DEF refused
<1>. QED
  BY <1>1, <1>2, ClaimKeepsBooks

\* Nobody inserts rows of workflows here, so no claim fails a row for its
\* budget.
LEMMA RefuseKeepsBooks ==
  ASSUME BooksOK, NEW s \in Session, ClaimNone(s)
  PROVE  BooksOK'
<1>1. \A u \in Candidates(s) : ~OutOfBudget(u)
  BY TaskAssumption DEF BooksOK, Candidates, Dispatchable, Waiting, OutOfBudget
<1>2. UNCHANGED <<attempts, retries, limit>> /\ \A u \in Task : status'[u] = status[u]
  BY <1>1 DEF ClaimNone, Refuse
<1>. QED
  BY <1>2 DEF BooksOK, Granted

\* A committed result.
LEMMA FinishKeepsBooks ==
  ASSUME StoreTypeOK, BooksOK, NEW c, NEW t, NEW n, NEW o, t \in Task, Finish(c, t, n, o)
  PROVE  BooksOK'
<1>. DEFINE f == [u \in {t} |-> FinishedStatus(u, o)]
<1>1. status[t] = "RUNNING" /\ Release({t}, f)
  BY DEF Finish, MayFinish
<1>2. f \in [{t} -> {"SUCCESS", "FAILED", "RETRYING"}] /\ (f[t] = "RETRYING" => retries[t] < limit[t])
  BY DEF FinishedStatus
<1>. HIDE DEF f
<1>. QED
  BY <1>1, <1>2, ReleaseKeepsBooks

\* The recovery of interrupted rows.
LEMMA RecoverKeepsBooks ==
  ASSUME StoreTypeOK, BooksOK, NEW S \in SUBSET Task, \A t \in S : status[t] = "RUNNING",
         RecoverRows(S)
  PROVE  BooksOK'
<1>. DEFINE f == [t \in S |-> RecoveredStatus(t)]
<1>1. /\ f \in [S -> {"SUCCESS", "FAILED", "RETRYING"}]
      /\ \A t \in S : f[t] = "RETRYING" => retries[t] < limit[t]
  BY DEF RecoveredStatus
<1>2. Release(S, f)
  BY DEF RecoverRows
<1>. HIDE DEF f
<1>. QED
  BY <1>1, <1>2, ReleaseKeepsBooks

\* A submission, and the passing of time.
LEMMA SubmitKeepsBooks ==
  ASSUME StoreTypeOK, BooksOK, NEW t \in Task, Submit(t) \/ BecomeDue(t)
  PROVE  BooksOK'
<1>1. CASE Submit(t)
  BY <1>1 DEF Submit, Insert, BooksOK, Granted, Waiting, StoreTypeOK, TaskTypeOK
<1>2. CASE BecomeDue(t)
  BY <1>2 DEF BecomeDue, BooksOK, Granted
<1>. QED
  BY <1>1, <1>2

----------------------------------------------------------------------------
(* Executions: a row that runs either ran the same attempt before, or was   *)
(* taken by one of the claimants C with the next attempt.                   *)

SameExecution(t) ==
  /\ status[t] = "RUNNING" /\ attempts'[t] = attempts[t]
  /\ owner'[t] = owner[t] /\ retries'[t] = retries[t]

RowsMoveOn(C) ==
  \A t \in Task :
    /\ limit'[t] = limit[t] /\ attempts'[t] \in Nat /\ attempts'[t] >= attempts[t]
    /\ status'[t] = "RUNNING" =>
         SameExecution(t) \/ (attempts'[t] = attempts[t] + 1 /\ owner'[t] \in C)

\* Steps that do not touch the rows.
LEMMA IdleMovesOn ==
  ASSUME StoreTypeOK, UNCHANGED taskVars
  PROVE  RowsMoveOn({})
BY DEF RowsMoveOn, SameExecution, taskVars, StoreTypeOK, TaskTypeOK

\* Submissions, and the passing of time.
LEMMA SubmitMovesOn ==
  ASSUME StoreTypeOK, NEW t \in Task, Submit(t) \/ BecomeDue(t)
  PROVE  RowsMoveOn({})
BY DEF Submit, Insert, BecomeDue, RowsMoveOn, SameExecution, StoreTypeOK, TaskTypeOK

\* A claim.
LEMMA ClaimMovesOn ==
  ASSUME StoreTypeOK, NEW c, NEW t \in Task, NEW refused, ClaimRow(c, t, refused)
  PROVE  /\ RowsMoveOn({c}) /\ owner'[t] = c /\ attempts'[t] = NextAttempt(t)
         /\ \A u \in Task \ {t} : attempts'[u] = attempts[u]
BY DEF ClaimRow, NextAttempt, RowsMoveOn, SameExecution, StoreTypeOK, TaskTypeOK

\* A claim that finds nothing.
LEMMA RefuseMovesOn ==
  ASSUME StoreTypeOK, NEW refused, Refuse(refused)
  PROVE  RowsMoveOn({})
BY DEF Refuse, RowsMoveOn, SameExecution, StoreTypeOK, TaskTypeOK

\* Executions that end.
LEMMA ReleaseMovesOn ==
  ASSUME StoreTypeOK, NEW S, NEW f, \A t \in S : f[t] # "RUNNING", Release(S, f)
  PROVE  RowsMoveOn({}) /\ \A t \in S \cap Task : status'[t] # "RUNNING"
BY DEF Release, RowsMoveOn, SameExecution, StoreTypeOK, TaskTypeOK
=============================================================================
