------------------------- MODULE ExternalCallsProofs -------------------------
(***************************************************************************)
(* For all status codes and budgets: the engine makes an effect happen at  *)
(* most once, its reports about model calls are true, and the calls of a   *)
(* task never overlap.                                                     *)
(***************************************************************************)
EXTENDS ExternalCalls, FiniteSetTheorems, TLAPS

\* The effect has not happened, and no request is left that could make it.
Fresh == effects = 0 /\ wire = {}

\* The attempt, its stage and what runs belong together.
Shape ==
  /\ stage = "idle" <=> status # "RUNNING"
  /\ stage # "idle" => attempts # 0
  /\ status = "RUNNING" => category = "NONE"
  /\ running \subseteq {attempts}
  /\ stage \notin {"calling", "sent"} => running = {}
  /\ stage = "returned" => outcome # "none"
  /\ stage = "returned" /\ outcome = "NONE" => call.kind = "plain"
  /\ call.kind \notin Network => wire = {} /\ reply = NoReply
  /\ stage = "calling" => reply = NoReply
  /\ reply.fault = "quota" => reply.code = 429

\* The effect is behind, or one request may still make it; and whatever leads
\* to another attempt is fresh.
Once ==
  Protected /\ call.kind \in Effectful =>
    /\ (effects = 0 /\ wire \subseteq {attempts}) \/ (effects = 1 /\ wire = {})
    /\ status \in {"PENDING", "RETRYING"} => Fresh
    /\ stage = "calling" => Fresh
    /\ stage = "returned" /\ outcome = "TRANSIENT" => Fresh
    /\ stage = "sent" /\ reply # NoReply =>
         wire = {} /\ (call.kind = "llm" /\ NotRun(reply.code) => effects = 0)

Told ==
  Protected /\ call.kind = "llm" =>
    /\ stage = "returned" /\ outcome \in {"PERMANENT", "TRANSIENT"} => Fresh
    /\ category \in {"PERMANENT", "TRANSIENT"} => Fresh

CallsInv == CallsTypeOK /\ Shape /\ Once /\ Told

----------------------------------------------------------------------------
(* What the classification yields *)

\* The verdict on an answer is a failure class or a success; about a model it
\* only denies the effect when the provider has done so, and a request that
\* changes something is never called transient.
LEMMA VerdictOnAnswer ==
  ASSUME CallsTypeOK, Shape
  PROVE  /\ Reads(reply) \in {"success", "PERMANENT", "TRANSIENT", "UNCERTAIN"}
         /\ call.kind = "llm" /\ Reads(reply) \in {"PERMANENT", "TRANSIENT"} => NotRun(reply.code)
         /\ call.kind = "write" => Reads(reply) # "TRANSIENT"
<1>1. reply.code \in Nat
  <2>1. 0 \in Nat /\ \A c \in Codes : c \in Nat
    BY CallsAssumption DEF CallsAssumption
  <2>2. reply.code \in Codes \/ reply.code = 0
    BY DEF CallsTypeOK
  <2>3. QED
    BY <2>1, <2>2, Zenon
<1>2. CASE call.kind = "llm"
  <2>1. /\ LlmStatus(reply) \in {"PERMANENT", "TRANSIENT", "UNCERTAIN"}
        /\ LlmStatus(reply) \in {"PERMANENT", "TRANSIENT"} => NotRun(reply.code)
    BY <1>1 DEF LlmStatus, NotRun, Shape
  <2>2. QED
    BY <1>2, <2>1 DEF Reads
<1>3. CASE call.kind # "llm"
  BY <1>3 DEF Reads, HttpStatus, SafeToRepeat
<1>4. QED
  BY <1>2, <1>3

\* A failure that the engine does not know is uncertain when it calls out.
LEMMA VerdictOnConnection ==
  ASSUME NEW reason \in Reasons
  PROVE  NoConnection(reason) \in {"PERMANENT", "TRANSIENT", "UNCERTAIN"}
BY DEF NoConnection, LlmConnect, SafeToRepeat, Reasons

----------------------------------------------------------------------------
(* The invariant *)

LEMMA CallsInitInv == CallsInit => CallsInv
<1> SUFFICES ASSUME CallsInit PROVE CallsInv
  OBVIOUS
<1>1. CallsTypeOK
  <2>1. MaxLimit \in Nat
    BY CallsAssumption DEF CallsAssumption
  <2>2. call \in Calls /\ reply \in [code : Codes \cup {0}, fault : {"none", "body", "quota"}]
    BY DEF CallsInit, NoReply
  <2>3. running \subseteq 1..attempts /\ wire \subseteq 1..attempts /\ retries \in 0..MaxLimit
    BY <2>1 DEF CallsInit
  <2>4. QED
    BY <2>2, <2>3 DEF CallsInit, CallsTypeOK
<1>2. Shape /\ Once /\ Told
  BY DEF CallsInit, Shape, Once, Told, Fresh, NoReply
<1>3. QED
  BY <1>1, <1>2 DEF CallsInv

\* The handler of the attempt ends with a class of its own.
LEMMA ReturnsInv ==
  ASSUME CallsInv, NEW o, Returns(o), stage \in {"calling", "sent"},
         o \in {"success", "NONE", "PERMANENT", "TRANSIENT", "UNCERTAIN"},
         o = "NONE" => call.kind = "plain",
         call.kind \in Effectful /\ Protected /\ o = "TRANSIENT" => Fresh,
         call.kind = "llm" /\ Protected /\ o = "PERMANENT" => Fresh
  PROVE  CallsInv'
<1> USE DEF CallsInv, Returns
<1>1. CallsTypeOK'
  BY DEF CallsTypeOK
<1>2. Shape'
  BY DEF Shape, NoReply, CallsTypeOK
<1>3. Once'
  BY DEF Once, Shape, Fresh, Protected, Recognised, Scoped, Effectful
<1>4. Told'
  BY DEF Told, Shape, Fresh, Protected, Recognised, Scoped, Effectful
<1>5. QED
  BY <1>1, <1>2, <1>3, <1>4

\* A committed failure is executed again only if it is fresh.
LEMMA SettlesInv ==
  ASSUME CallsInv, NEW cat, NEW again \in BOOLEAN, Settles(cat, again),
         stage \in {"returned", "dead"}, status = "RUNNING",
         cat \in {"NONE", "PERMANENT", "TRANSIENT", "UNCERTAIN"},
         again => retries < call.limit,
         UNCHANGED <<call, attempts, late, outcome, running, wire, reply, effects>>,
         again /\ call.kind \in Effectful /\ Protected => Fresh,
         cat \in {"PERMANENT", "TRANSIENT"} /\ call.kind = "llm" /\ Protected => Fresh
  PROVE  CallsInv'
<1> USE DEF CallsInv, Settles
<1>1. CallsTypeOK'
  <2>1. retries' \in 0..MaxLimit
    BY CallsAssumption DEF CallsAssumption, CallsTypeOK, Calls
  <2>2. QED
    BY <2>1 DEF CallsTypeOK
<1>2. Shape'
  BY DEF Shape
<1>3. Once'
  BY DEF Once, Shape, Fresh, Protected, Recognised, Scoped
<1>4. Told'
  BY DEF Told, Fresh, Protected, Recognised, Scoped
<1>5. QED
  BY <1>1, <1>2, <1>3, <1>4

\* Steps of the engine.
LEMMA BeginInv == ASSUME CallsInv, Begin PROVE CallsInv'
<1> USE DEF CallsInv, Begin
<1>1. CallsTypeOK'
  <2>1. running' \subseteq 1..attempts' /\ wire' \subseteq 1..attempts'
    BY DEF CallsTypeOK
  <2>2. reply' \in [code : Codes \cup {0}, fault : {"none", "body", "quota"}]
    BY DEF NoReply
  <2>3. attempts' \in Nat
    BY DEF CallsTypeOK
  <2>4. QED
    BY <2>1, <2>2, <2>3 DEF CallsTypeOK
<1>2. Shape'
  BY DEF Shape, NoReply, CallsTypeOK
<1>3. Once' /\ Told'
  BY DEF Once, Told, Fresh, Protected, Recognised, Scoped
<1>4. QED
  BY <1>1, <1>2, <1>3

LEMMA SoftTimeoutInv == ASSUME CallsInv, SoftTimeout PROVE CallsInv'
BY DEF CallsInv, SoftTimeout, CallsTypeOK, Shape, Once, Told, Fresh, Protected, Recognised, Scoped

LEMMA CommitInv == ASSUME CallsInv, Commit PROVE CallsInv'
<1> USE DEF CallsInv, Commit, HandlerEnded
<1>1. CASE outcome = "success" /\ ~late
  BY <1>1 DEF CallsTypeOK, Shape, Once, Told, Fresh, Protected, Recognised, Scoped
<1>2. CASE ~(outcome = "success" /\ ~late)
  <2> DEFINE cat == IF late THEN Unclassified(Scoped) ELSE outcome
  <2>1. cat \in {"NONE", "PERMANENT", "TRANSIENT", "UNCERTAIN"}
    BY <1>2 DEF CallsTypeOK, Shape, Unclassified
  <2>2. ASSUME MayRetry(cat), call.kind \in Effectful, Protected
        PROVE  Fresh
    <3>1. ~late /\ cat = outcome
      BY <2>2 DEF MayRetry, Unclassified, Scoped, Effectful
    <3>2. outcome = "TRANSIENT"
      BY <2>2, <2>1, <3>1 DEF MayRetry, Shape, Effectful
    <3>3. QED
      BY <2>2, <3>2 DEF Once
  <2>3. cat \in {"PERMANENT", "TRANSIENT"} /\ call.kind = "llm" /\ Protected => Fresh
    BY DEF Unclassified, Scoped, Told
  <2>4. MayRetry(cat) \in BOOLEAN /\ (MayRetry(cat) => retries < call.limit)
    BY DEF MayRetry
  <2>5. status = "RUNNING" /\ stage = "returned" /\ Settles(cat, MayRetry(cat))
    BY <1>2 DEF Shape
  <2> HIDE DEF cat
  <2>6. QED
    BY <2>1, <2>2, <2>3, <2>4, <2>5, SettlesInv
<1>3. QED
  BY <1>1, <1>2

LEMMA CrashInv == ASSUME CallsInv, Crash PROVE CallsInv'
<1> USE DEF CallsInv, Crash
<1>1. CallsTypeOK' /\ Shape'
  BY DEF CallsTypeOK, Shape, NoReply
<1>2. Once' /\ Told'
  BY DEF Once, Told, Shape, Fresh, Protected, Recognised, Scoped
<1>3. QED
  BY <1>1, <1>2

LEMMA RecoverInv == ASSUME CallsInv, Recover PROVE CallsInv'
<1> USE DEF CallsInv, Recover
<1> DEFINE again == call.idempotent /\ MayRetry(RecoveredAs)
<1>1. RecoveredAs \in {"NONE", "UNCERTAIN"}
  BY DEF RecoveredAs, Unclassified
<1>2. again => ~Protected
  BY DEF RecoveredAs, Unclassified, MayRetry, Protected
<1>3. again \in BOOLEAN /\ (again => retries < call.limit)
  BY DEF MayRetry, CallsTypeOK, Calls
<1>4. QED
  BY <1>1, <1>2, <1>3, SettlesInv DEF Shape

LEMMA OperatorRetryInv == ASSUME CallsInv, OperatorRetry PROVE CallsInv'
<1> USE DEF CallsInv, OperatorRetry
<1>1. CallsTypeOK'
  <2>1. retries' \in 0..MaxLimit
    BY CallsAssumption DEF CallsAssumption, CallsTypeOK, Calls
  <2>2. QED
    BY <2>1 DEF CallsTypeOK
<1>2. Shape' /\ Once' /\ Told'
  BY DEF Shape, Once, Told, Fresh, Protected, Recognised, Scoped
<1>3. QED
  BY <1>1, <1>2

\* Steps of the handlers.
LEMMA RejectInputInv == ASSUME CallsInv, RejectInput PROVE CallsInv'
BY ReturnsInv DEF RejectInput, RejectPrompt, RejectRequest, RejectArguments,
  UnknownTool, Rejects, CallsInv, Once, Effectful

LEMMA ConnectFailsInv ==
  ASSUME CallsInv, NEW reason \in Reasons, ConnectFails(reason)
  PROVE  CallsInv'
<1>1. call.kind \in Effectful /\ Protected => Fresh
  BY DEF ConnectFails, CallsInv, Once
<1>2. call.kind = "llm" => call.kind \in Effectful
  BY DEF Effectful
<1>3. QED
  BY <1>1, <1>2, VerdictOnConnection, ReturnsInv DEF ConnectFails

LEMMA SendRequestInv == ASSUME CallsInv, SendRequest PROVE CallsInv'
<1> USE DEF CallsInv, SendRequest
<1>1. CallsTypeOK'
  <2>1. attempts \in 1..attempts
    BY DEF CallsTypeOK, Shape
  <2>2. QED
    BY <2>1 DEF CallsTypeOK
<1>2. Shape'
  BY DEF Shape
<1>3. Once' /\ Told'
  BY DEF Once, Told, Shape, Fresh, Protected, Recognised, Scoped, Effectful
<1>4. QED
  BY <1>1, <1>2, <1>3

LEMMA ReceiveInv == ASSUME CallsInv, Receive PROVE CallsInv'
<1> USE DEF CallsInv, Receive
<1>1. call.kind \in Network
  BY DEF Shape
<1>2. call.kind \in Effectful /\ Protected => Reads(reply) # "TRANSIENT" \/ Fresh
  BY <1>1, VerdictOnAnswer DEF Once, Fresh, Effectful, Network
<1>3. call.kind = "llm" /\ Protected /\ Reads(reply) = "PERMANENT" => Fresh
  BY VerdictOnAnswer DEF Once, Fresh, Effectful
<1>4. QED
  BY <1>2, <1>3, VerdictOnAnswer, ReturnsInv

LEMMA LoseAnswerInv == ASSUME CallsInv, LoseAnswer PROVE CallsInv'
BY ReturnsInv DEF LoseAnswer, NoAnswer, SafeToRepeat, Effectful

LEMMA LocalEffectInv == ASSUME CallsInv, LocalEffect PROVE CallsInv'
<1> USE DEF CallsInv, LocalEffect
<1>1. CallsTypeOK' /\ Shape'
  BY DEF CallsTypeOK, Shape
<1>2. Once' /\ Told'
  BY DEF Once, Told, Shape, Fresh, Protected, Recognised, Scoped, Effectful, Network, CallsTypeOK
<1>3. QED
  BY <1>1, <1>2

LEMMA ToolReturnsInv == ASSUME CallsInv, ToolReturns PROVE CallsInv'
<1>1. CASE \E o \in {"success", "UNCERTAIN"} : Returns(o)
  BY <1>1, ReturnsInv DEF ToolReturns
<1>2. CASE stage = "calling" /\ Returns("TRANSIENT")
  BY <1>2, ReturnsInv DEF ToolReturns, CallsInv, Once
<1>3. QED
  BY <1>1, <1>2 DEF ToolReturns

LEMMA PlainReturnsInv == ASSUME CallsInv, PlainReturns PROVE CallsInv'
BY ReturnsInv DEF PlainReturns

LEMMA CheckReturnsInv == ASSUME CallsInv, CheckReturns PROVE CallsInv'
BY ReturnsInv DEF CheckReturns, ValidateOutput, ParseJson, Checks, Effectful

\* Steps of the other side.  A request is on the wire only while the effect
\* has not happened, and only one is.
LEMMA AnswersType ==
  ASSUME CallsInv, NEW n, NEW a \in Answers, AnswersTo(n, a)
  PROVE  /\ reply' \in [code : Codes \cup {0}, fault : {"none", "body", "quota"}]
         /\ reply'.fault = "quota" => reply'.code = 429
         /\ stage # "sent" => reply' = reply
<1>1. a \in [code : Codes \cup {0}, fault : {"none", "body", "quota"}]
  BY DEF Answers
<1>2. a.fault = "quota" => a.code = 429
  BY DEF Answers
<1>3. QED
  BY <1>1, <1>2 DEF AnswersTo, CallsInv, CallsTypeOK, Shape

LEMMA ExecuteInv ==
  ASSUME CallsInv, NEW n \in wire, Execute(n)
  PROVE  CallsInv'
<1> USE DEF CallsInv, Execute
<1>1. PICK a \in Answers : /\ call.kind = "llm" => ~NotRun(a.code)
                           /\ AnswersTo(n, a)
  OBVIOUS
<1>2. CallsTypeOK'
  BY <1>1, AnswersType DEF CallsTypeOK
<1>3. Shape'
  BY <1>1, AnswersType DEF Shape
<1>4. Once'
  BY <1>1 DEF Once, Shape, Fresh, AnswersTo, Protected, Recognised, Scoped, CallsTypeOK
<1>5. Told'
  BY DEF Told, Fresh, Protected, Recognised, Scoped
<1>6. QED
  BY <1>2, <1>3, <1>4, <1>5

LEMMA DeclineInv ==
  ASSUME CallsInv, NEW n \in wire, Decline(n)
  PROVE  CallsInv'
<1> USE DEF CallsInv, Decline
<1>1. PICK a \in Answers : AnswersTo(n, a)
  OBVIOUS
<1>2. CallsTypeOK'
  BY <1>1, AnswersType DEF CallsTypeOK
<1>3. Shape'
  BY <1>1, AnswersType DEF Shape
<1>4. Once'
  BY DEF Once, Shape, Fresh, Protected, Recognised, Scoped, CallsTypeOK
<1>5. Told'
  BY DEF Told, Fresh, Protected, Recognised, Scoped
<1>6. QED
  BY <1>2, <1>3, <1>4, <1>5

LEMMA CallsInvStep == CallsInv /\ [CallsNext]_callVars => CallsInv'
<1> SUFFICES ASSUME CallsInv, [CallsNext]_callVars PROVE CallsInv'
  OBVIOUS
<1>1. CASE Begin \/ SoftTimeout \/ Commit \/ Crash \/ Recover \/ OperatorRetry
  BY <1>1, BeginInv, SoftTimeoutInv, CommitInv, CrashInv, RecoverInv, OperatorRetryInv
<1>2. CASE RejectInput \/ SendRequest \/ Receive \/ LoseAnswer
  BY <1>2, RejectInputInv, SendRequestInv, ReceiveInv, LoseAnswerInv
<1>3. CASE LocalEffect \/ ToolReturns \/ PlainReturns \/ CheckReturns
  BY <1>3, LocalEffectInv, ToolReturnsInv, PlainReturnsInv, CheckReturnsInv
<1>4. CASE \E reason \in Reasons : ConnectFails(reason)
  BY <1>4, ConnectFailsInv
<1>5. CASE \E n \in wire : Execute(n) \/ Decline(n)
  BY <1>5, ExecuteInv, DeclineInv
<1>6. CASE UNCHANGED callVars
  BY <1>6 DEF callVars, CallsInv, CallsTypeOK, Shape, Once, Told, Fresh, Protected, Recognised, Scoped
<1>7. QED
  BY <1>1, <1>2, <1>3, <1>4, <1>5, <1>6 DEF CallsNext

LEMMA CallsInvAlways == CallsSpec => []CallsInv
BY CallsInitInv, CallsInvStep, PTL DEF CallsSpec

----------------------------------------------------------------------------
(* The theorems *)

\* The variables keep their types.
THEOREM CallsTyping == CallsSpec => []CallsTypeOK
<1>1. CallsInv => CallsTypeOK
  BY DEF CallsInv
<1>2. QED
  BY <1>1, CallsInvAlways, PTL

\* The engine never makes an outside effect happen twice (failures.py).
THEOREM EffectsHappenOnceAlways == CallsSpec => []EffectsHappenOnce
<1>1. CallsInv => EffectsHappenOnce
  BY DEF CallsInv, Once, EffectsHappenOnce
<1>2. QED
  BY <1>1, CallsInvAlways, PTL

\* A model call reported as permanently or transiently failed has not happened.
THEOREM FailuresAreToldAlways == CallsSpec => []FailuresAreTold
<1>1. CallsInv => FailuresAreTold
  BY DEF CallsInv, Told, Fresh, FailuresAreTold
<1>2. QED
  BY <1>1, CallsInvAlways, PTL

\* The calls of one task never overlap (persistence.py, _invoke).
THEOREM OneCallAtATimeAlways == CallsSpec => []OneCallAtATime
<1>1. CallsInv => OneCallAtATime
  <2> SUFFICES ASSUME CallsInv PROVE OneCallAtATime
    OBVIOUS
  <2>1. running = {} \/ running = {attempts}
    BY DEF CallsInv, Shape
  <2>2. Cardinality({}) = 0 /\ Cardinality({attempts}) = 1
    BY FS_EmptySet, FS_Singleton
  <2>3. QED
    BY <2>1, <2>2 DEF OneCallAtATime
<1>2. QED
  BY <1>1, CallsInvAlways, PTL
=============================================================================
