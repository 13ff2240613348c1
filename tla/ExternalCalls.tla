---------------------------- MODULE ExternalCalls ----------------------------
(***************************************************************************)
(* The life of one task whose handler calls something outside the engine:  *)
(* a model (llm.py), a web service (http_tool.py), a registered function   *)
(* (tools.py), the checks of a model's answer (llm.py, ai_workflow.py), or *)
(* ordinary code.  The handler makes one request per attempt and says how  *)
(* it failed; failures.py, retry.py and persistence.py decide from that    *)
(* whether the engine may call again.  The other side may execute a        *)
(* request at any time after it was sent, and answer or not.               *)
(***************************************************************************)
EXTENDS Naturals, FiniteSets

CONSTANTS
  Codes,      \* the HTTP status codes services answer with
  MaxLimit    \* bound on the retry budget

ASSUME CallsAssumption == Codes \subseteq Nat /\ MaxLimit \in Nat

VARIABLES
  call,       \* what is called and how it is registered; never changes
  status, attempts, retries,
  category,   \* how the last failure was classified
  stage,      \* of the attempt: "idle", "calling", "sent", "returned", "dead"
  late,       \* the soft timeout of the attempt has expired
  outcome,    \* how the handler ended
  running,    \* the attempts whose handler is still running
  wire,       \* the attempts whose request may still be executed outside
  reply,      \* the answer to the request of the attempt, or NoReply
  effects     \* how often the outside effect has happened

callVars == <<call, status, attempts, retries, category, stage, late, outcome,
              running, wire, reply, effects>>

Kinds == {"llm", "read", "write", "tool", "validate", "parse", "plain"}
Network == {"llm", "read", "write"}

\* `named`: one of the names failures.py knows; `marked`: the callable under
\* this name, in the process that recovers the task, has a failure_scope.
Calls == [kind : Kinds, idempotent : BOOLEAN, limit : 0..MaxLimit,
          named : BOOLEAN, marked : BOOLEAN]

NoReply == [code |-> 0, fault |-> "none"]

Good(code) == code \in 200..299

\* Besides its code, an answer may have a body that cannot be used, or say
\* that the quota of the account is exhausted.
Answers ==
  {a \in [code : Codes, fault : {"none", "body", "quota"}] :
     /\ a.fault = "body" => Good(a.code)
     /\ a.fault = "quota" => call.kind = "llm" /\ a.code = 429}

\* What the engine relies on: with these codes a provider says that it has
\* not run the model.  Web services may have executed whatever they answer.
NotRun(code) == code \in {429, 501, 503, 505} \/ code \in (300..499 \ {408})

----------------------------------------------------------------------------
(* Classification *)

\* Mutant: a request the provider timed out is taken for one it refused.
TimeoutIsRefusal(a) ==
  CASE a.fault = "quota" \/ (a.code \in 300..499 /\ a.code # 429)
         \/ a.code \in {501, 505} -> "PERMANENT"
    [] a.code \in {429, 503} -> "TRANSIENT"
    [] OTHER -> "UNCERTAIN"

\* LLMHTTPError
LlmStatus(a) ==
  CASE a.fault = "quota" \/ (a.code \in 300..499 /\ a.code \notin {408, 429})
         \/ a.code \in {501, 505} -> "PERMANENT"
    [] a.code \in {429, 503} -> "TRANSIENT"
    [] OTHER -> "UNCERTAIN"

\* A failure after which only a method that changes nothing is repeated.
SafeToRepeat == IF call.kind = "read" THEN "TRANSIENT" ELSE "UNCERTAIN"

\* HTTPStatusError
HttpStatus(a) ==
  IF a.code \in {408, 425, 429} \/ a.code \in (500..599 \ {501, 505})
  THEN SafeToRepeat ELSE "PERMANENT"

\* What a handler makes of an answer.
Reads(a) ==
  IF call.kind = "llm"
  THEN IF a.code = 200 THEN IF a.fault = "none" THEN "success" ELSE "UNCERTAIN"
       ELSE LlmStatus(a)
  ELSE IF Good(a.code) THEN IF a.fault = "none" THEN "success" ELSE "UNCERTAIN"
       ELSE HttpStatus(a)

\* No connection was made, so nothing was sent (_transport_error).
LlmConnect(reason) ==
  CASE reason \in {"eai_again", "refused"} -> "TRANSIENT"
    [] reason \in {"unresolvable", "certificate", "denied"} -> "PERMANENT"
    [] reason \in {"tls", "timeout", "other"} -> "UNCERTAIN"

Reasons == {"eai_again", "refused", "unresolvable", "certificate", "denied",
            "tls", "timeout", "other"}

NoConnection(reason) ==
  IF call.kind = "llm" THEN LlmConnect(reason)
  ELSE IF reason = "certificate" THEN "PERMANENT" ELSE SafeToRepeat

\* The request was sent, and its answer did not arrive.
NoAnswer == IF call.kind = "llm" THEN "UNCERTAIN" ELSE SafeToRepeat

\* classify_task_failure for an exception that does not classify itself, when
\* the process knows that the handler calls something outside.
Unclassified(known) == IF known THEN "UNCERTAIN" ELSE "NONE"

Scoped == call.kind # "plain"

\* The process that executes has the handler itself.  The one that recovers
\* may have a placeholder, known only by its name.
Recognised == Scoped /\ (call.named \/ call.marked)

\* should_retry
MayRetry(cat) == cat \notin {"PERMANENT", "UNCERTAIN"} /\ retries < call.limit

----------------------------------------------------------------------------
(* The engine *)

CallsInit ==
  /\ call \in {c \in Calls : c.kind = "plain" => ~c.named /\ ~c.marked}
  /\ status = "PENDING" /\ attempts = 0 /\ retries = 0
  /\ category = "NONE" /\ stage = "idle" /\ late = FALSE /\ outcome = "none"
  /\ running = {} /\ wire = {} /\ reply = NoReply /\ effects = 0

Begin ==
  /\ status \in {"PENDING", "RETRYING"}
  /\ status' = "RUNNING" /\ attempts' = attempts + 1 /\ category' = "NONE"
  /\ stage' = "calling" /\ late' = FALSE /\ outcome' = "none" /\ reply' = NoReply
  /\ running' = running \cup {attempts + 1}
  /\ UNCHANGED <<call, retries, wire, effects>>

SoftTimeout ==
  /\ stage \in {"calling", "sent"} /\ ~late
  /\ late' = TRUE
  /\ UNCHANGED <<call, status, attempts, retries, category, stage, outcome,
                 running, wire, reply, effects>>

\* Commits a failure, and the retry that it allows.
Settles(cat, again) ==
  /\ category' = cat /\ stage' = "idle"
  /\ IF again THEN status' = "RETRYING" /\ retries' = retries + 1
              ELSE status' = "FAILED" /\ UNCHANGED retries

\* Mutant: the failure is committed while the handler still runs.
TimeoutIsEnough == stage = "returned" \/ (late /\ stage \in {"calling", "sent"})

\* _invoke waits for the end of a handler whose time is over.
HandlerEnded == stage = "returned"

Commit ==
  /\ HandlerEnded
  /\ IF outcome = "success" /\ ~late
     THEN status' = "SUCCESS" /\ stage' = "idle" /\ UNCHANGED <<retries, category>>
     ELSE LET cat == IF late THEN Unclassified(Scoped) ELSE outcome
          IN Settles(cat, MayRetry(cat))
  /\ UNCHANGED <<call, attempts, late, outcome, running, wire, reply, effects>>

\* The process dies.  What it has sent may still be executed.
Crash ==
  /\ stage \in {"calling", "sent", "returned"}
  /\ stage' = "dead" /\ running' = {} /\ outcome' = "none" /\ reply' = NoReply
  /\ UNCHANGED <<call, status, attempts, retries, category, late, wire, effects>>

\* Mutant: the recovering process trusts `idempotent` alone.
RecoveredByFlag == "NONE"

RecoveredAs == Unclassified(Recognised)

\* _recover_rows, once the process is known to have stopped.
Recover ==
  /\ stage = "dead"
  /\ Settles(RecoveredAs, call.idempotent /\ MayRetry(RecoveredAs))
  /\ UNCHANGED <<call, attempts, late, outcome, running, wire, reply, effects>>

\* resolve_task(action='retry'): the operator has verified that the effect has
\* not happened and can no longer happen; the classification is overridden.
OperatorRetry ==
  /\ status = "FAILED" /\ call.idempotent /\ retries < call.limit
  /\ effects = 0 /\ wire = {}
  /\ status' = "RETRYING" /\ retries' = retries + 1 /\ category' = "NONE"
  /\ UNCHANGED <<call, attempts, stage, late, outcome, running, wire, reply, effects>>

----------------------------------------------------------------------------
(* The handlers *)

Returns(o) ==
  /\ stage' = "returned" /\ outcome' = o
  /\ running' = running \ {attempts}
  /\ UNCHANGED <<call, status, attempts, retries, category, late, wire, reply, effects>>

\* Arguments outside the contract of the handler, before anything is done:
\* ValueError, ToolInputError, ToolNotFoundError.
Rejects(kinds) == stage = "calling" /\ call.kind \in kinds /\ Returns("PERMANENT")

RejectPrompt    == Rejects({"llm"})
RejectRequest   == Rejects({"read", "write"})
RejectArguments == Rejects({"tool"})
UnknownTool     == Rejects({"tool", "read", "write"})   \* of the dispatcher

RejectInput == RejectPrompt \/ RejectRequest \/ RejectArguments \/ UnknownTool

ConnectFails(reason) ==
  /\ stage = "calling" /\ call.kind \in Network
  /\ Returns(NoConnection(reason))

SendRequest ==
  /\ stage = "calling" /\ call.kind \in Network
  /\ stage' = "sent" /\ wire' = wire \cup {attempts}
  /\ UNCHANGED <<call, status, attempts, retries, category, late, outcome,
                 running, reply, effects>>

Receive ==
  /\ stage = "sent" /\ reply # NoReply
  /\ Returns(Reads(reply))

\* The client's timeout, a reset connection, a read that breaks off.
LoseAnswer ==
  /\ stage = "sent" /\ call.kind \in Network
  /\ Returns(NoAnswer)

\* The function behind a tool, or ordinary code, does its work.
LocalEffect ==
  /\ stage = "calling" /\ call.kind \in {"tool", "plain"}
  /\ stage' = "sent" /\ effects' = effects + 1
  /\ UNCHANGED <<call, status, attempts, retries, category, late, outcome,
                 running, wire, reply>>

\* An adapter reports ToolTransientError only when it has done nothing; any
\* other exception, and a result that is not JSON, leave the outcome open.
ToolReturns ==
  /\ stage \in {"calling", "sent"} /\ call.kind = "tool"
  /\ \/ \E o \in {"success", "UNCERTAIN"} : Returns(o)
     \/ stage = "calling" /\ Returns("TRANSIENT")

PlainReturns ==
  /\ stage \in {"calling", "sent"} /\ call.kind = "plain"
  /\ \E o \in {"success", "NONE"} : Returns(o)

\* The checks of a model's answer, each a task of its own, look at the saved
\* answer only: an answer that fails a check is no reason to call again.
Checks(kind) ==
  /\ stage = "calling" /\ call.kind = kind
  /\ \E o \in {"success", "PERMANENT"} : Returns(o)

ValidateOutput == Checks("validate")
ParseJson      == Checks("parse")

CheckReturns == ValidateOutput \/ ParseJson

----------------------------------------------------------------------------
(* The other side *)

\* The answer reaches the handler that waits for it.
AnswersTo(n, a) ==
  reply' = IF n = attempts /\ stage = "sent" THEN a ELSE reply

Execute(n) ==
  /\ n \in wire
  /\ wire' = wire \ {n} /\ effects' = effects + 1
  /\ \E a \in Answers :
       /\ call.kind = "llm" => ~NotRun(a.code) /\ a.fault # "quota"
       /\ AnswersTo(n, a)
  /\ UNCHANGED <<call, status, attempts, retries, category, stage, late, outcome, running>>

Decline(n) ==
  /\ n \in wire
  /\ wire' = wire \ {n}
  /\ \E a \in Answers : ~Good(a.code) /\ AnswersTo(n, a)
  /\ UNCHANGED <<call, status, attempts, retries, category, stage, late, outcome,
                 running, effects>>

CallsNext ==
  \/ Begin \/ SoftTimeout \/ Commit \/ Crash \/ Recover \/ OperatorRetry
  \/ RejectInput \/ SendRequest \/ Receive \/ LoseAnswer
  \/ LocalEffect \/ ToolReturns \/ PlainReturns \/ CheckReturns
  \/ \E reason \in Reasons : ConnectFails(reason)
  \/ \E n \in wire : Execute(n) \/ Decline(n)

CallsSpec == CallsInit /\ [][CallsNext]_callVars

----------------------------------------------------------------------------
(* Properties *)

CallsTypeOK ==
  /\ call \in Calls
  /\ status \in {"PENDING", "RUNNING", "RETRYING", "SUCCESS", "FAILED"}
  /\ attempts \in Nat /\ retries \in 0..MaxLimit
  /\ category \in {"NONE", "PERMANENT", "TRANSIENT", "UNCERTAIN"}
  /\ stage \in {"idle", "calling", "sent", "returned", "dead"}
  /\ late \in BOOLEAN
  /\ outcome \in {"none", "success", "NONE", "PERMANENT", "TRANSIENT", "UNCERTAIN"}
  /\ running \subseteq 1..attempts /\ wire \subseteq 1..attempts
  /\ reply \in [code : Codes \cup {0}, fault : {"none", "body", "quota"}]
  /\ effects \in Nat

Effectful == {"llm", "write", "tool"}

\* No interruption lets the engine take the call for ordinary code.
Protected == Recognised \/ ~call.idempotent

\* A model call, a web request that changes something and a tool are never
\* made twice by the engine: whatever is lost, delayed or interrupted, and
\* whatever the budget, the effect happens at most once (failures.py,
\* retry.py:100).  A handler that the recovering process does not recognise
\* is an ordinary task to it, executed again when declared idempotent.
EffectsHappenOnce == Protected /\ call.kind \in Effectful => effects <= 1

\* The reports a caller acts on: a model call that ended with a permanent or a
\* transient failure has not happened, and will not happen any more.
FailuresAreTold ==
  Protected /\ call.kind = "llm" /\ category \in {"PERMANENT", "TRANSIENT"}
    => effects = 0 /\ wire = {}

\* The calls of one task never overlap, also when one is given up because of
\* its soft timeout and the next is started at once (persistence.py:690).
OneCallAtATime == Cardinality(running) <= 1

\* docs/llm_workflows.md:218: a built-in handler keeps its classification
\* under another name, and `idempotent=True` does not let an uncertain model
\* call be repeated automatically.
ModelCalledOnce == call.kind = "llm" => effects <= 1
=============================================================================
