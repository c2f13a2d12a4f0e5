---- MODULE ToolExecutor ----
(***************************************************************************)
(* One Execute call of internal/tools/tool_executor.go: its attempts, the  *)
(* backoff between them and what reaches the gateway.                      *)
(*                                                                         *)
(* The gateway is the environment. It may run a tool whose answer is lost, *)
(* and may run it after the client gave the request up. An error keeps the *)
(* phrase of its text isRetryable looks for; durations are left out, so a  *)
(* backoff is a state the timer or the context ends.                       *)
(***************************************************************************)
EXTENDS Integers

CONSTANTS
  MaxRetries,      \* executor.max_retries, 0 or less for the default
  ResultLimit,     \* tools.result_limits of the tool, 0 or less for the default
  DefaultLimit,    \* 3000
  SuffixSize,      \* length of "\n... [truncated: N chars omitted]"
  RawSizes,        \* lengths a result can have
  Failures         \* the ways an attempt fails in this instance

\* How an attempt fails, with the phrase in its error text ("" for none).
\* A dial that times out says "i/o timeout"; a gateway that does not answer
\* in time ends in "Client.Timeout exceeded", a done context in "context
\* deadline exceeded" or "context canceled": no phrase the code looks for.
Phrase ==
  [refused |-> "connection refused", dial_timeout |-> "timeout",
   reset |-> "connection reset", client_timeout |-> "", ctx_done |-> "",
   http_5xx |-> "HTTP 5", http_4xx |-> "", http_4xx_timeout |-> "timeout",
   tool_error |-> "", tool_error_timeout |-> "timeout", garbled |-> ""]

\* After these the gateway has not run the tool and never will.
NeverRan == {"refused", "dial_timeout", "http_4xx", "http_4xx_timeout"}

\* After these the request may still be on its way to the tool.
MayRunLater == {"reset", "client_timeout", "ctx_done"}

ASSUME ToolAssumption ==
  /\ MaxRetries \in Int /\ ResultLimit \in Int
  /\ DefaultLimit \in Nat /\ SuffixSize \in Nat /\ RawSizes \subseteq Nat
  /\ "ctx_done" \in Failures /\ Failures \subseteq DOMAIN Phrase

VARIABLES
  phase,     \* "ready", "invoke", "backoff" or "returned"
  attempt,   \* the loop variable of executeWithRetry
  failed,    \* the failures of the attempts so far (lastErr and its history)
  request,   \* the current request: "unsent", "sent" or "ran" by the gateway
  runs,      \* times the gateway ran the tool
  astray,    \* requests given up that the gateway may still run
  result,    \* what Execute returned: "none", "ok" or "error"
  size,      \* length of the result returned
  ctxDone    \* the run's context is done

vars == <<phase, attempt, failed, request, runs, astray, result, size, ctxDone>>

maxAttempts == IF MaxRetries <= 0 THEN 3 ELSE MaxRetries

isRetryable(f) ==
  Phrase[f] \in {"HTTP 5", "connection refused", "connection reset", "timeout"}

\* The length of truncateResult's value.
truncateResult(n) ==
  LET limit == IF ResultLimit > 0 THEN ResultLimit ELSE DefaultLimit
  IN IF n <= limit THEN n ELSE limit + SuffixSize

TypeOK ==
  /\ phase \in {"ready", "invoke", "backoff", "returned"}
  /\ attempt \in 0..maxAttempts-1
  /\ failed \in SUBSET Failures
  /\ request \in {"unsent", "sent", "ran"}
  /\ ctxDone \in BOOLEAN
  /\ runs \in Nat /\ astray \in Nat
  /\ result \in {"none", "ok", "error"}
  /\ size \in Nat

Init ==
  /\ phase = "ready" /\ attempt = 0 /\ failed = {}
  /\ request = "unsent" /\ runs = 0 /\ astray = 0
  /\ result = "none" /\ size = 0 /\ ctxDone = FALSE

----
\* Mutants: one attempt too many; every failure counts as transient.
triesOnceMore(f) == isRetryable(f) /\ attempt + 1 <= maxAttempts
triesAnything(f) == attempt + 1 < maxAttempts

\* A retryable failure is retried while attempts are left.
triesAgain(f) == isRetryable(f) /\ attempt + 1 < maxAttempts

\* Mutant: an error is swallowed.
ReturnNoError(r) == phase' = "returned" /\ result' = "ok"

Return(r) == phase' = "returned" /\ result' = r

\* The first Invoke follows the caller's look at the context.
Execute ==
  /\ phase = "ready" /\ ~ctxDone
  /\ phase' = "invoke" /\ request' = "sent"
  /\ UNCHANGED <<attempt, failed, runs, astray, result, size, ctxDone>>

\* The gateway runs the tool for the request in flight.
GatewayRuns ==
  /\ phase = "invoke" /\ request = "sent"
  /\ request' = "ran" /\ runs' = runs + 1
  /\ UNCHANGED <<phase, attempt, failed, astray, result, size, ctxDone>>

\* The gateway gets round to a request the client gave up.
GatewayRunsLate ==
  /\ astray > 0 /\ astray' = astray - 1 /\ runs' = runs + 1
  /\ UNCHANGED <<phase, attempt, failed, request, result, size, ctxDone>>

InvokeSucceeds ==
  /\ phase = "invoke" /\ request = "ran" /\ ~ctxDone
  /\ \E n \in RawSizes : size' = truncateResult(n)
  /\ Return("ok")
  /\ UNCHANGED <<attempt, failed, request, runs, astray, ctxDone>>

\* A retryable failure backs off while attempts are left, any other ends
\* the call. With the context done only the context's error remains.
InvokeFails(f) ==
  /\ phase = "invoke"
  /\ ctxDone <=> f = "ctx_done"
  /\ f \in NeverRan => request # "ran"
  /\ failed' = failed \cup {f}
  /\ astray' = IF f \in MayRunLater /\ request = "sent" THEN astray + 1 ELSE astray
  /\ IF triesAgain(f) THEN phase' = "backoff" /\ UNCHANGED result ELSE Return("error")
  /\ UNCHANGED <<attempt, request, runs, size, ctxDone>>

\* Mutants: a retry is not counted; a retry does not carry the run's context.
BackoffEndsUncounted ==
  /\ phase = "backoff"
  /\ phase' = "invoke" /\ request' = IF ctxDone THEN "unsent" ELSE "sent"
  /\ UNCHANGED <<attempt, failed, runs, astray, result, size, ctxDone>>
BackoffEndsDetached ==
  /\ phase = "backoff"
  /\ phase' = "invoke" /\ attempt' = attempt + 1 /\ request' = "sent"
  /\ UNCHANGED <<failed, runs, astray, result, size, ctxDone>>

\* select: the timer may win although the context is done as well; the
\* transport then refuses to send the request.
BackoffEnds ==
  /\ phase = "backoff"
  /\ phase' = "invoke" /\ attempt' = attempt + 1
  /\ request' = IF ctxDone THEN "unsent" ELSE "sent"
  /\ UNCHANGED <<failed, runs, astray, result, size, ctxDone>>

\* Mutant: the backoff ends the call whether or not the context is done.
BackoffCancelledAlways ==
  /\ phase = "backoff" /\ Return("error")
  /\ UNCHANGED <<attempt, failed, request, runs, astray, size, ctxDone>>

BackoffCancelled ==
  /\ phase = "backoff" /\ ctxDone
  /\ Return("error")
  /\ UNCHANGED <<attempt, failed, request, runs, astray, size, ctxDone>>

Expire ==
  /\ phase # "returned" /\ ~ctxDone /\ ctxDone' = TRUE
  /\ UNCHANGED <<phase, attempt, failed, request, runs, astray, result, size>>

Step ==
  \/ InvokeSucceeds \/ \E f \in Failures : InvokeFails(f)
  \/ BackoffEnds \/ BackoffCancelled

Next == Execute \/ Step \/ GatewayRuns \/ GatewayRunsLate \/ Expire

\* The gateway's HTTP client has a timeout and the backoff is a timer.
Spec == Init /\ [][Next]_vars /\ WF_vars(Step)

----
\* A tool is run at most once for each attempt, the requests still astray
\* included, so never more than maxAttempts times for one intent.
RunsBounded == runs + astray <= IF phase = "ready" THEN 0 ELSE attempt + 1

\* The tool is run twice for one intent only after a retryable failure that
\* leaves open whether it ran: no refused connection, dial timeout or 4xx
\* answer, however often retried, repeats a write or a command.
RepeatNeedsLostAnswer ==
  runs + astray > 1 => \E f \in failed : isRetryable(f) /\ f \notin NeverRan

\* Execute fails with attempts left only for a failure it must not retry or
\* because the run is over; and no attempt follows such a failure.
GivesUpForAReason ==
  LET hopeless == \E f \in failed : ~isRetryable(f)
  IN /\ result = "error" => hopeless \/ ctxDone \/ attempt + 1 = maxAttempts
     /\ hopeless => phase = "returned"

\* Once the context is done no further request leaves for the gateway.
NothingSentWhenDone == [][ctxDone /\ request' = "sent" => request = "sent"]_vars

\* isRetryable's comment: a timeout is transient, retried while attempts
\* are left.
TimeoutsAreRetried ==
  result = "error" /\ failed \subseteq {"client_timeout", "dial_timeout"}
    => ctxDone \/ attempt + 1 = maxAttempts

\* The attempts, seen from the loop that asked for the tool.
Call == INSTANCE ToolCall WITH
  MaxRuns <- maxAttempts,
  status <- IF phase = "ready" THEN "idle"
            ELSE IF phase = "returned" THEN result ELSE "open"

KeepsCallContract == Call!Spec

====
