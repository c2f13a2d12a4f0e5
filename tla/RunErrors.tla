---- MODULE RunErrors ----
(***************************************************************************)
(* The errors a gpt-oss call can end with and how the executor reads them: *)
(* internal/errors/errors.go and the two string tests of executor.go.      *)
(*                                                                         *)
(* An error chain is abstracted to the code of its first ExecutorError     *)
(* (NoCode for a plain error) and to the phrases its text contains that    *)
(* the code tests for.                                                     *)
(***************************************************************************)
EXTENDS Naturals

NoCode == "none"
GptOssUnreachable == "gpt_oss_unreachable"
MaxIterationsExceeded == "max_iterations_exceeded"
TimeoutExceeded == "timeout_exceeded"
ContextWindowExceeded == "context_window_exceeded"
ToolExecutionFailed == "tool_execution_failed"

Codes == {NoCode, GptOssUnreachable, MaxIterationsExceeded, TimeoutExceeded,
          ContextWindowExceeded, ToolExecutionFailed}

\* "HTTP 400" and the two spellings of a context overflow.
Phrases == {"HTTP 400", "context length"}

ExecutorError == [code : Codes, says : SUBSET Phrases]

\* Wrap keeps the text of its cause: Error() prints the cause.
Wrap(code, cause) == [cause EXCEPT !.code = code]

----
(* The ways callGptOss fails. *)

\* The text of what vLLM or the transport said, before it is classified.
Plain(phrases) == [code |-> NoCode, says |-> phrases]

\* httpClient.Do failed, the end of the run's context included.
DoFailed == Wrap(GptOssUnreachable, Plain({}))

\* The body could not be read, or is not the JSON expected.
BadBody == Plain({})

\* Any status but 200 and 400; the body may speak of the context length.
OtherStatus(phrases) == Wrap(GptOssUnreachable, Plain(phrases))

\* HTTP 400: a context overflow by its body, garbled reasoning otherwise.
BadRequest(phrases) ==
  IF "context length" \in phrases
  THEN Wrap(ContextWindowExceeded, Plain({"HTTP 400"} \cup phrases))
  ELSE Plain({"HTTP 400"})

\* What a call can end with while the run's context is alive, and after.
CallErrors ==
  {DoFailed, BadBody}
    \cup {OtherStatus(p) : p \in SUBSET {"context length"}}
    \cup {BadRequest(p) : p \in SUBSET {"context length"}}

CallErrorsWhenDone == {DoFailed, BadBody}

----
(* How a failed call is read. *)

IsContextWindowError(e) == e.code = ContextWindowExceeded

isContextWindowExceeded(e) ==
  IsContextWindowError(e) \/ "context length" \in e.says

IsTransientError(e) == e.code \in {GptOssUnreachable, ToolExecutionFailed}

isVLLMBadRequest(e) == "HTTP 400" \in e.says

====
