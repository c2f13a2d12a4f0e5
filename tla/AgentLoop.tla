---- MODULE AgentLoop ----
(***************************************************************************)
(* One run of the ReAct agentic loop: Executor.Run of                      *)
(* internal/executor/executor.go, with the gpt-oss endpoint, the gateway's *)
(* tool calls and the run's deadline as its environment.                   *)
(*                                                                         *)
(* A text the model sends is a member of Texts: Empty is "", a member of   *)
(* Blanks trims to "". Parse says which tools the intent parser finds in a *)
(* text, in order; IntentParser models how. A tool call is one step with   *)
(* the two results Execute can have; ToolExecutor models its attempts.     *)
(***************************************************************************)
EXTENDS ContextWindow, RunErrors

CONSTANTS
  MaxIterations,   \* executor.max_iterations
  SourceField,     \* parser.source_field
  FallbackField,   \* parser.fallback_field
  Texts,           \* what a reply's content and reasoning can be
  Blanks,          \* those of Texts that trim to ""
  Empty,           \* ""
  TextSize,        \* TextSize[t] is the length of t
  Tools,           \* canonical tool names
  Parse,           \* Parse[t] is the sequence of tools the parser finds in t
  Inputs,          \* conversations clients post
  ResultSizes,     \* lengths a tool result message can have
  FailureSizes,    \* lengths a tool failure message can have
  ErrorLogging     \* whether an ErrorLogger is configured

\* config.Validate refuses max_iterations < 1; the rest is typing.
ASSUME LoopAssumption ==
  /\ MaxIterations \in Nat \ {0}
  /\ Empty \in Blanks /\ Blanks \subseteq Texts
  /\ TextSize \in [Texts -> Nat]
  /\ Parse \in [Texts -> Seq(Tools)]
  /\ Inputs \subseteq Conversation
  /\ ResultSizes \subseteq Nat /\ FailureSizes \subseteq Nat
  /\ ErrorLogging \in BOOLEAN

VARIABLES
  pc,            \* where Run is
  iteration,     \* the loop variable iterations
  messages,      \* the conversation history
  intents,       \* the intents of the current reply
  next,          \* index of the intent to execute next
  lastContent,   \* newest content that is not blank
  outcome,       \* what Run returned
  ctxDone,       \* runCtx is done: deadline passed or client gone
  calls,         \* requests sent to gpt-oss so far
  errlog,        \* iteration and tool of each failure written to the error log
  said,          \* contents of the replies so far (history variable)
  input          \* the conversation the client posted

vars == <<pc, iteration, messages, intents, next, lastContent, outcome,
          ctxDone, calls, errlog, said, input>>

Outcome == [status : {"running", "answered", "failed"}, answer : Texts,
            code : Codes, iterations : Nat]
Running == [status |-> "running", answer |-> Empty, code |-> NoCode, iterations |-> 0]
Answered(a, n) == [Running EXCEPT !.status = "answered", !.answer = a, !.iterations = n]
Failed(code) == [Running EXCEPT !.status = "failed", !.code = code]

TypeOK ==
  /\ pc \in {"top", "call", "pause", "tools", "exec", "done"}
  /\ iteration \in 0..MaxIterations
  /\ messages \in Seq(Message)
  /\ intents \in Seq(Tools)
  /\ next \in Nat \ {0}
  /\ lastContent \in Texts
  /\ outcome \in Outcome
  /\ ctxDone \in BOOLEAN
  /\ calls \in Nat
  /\ errlog \in Seq(Nat \X Tools)
  /\ said \in Seq(Texts)
  /\ input \in Inputs

Init ==
  /\ pc = "top" /\ iteration = 0
  /\ input \in Inputs
  /\ messages = buildInitialMessages(input)
  /\ intents = << >> /\ next = 1
  /\ lastContent = Empty /\ outcome = Running
  /\ ctxDone = FALSE /\ calls = 0
  /\ errlog = << >> /\ said = << >>

----
IsBlank(t) == t \in Blanks

\* The text the parser analyses.
selectParseSource(reasoning, content) ==
  IF SourceField # "reasoning" \/ (IsBlank(reasoning) /\ FallbackField = "content")
  THEN content
  ELSE IF IsBlank(reasoning) THEN Empty ELSE reasoning

\* The newest message survives every compaction, so its id is the largest.
Said(role, size) ==
  Append(messages, [role |-> role, size |-> size,
                    id |-> messages[Len(messages)].id + 1])

Return(result) == pc' = "done" /\ outcome' = result

\* Mutants of Finish: no check that there is an answer; no answer salvaged.
FinishUnchecked(a, last) == Return(Answered(a, iteration + 1))
FinishNoSalvage(a, last) ==
  Return(IF a # Empty THEN Answered(a, iteration + 1) ELSE Failed(MaxIterationsExceeded))

\* The end of Run after the loop, entered with answer a by a break or by
\* the loop's condition, and with the lastContent of that moment.
Finish(a, last) ==
  IF a # Empty THEN Return(Answered(a, iteration + 1))
  ELSE IF last # Empty THEN Return(Answered(last, iteration + 1))
  ELSE Return(Failed(MaxIterationsExceeded))

\* Mutant: the body counts the iteration as well.
ContinueCountingTwice == pc' = "top" /\ iteration' = iteration + 2

\* continue: the loop's post statement.
Continue == pc' = "top" /\ iteration' = iteration + 1

----
(* The head of the loop. *)

Exhaust ==
  /\ pc = "top" /\ iteration = MaxIterations
  /\ Finish(Empty, lastContent)
  /\ UNCHANGED <<iteration, messages, intents, next, lastContent, ctxDone, calls, errlog, said, input>>

StopAtTop ==
  /\ pc = "top" /\ iteration < MaxIterations /\ ctxDone
  /\ Return(Failed(TimeoutExceeded))
  /\ UNCHANGED <<iteration, messages, intents, next, lastContent, ctxDone, calls, errlog, said, input>>

StartCall ==
  /\ pc = "top" /\ iteration < MaxIterations /\ ~ctxDone
  /\ messages' = manageContext(messages)
  /\ pc' = "call" /\ calls' = calls + 1
  /\ UNCHANGED <<iteration, intents, next, lastContent, outcome, ctxDone, errlog, said, input>>

----
(* The answer of gpt-oss. An answer that arrives before the context is     *)
(* done is a step before Expire: nothing else in the run looks at the      *)
(* context in between, so after Expire only the transport's errors remain. *)

\* Mutant: a transient failure is retried without counting the iteration.
CallFailsForFree ==
  /\ pc = "call"
  /\ \E e \in IF ctxDone THEN CallErrorsWhenDone ELSE CallErrors :
       IF IsTransientError(e) /\ ~isContextWindowExceeded(e)
       THEN pc' = "top" /\ UNCHANGED outcome ELSE Return(Failed(e.code))
  /\ UNCHANGED <<iteration, messages, intents, next, lastContent, ctxDone, calls, errlog, said, input>>

CallFails ==
  /\ pc = "call"
  /\ \E e \in IF ctxDone THEN CallErrorsWhenDone ELSE CallErrors :
       IF isContextWindowExceeded(e)
       THEN Return(Failed(ContextWindowExceeded)) /\ UNCHANGED iteration
       ELSE IF IsTransientError(e)
       THEN Continue /\ UNCHANGED outcome
       ELSE Return(Failed(e.code)) /\ UNCHANGED iteration
  /\ UNCHANGED <<messages, intents, next, lastContent, ctxDone, calls, errlog, said, input>>

NoChoices ==
  /\ pc = "call" /\ ~ctxDone
  /\ pc' = "pause"
  /\ UNCHANGED <<iteration, messages, intents, next, lastContent, outcome, ctxDone, calls, errlog, said, input>>

Reply(content, reasoning) ==
  LET last == IF IsBlank(content) THEN lastContent ELSE content
      source == selectParseSource(reasoning, content)
  IN /\ pc = "call" /\ ~ctxDone
     /\ lastContent' = last
     /\ messages' = Said("assistant", TextSize[content])
     /\ said' = Append(said, content)
     /\ \/ /\ IsBlank(source) /\ IsBlank(content)
           /\ pc' = "pause" /\ UNCHANGED <<intents, next, outcome>>
        \/ /\ IsBlank(source) /\ ~IsBlank(content)
           /\ Return(Answered(content, iteration + 1)) /\ UNCHANGED <<intents, next>>
        \/ /\ ~IsBlank(source) /\ Parse[source] = << >>
           /\ Finish(content, last) /\ UNCHANGED <<intents, next>>
        \/ /\ ~IsBlank(source) /\ Parse[source] # << >>
           /\ pc' = "tools" /\ intents' = Parse[source] /\ next' = 1
           /\ UNCHANGED outcome
     /\ UNCHANGED <<iteration, ctxDone, calls, errlog, input>>

\* The half second after an empty reply; when the timer and the context are
\* both ready select may take either.
PauseEnds ==
  /\ pc = "pause" /\ Continue
  /\ UNCHANGED <<messages, intents, next, lastContent, outcome, ctxDone, calls, errlog, said, input>>

\* Mutant: the pause ends the run whichever of timer and context is ready.
StopInPauseAlways ==
  /\ pc = "pause" /\ Return(Failed(TimeoutExceeded))
  /\ UNCHANGED <<iteration, messages, intents, next, lastContent, ctxDone, calls, errlog, said, input>>

StopInPause ==
  /\ pc = "pause" /\ ctxDone
  /\ Return(Failed(TimeoutExceeded))
  /\ UNCHANGED <<iteration, messages, intents, next, lastContent, ctxDone, calls, errlog, said, input>>

----
(* The tools of a reply, one after the other. *)

StopBeforeTool ==
  /\ pc = "tools" /\ ctxDone
  /\ Return(Failed(TimeoutExceeded))
  /\ UNCHANGED <<iteration, messages, intents, next, lastContent, ctxDone, calls, errlog, said, input>>

\* Mutant: the context is not looked at before each tool.
StartToolUnchecked ==
  /\ pc = "tools" /\ pc' = "exec"
  /\ UNCHANGED <<iteration, messages, intents, next, lastContent, outcome, ctxDone, calls, errlog, said, input>>

StartTool ==
  /\ pc = "tools" /\ ~ctxDone
  /\ pc' = "exec"
  /\ UNCHANGED <<iteration, messages, intents, next, lastContent, outcome, ctxDone, calls, errlog, said, input>>

\* On to the next intent, or out of the inner loop and round the outer one.
AfterTool ==
  IF next < Len(intents)
  THEN pc' = "tools" /\ next' = next + 1 /\ UNCHANGED <<iteration, intents>>
  ELSE Continue /\ intents' = << >> /\ next' = 1

ToolSucceeds ==
  /\ pc = "exec"
  /\ \E size \in ResultSizes : messages' = Said("tool", size)
  /\ AfterTool
  /\ UNCHANGED <<lastContent, outcome, ctxDone, calls, errlog, said, input>>

\* Mutants: a failed tool ends the run; the model is not told of the failure.
ToolFailsTheRun ==
  /\ pc = "exec" /\ Return(Failed(ToolExecutionFailed))
  /\ UNCHANGED <<iteration, messages, intents, next, lastContent, ctxDone, calls, errlog, said, input>>
ToolFailsUntold ==
  /\ pc = "exec" /\ AfterTool
  /\ UNCHANGED <<messages, lastContent, outcome, ctxDone, calls, errlog, said, input>>

\* The model is told of the failure and the run goes on.
ToolFails ==
  /\ pc = "exec"
  /\ \E size \in FailureSizes : messages' = Said("tool", size)
  /\ errlog' = IF ErrorLogging
               THEN Append(errlog, <<iteration + 1, intents[next]>>) ELSE errlog
  /\ AfterTool
  /\ UNCHANGED <<lastContent, outcome, ctxDone, calls, said, input>>

----
\* RunTimeoutSeconds pass, or the client's request context is cancelled.
Expire ==
  /\ pc # "done" /\ ~ctxDone
  /\ ctxDone' = TRUE
  /\ UNCHANGED <<pc, iteration, messages, intents, next, lastContent, outcome, calls, errlog, said, input>>

Step ==
  \/ Exhaust \/ StopAtTop \/ StartCall
  \/ CallFails \/ NoChoices \/ PauseEnds \/ StopInPause
  \/ StopBeforeTool \/ StartTool \/ ToolSucceeds \/ ToolFails
  \/ \E content, reasoning \in Texts : Reply(content, reasoning)

Next == Step \/ Expire

\* Both HTTP clients have a timeout and the pause is a timer, so Run takes
\* its next step sooner or later. Nothing makes the deadline pass.
Spec == Init /\ [][Next]_vars /\ WF_vars(Step)

----
(* Safety. *)

\* The run keeps to max_iterations: every iteration sends one request, the
\* one that failed or came back empty included, and an answer reports the
\* requests sent, one more when it was salvaged from an exhausted loop.
BudgetKept ==
  /\ calls <= MaxIterations
  /\ pc = "top" => calls = iteration
  /\ pc \in {"call", "pause", "tools", "exec"} => calls = iteration + 1
  /\ outcome.status = "answered" =>
       \/ outcome.iterations = calls
       \/ outcome.iterations = calls + 1 /\ calls = MaxIterations

\* t is the newest content of the run that is not blank.
NewestWord(t) ==
  \E i \in DOMAIN said : /\ said[i] = t /\ ~IsBlank(t)
                        /\ \A j \in DOMAIN said : j > i => IsBlank(said[j])

\* An answer is something the model said: the content of its last reply, or
\* when that had none, the newest content that is not blank. A run that kept
\* content never answers with an older one.
AnswerIsNewestWord ==
  outcome.status = "answered" =>
    /\ outcome.answer # Empty
    /\ \/ NewestWord(outcome.answer)
       \/ said # << >> /\ outcome.answer = said[Len(said)]

\* A run fails with ErrMaxIterations only when the model never said
\* anything: no reply of the whole run had content that is not blank.
GaveUpSilent ==
  outcome.code = MaxIterationsExceeded =>
    \A i \in DOMAIN said : IsBlank(said[i])

\* ErrRunTimeout is never made up: the context was done.
TimeoutIsHonest == outcome.code = TimeoutExceeded => ctxDone

\* While a reply's tools run, the history ends with that reply and then one
\* tool message for each intent already executed, so the model reads every
\* result and every failure, in order, right after the turn that asked.
TurnIsRecorded ==
  pc \in {"tools", "exec"} =>
    /\ next <= Len(intents) /\ Len(messages) >= next
    /\ messages[Len(messages) - next + 1].role = "assistant"
    /\ \A k \in 1..next-1 : messages[Len(messages) - next + 1 + k].role = "tool"

\* Compaction and truncation never reorder or repeat a message.
HistoryInOrder ==
  \A i, j \in DOMAIN messages : i < j => messages[i].id < messages[j].id

\* The message compaction promises to keep is the first user message, which
\* carries the system prompt. It is kept when the conversation starts with
\* it, after at most one system message.
StartsWithUser(conversation) ==
  \/ IsFirstUser(conversation, 1)
  \/ /\ Len(conversation) > 1 /\ IsFirstUser(conversation, 2)
     /\ conversation[1].role = "system"

FirstUserKept ==
  \A i \in 1..2 :
    StartsWithUser(input) /\ i \in DOMAIN input /\ IsFirstUser(input, i)
      => \E k \in DOMAIN messages : messages[k].id = i

\* Run, iteration and tool name one failure: no two entries of a run's error
\* log share them, although a reply may name a tool more than once.
FailureNamedOnce ==
  \A i, j \in DOMAIN errlog : errlog[i] = errlog[j] => i = j

----
(* What comments and tests of the repository say, and the code does not do. *)

\* Run "enforces RunTimeoutSeconds as an overall deadline", ErrRunTimeout "is
\* returned when the overall run deadline is exceeded".
ExpiredRunTimesOut ==
  outcome.status = "failed" /\ ctxDone => outcome.code = TimeoutExceeded

\* A loop that spends its whole budget calling tools "must exhaust and return
\* ErrMaxIterations".
ExhaustedRunFails ==
  pc = "done" /\ iteration = MaxIterations => outcome.code = MaxIterationsExceeded

----
(* Steps. *)

\* Once the context is done the run starts nothing new: no request to the
\* model, no tool.
NoWorkWhenDone ==
  [][ctxDone => calls' = calls /\ ~(pc = "tools" /\ pc' = "exec")]_vars

----
(* The abstract specification. *)

\* The outcome without the iteration count, which BudgetKept ties to calls.
Promised == [status |-> outcome.status, answer |-> outcome.answer, code |-> outcome.code]

Contract == INSTANCE RunContract WITH
  MaxCalls <- MaxIterations, MayRefuse <- FALSE, outcome <- Promised

\* Every behaviour of the loop is one the contract allows, its end included.
KeepsContract == Contract!Spec

====
