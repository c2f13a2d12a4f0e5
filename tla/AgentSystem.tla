---- MODULE AgentSystem ----
(***************************************************************************)
(* The agentic loop together with the tool executor and the gateway: each  *)
(* tool of a reply is a whole Execute call, with its attempts, its backoff *)
(* and its lost answers, and the gateway may get round to a request after  *)
(* the run has gone on to other tools or has returned.                     *)
(***************************************************************************)
EXTENDS Integers, Sequences, FiniteSets

CONSTANTS
  PromptSize, TruncAt, CompactAt, MaxToolResult, CompactedSuffix,
  MaxIterations, SourceField, FallbackField, Texts, Blanks, Empty, TextSize,
  Tools, Parse, Inputs, ResultSizes, FailureSizes, ErrorLogging,
  MaxRetries, ResultLimit, DefaultLimit, SuffixSize, RawSizes, Failures,
  HeaderSize    \* length of what Run puts before a tool's result

VARIABLES
  pc, iteration, messages, intents, next, lastContent, outcome, ctxDone, calls,
  errlog, said, input,                                         \* AgentLoop
  phase, attempt, failed, request, runs, astray, result, size, \* ToolExecutor
  late,      \* requests of earlier calls the gateway may still run
  effects,   \* the call of each run of a tool, in order (history variable)
  lost,      \* the calls that gave up a request in flight (history variable)
  told       \* the call and result of each report to the model (history variable)

Loop == INSTANCE AgentLoop
Tool == INSTANCE ToolExecutor

\* What the executor assumes of its constants, and that the loop's results
\* are the executor's with a header.
ASSUME SystemAssumption ==
  /\ MaxRetries \in Int /\ ResultLimit \in Int
  /\ DefaultLimit \in Nat /\ SuffixSize \in Nat /\ RawSizes \subseteq Nat
  /\ "ctx_done" \in Failures /\ Failures \subseteq DOMAIN Tool!Phrase
  /\ HeaderSize \in Nat
  /\ \A n \in RawSizes : Tool!truncateResult(n) + HeaderSize \in ResultSizes

loopVars == <<pc, iteration, messages, intents, next, lastContent, outcome,
              ctxDone, calls, errlog, said, input>>
toolVars == <<phase, attempt, failed, request, runs, astray, result, size>>
history == <<late, effects, lost, told>>
vars == <<loopVars, toolVars, history>>

Init ==
  /\ Loop!Init /\ Tool!Init
  /\ late = {} /\ effects = << >> /\ lost = {} /\ told = << >>

\* The tool call being made, named by its place in the run.
Call == <<iteration, next>>

Before(c, d) == c[1] < d[1] \/ (c[1] = d[1] /\ c[2] < d[2])

----
\* What the loop does between tool calls.
LoopStep ==
  /\ \/ Loop!Exhaust \/ Loop!StopAtTop \/ Loop!StartCall
     \/ Loop!CallFails \/ Loop!NoChoices \/ Loop!PauseEnds \/ Loop!StopInPause
     \/ Loop!StopBeforeTool
     \/ \E content, reasoning \in Texts : Loop!Reply(content, reasoning)
  /\ UNCHANGED <<toolVars, history>>

\* Execute is entered, and sends its first request, right after the look at
\* the context.
BeginTool ==
  /\ Loop!StartTool
  /\ phase' = "invoke" /\ request' = "sent"
  /\ UNCHANGED <<attempt, failed, runs, astray, result, size, history>>

\* A step of executeWithRetry.
ToolStep ==
  /\ pc = "exec" /\ Tool!Step
  /\ lost' = IF astray' > astray THEN lost \cup {Call} ELSE lost
  /\ UNCHANGED <<loopVars, late, effects, told>>

\* Each Execute has variables of its own.
Forget ==
  /\ phase' = "ready" /\ attempt' = 0 /\ failed' = {} /\ request' = "unsent"
  /\ runs' = 0 /\ astray' = 0 /\ result' = "none" /\ size' = 0

\* The end of a call: what is still astray may run later.
Leave ==
  /\ Forget
  /\ late' = late \cup ({Call} \X (1..astray))
  /\ told' = Append(told, [call |-> Call, result |-> result, failed |-> failed])
  /\ UNCHANGED <<effects, lost>>

\* Mutant: Run does not wait for an Execute that backs off.
ExecuteEndsEarly ==
  /\ \/ phase = "returned" /\ result = "ok" /\ Loop!ToolSucceeds
     \/ phase \in {"backoff", "returned"} /\ result # "ok" /\ Loop!ToolFails
  /\ Forget
  /\ late' = late \cup ({Call} \X (1..astray + 1))
  /\ told' = Append(told, [call |-> Call, result |-> "error", failed |-> failed])
  /\ UNCHANGED <<effects, lost>>

\* Execute returns: Run tells the model and goes on.
ExecuteEnds ==
  /\ phase = "returned"
  /\ \/ /\ result = "ok" /\ Loop!ToolSucceeds
        /\ messages'[Len(messages')].size = size + HeaderSize
     \/ result = "error" /\ Loop!ToolFails
  /\ Leave

----
(* The environment: the gateway, and the run's context.                    *)

GatewayRuns ==
  /\ pc = "exec" /\ (Tool!GatewayRuns \/ Tool!GatewayRunsLate)
  /\ effects' = Append(effects, Call)
  /\ UNCHANGED <<loopVars, late, lost, told>>

\* The gateway gets round to a request of a call that has returned.
GatewayRunsLater ==
  /\ \E r \in late : late' = late \ {r} /\ effects' = Append(effects, r[1])
  /\ UNCHANGED <<loopVars, toolVars, lost, told>>

Expire == Loop!Expire /\ UNCHANGED <<toolVars, history>>

Step == LoopStep \/ BeginTool \/ ToolStep \/ ExecuteEnds

Next == Step \/ GatewayRuns \/ GatewayRunsLater \/ Expire

\* A run is one goroutine; every wait in it has a timeout. The gateway owes
\* nothing: it may never run a request.
Spec == Init /\ [][Next]_vars /\ WF_vars(Step)

----
\* Tools take effect in the order the model asked for them. One that takes
\* effect after a later call's did so because its answer was lost: the
\* loop never goes on while a request it counts on is in flight.
EffectsInOrder ==
  \A i, j \in DOMAIN effects :
    i < j /\ Before(effects[j], effects[i]) => effects[j] \in lost

\* What the model is told is true, and stays so: a result it reads belongs
\* to a tool that ran; a call whose every attempt was turned away has no
\* effect, however late; and no call has more effects than it had attempts.
ReportsAreTrue ==
  LET Of(call) == {i \in DOMAIN effects : effects[i] = call}
  IN \A k \in DOMAIN told :
       /\ told[k].result = "ok" => Of(told[k].call) # {}
       /\ told[k].result = "error" /\ told[k].failed \subseteq Tool!NeverRan
            => Of(told[k].call) = {}
       /\ Cardinality(Of(told[k].call)) <= Tool!maxAttempts

\* Every behaviour of the whole is one of the loop, in which a tool call is
\* a single step that always comes: the attempts and the gateway's delays
\* never hold a run up for good.
ImplementsLoop == Loop!Spec

====
