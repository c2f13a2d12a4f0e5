---- MODULE AgentSystemProofs ----
(***************************************************************************)
(* The loop with its tools: for any parser, any failures and any number of *)
(* attempts, in which order tools take effect, that the whole is a run of  *)
(* AgentLoop, and that what the model is told of a call is so. Order and   *)
(* refinement assume nothing of the constants; the reports assume what the *)
(* executor does of its own (SystemAssumption).                            *)
(***************************************************************************)
EXTENDS AgentSystem, FiniteSetTheorems, TLAPS

TP == INSTANCE ToolExecutorProofs

----
(* The whole implements the loop.                                          *)

\* What the executor and the gateway do between a tool's start and its end
\* leaves the loop alone; every other step is the loop's own.
LEMMA StepIsLoops == ASSUME [Next]_vars PROVE [Loop!Next]_(Loop!vars)
<1>1. CASE LoopStep
  BY <1>1 DEF LoopStep, Loop!Next, Loop!Step
<1>2. CASE BeginTool
  BY <1>2 DEF BeginTool, Loop!Next, Loop!Step
<1>3. CASE ExecuteEnds
  BY <1>3 DEF ExecuteEnds, Loop!Next, Loop!Step
<1>4. CASE Expire
  BY <1>4 DEF Expire, Loop!Next
<1>5. CASE ToolStep \/ GatewayRuns \/ GatewayRunsLater \/ UNCHANGED vars
  BY <1>5 DEF ToolStep, GatewayRuns, GatewayRunsLater, vars, loopVars, Loop!vars
<1> QED BY <1>1, <1>2, <1>3, <1>4, <1>5 DEF Next, Step

\* The safety part of ImplementsLoop: retries, backoffs and late effects are
\* invisible to Run, so what holds of every step of the loop holds here.
THEOREM SystemImplementsLoop == Spec => Loop!Init /\ [][Loop!Next]_(Loop!vars)
<1>1. Init => Loop!Init
  BY DEF Init
<1> QED BY <1>1, StepIsLoops, PTL DEF Spec

----
(* The order of effects.                                                   *)

Calls == Nat \X Nat

\* The call is behind the loop, or the one being made.
Begun(c) ==
  \/ c[1] < iteration
  \/ c[1] = iteration /\ pc \in {"tools", "exec", "done"} /\ c[2] < next
  \/ c = Call /\ pc = "exec"

\* No effect comes out of the blue.
AllBegun == \A i \in DOMAIN effects : Begun(effects[i])

\* Whatever has taken effect, or still may, was begun; and what still may
\* when its call is over has been recorded as lost.
EffectsBegun ==
  /\ iteration \in Nat /\ next \in Nat
  /\ pc \in {"top", "call", "pause", "tools", "exec", "done"}
  /\ astray \in Nat
  /\ pc # "exec" => astray = 0
  /\ astray > 0 => Call \in lost
  /\ effects \in Seq(Calls)
  /\ late \subseteq Calls \X Nat
  /\ AllBegun
  /\ \A r \in late : Begun(r[1]) /\ r[1] \in lost

OInv == EffectsBegun /\ EffectsInOrder

\* How the loop moves on.
Forward ==
  \/ UNCHANGED <<pc, iteration, next>>
  \/ pc = "tools" /\ pc' \in {"exec", "done"} /\ UNCHANGED <<iteration, next>>
  \/ pc = "exec" /\ pc' = "tools" /\ next' = next + 1 /\ UNCHANGED iteration
  \/ pc \in {"top", "call", "pause"} /\ UNCHANGED iteration
  \/ iteration' = iteration + 1

\* A call that was begun stays so.
LEMMA BegunStays ==
  ASSUME iteration \in Nat, next \in Nat, Forward, NEW c \in Calls, Begun(c)
  PROVE  Begun(c)'
<1>1. c[1] \in Nat /\ c[2] \in Nat
  BY DEF Calls
<1>2. CASE iteration' = iteration + 1
  <2>1. c[1] <= iteration
    BY <1>1 DEF Begun, Call
  <2> QED BY <1>1, <1>2, <2>1 DEF Begun
<1>3. CASE pc \in {"top", "call", "pause"} /\ UNCHANGED iteration
  BY <1>3 DEF Begun
<1>4. CASE UNCHANGED <<pc, iteration, next>>
  BY <1>4 DEF Begun, Call
<1>5. CASE pc = "tools" /\ pc' \in {"exec", "done"} /\ UNCHANGED <<iteration, next>>
  BY <1>5 DEF Begun
<1>6. CASE pc = "exec" /\ pc' = "tools" /\ next' = next + 1 /\ UNCHANGED iteration
  <2>1. c[1] < iteration \/ (c[1] = iteration /\ c[2] <= next)
    BY <1>1, <1>6 DEF Begun, Call
  <2> QED BY <1>1, <1>6, <2>1 DEF Begun
<1> QED BY <1>2, <1>3, <1>4, <1>5, <1>6 DEF Forward

\* No call that was begun comes after the one being made.
LEMMA NoneIsLater ==
  ASSUME iteration \in Nat, next \in Nat, NEW c \in Calls, Begun(c)
  PROVE  ~Before(Call, c)
BY DEF Begun, Before, Call, Calls

\* An effect of the call at hand comes after those of the calls before it; a
\* late one may come at any place, because it is recorded.
LEMMA EffectAppended ==
  ASSUME OInv, NEW c \in Calls, Begun(c), effects' = Append(effects, c),
         UNCHANGED <<iteration, next, pc, lost>>,
         c = Call \/ c \in lost
  PROVE  effects' \in Seq(Calls) /\ EffectsInOrder' /\ AllBegun'
<1>1. /\ iteration \in Nat /\ next \in Nat /\ effects \in Seq(Calls)
      /\ \A i \in DOMAIN effects : Begun(effects[i])
  BY DEF OInv, EffectsBegun, AllBegun
<1>2. /\ effects' \in Seq(Calls) /\ DOMAIN effects = 1..Len(effects) /\ Len(effects) \in Nat
      /\ DOMAIN effects' = 1..Len(effects)+1
      /\ \A i \in DOMAIN effects : effects'[i] = effects[i] /\ effects[i] \in Calls
      /\ effects'[Len(effects)+1] = c
  BY <1>1
<1>3. ASSUME NEW d \in Calls, Begun(d) PROVE Begun(d)'
  BY <1>1, <1>3, BegunStays DEF Forward
<1>4. AllBegun'
  <2> SUFFICES ASSUME NEW i \in DOMAIN effects' PROVE Begun(effects[i])'
    BY DEF AllBegun
  <2>1. PICK d \in Calls : d = effects'[i] /\ Begun(d)
    BY <1>1, <1>2
  <2>2. Begun(d)'
    BY <1>3, <2>1
  <2> QED BY <2>1, <2>2 DEF Begun, Call
<1>5. EffectsInOrder'
  <2> SUFFICES ASSUME NEW i \in DOMAIN effects', NEW j \in DOMAIN effects',
                      i < j, Before(effects'[j], effects'[i])
               PROVE  effects'[j] \in lost'
    BY DEF EffectsInOrder, Before
  <2>1. CASE j \in DOMAIN effects
    <3>1. i \in DOMAIN effects
      BY <1>2, <2>1
    <3> QED BY <1>2, <2>1, <3>1 DEF OInv, EffectsInOrder
  <2>2. CASE j = Len(effects) + 1
    <3>1. i \in DOMAIN effects
      BY <1>2, <2>2
    <3>2. c # Call
      BY <1>1, <1>2, <2>2, <3>1, NoneIsLater
    <3> QED BY <1>2, <2>2, <3>2
  <2> QED BY <1>2, <2>1, <2>2
<1> QED BY <1>2, <1>4, <1>5

\* A step of the loop that no effect comes with; what it leaves behind is
\* recorded.
LEMMA ForwardKeeps ==
  ASSUME OInv, Forward, UNCHANGED effects,
         iteration' \in Nat, next' \in Nat,
         pc' \in {"top", "call", "pause", "tools", "exec", "done"},
         astray' \in Nat, pc' # "exec" => astray' = 0, astray' > 0 => Call' \in lost',
         lost \subseteq lost', late' \subseteq Calls \X Nat,
         \A r \in late' : r \in late \/ (Begun(r[1]) /\ r[1] \in lost)
  PROVE  OInv'
<1>1. /\ iteration \in Nat /\ next \in Nat /\ effects \in Seq(Calls)
      /\ \A i \in DOMAIN effects : effects[i] \in Calls /\ Begun(effects[i])
      /\ \A r \in late : Begun(r[1]) /\ r[1] \in lost
  BY DEF OInv, EffectsBegun, AllBegun
<1>2. ASSUME NEW d \in Calls, Begun(d) PROVE Begun(d)'
  BY <1>1, <1>2, BegunStays
<1>3. AllBegun'
  <2> SUFFICES ASSUME NEW i \in DOMAIN effects' PROVE Begun(effects[i])'
    BY DEF AllBegun
  <2>1. PICK d \in Calls : d = effects'[i] /\ Begun(d)
    BY <1>1
  <2>2. Begun(d)'
    BY <1>2, <2>1
  <2> QED BY <2>1, <2>2 DEF Begun, Call
<1>4. ASSUME NEW r \in late' PROVE Begun(r[1])' /\ r[1] \in lost'
  <2>1. r[1] \in Calls
    OBVIOUS
  <2> QED BY <1>1, <1>2, <2>1
<1>5. EffectsInOrder'
  BY DEF OInv, EffectsInOrder, Before
<1> QED BY <1>1, <1>3, <1>4, <1>5 DEF OInv, EffectsBegun

----
(* The steps. *)

\* How the steps between tool calls move the loop on.
LEMMA LoopMoves ==
  ASSUME LoopStep
  PROVE  /\ pc \in {"top", "call", "pause", "tools"}
         /\ pc' \in {"top", "call", "pause", "tools", "done"}
         /\ iteration' = iteration \/ iteration' = iteration + 1
         /\ next' = next \/ next' = 1
         /\ pc = "tools" => pc' = "done" /\ UNCHANGED <<iteration, next>>
<1>1. CASE Loop!Exhaust \/ Loop!StopAtTop \/ Loop!StopInPause \/ Loop!StopBeforeTool
  BY <1>1 DEF Loop!Exhaust, Loop!StopAtTop, Loop!StopInPause, Loop!StopBeforeTool,
              Loop!Finish, Loop!Return
<1>2. CASE Loop!StartCall \/ Loop!NoChoices \/ Loop!PauseEnds
  BY <1>2 DEF Loop!StartCall, Loop!NoChoices, Loop!PauseEnds, Loop!Continue
<1>3. CASE Loop!CallFails
  BY <1>3 DEF Loop!CallFails, Loop!Continue, Loop!Return
<1>4. CASE \E content, reasoning \in Texts : Loop!Reply(content, reasoning)
  BY <1>4 DEF Loop!Reply, Loop!Finish, Loop!Return
<1> QED BY <1>1, <1>2, <1>3, <1>4 DEF LoopStep

LEMMA LoopKeeps == ASSUME OInv, LoopStep PROVE OInv'
<1>1. /\ iteration \in Nat /\ next \in Nat
      /\ astray \in Nat /\ (pc # "exec" => astray = 0)
      /\ late \subseteq Calls \X Nat
  BY DEF OInv, EffectsBegun
<1>2. UNCHANGED <<astray, effects, late, lost>>
  BY DEF LoopStep, toolVars, history
<1>3. /\ pc \in {"top", "call", "pause", "tools"}
      /\ pc' \in {"top", "call", "pause", "tools", "done"}
      /\ iteration' = iteration \/ iteration' = iteration + 1
      /\ next' = next \/ next' = 1
      /\ pc = "tools" => pc' = "done" /\ UNCHANGED <<iteration, next>>
  BY LoopMoves
<1>4. Forward
  BY <1>3 DEF Forward
<1>5. astray = 0
  BY <1>1, <1>3
<1>6. iteration' \in Nat /\ next' \in Nat
  BY <1>1, <1>3
<1> QED BY <1>1, <1>2, <1>3, <1>4, <1>5, <1>6, ForwardKeeps

LEMMA BeginKeeps == ASSUME OInv, BeginTool PROVE OInv'
<1>1. /\ iteration \in Nat /\ next \in Nat /\ astray \in Nat /\ (pc # "exec" => astray = 0)
      /\ late \subseteq Calls \X Nat
  BY DEF OInv, EffectsBegun
<1>2. /\ pc = "tools" /\ pc' = "exec"
      /\ UNCHANGED <<iteration, next, astray, effects, late, lost>>
  BY DEF BeginTool, Loop!StartTool, history
<1>3. Forward /\ astray' = 0
  BY <1>1, <1>2 DEF Forward
<1> QED BY <1>1, <1>2, <1>3, ForwardKeeps

LEMMA ToolStepKeeps == ASSUME OInv, ToolStep PROVE OInv'
<1>1. /\ iteration \in Nat /\ next \in Nat /\ astray \in Nat /\ (astray > 0 => Call \in lost)
      /\ late \subseteq Calls \X Nat
  BY DEF OInv, EffectsBegun
<1>2. /\ pc = "exec" /\ UNCHANGED <<pc, iteration, next, effects, late>>
      /\ lost' = IF astray' > astray THEN lost \cup {Call} ELSE lost
  BY DEF ToolStep, loopVars
<1>3. astray' = astray \/ astray' = astray + 1
  BY DEF ToolStep, Tool!Step, Tool!InvokeSucceeds, Tool!InvokeFails, Tool!BackoffEnds,
         Tool!BackoffCancelled
<1>4. Forward /\ Call' = Call
  BY <1>2 DEF Forward, Call
<1>5. astray' \in Nat /\ lost \subseteq lost' /\ (astray' > 0 => Call' \in lost')
  BY <1>1, <1>2, <1>3, <1>4
<1> QED BY <1>1, <1>2, <1>4, <1>5, ForwardKeeps

LEMMA EndKeeps == ASSUME OInv, ExecuteEnds PROVE OInv'
<1>1. /\ iteration \in Nat /\ next \in Nat /\ astray \in Nat /\ (astray > 0 => Call \in lost)
      /\ late \subseteq Calls \X Nat
  BY DEF OInv, EffectsBegun
<1>2. /\ pc = "exec" /\ astray' = 0 /\ UNCHANGED <<effects, lost>>
      /\ late' = late \cup ({Call} \X (1..astray))
  BY DEF ExecuteEnds, Leave, Forget, Loop!ToolSucceeds, Loop!ToolFails
<1>3. \/ pc' = "tools" /\ next' = next + 1 /\ UNCHANGED iteration
      \/ pc' = "top" /\ next' = 1 /\ iteration' = iteration + 1
  BY DEF ExecuteEnds, Loop!ToolSucceeds, Loop!ToolFails, Loop!AfterTool, Loop!Continue
<1>4. Forward
  BY <1>2, <1>3 DEF Forward
<1>5. Call \in Calls /\ Begun(Call)
  BY <1>1, <1>2 DEF Call, Calls, Begun
<1>6. late' \subseteq Calls \X Nat
  BY <1>1, <1>2, <1>5
<1>7. ASSUME NEW r \in late', r \notin late PROVE Begun(r[1]) /\ r[1] \in lost
  <2>1. r[1] = Call /\ astray > 0
    BY <1>1, <1>2, <1>7
  <2> QED BY <1>1, <1>5, <2>1
<1>8. iteration' \in Nat /\ next' \in Nat /\ pc' \in {"tools", "top"}
  BY <1>1, <1>3
<1> QED BY <1>2, <1>4, <1>6, <1>7, <1>8, ForwardKeeps

LEMMA GatewayKeeps == ASSUME OInv, GatewayRuns PROVE OInv'
<1>1. /\ EffectsBegun /\ iteration \in Nat /\ next \in Nat
  BY DEF OInv, EffectsBegun
<1>2. /\ pc = "exec" /\ effects' = Append(effects, Call)
      /\ UNCHANGED <<pc, iteration, next, late, lost>>
  BY DEF GatewayRuns, loopVars
<1>3. astray' = astray \/ (astray > 0 /\ astray' = astray - 1)
  BY DEF GatewayRuns, Tool!GatewayRuns, Tool!GatewayRunsLate
<1>4. Call \in Calls /\ Begun(Call) /\ Call' = Call
  BY <1>1, <1>2 DEF Call, Calls, Begun
<1>5. effects' \in Seq(Calls) /\ EffectsInOrder' /\ AllBegun'
  BY <1>2, <1>4, EffectAppended
<1>6. ASSUME NEW r \in late PROVE Begun(r[1])' /\ r[1] \in lost
  BY <1>1, <1>2 DEF EffectsBegun, Begun, Call
<1>7. astray' \in Nat /\ (astray' > 0 => Call' \in lost')
  BY <1>1, <1>2, <1>3, <1>4 DEF EffectsBegun
<1> QED BY <1>1, <1>2, <1>5, <1>6, <1>7 DEF OInv, EffectsBegun

LEMMA LateKeeps == ASSUME OInv, GatewayRunsLater PROVE OInv'
<1>1. EffectsBegun /\ iteration \in Nat /\ next \in Nat
  BY DEF OInv, EffectsBegun
<1>2. PICK r \in late : late' = late \ {r} /\ effects' = Append(effects, r[1])
  BY DEF GatewayRunsLater
<1>3. UNCHANGED <<pc, iteration, next, astray, lost>>
  BY DEF GatewayRunsLater, loopVars, toolVars
<1>4. r[1] \in Calls /\ Begun(r[1]) /\ r[1] \in lost
  BY <1>1, <1>2 DEF EffectsBegun
<1>5. effects' \in Seq(Calls) /\ EffectsInOrder' /\ AllBegun'
  BY <1>2, <1>3, <1>4, EffectAppended
<1>6. ASSUME NEW s \in late PROVE Begun(s[1])' /\ s[1] \in lost
  BY <1>1, <1>3 DEF EffectsBegun, Begun, Call
<1>7. Call' = Call
  BY <1>3 DEF Call
<1> QED BY <1>1, <1>2, <1>3, <1>5, <1>6, <1>7 DEF OInv, EffectsBegun

LEMMA StillKeeps == ASSUME OInv, Expire \/ UNCHANGED vars PROVE OInv'
<1>1. UNCHANGED <<pc, iteration, next, astray, effects, late, lost>>
  BY DEF Expire, Loop!Expire, toolVars, history, vars, loopVars
<1>2. Forward /\ Call' = Call
  BY <1>1 DEF Forward, Call
<1> QED BY <1>1, <1>2, ForwardKeeps DEF OInv, EffectsBegun, AllBegun

LEMMA InitEstablishes == Init => OInv
BY DEF Init, Loop!Init, Tool!Init, OInv, EffectsBegun, AllBegun, EffectsInOrder

LEMMA OrderKept == ASSUME OInv, [Next]_vars PROVE OInv'
BY LoopKeeps, BeginKeeps, ToolStepKeeps, EndKeeps, GatewayKeeps, LateKeeps, StillKeeps
   DEF Next, Step

\* For every parser, budget and way to fail: a tool that takes effect after
\* one the model asked for later is one whose answer was lost.
THEOREM EffectsStayInOrder == Spec => []EffectsInOrder
<1>1. OInv /\ [Next]_vars => OInv'
  BY OrderKept
<1>2. OInv => EffectsInOrder
  BY DEF OInv
<1> QED BY InitEstablishes, <1>1, <1>2, PTL DEF Spec

----
(* The truth of reports.                                                   *)

Effects(c) == {i \in DOMAIN effects : effects[i] = c}
Waiting(c) == {r \in late : r[1] = c}

\* The call has returned.
Over(c) ==
  \/ c[1] < iteration
  \/ c[1] = iteration /\ pc \in {"tools", "exec", "done"} /\ c[2] < next

\* The executor's invariant holds of the call at hand; the runs it counts are
\* the effects recorded for it; and what a call has caused and may still
\* cause is no more than its attempts.
CallsCounted ==
  /\ TP!CInv
  /\ pc = "exec" <=> phase # "ready"
  /\ IsFiniteSet(late)
  /\ pc = "exec" => Cardinality(Effects(Call)) = runs /\ Waiting(Call) = {}
  /\ \A c \in Calls :
       Cardinality(Effects(c)) + Cardinality(Waiting(c)) <= Tool!maxAttempts

Report == [call : Calls, result : {"ok", "error"}, failed : SUBSET Failures]

\* A report is about a call that is over: it has an effect, or, when every
\* attempt was turned away, none, nor one to come.
IsTrue(report) ==
  /\ Over(report.call)
  /\ report.result = "ok" => Effects(report.call) # {}
  /\ report.result = "error" /\ report.failed \subseteq Tool!NeverRan
       => Effects(report.call) = {} /\ Waiting(report.call) = {}

ToldTruly ==
  /\ told \in Seq(Report)
  /\ \A k \in DOMAIN told : IsTrue(told[k])

RInv == OInv /\ CallsCounted /\ ToldTruly

\* What the executor's invariant says of a call, for the accounts here.
LEMMA ToolFacts ==
  ASSUME TP!CInv
  PROVE  /\ runs \in Nat /\ astray \in Nat /\ runs + astray <= Tool!maxAttempts
         /\ Tool!maxAttempts \in Nat
         /\ result = "ok" => runs > 0
         /\ result = "error" /\ failed \subseteq Tool!NeverRan => runs + astray = 0
         /\ failed \subseteq Failures /\ ctxDone \in BOOLEAN
<1>1. /\ runs \in Nat /\ astray \in Nat /\ TP!pending \in {0, 1}
      /\ attempt \in 0..TP!maxAttempts-1
      /\ runs + astray + TP!pending <= IF phase = "ready" THEN 0 ELSE attempt + 1
  BY DEF TP!CInv, TP!TypeOK, TP!RunsAccounted, TP!pending
<1>2. TP!maxAttempts \in Nat /\ TP!maxAttempts >= 1 /\ Tool!maxAttempts = TP!maxAttempts
  BY SystemAssumption DEF TP!maxAttempts, Tool!maxAttempts
<1>3. runs + astray <= Tool!maxAttempts
  BY <1>1, <1>2
<1>4. /\ result = "ok" => runs > 0
      /\ failed \subseteq Failures /\ ctxDone \in BOOLEAN
  BY DEF TP!CInv, TP!TypeOK, TP!Progress
<1>5. result = "error" /\ failed \subseteq Tool!NeverRan => runs + astray = 0
  BY DEF TP!CInv, TP!NothingRan, TP!NeverRan, Tool!NeverRan
<1> QED BY <1>1, <1>2, <1>3, <1>4, <1>5

LEMMA BoundKept ==
  ASSUME TP!CInv'
  PROVE  runs' \in Nat /\ astray' \in Nat /\ runs' + astray' <= Tool!maxAttempts
<1>1. (TP!CInv => runs \in Nat /\ astray \in Nat /\ runs + astray <= Tool!maxAttempts)'
  BY ToolFacts, PTL
<1>2. Tool!maxAttempts' = Tool!maxAttempts
  BY DEF Tool!maxAttempts
<1> QED BY <1>1, <1>2

\* The executor's lemmas hold here.
LEMMA ExecutorAssumed == TP!ToolAssumption
BY SystemAssumption DEF TP!ToolAssumption, Tool!Phrase, TP!Phrase

LEMMA FreshIsSound == TP!Fresh => TP!CInv
BY ExecutorAssumed, TP!FreshIsSound

\* Every step of the whole is, for the call at hand, a step of the executor,
\* a fresh start or none of its business.
LEMMA CallKeeps == ASSUME RInv, [Next]_vars PROVE TP!CInv'
<1>1. TP!CInv /\ (pc = "exec" <=> phase # "ready") /\ ctxDone \in BOOLEAN
  BY ToolFacts DEF RInv, CallsCounted
<1>2. ASSUME UNCHANGED toolVars, ctxDone' \in BOOLEAN, ctxDone => ctxDone' PROVE TP!CInv'
  BY <1>1, <1>2, ExecutorAssumed, TP!ContextKeeps DEF toolVars
<1>3. CASE LoopStep
  <2>1. ctxDone' = ctxDone
    BY <1>3 DEF LoopStep, Loop!Exhaust, Loop!StopAtTop, Loop!StartCall, Loop!CallFails,
      Loop!NoChoices, Loop!PauseEnds, Loop!StopInPause, Loop!StopBeforeTool, Loop!Reply
  <2> QED BY <1>1, <1>2, <1>3, <2>1 DEF LoopStep
<1>4. CASE BeginTool
  <2>1. TP!Execute
    BY <1>1, <1>4 DEF BeginTool, Loop!StartTool, TP!Execute
  <2> QED BY <1>1, <2>1, ExecutorAssumed, TP!ExecuteKeeps
<1>5. CASE ToolStep
  <2>1. TP!InvokeSucceeds \/ (\E f \in Failures : TP!InvokeFails(f))
        \/ TP!BackoffEnds \/ TP!BackoffCancelled
    <3>1. Tool!InvokeSucceeds => TP!InvokeSucceeds
      BY DEF Tool!InvokeSucceeds, TP!InvokeSucceeds, Tool!truncateResult, TP!truncateResult,
             Tool!Return, TP!Return
    <3>2. ASSUME NEW f \in Failures, Tool!InvokeFails(f) PROVE TP!InvokeFails(f)
      <4>1. Tool!triesAgain(f) <=> TP!triesAgain(f)
        BY DEF Tool!triesAgain, TP!triesAgain, Tool!isRetryable, TP!isRetryable,
               Tool!Phrase, TP!Phrase, Tool!maxAttempts, TP!maxAttempts
      <4>2. Tool!NeverRan = TP!NeverRan /\ Tool!MayRunLater = TP!MayRunLater
        BY DEF Tool!NeverRan, TP!NeverRan, Tool!MayRunLater, TP!MayRunLater
      <4> QED BY <3>2, <4>1, <4>2
              DEF Tool!InvokeFails, TP!InvokeFails, Tool!Return, TP!Return
    <3>3. /\ Tool!BackoffEnds => TP!BackoffEnds
          /\ Tool!BackoffCancelled => TP!BackoffCancelled
      BY DEF Tool!BackoffEnds, TP!BackoffEnds, Tool!BackoffCancelled, TP!BackoffCancelled,
             Tool!Return, TP!Return
    <3> QED BY <1>5, <3>1, <3>2, <3>3 DEF ToolStep, Tool!Step
  <2> QED BY <1>1, <2>1, ExecutorAssumed, TP!SuccessKeeps, TP!FailureKeeps, TP!BackoffKeeps
<1>6. CASE ExecuteEnds
  <2>1. TP!Fresh'
    BY <1>1, <1>6 DEF ExecuteEnds, Leave, Forget, Loop!ToolSucceeds, Loop!ToolFails, TP!Fresh
  <2>2. (TP!Fresh => TP!CInv)'
    BY FreshIsSound, PTL
  <2> QED BY <2>1, <2>2
<1>7. CASE GatewayRuns
  <2>1. TP!GatewayRuns \/ TP!GatewayRunsLate
    BY <1>7 DEF GatewayRuns, Tool!GatewayRuns, TP!GatewayRuns, Tool!GatewayRunsLate,
                TP!GatewayRunsLate
  <2> QED BY <1>1, <2>1, ExecutorAssumed, TP!GatewayKeeps
<1>8. CASE GatewayRunsLater \/ Expire \/ UNCHANGED vars
  <2>1. UNCHANGED toolVars /\ ctxDone' \in BOOLEAN /\ (ctxDone => ctxDone')
    BY <1>1, <1>8 DEF GatewayRunsLater, Expire, Loop!Expire, vars, loopVars
  <2> QED BY <1>2, <2>1
<1> QED BY <1>3, <1>4, <1>5, <1>6, <1>7, <1>8 DEF Next, Step

\* The first n naturals are n.
LEMMA FirstNaturals ==
  ASSUME NEW n \in Nat
  PROVE  IsFiniteSet(1..n) /\ Cardinality(1..n) = n
<1>1. 1 \in Int /\ n \in Int /\ n - 1 + 1 = n /\ (1 > n <=> n = 0)
  OBVIOUS
<1> QED BY <1>1, FS_Interval

\* The counts are natural numbers.
LEMMA CountsAreNatural ==
  ASSUME OInv, IsFiniteSet(late), NEW c \in Calls
  PROVE  /\ IsFiniteSet(Effects(c)) /\ Cardinality(Effects(c)) \in Nat
         /\ IsFiniteSet(Waiting(c)) /\ Cardinality(Waiting(c)) \in Nat
<1>1. effects \in Seq(Calls)
  BY DEF OInv, EffectsBegun
<1>2. IsFiniteSet(1..Len(effects)) /\ Effects(c) \subseteq 1..Len(effects)
  BY <1>1, FirstNaturals DEF Effects
<1>3. IsFiniteSet(Effects(c))
  BY <1>2, FS_Subset
<1>4. Waiting(c) \subseteq late
  BY DEF Waiting
<1>5. IsFiniteSet(Waiting(c))
  BY <1>4, FS_Subset
<1> QED BY <1>3, <1>5, FS_CardinalityType

\* A call that is over stays so, and is not the one at hand.
LEMMA OverStays ==
  ASSUME iteration \in Nat, next \in Nat, Forward, NEW c \in Calls, Over(c)
  PROVE  Over(c)' /\ c # Call
<1>1. c[1] \in Nat /\ c[2] \in Nat
  BY DEF Calls
<1>2. c # Call
  BY <1>1 DEF Over, Call
<1>3. CASE iteration' = iteration + 1
  <2>1. c[1] <= iteration
    BY <1>1 DEF Over
  <2> QED BY <1>1, <1>2, <1>3, <2>1 DEF Over
<1>4. CASE pc \in {"top", "call", "pause"} /\ UNCHANGED iteration
  BY <1>2, <1>4 DEF Over
<1>5. CASE UNCHANGED <<pc, iteration, next>>
  BY <1>2, <1>5 DEF Over
<1>6. CASE pc = "tools" /\ pc' \in {"exec", "done"} /\ UNCHANGED <<iteration, next>>
  BY <1>2, <1>6 DEF Over
<1>7. CASE pc = "exec" /\ pc' = "tools" /\ next' = next + 1 /\ UNCHANGED iteration
  BY <1>1, <1>2, <1>7 DEF Over
<1> QED BY <1>3, <1>4, <1>5, <1>6, <1>7 DEF Forward

\* A report stays true while its call's effects do not vanish, and, when it
\* is to have none, none comes.
LEMMA TrueStays ==
  ASSUME iteration \in Nat, next \in Nat, Forward,
         NEW report \in Report, IsTrue(report), NEW c \in Calls, c = report.call,
         Effects(c) # {} => Effects(c)' # {},
         Effects(c) = {} /\ Waiting(c) = {} => Effects(c)' = {} /\ Waiting(c)' = {}
  PROVE  IsTrue(report)'
<1>1. Over(c)'
  BY OverStays DEF IsTrue
<1> QED BY <1>1 DEF IsTrue, Over, Effects, Waiting, Tool!NeverRan

\* A step without an effect, a report or a change of what is late.
LEMMA QuietKeeps ==
  ASSUME RInv, OInv', TP!CInv', Forward, UNCHANGED <<effects, late, told>>,
         pc' = "exec" <=> phase' # "ready",
         pc' = "exec" => Cardinality(Effects(Call')) = runs' /\ Waiting(Call') = {}
  PROVE  RInv'
<1>1. \A c : Effects(c)' = Effects(c) /\ Waiting(c)' = Waiting(c)
  BY DEF Effects, Waiting
<1>2. Effects(Call)' = Effects(Call') /\ Waiting(Call)' = Waiting(Call')
  BY DEF Effects, Waiting
<1>3. CallsCounted'
  <2>1. Tool!maxAttempts' = Tool!maxAttempts
    BY DEF Tool!maxAttempts
  <2> QED BY <1>1, <1>2, <2>1 DEF RInv, CallsCounted
<1>4. ToldTruly'
  <2>1. ASSUME NEW k \in DOMAIN told PROVE IsTrue(told[k])'
    <3>1. PICK report \in Report : report = told[k] /\ IsTrue(report)
      BY DEF RInv, ToldTruly
    <3>2. PICK c \in Calls : c = report.call
      BY DEF Report
    <3>3. IsTrue(report)'
      BY <1>1, <3>1, <3>2, TrueStays DEF RInv, OInv, EffectsBegun
    <3> QED BY <3>1, <3>3 DEF IsTrue, Over, Effects, Waiting, Tool!NeverRan
  <2> QED BY <2>1 DEF RInv, ToldTruly
<1> QED BY <1>3, <1>4 DEF RInv

\* Nothing has happened, nor will, in the name of a call not yet begun.
LEMMA BeginsFresh ==
  ASSUME OInv, pc = "tools"
  PROVE  Effects(Call) = {} /\ Waiting(Call) = {}
<1>1. Call \in Calls /\ ~Begun(Call)
  BY DEF OInv, EffectsBegun, Calls, Call, Begun
<1> QED BY <1>1 DEF OInv, EffectsBegun, AllBegun, Effects, Waiting

LEMMA QuietStepsReport ==
  ASSUME RInv, OInv', TP!CInv',
         LoopStep \/ BeginTool \/ ToolStep \/ Expire \/ UNCHANGED vars
  PROVE  RInv'
<1>1. /\ iteration \in Nat /\ next \in Nat /\ (pc = "exec" <=> phase # "ready")
      /\ pc = "exec" => Cardinality(Effects(Call)) = runs /\ Waiting(Call) = {}
  BY DEF RInv, OInv, EffectsBegun, CallsCounted
<1>2. CASE LoopStep
  <2>1. UNCHANGED <<effects, late, told, phase>> /\ pc # "exec" /\ pc' # "exec"
    BY <1>2, LoopMoves DEF LoopStep, toolVars, history
  <2>2. Forward
    BY <1>2, LoopMoves DEF Forward
  <2> QED BY <1>1, <2>1, <2>2, QuietKeeps
<1>3. CASE BeginTool
  <2>1. /\ pc = "tools" /\ pc' = "exec" /\ phase' = "invoke"
        /\ UNCHANGED <<iteration, next, effects, late, told, runs>>
    BY <1>3 DEF BeginTool, Loop!StartTool, history
  <2>2. Forward /\ Call' = Call
    BY <2>1 DEF Forward, Call
  <2>3. Effects(Call) = {} /\ Waiting(Call) = {}
    BY <2>1, BeginsFresh DEF RInv
  <2>4. runs = 0
    <3>1. phase = "ready"
      BY <1>1, <2>1
    <3> QED BY <3>1 DEF RInv, CallsCounted, TP!CInv, TP!TypeOK, TP!RunsAccounted, TP!pending
  <2>5. Cardinality({}) = 0
    BY FS_EmptySet
  <2> QED BY <2>1, <2>2, <2>3, <2>4, <2>5, QuietKeeps
<1>4. CASE ToolStep
  <2>1. /\ pc = "exec" /\ UNCHANGED <<pc, iteration, next, effects, late, told, runs>>
        /\ phase' # "ready"
    BY <1>1, <1>4 DEF ToolStep, loopVars, Tool!Step, Tool!InvokeSucceeds, Tool!InvokeFails,
      Tool!BackoffEnds, Tool!BackoffCancelled, Tool!Return
  <2>2. Forward /\ Call' = Call
    BY <2>1 DEF Forward, Call
  <2> QED BY <1>1, <2>1, <2>2, QuietKeeps
<1>5. CASE Expire \/ UNCHANGED vars
  <2>1. UNCHANGED <<pc, iteration, next, effects, late, told, runs, phase>>
    BY <1>5 DEF Expire, Loop!Expire, vars, loopVars, toolVars, history
  <2>2. Forward /\ Call' = Call
    BY <2>1 DEF Forward, Call
  <2> QED BY <1>1, <2>1, <2>2, QuietKeeps
<1> QED BY <1>2, <1>3, <1>4, <1>5

\* An effect counts for its call and no other.
LEMMA EffectCounts ==
  ASSUME OInv, NEW c \in Calls, effects' = Append(effects, c), NEW d \in Calls
  PROVE  /\ d # c => Effects(d)' = Effects(d)
         /\ d = c => /\ Effects(d)' # {}
                     /\ Cardinality(Effects(d)') = Cardinality(Effects(d)) + 1
<1>1. effects \in Seq(Calls)
  BY DEF OInv, EffectsBegun
<1> DEFINE n == Len(effects)
<1>2. /\ n \in Nat /\ DOMAIN effects = 1..n /\ DOMAIN effects' = 1..n+1
      /\ \A i \in 1..n : effects'[i] = effects[i]
      /\ effects'[n+1] = c
  BY <1>1
<1>3. Effects(d)' = {i \in DOMAIN effects' : effects'[i] = d}
  BY DEF Effects
<1>4. d # c => Effects(d)' = Effects(d)
  BY <1>2, <1>3 DEF Effects
<1>5. d = c => Effects(d)' = Effects(d) \cup {n+1} /\ n+1 \notin Effects(d)
  BY <1>2, <1>3 DEF Effects
<1>6. IsFiniteSet(Effects(d))
  <2>1. IsFiniteSet(1..n)
    BY <1>2, FirstNaturals
  <2>2. Effects(d) \subseteq 1..n
    BY <1>2 DEF Effects
  <2> QED BY <2>1, <2>2, FS_Subset
<1> HIDE DEF n
<1> QED BY <1>4, <1>5, <1>6, FS_AddElement

\* The gateway runs the tool of the call at hand: one run, one effect.
LEMMA GatewayReports == ASSUME RInv, OInv', TP!CInv', GatewayRuns PROVE RInv'
<1>1. /\ iteration \in Nat /\ next \in Nat /\ pc = "exec" /\ phase # "ready"
      /\ Cardinality(Effects(Call)) = runs /\ Waiting(Call) = {} /\ OInv
      /\ \A c \in Calls :
           Cardinality(Effects(c)) + Cardinality(Waiting(c)) <= Tool!maxAttempts
  BY DEF RInv, OInv, EffectsBegun, CallsCounted, GatewayRuns
<1>2. /\ effects' = Append(effects, Call) /\ runs' = runs + 1
      /\ UNCHANGED <<pc, iteration, next, late, told, phase>>
  BY DEF GatewayRuns, loopVars, Tool!GatewayRuns, Tool!GatewayRunsLate
<1>3. Call \in Calls /\ Call' = Call /\ Forward
  BY <1>1, <1>2 DEF Call, Calls, Forward
<1>4. \A c : Waiting(c)' = Waiting(c)
  BY <1>2 DEF Waiting
<1>5. \A d \in Calls :
        /\ d # Call => Effects(d)' = Effects(d)
        /\ d = Call => Effects(d)' # {}
                       /\ Cardinality(Effects(d)') = Cardinality(Effects(d)) + 1
  BY <1>1, <1>2, <1>3, EffectCounts
<1>6. Cardinality(Effects(Call)') = runs' /\ Waiting(Call)' = {}
  BY <1>1, <1>2, <1>3, <1>4, <1>5
<1>7. runs' \in Nat /\ runs' <= Tool!maxAttempts
  <2>1. Tool!maxAttempts \in Nat
    BY ToolFacts DEF RInv, CallsCounted
  <2> QED BY <2>1, BoundKept
<1>8. CallsCounted'
  <2>1. IsFiniteSet(late')
    BY <1>2 DEF RInv, CallsCounted
  <2>2. Tool!maxAttempts' = Tool!maxAttempts
    BY DEF Tool!maxAttempts
  <2>3. ASSUME NEW c \in Calls
        PROVE  Cardinality(Effects(c)') + Cardinality(Waiting(c)') <= Tool!maxAttempts
    <3>1. CASE c = Call
      <4>1. Cardinality(Effects(c)') = runs' /\ Waiting(c)' = {}
        BY <3>1, <1>1, <1>2, <1>4, <1>5, <1>3
      <4> QED BY <4>1, <1>7, FS_EmptySet
    <3>2. CASE c # Call
      BY <3>2, <1>1, <1>4, <1>5
    <3> QED BY <3>1, <3>2
  <2> QED BY <1>1, <1>2, <1>3, <1>6, <2>1, <2>2, <2>3 DEF CallsCounted
<1>9. ToldTruly'
  <2>1. ASSUME NEW k \in DOMAIN told PROVE IsTrue(told[k])'
    <3>1. PICK report \in Report : report = told[k] /\ IsTrue(report)
      BY DEF RInv, ToldTruly
    <3>2. PICK c \in Calls : c = report.call /\ Over(c)
      BY <3>1 DEF Report, IsTrue
    <3>3. c # Call
      BY <1>1, <1>3, <3>2, OverStays
    <3>4. Effects(c)' = Effects(c) /\ Waiting(c)' = Waiting(c)
      BY <1>4, <1>5, <3>3
    <3>5. IsTrue(report)'
      BY <1>1, <1>3, <3>1, <3>2, <3>4, TrueStays
    <3> QED BY <1>2, <3>1, <3>5 DEF IsTrue, Over, Effects, Waiting, Tool!NeverRan
  <2> QED BY <1>2, <2>1 DEF RInv, ToldTruly
<1> QED BY <1>8, <1>9 DEF RInv

\* A request the gateway gets round to late: one fewer waits, one more effect.
LEMMA LateReports == ASSUME RInv, OInv', TP!CInv', GatewayRunsLater PROVE RInv'
<1>1. /\ iteration \in Nat /\ next \in Nat /\ OInv /\ late \subseteq Calls \X Nat
      /\ IsFiniteSet(late)
      /\ \A c \in Calls :
           Cardinality(Effects(c)) + Cardinality(Waiting(c)) <= Tool!maxAttempts
  BY DEF RInv, OInv, EffectsBegun, CallsCounted
<1>2. PICK r \in late : late' = late \ {r} /\ effects' = Append(effects, r[1])
  BY DEF GatewayRunsLater
<1>3. UNCHANGED <<pc, iteration, next, told, phase, runs>>
  BY DEF GatewayRunsLater, loopVars, toolVars
<1>4. r[1] \in Calls /\ r \in Waiting(r[1])
  BY <1>1, <1>2 DEF Waiting
<1>5. Forward /\ Call' = Call
  BY <1>3 DEF Forward, Call
<1>6. \A d \in Calls :
        /\ d # r[1] => Effects(d)' = Effects(d)
        /\ d = r[1] => Effects(d)' # {}
                       /\ Cardinality(Effects(d)') = Cardinality(Effects(d)) + 1
  BY <1>1, <1>2, <1>4, EffectCounts
<1>7. \A d : Waiting(d)' = IF d = r[1] THEN Waiting(d) \ {r} ELSE Waiting(d)
  BY <1>2 DEF Waiting
<1>8. \A d \in Calls : /\ Cardinality(Effects(d)) \in Nat /\ Cardinality(Waiting(d)) \in Nat
                       /\ IsFiniteSet(Waiting(d))
  BY <1>1, CountsAreNatural
<1>9. CallsCounted'
  <2>1. IsFiniteSet(late')
    BY <1>1, <1>2, FS_RemoveElement
  <2>2. Tool!maxAttempts' = Tool!maxAttempts
    BY DEF Tool!maxAttempts
  <2>3. ASSUME NEW c \in Calls
        PROVE  Cardinality(Effects(c)') + Cardinality(Waiting(c)') <= Tool!maxAttempts
    <3>1. CASE c = r[1]
      <4>1. Cardinality(Waiting(c)') = Cardinality(Waiting(c)) - 1
        BY <3>1, <1>4, <1>7, <1>8, FS_RemoveElement
      <4>2. Cardinality(Effects(c)') = Cardinality(Effects(c)) + 1
        BY <3>1, <1>6
      <4>3. Cardinality(Effects(c)') + Cardinality(Waiting(c)')
              = Cardinality(Effects(c)) + Cardinality(Waiting(c))
        BY <4>1, <4>2, <1>8
      <4> QED BY <4>3, <1>1
    <3>2. CASE c # r[1]
      BY <3>2, <1>1, <1>6, <1>7
    <3> QED BY <3>1, <3>2
  <2>4. pc' = "exec" => Cardinality(Effects(Call)') = runs' /\ Waiting(Call)' = {}
    <3> SUFFICES ASSUME pc = "exec"
                 PROVE  Cardinality(Effects(Call)') = runs /\ Waiting(Call)' = {}
      BY <1>3
    <3>1. Cardinality(Effects(Call)) = runs /\ Waiting(Call) = {}
      BY DEF RInv, CallsCounted
    <3>2. Call # r[1] /\ Call \in Calls
      BY <1>1, <1>4, <3>1 DEF Call, Calls
    <3>3. PICK d \in Calls : d = Call /\ d # r[1]
      BY <3>2
    <3>4. Effects(d)' = Effects(d) /\ Waiting(d)' = Waiting(d)
      BY <1>6, <1>7, <3>3
    <3>5. Effects(Call)' = Effects(d)' /\ Waiting(Call)' = Waiting(d)'
      BY <1>5, <3>3 DEF Effects, Waiting
    <3> QED BY <3>1, <3>3, <3>4, <3>5
  <2>5. pc' = "exec" <=> phase' # "ready"
    BY <1>3 DEF RInv, CallsCounted
  <2> QED BY <2>1, <2>2, <2>3, <2>4, <2>5 DEF CallsCounted
<1>10. ToldTruly'
  <2>1. ASSUME NEW k \in DOMAIN told PROVE IsTrue(told[k])'
    <3>1. PICK report \in Report : report = told[k] /\ IsTrue(report)
      BY DEF RInv, ToldTruly
    <3>2. PICK c \in Calls : c = report.call
      BY DEF Report
    <3>3. /\ Effects(c) # {} => Effects(c)' # {}
          /\ Waiting(c) = {} => Waiting(c)' = {} /\ (Effects(c) = {} => Effects(c)' = {})
      BY <1>4, <1>6, <1>7
    <3>4. IsTrue(report)'
      BY <1>1, <1>5, <3>1, <3>2, <3>3, TrueStays
    <3> QED BY <1>3, <3>1, <3>4 DEF IsTrue, Over, Effects, Waiting, Tool!NeverRan
  <2> QED BY <1>3, <2>1 DEF RInv, ToldTruly
<1> QED BY <1>9, <1>10 DEF RInv

\* The end of a call: what it reports is what happened, and what is left
\* astray may happen yet.
LEMMA EndReports == ASSUME RInv, OInv', TP!CInv', ExecuteEnds PROVE RInv'
<1>1. /\ iteration \in Nat /\ next \in Nat /\ OInv /\ OInv' /\ late \subseteq Calls \X Nat
      /\ IsFiniteSet(late) /\ pc = "exec"
      /\ Cardinality(Effects(Call)) = runs /\ Waiting(Call) = {}
      /\ \A c \in Calls :
           Cardinality(Effects(c)) + Cardinality(Waiting(c)) <= Tool!maxAttempts
  BY DEF RInv, OInv, EffectsBegun, CallsCounted, ExecuteEnds, Loop!ToolSucceeds, Loop!ToolFails
<1>2. /\ runs \in Nat /\ astray \in Nat /\ runs + astray <= Tool!maxAttempts
      /\ Tool!maxAttempts \in Nat
      /\ result = "ok" => runs > 0
      /\ result = "error" /\ failed \subseteq Tool!NeverRan => runs + astray = 0
      /\ failed \subseteq Failures
  BY ToolFacts DEF RInv, CallsCounted
<1> DEFINE report == [call |-> Call, result |-> result, failed |-> failed]
<1>3. /\ late' = late \cup ({Call} \X (1..astray)) /\ told' = Append(told, report)
      /\ UNCHANGED effects /\ phase' = "ready" /\ result \in {"ok", "error"}
  BY DEF ExecuteEnds, Leave, Forget
<1>4. \/ pc' = "tools" /\ next' = next + 1 /\ UNCHANGED iteration
      \/ pc' = "top" /\ next' = 1 /\ iteration' = iteration + 1
  BY DEF ExecuteEnds, Loop!ToolSucceeds, Loop!ToolFails, Loop!AfterTool, Loop!Continue
<1>5. PICK d \in Calls : d = Call
  BY <1>1 DEF Call, Calls
<1>6. Forward /\ Over(d)'
  BY <1>1, <1>4, <1>5 DEF Forward, Over, Call
<1>7. \A c : Effects(c)' = Effects(c)
  BY <1>3 DEF Effects
<1>8. \A c : Waiting(c)' = IF c = d THEN {d} \X (1..astray) ELSE Waiting(c)
  <2> SUFFICES ASSUME NEW c PROVE Waiting(c)' = IF c = d THEN {d} \X (1..astray) ELSE Waiting(c)
    OBVIOUS
  <2>1. Waiting(c)' = {r \in late \cup ({d} \X (1..astray)) : r[1] = c}
    BY <1>3, <1>5 DEF Waiting
  <2>2. CASE c = d
    BY <2>1, <2>2, <1>1, <1>5 DEF Waiting
  <2>3. CASE c # d
    BY <2>1, <2>3 DEF Waiting
  <2> QED BY <2>2, <2>3
<1>9. Cardinality({d} \X (1..astray)) = astray /\ IsFiniteSet({d} \X (1..astray))
  <2>1. IsFiniteSet(1..astray) /\ Cardinality(1..astray) = astray
    BY <1>2, FirstNaturals
  <2>2. IsFiniteSet({d}) /\ Cardinality({d}) = 1
    BY FS_Singleton
  <2>3. /\ IsFiniteSet({d} \X (1..astray))
        /\ Cardinality({d} \X (1..astray)) = Cardinality({d}) * Cardinality(1..astray)
    BY <2>1, <2>2, FS_Product
  <2> QED BY <1>2, <2>1, <2>2, <2>3
<1>10. CallsCounted'
  <2>1. IsFiniteSet(late')
    BY <1>1, <1>3, <1>5, <1>9, FS_Union
  <2>2. Tool!maxAttempts' = Tool!maxAttempts
    BY DEF Tool!maxAttempts
  <2>3. \A c \in Calls :
          Cardinality(Effects(c)') + Cardinality(Waiting(c)') <= Tool!maxAttempts
    BY <1>1, <1>2, <1>5, <1>7, <1>8, <1>9
  <2> QED BY <1>3, <1>4, <2>1, <2>2, <2>3 DEF CallsCounted
<1>11. report \in Report /\ report.call = d /\ report.result = result /\ report.failed = failed
  BY <1>2, <1>3, <1>5 DEF Report
<1>12. /\ result = "ok" => Effects(d) # {}
       /\ result = "error" /\ failed \subseteq Tool!NeverRan
            => Effects(d) = {} /\ {d} \X (1..astray) = {}
  <2>1. result = "ok" => Effects(d) # {}
    <3>1. Cardinality(Effects(d)) = runs
      BY <1>1, <1>5
    <3>2. Cardinality({}) = 0
      BY FS_EmptySet
    <3> QED BY <1>2, <3>1, <3>2
  <2>2. runs + astray = 0 => Effects(d) = {} /\ astray = 0
    <3>1. IsFiniteSet(Effects(d))
      BY <1>1, CountsAreNatural
    <3> QED BY <1>1, <1>2, <1>5, <3>1, FS_EmptySet
  <2>3. astray = 0 => 1..astray = {}
    OBVIOUS
  <2> QED BY <1>2, <2>1, <2>2, <2>3
<1> HIDE DEF report
<1>13. ToldTruly'
  <2>1. PICK new \in Report : new = report
    BY <1>11
  <2>2. IsTrue(new)'
    BY <1>5, <1>6, <1>7, <1>8, <1>11, <1>12, <2>1 DEF IsTrue, Tool!NeverRan
  <2>3. told \in Seq(Report) /\ \A k \in DOMAIN told : IsTrue(told[k])
    BY DEF RInv, ToldTruly
  <2>4. /\ told' \in Seq(Report) /\ DOMAIN told' = 1..Len(told)+1
        /\ DOMAIN told = 1..Len(told) /\ Len(told) \in Nat
        /\ told'[Len(told)+1] = new /\ \A k \in 1..Len(told) : told'[k] = told[k]
    BY <1>3, <2>1, <2>3
  <2>5. ASSUME NEW k \in DOMAIN told' PROVE IsTrue(told[k])'
    <3>1. CASE k = Len(told) + 1
      BY <2>2, <2>4, <3>1 DEF IsTrue, Over, Effects, Waiting, Tool!NeverRan
    <3>2. CASE k # Len(told) + 1
      <4>1. PICK old \in Report : old = told[k] /\ IsTrue(old) /\ told'[k] = old
        BY <2>3, <2>4, <3>2
      <4>2. PICK c \in Calls : c = old.call /\ Over(c)
        BY <4>1 DEF Report, IsTrue
      <4>3. c # d
        BY <1>1, <1>5, <1>6, <4>2, OverStays
      <4>4. Effects(c)' = Effects(c) /\ Waiting(c)' = Waiting(c)
        BY <1>7, <1>8, <4>3
      <4>5. IsTrue(old)'
        BY <1>1, <1>6, <4>1, <4>2, <4>4, TrueStays
      <4> QED BY <4>1, <4>5 DEF IsTrue, Over, Effects, Waiting, Tool!NeverRan
    <3> QED BY <3>1, <3>2
  <2> QED BY <2>4, <2>5 DEF ToldTruly
<1> QED BY <1>10, <1>13 DEF RInv

LEMMA InitReports == ASSUME Init PROVE RInv
<1>1. OInv
  BY InitEstablishes
<1>2. TP!CInv
  <2>1. TP!Fresh
    BY DEF Init, Tool!Init, TP!Fresh
  <2> QED BY <2>1, FreshIsSound
<1>3. effects = << >> /\ late = {} /\ told = << >> /\ pc # "exec" /\ phase = "ready"
  BY DEF Init, Loop!Init, Tool!Init
<1>4. \A c : Effects(c) = {} /\ Waiting(c) = {}
  BY <1>3 DEF Effects, Waiting
<1>5. IsFiniteSet({}) /\ Cardinality({}) = 0
  BY FS_EmptySet
<1>6. Tool!maxAttempts \in Nat
  BY <1>2, ToolFacts
<1>7. CallsCounted
  <2>1. \A c : Cardinality(Effects(c)) = 0 /\ Cardinality(Waiting(c)) = 0
    BY <1>4, <1>5
  <2>2. \A c \in Calls : Cardinality(Effects(c)) + Cardinality(Waiting(c)) <= Tool!maxAttempts
    <3>1. 0 + 0 <= Tool!maxAttempts
      BY <1>6
    <3> QED BY <2>1, <3>1
  <2>3. IsFiniteSet(late)
    BY <1>3, <1>5
  <2> QED BY <1>2, <1>3, <2>2, <2>3 DEF CallsCounted
<1>8. ToldTruly
  BY <1>3 DEF ToldTruly
<1> QED BY <1>1, <1>7, <1>8 DEF RInv

\* For every parser, failure and number of attempts: a result the model reads
\* belongs to a tool that ran; a call whose every attempt was turned away has
\* no effect, however late; and no call has more effects than attempts.
THEOREM ReportsStayTrue == Spec => []ReportsAreTrue
<1>1. RInv /\ [Next]_vars => RInv'
  <2> SUFFICES ASSUME RInv, [Next]_vars PROVE RInv'
    OBVIOUS
  <2>1. OInv' /\ TP!CInv'
    BY OrderKept, CallKeeps DEF RInv
  <2> QED BY <2>1, QuietStepsReport, EndReports, GatewayReports, LateReports DEF Next, Step
<1>2. RInv => ReportsAreTrue
  <2> SUFFICES ASSUME RInv, NEW k \in DOMAIN told
               PROVE  /\ told[k].result = "ok" => Effects(told[k].call) # {}
                      /\ told[k].result = "error" /\ told[k].failed \subseteq Tool!NeverRan
                           => Effects(told[k].call) = {}
                      /\ Cardinality(Effects(told[k].call)) <= Tool!maxAttempts
    BY DEF ReportsAreTrue, Effects
  <2>1. told[k] \in Report /\ IsTrue(told[k])
    BY DEF RInv, ToldTruly
  <2>2. PICK c \in Calls : c = told[k].call
    BY <2>1 DEF Report
  <2>3. /\ Cardinality(Effects(c)) + Cardinality(Waiting(c)) <= Tool!maxAttempts
        /\ Cardinality(Effects(c)) \in Nat /\ Cardinality(Waiting(c)) \in Nat
        /\ Tool!maxAttempts \in Nat
    BY CountsAreNatural, ToolFacts DEF RInv, CallsCounted
  <2>4. Cardinality(Effects(c)) <= Tool!maxAttempts
    BY <2>3
  <2> QED BY <2>1, <2>2, <2>4 DEF IsTrue
<1>3. Init => RInv
  BY InitReports
<1> QED BY <1>1, <1>2, <1>3, PTL DEF Spec

====
