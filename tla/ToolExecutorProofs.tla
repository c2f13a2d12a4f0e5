---- MODULE ToolExecutorProofs ----
(***************************************************************************)
(* What a tool call promises, for every number of attempts, every set of   *)
(* failures and every limit: how often its tool can run, what a repetition *)
(* needs, why it gives up, and that it keeps the contract of ToolCall.     *)
(***************************************************************************)
EXTENDS ToolExecutor, TLAPS

----
(* The inductive invariant.                                                *)

\* The request in flight counts as a run that may still come.
pending == IF phase = "invoke" /\ request = "sent" THEN 1 ELSE 0

\* An attempt that is repeated may have reached the tool.
AnswerLost == \E f \in failed : isRetryable(f) /\ f \notin NeverRan

\* What has run, is in flight or is astray, bounded by the attempts made,
\* and by the current attempt alone while no answer was lost.
RunsAccounted ==
  /\ runs + astray + pending <= IF phase = "ready" THEN 0 ELSE attempt + 1
  /\ ~AnswerLost =>
       runs + astray + pending <= IF phase \in {"ready", "backoff"} THEN 0 ELSE 1

\* A call is still open without a result, backs off only with attempts left,
\* sends nothing only when the context is done, and succeeds only after a run.
Progress ==
  /\ result = "none" <=> phase # "returned"
  /\ phase = "backoff" => attempt + 1 < maxAttempts
  /\ phase = "invoke" /\ request = "unsent" => ctxDone
  /\ request = "ran" => runs > 0
  /\ result = "ok" => runs > 0

\* A call whose every attempt was turned away has not run, nor will it.
NothingRan == result = "error" /\ failed \subseteq NeverRan => runs + astray = 0

CInv == TypeOK /\ RunsAccounted /\ Progress /\ GivesUpForAReason /\ NothingRan

LEMMA AttemptsArePositive == maxAttempts \in Nat /\ maxAttempts >= 1
BY ToolAssumption DEF maxAttempts


\* The end of the context is not retried; what never ran does not run later.
LEMMA FailureFacts ==
  /\ ~isRetryable("ctx_done")
  /\ \A f \in NeverRan : f \notin MayRunLater
BY DEF isRetryable, Phrase, NeverRan, MayRunLater

LEMMA SizeIsNatural == ASSUME NEW n \in RawSizes PROVE truncateResult(n) \in Nat
BY ToolAssumption DEF truncateResult

----
(* The steps. *)

\* What is said of the failures holds on while no failure is added.
LEMMA SameFailures ==
  ASSUME failed' = failed
  PROVE  (AnswerLost' <=> AnswerLost)
         /\ ((\E f \in failed' : ~isRetryable(f)) <=> \E f \in failed : ~isRetryable(f))
BY DEF AnswerLost, isRetryable

\* The variables of a call before it is made, whatever the context.
Fresh ==
  /\ phase = "ready" /\ attempt = 0 /\ failed = {} /\ request = "unsent"
  /\ runs = 0 /\ astray = 0 /\ result = "none" /\ size = 0 /\ ctxDone \in BOOLEAN

LEMMA FreshIsSound == ASSUME Fresh PROVE CInv
<1>0. 0 \in 0..maxAttempts-1
  BY AttemptsArePositive
<1>1. TypeOK
  BY <1>0 DEF Fresh, TypeOK
<1>2. RunsAccounted /\ Progress
  BY DEF Fresh, RunsAccounted, Progress, pending
<1>3. GivesUpForAReason /\ NothingRan
  BY DEF Fresh, GivesUpForAReason, NothingRan
<1> QED BY <1>1, <1>2, <1>3 DEF CInv

LEMMA InitEstablishes == Init => CInv
BY FreshIsSound DEF Init, Fresh

LEMMA ExecuteKeeps == ASSUME CInv, Execute PROVE CInv'
<1> USE AttemptsArePositive DEF CInv, Execute
<1>1. TypeOK'
  BY DEF TypeOK
<1>2. RunsAccounted'
  BY SameFailures DEF TypeOK, RunsAccounted, pending
<1>3. Progress' /\ GivesUpForAReason'
  BY DEF TypeOK, Progress, GivesUpForAReason, isRetryable, maxAttempts
<1>4. NothingRan'
  BY DEF TypeOK, Progress, RunsAccounted, NothingRan, AnswerLost, NeverRan, pending
<1> QED BY <1>1, <1>2, <1>3, <1>4

LEMMA GatewayKeeps == ASSUME CInv, GatewayRuns \/ GatewayRunsLate PROVE CInv'
<1> USE DEF CInv, GatewayRuns, GatewayRunsLate
<1>1. TypeOK'
  BY DEF TypeOK
<1>2. RunsAccounted'
  BY SameFailures, AttemptsArePositive DEF TypeOK, RunsAccounted, pending
<1>3. Progress'
  <2>1. runs' > 0
    BY DEF TypeOK
  <2>2. /\ phase' = phase /\ result' = result /\ attempt' = attempt /\ ctxDone' = ctxDone
        /\ request' = "unsent" => request = "unsent"
    OBVIOUS
  <2> QED BY <2>1, <2>2 DEF Progress, maxAttempts
<1>4. GivesUpForAReason'
  BY SameFailures DEF GivesUpForAReason, maxAttempts
<1>5. NothingRan'
  BY DEF TypeOK, Progress, NothingRan
<1> QED BY <1>1, <1>2, <1>3, <1>4, <1>5

LEMMA SuccessKeeps == ASSUME CInv, InvokeSucceeds PROVE CInv'
<1> USE DEF CInv, InvokeSucceeds, Return
<1>1. TypeOK'
  BY SizeIsNatural DEF TypeOK
<1>2. RunsAccounted'
  BY SameFailures, AttemptsArePositive DEF TypeOK, RunsAccounted, pending
<1>3. Progress' /\ GivesUpForAReason'
  BY DEF TypeOK, Progress, GivesUpForAReason, isRetryable, maxAttempts
<1>4. NothingRan'
  BY DEF TypeOK, Progress, RunsAccounted, NothingRan, AnswerLost, NeverRan, pending
<1> QED BY <1>1, <1>2, <1>3, <1>4

\* A failed attempt: its request is over, or astray.
LEMMA FailureKeeps == ASSUME CInv, NEW f \in Failures, InvokeFails(f) PROVE CInv'
<1> USE DEF CInv
<1>1. /\ phase = "invoke" /\ phase' \in {"backoff", "returned"}
      /\ failed' = failed \cup {f}
      /\ UNCHANGED <<attempt, request, runs, size, ctxDone>>
      /\ (ctxDone <=> f = "ctx_done") /\ (f \in NeverRan => request # "ran")
      /\ astray' = IF f \in MayRunLater /\ request = "sent" THEN astray + 1 ELSE astray
  BY DEF InvokeFails, Return
<1>2. /\ phase' = "backoff" => isRetryable(f) /\ attempt + 1 < maxAttempts /\ result' = result
      /\ phase' = "returned" => result' = "error" /\ (~isRetryable(f) \/ ~(attempt + 1 < maxAttempts))
  BY DEF InvokeFails, Return, triesAgain
<1>3. TypeOK'
  BY <1>1, <1>2 DEF TypeOK
<1>4. runs' + astray' + pending' <= runs + astray + pending
  BY <1>1 DEF TypeOK, pending
<1>5. ~AnswerLost' => ~AnswerLost
  BY <1>1 DEF AnswerLost, isRetryable
<1>6. ASSUME ~AnswerLost', phase' = "backoff" PROVE runs' + astray' + pending' <= 0
  <2>1. f \in NeverRan /\ f \notin MayRunLater
    BY <1>1, <1>2, <1>6, FailureFacts DEF AnswerLost, isRetryable
  <2>2. f # "ctx_done" /\ request = "sent"
    BY <1>1, <1>2, <1>6, <2>1, FailureFacts DEF Progress, TypeOK
  <2>3. pending = 1 /\ pending' = 0 /\ astray' = astray /\ runs' = runs
    BY <1>1, <2>1, <2>2 DEF pending
  <2> QED BY <1>1, <1>5, <1>6, <2>3 DEF RunsAccounted, TypeOK
<1>7. RunsAccounted'
  BY <1>1, <1>3, <1>4, <1>5, <1>6, AttemptsArePositive DEF RunsAccounted, TypeOK, pending
<1>8. Progress'
  BY <1>1, <1>2 DEF TypeOK, Progress
<1>9. GivesUpForAReason'
  <2>1. ~\E g \in failed : ~isRetryable(g)
    BY <1>1 DEF GivesUpForAReason
  <2>2. attempt \in Nat /\ attempt <= maxAttempts - 1
    BY AttemptsArePositive DEF TypeOK
  <2>3. ~isRetryable(f) => \E g \in failed' : ~isRetryable(g)
    BY <1>1
  <2>4. phase' = "returned" /\ isRetryable(f) => attempt' + 1 = maxAttempts'
    <3>1. attempt' = attempt /\ maxAttempts' = maxAttempts
      BY <1>1 DEF maxAttempts
    <3> HIDE DEF CInv
    <3> QED BY <1>2, <2>2, <3>1, AttemptsArePositive
  <2>5. phase' = "backoff" => ~\E g \in failed' : ~isRetryable(g)
    BY <1>1, <1>2, <2>1
  <2> QED BY <1>1, <1>2, <1>3, <1>8, <2>3, <2>4, <2>5 DEF GivesUpForAReason, Progress, isRetryable
<1>10. NothingRan'
  <2> SUFFICES ASSUME phase' = "returned", failed' \subseteq NeverRan
               PROVE  runs' + astray' = 0
    BY <1>8 DEF NothingRan, Progress
  <2>1. f \in NeverRan /\ f \notin MayRunLater /\ f # "ctx_done"
    BY <1>1, FailureFacts DEF NeverRan
  <2>2. request = "sent" /\ astray' = astray /\ runs' = runs
    BY <1>1, <2>1 DEF Progress, TypeOK
  <2>3. ~AnswerLost
    BY <1>1 DEF AnswerLost
  <2> QED BY <1>1, <2>2, <2>3 DEF RunsAccounted, TypeOK, pending
<1> QED BY <1>3, <1>7, <1>8, <1>9, <1>10

LEMMA BackoffKeeps == ASSUME CInv, BackoffEnds \/ BackoffCancelled PROVE CInv'
<1> USE AttemptsArePositive DEF CInv, BackoffEnds, BackoffCancelled, Return
<1>1. TypeOK'
  BY DEF TypeOK, Progress
<1>2. RunsAccounted'
  BY SameFailures DEF TypeOK, RunsAccounted, pending
<1>3. Progress' /\ GivesUpForAReason'
  BY DEF TypeOK, Progress, GivesUpForAReason, isRetryable, maxAttempts
<1>4. NothingRan'
  <2>1. failed' \subseteq NeverRan => ~AnswerLost
    BY DEF AnswerLost
  <2>2. ~AnswerLost => runs' + astray' = 0
    BY DEF TypeOK, RunsAccounted, pending
  <2> QED BY <2>1, <2>2 DEF NothingRan
<1> QED BY <1>1, <1>2, <1>3, <1>4

\* The end of the context, at any moment, and a step of something else.
LEMMA ContextKeeps ==
  ASSUME CInv, ctxDone' \in BOOLEAN, ctxDone => ctxDone',
         UNCHANGED <<phase, attempt, failed, request, runs, astray, result, size>>
  PROVE  CInv'
<1> USE DEF CInv
<1>1. TypeOK' /\ RunsAccounted'
  BY DEF TypeOK, RunsAccounted, pending, AnswerLost, isRetryable, maxAttempts
<1>2. Progress' /\ NothingRan'
  BY DEF Progress, NothingRan, maxAttempts
<1>3. GivesUpForAReason'
  BY DEF GivesUpForAReason, isRetryable, maxAttempts
<1> QED BY <1>1, <1>2, <1>3

LEMMA OthersKeep == ASSUME CInv, Expire \/ UNCHANGED vars PROVE CInv'
<1>1. ctxDone' \in BOOLEAN /\ (ctxDone => ctxDone')
  BY DEF Expire, vars, CInv, TypeOK
<1> QED BY <1>1, ContextKeeps DEF Expire, vars

LEMMA CallInvariant == Spec => []CInv
<1>1. CInv /\ [Next]_vars => CInv'
  BY ExecuteKeeps, GatewayKeeps, SuccessKeeps, FailureKeeps, BackoffKeeps, OthersKeep
     DEF Next, Step
<1> QED BY InitEstablishes, <1>1, PTL DEF Spec

----
(* The results. *)

\* The variables of a call keep their types, so it never makes more than
\* maxAttempts attempts.
THEOREM CallTypeCorrect == Spec => []TypeOK
<1>1. CInv => TypeOK
  BY DEF CInv
<1> QED BY <1>1, CallInvariant, PTL

\* A tool is run at most once for each attempt, requests astray included.
THEOREM RunsAreBounded == Spec => []RunsBounded
<1>1. CInv => RunsBounded
  BY DEF CInv, TypeOK, RunsAccounted, RunsBounded, pending
<1> QED BY <1>1, CallInvariant, PTL

\* Without a lost answer no tool is run twice for one intent: what is
\* retried after a refusal has not run.
THEOREM RepeatsNeedLostAnswers == Spec => []RepeatNeedsLostAnswer
<1>1. CInv => RepeatNeedsLostAnswer
  BY DEF CInv, TypeOK, RunsAccounted, RepeatNeedsLostAnswer, AnswerLost, pending
<1> QED BY <1>1, CallInvariant, PTL

\* A call gives up for a failure it must not retry, for the end of the run
\* or for lack of attempts, and never goes on after such a failure.
THEOREM GivesUpOnlyForAReason == Spec => []GivesUpForAReason
<1>1. CInv => GivesUpForAReason
  BY DEF CInv
<1> QED BY <1>1, CallInvariant, PTL

\* No request leaves for the gateway once the context is done.
THEOREM NothingIsSentWhenDone == Spec => NothingSentWhenDone
<1>1. [Next]_vars => [ctxDone /\ request' = "sent" => request = "sent"]_vars
  BY DEF Next, Step, vars, Execute, GatewayRuns, GatewayRunsLate, InvokeSucceeds,
         InvokeFails, BackoffEnds, BackoffCancelled, Expire
<1> QED BY <1>1, PTL DEF Spec, NothingSentWhenDone

\* Every step of a call is one of its contract or a stutter: it opens, its
\* tool runs at most maxAttempts times, and it closes with a result only if
\* the tool ran.
THEOREM CallImplementsContract == Spec => Call!Init /\ [][Call!Next]_(Call!vars)
<1>1. Init => Call!Init
  BY DEF Init, Call!Init
<1>2. CInv /\ CInv' /\ [Next]_vars => [Call!Next]_(Call!vars)
  <2> SUFFICES ASSUME CInv, CInv', [Next]_vars PROVE [Call!Next]_(Call!vars)
    OBVIOUS
  <2> USE DEF Call!vars, Call!Next, Call!Open, Call!Run, Call!Close, CInv, TypeOK
  <2>1. CASE Execute
    BY <2>1 DEF Execute
  <2>2. CASE GatewayRuns \/ GatewayRunsLate
    <3>1. runs < maxAttempts
      BY <2>2, AttemptsArePositive DEF GatewayRuns, GatewayRunsLate, RunsAccounted, pending
    <3> QED BY <2>2, <3>1 DEF GatewayRuns, GatewayRunsLate, RunsAccounted, pending, Progress
  <2>3. CASE InvokeSucceeds
    BY <2>3 DEF InvokeSucceeds, Return, Progress
  <2>4. CASE \E f \in Failures : InvokeFails(f)
    BY <2>4 DEF InvokeFails, Return, Progress
  <2>5. CASE BackoffEnds \/ BackoffCancelled
    BY <2>5 DEF BackoffEnds, BackoffCancelled, Return, Progress
  <2>6. CASE Expire \/ UNCHANGED vars
    BY <2>6 DEF Expire, vars
  <2> QED BY <2>1, <2>2, <2>3, <2>4, <2>5, <2>6 DEF Next, Step
<1> QED BY <1>1, <1>2, CallInvariant, PTL DEF Spec

====
