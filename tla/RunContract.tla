---- MODULE RunContract ----
(***************************************************************************)
(* What a run promises its caller, whatever the execution mode: a bounded  *)
(* number of gpt-oss requests, none once its context is done, and then     *)
(* exactly one outcome: a non-empty answer or a classified error.          *)
(***************************************************************************)
EXTENDS Integers, RunErrors

CONSTANTS
  MaxCalls,   \* most requests a run may send to gpt-oss
  Texts,      \* what an answer can be
  Empty,      \* the empty text, which is never an answer
  MayRefuse   \* whether a run may fail before it sends a request

VARIABLES outcome, ctxDone, calls

vars == <<outcome, ctxDone, calls>>

Running == [status |-> "running", answer |-> Empty, code |-> NoCode]
Answered(a) == [status |-> "answered", answer |-> a, code |-> NoCode]
Failed(code) == [status |-> "failed", answer |-> Empty, code |-> code]

Init == outcome = Running /\ ctxDone = FALSE /\ calls = 0

Ask ==
  /\ outcome = Running /\ ~ctxDone /\ calls < MaxCalls
  /\ calls' = calls + 1
  /\ UNCHANGED <<outcome, ctxDone>>

Answer ==
  /\ outcome = Running /\ calls > 0
  /\ \E a \in Texts \ {Empty} : outcome' = Answered(a)
  /\ UNCHANGED <<ctxDone, calls>>

\* A timeout needs a context that is done, any other failure a call that
\* was made, unless the run may refuse its input with an error without a
\* code. The code of an unreachable model is retried, never returned.
Fail ==
  /\ outcome = Running
  /\ \E code \in {NoCode, MaxIterationsExceeded, TimeoutExceeded, ContextWindowExceeded} :
       /\ IF code = TimeoutExceeded THEN ctxDone
          ELSE calls > 0 \/ (MayRefuse /\ code = NoCode)
       /\ outcome' = Failed(code)
  /\ UNCHANGED <<ctxDone, calls>>

Expire ==
  /\ outcome = Running /\ ~ctxDone /\ ctxDone' = TRUE
  /\ UNCHANGED <<outcome, calls>>

Next == Ask \/ Answer \/ Fail \/ Expire

\* A run ends: sooner or later it has an outcome.
Spec == Init /\ [][Next]_vars /\ <>(outcome # Running)

====
