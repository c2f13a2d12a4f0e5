---- MODULE ToolCall ----
(***************************************************************************)
(* What a tool call promises the loops that make it: it comes back, with a *)
(* result only if the gateway ran the tool, and the tool is run at least   *)
(* once for a result and at most MaxRuns times in all, possibly after the  *)
(* call came back.                                                         *)
(***************************************************************************)
EXTENDS Integers

CONSTANT MaxRuns    \* most times the tool may be run for one call

VARIABLES status, runs

vars == <<status, runs>>

Init == status = "idle" /\ runs = 0

Open == status = "idle" /\ status' = "open" /\ UNCHANGED runs

Run == status # "idle" /\ runs < MaxRuns /\ runs' = runs + 1 /\ UNCHANGED status

Close ==
  /\ status = "open"
  /\ status' = "error" \/ (status' = "ok" /\ runs > 0)
  /\ UNCHANGED runs

Next == Open \/ Run \/ Close

Spec == Init /\ [][Next]_vars /\ [](status = "open" => <>(status # "open"))

====
