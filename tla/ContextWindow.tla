---- MODULE ContextWindow ----
(***************************************************************************)
(* The conversation of a run and the tiered compaction applied to it       *)
(* before each gpt-oss call: buildInitialMessages and manageContext of     *)
(* internal/executor/executor.go.                                          *)
(*                                                                         *)
(* A message keeps its role and the length of its content; id tells one    *)
(* message from another (the code identifies them by position only).       *)
(***************************************************************************)
EXTENDS Integers, Sequences, SequencesExt

CONSTANTS
  PromptSize,       \* length of the system prompt, 0 when none is configured
  TruncAt,          \* least token count at or above limit * trunc threshold
  CompactAt,        \* least token count at or above limit * compact threshold
  MaxToolResult,    \* maxToolResult: 500
  CompactedSuffix   \* length of "\n... [compacted]": 16

ASSUME ContextAssumption ==
  {PromptSize, TruncAt, CompactAt, MaxToolResult, CompactedSuffix} \subseteq Nat

RoleLen == [system |-> 6, user |-> 4, assistant |-> 9, tool |-> 4]
Roles == DOMAIN RoleLen

Message == [role : Roles, size : Nat, id : Nat]

\* A conversation as the client posts it: never empty (the server checks).
Conversation == {s \in Seq([role : Roles, size : Nat]) : s # << >>}

----
IsFirstUser(input, i) ==
  /\ input[i].role = "user"
  /\ \A j \in 1..i-1 : input[j].role # "user"

\* The prompt and a blank line go in front of the first user message, or
\* into a user message of their own when the client sent none.
buildInitialMessages(input) ==
  LET injected(i) == IF PromptSize > 0 /\ IsFirstUser(input, i)
                     THEN PromptSize + 2 ELSE 0
      copied == [i \in DOMAIN input |->
                   [role |-> input[i].role, id |-> i,
                    size |-> input[i].size + injected(i)]]
  IN IF PromptSize > 0 /\ \A i \in DOMAIN input : input[i].role # "user"
     THEN <<[role |-> "user", id |-> 0, size |-> PromptSize]>> \o copied
     ELSE copied

----
\* int(total / 3.5) + 4 per message.
estimateTokens(messages) ==
  LET total == FoldLeft(LAMBDA sum, m : sum + RoleLen[m.role] + m.size,
                        0, messages)
  IN (2 * total) \div 7 + 4 * Len(messages)

\* Mutant: the limit is cut off instead of kept.
truncatedByLimit(m) ==
  IF m.role = "tool" /\ m.size > MaxToolResult
  THEN [m EXCEPT !.size = m.size - MaxToolResult + CompactedSuffix]
  ELSE m

truncated(m) ==
  IF m.role = "tool" /\ m.size > MaxToolResult
  THEN [m EXCEPT !.size = MaxToolResult + CompactedSuffix]
  ELSE m

truncateToolResults(messages) ==
  [i \in DOMAIN messages |-> truncated(messages[i])]

\* Mutant: a leading system message hides the message after it.
keptFirstOnly(messages) == 1

\* How many leading messages compaction never drops: a system message and
\* the one after it, or the first message.
kept(messages) == IF messages[1].role = "system" THEN 2 ELSE 1

\* Mutants: five messages count as few; the half is cut from the wrong slice,
\* whose head is then kept twice; the older half is kept.
compactLate(messages) ==
  IF Len(messages) <= 5 THEN messages
  ELSE LET k == kept(messages)
       IN SubSeq(messages, 1, k)
            \o SubSeq(messages, k + (Len(messages) - k) \div 2 + 1, Len(messages))
compactWrongSlice(messages) ==
  IF Len(messages) <= 4 THEN messages
  ELSE LET k == kept(messages)
       IN SubSeq(messages, 1, k)
            \o SubSeq(messages, (Len(messages) - k) \div 2 + 1, Len(messages))
compactOlderHalf(messages) ==
  IF Len(messages) <= 4 THEN messages
  ELSE LET k == kept(messages)
       IN SubSeq(messages, 1, k + (Len(messages) - k) \div 2)

compactMessages(messages) ==
  IF Len(messages) <= 4 THEN messages
  ELSE LET k == kept(messages)
           keepFrom == (Len(messages) - k) \div 2
       IN SubSeq(messages, 1, k) \o SubSeq(messages, k + keepFrom + 1, Len(messages))

\* Mutant: the second tier is never reached.
manageByTruncation(messages) ==
  IF estimateTokens(messages) < TruncAt THEN messages ELSE truncateToolResults(messages)

manageContext(messages) ==
  LET short == truncateToolResults(messages)
  IN IF estimateTokens(messages) < TruncAt THEN messages
     ELSE IF estimateTokens(short) < CompactAt THEN short
     ELSE compactMessages(short)

====
