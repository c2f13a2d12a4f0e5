---- MODULE MCContextWindow ----
(* A conversation that grows message by message and is managed at any      *)
(* moment, as before every gpt-oss call.                                   *)
EXTENDS ContextWindow

CONSTANTS
  MaxId,       \* messages in one behaviour
  ToolSizes    \* lengths of tool messages; other messages have length 4

ASSUME GrowthAssumption == MaxId \in Nat /\ ToolSizes \subseteq Nat

VARIABLES messages, next

vars == <<messages, next>>

New(role, size) == [role |-> role, size |-> size, id |-> next]

Init ==
  /\ next = 2
  /\ \E role \in {"system", "user"} :
       messages = <<[role |-> role, size |-> 4, id |-> 1]>>

Grow ==
  /\ next <= MaxId /\ next' = next + 1
  /\ \/ \E role \in {"user", "assistant"} : messages' = Append(messages, New(role, 4))
     \/ \E size \in ToolSizes : messages' = Append(messages, New("tool", size))

Manage ==
  /\ messages' = manageContext(messages)
  /\ UNCHANGED next

Spec == Init /\ [][Grow \/ Manage]_vars

----
Ids(s) == {s[i].id : i \in DOMAIN s}

\* Managing the context keeps the message the conversation starts with, the
\* one after a leading system message, and the newest one; what it keeps
\* stays in order with its role.
KeepsBothEnds ==
  [][next' = next =>
       /\ \A i \in 1..kept(messages) : i \in DOMAIN messages => messages'[i].id = messages[i].id
       /\ messages'[Len(messages')].id = messages[Len(messages)].id
       /\ \A i, j \in DOMAIN messages' : i < j => messages'[i].id < messages'[j].id
       /\ \A i \in DOMAIN messages' :
            \E k \in DOMAIN messages :
              /\ messages[k].id = messages'[i].id
              /\ messages[k].role = messages'[i].role]_vars

\* Compaction drops something whenever there are five messages or more, and
\* at most half of them: repeated at every call it always makes progress and
\* never forgets more than half a conversation at once.
CompactionHalves ==
  LET short == compactMessages(messages)
  IN Len(messages) > 4 => Len(short) < Len(messages) /\ 2 * Len(short) >= Len(messages)

\* Once shortened a tool result is left alone: a second pass changes nothing,
\* so a result is not eaten away call after call.
TruncationSettles ==
  LET once == truncateToolResults(messages) IN truncateToolResults(once) = once

\* Managing twice in a row can drop messages twice, but never leaves a long
\* conversation above both thresholds untouched: no configuration check says
\* which of the two is the lower one.
RoomIsMade ==
  LET managed == manageContext(messages)
  IN \/ estimateTokens(managed) < CompactAt \/ estimateTokens(managed) < TruncAt
     \/ Len(managed) <= 4 \/ Len(managed) < Len(messages)

====
