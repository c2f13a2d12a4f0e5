---- MODULE MCContextWindowProofs ----
(***************************************************************************)
(* A conversation that grows and is managed at any moment, for every       *)
(* threshold, length of conversation and size of tool result: what each    *)
(* tier guarantees. The estimate of tokens stays opaque: nothing here      *)
(* depends on how it is computed.                                          *)
(***************************************************************************)
EXTENDS MCContextWindow, ContextWindowProofs

\* The messages are numbered in order, and next is the first free number.
GInv ==
  /\ messages \in Seq(Message) /\ messages # << >>
  /\ next \in Nat
  /\ \A i \in DOMAIN messages : messages[i].id < next
  /\ \A i, j \in DOMAIN messages : i < j => messages[i].id < messages[j].id

LEMMA GrowKeeps == ASSUME GInv, Grow PROVE GInv'
<1>1. /\ messages \in Seq(Message) /\ next \in Nat /\ next' = next + 1
      /\ Len(messages) \in Nat /\ DOMAIN messages = 1..Len(messages)
  BY DEF GInv, Grow
<1>2. PICK m \in Message : messages' = Append(messages, m) /\ m.id = next
  <2>1. ASSUME NEW role \in {"user", "assistant"}
        PROVE  New(role, 4) \in Message /\ New(role, 4).id = next
    BY <1>1 DEF New, Message, Roles, RoleLen
  <2>2. ASSUME NEW size \in ToolSizes
        PROVE  New("tool", size) \in Message /\ New("tool", size).id = next
    <3>1. size \in Nat
      BY GrowthAssumption
    <3> QED BY <1>1, <3>1 DEF New, Message, Roles, RoleLen
  <2> QED BY <2>1, <2>2 DEF Grow
<1>3. /\ messages' \in Seq(Message) /\ messages' # << >>
      /\ DOMAIN messages' = 1..Len(messages)+1
      /\ messages'[Len(messages)+1] = m
      /\ \A i \in 1..Len(messages) : messages'[i] = messages[i]
  BY <1>1, <1>2
<1>4. \A i \in 1..Len(messages) : messages[i].id \in Nat /\ messages[i].id < next
  <2>1. \A i \in 1..Len(messages) : messages[i] \in Message
    BY <1>1
  <2> QED BY <1>1, <2>1 DEF GInv, Message
<1>5. \A i \in DOMAIN messages' : messages'[i].id < next'
  BY <1>1, <1>2, <1>3, <1>4
<1>6. \A i, j \in DOMAIN messages' : i < j => messages'[i].id < messages'[j].id
  <2> SUFFICES ASSUME NEW i \in 1..Len(messages)+1, NEW j \in 1..Len(messages)+1, i < j
               PROVE  messages'[i].id < messages'[j].id
    BY <1>3
  <2>1. i \in 1..Len(messages)
    BY <1>1
  <2>2. CASE j = Len(messages) + 1
    BY <2>1, <2>2, <1>2, <1>3, <1>4
  <2>3. CASE j # Len(messages) + 1
    <3>1. j \in 1..Len(messages)
      BY <2>3, <1>1
    <3> QED BY <2>1, <3>1, <1>1, <1>3 DEF GInv
  <2> QED BY <2>2, <2>3
<1> QED BY <1>1, <1>3, <1>5, <1>6 DEF GInv

\* Dropping a block of a conversation in order leaves it in order.
LEMMA DroppingKeepsOrder ==
  ASSUME GInv, NEW short \in Seq(Message), NEW d \in Nat, DropsBehindHead(messages, short, d)
  PROVE  /\ short # << >>
         /\ \A i \in DOMAIN short : short[i].id < next
         /\ \A i, j \in DOMAIN short : i < j => short[i].id < short[j].id
         /\ \A i \in 1..kept(messages) : i \in DOMAIN messages => short[i].id = messages[i].id
         /\ short[Len(short)].id = messages[Len(messages)].id
         /\ \A i \in DOMAIN short :
              \E k \in DOMAIN messages :
                messages[k].id = short[i].id /\ messages[k].role = short[i].role
<1> DEFINE from(i) == IF i <= kept(messages) THEN i ELSE i + d
<1>1. /\ Len(messages) \in Nat /\ Len(messages) >= 1 /\ DOMAIN messages = 1..Len(messages)
      /\ Len(short) \in Nat /\ DOMAIN short = 1..Len(short)
      /\ Len(short) = Len(messages) - d
      /\ kept(messages) \in {1, 2} /\ (d > 0 => kept(messages) < Len(short))
  BY DEF GInv, DropsBehindHead, kept
<1>2. \A i \in 1..Len(short) :
        /\ from(i) \in 1..Len(messages)
        /\ short[i].id = messages[from(i)].id
        /\ short[i].role = messages[from(i)].role
  BY <1>1 DEF DropsBehindHead
<1>3. \A i, j \in 1..Len(short) : i < j => from(i) < from(j)
  BY <1>1
<1>4. Len(short) >= 1 /\ from(Len(short)) = Len(messages)
  <2>1. CASE d = 0
    BY <1>1, <2>1
  <2>2. CASE d > 0
    <3>1. ~(Len(short) <= kept(messages)) /\ Len(short) >= 1
      BY <1>1, <2>2
    <3>2. from(Len(short)) = Len(short) + d
      BY <3>1
    <3> QED BY <1>1, <3>1, <3>2
  <2> QED BY <2>1, <2>2
<1>5. \A i \in 1..kept(messages) : i \in DOMAIN messages => i \in 1..Len(short) /\ from(i) = i
  BY <1>1
<1> HIDE DEF from
<1>6. \A i \in DOMAIN short : short[i].id < next
  BY <1>1, <1>2 DEF GInv
<1>7. ASSUME NEW i \in DOMAIN short, NEW j \in DOMAIN short, i < j
      PROVE  short[i].id < short[j].id
  <2>1. PICK a \in DOMAIN messages, b \in DOMAIN messages : a = from(i) /\ b = from(j)
    BY <1>1, <1>2
  <2>2. a < b
    BY <1>1, <1>3, <1>7, <2>1
  <2>3. short[i].id = messages[a].id /\ short[j].id = messages[b].id
    BY <1>1, <1>2, <2>1
  <2>4. messages[a].id < messages[b].id
    BY <2>2 DEF GInv
  <2> QED BY <2>3, <2>4
<1>8. short[Len(short)].id = messages[Len(messages)].id
  BY <1>1, <1>2, <1>4
<1>9. \A i \in 1..kept(messages) : i \in DOMAIN messages => short[i].id = messages[i].id
  BY <1>2, <1>5
<1>10. \A i \in DOMAIN short :
        \E k \in DOMAIN messages :
          messages[k].id = short[i].id /\ messages[k].role = short[i].role
  BY <1>1, <1>2
<1>11. short # << >>
  BY <1>1, <1>4
<1> QED BY <1>6, <1>7, <1>8, <1>9, <1>10, <1>11

LEMMA ManageKeeps == ASSUME GInv, Manage PROVE GInv'
<1>1. PICK d \in Nat : DropsBehindHead(messages, messages', d)
  BY ManageFacts DEF GInv, Manage
<1>2. messages' \in Seq(Message) /\ next' = next
  BY ManageFacts DEF GInv, Manage
<1> QED BY <1>1, <1>2, DroppingKeepsOrder DEF GInv

LEMMA GrowthInvariant == Spec => []GInv
<1>1. Init => GInv
  BY DEF Init, GInv, Message, Roles, RoleLen
<1>2. GInv /\ UNCHANGED vars => GInv'
  BY DEF GInv, vars
<1> QED BY <1>1, <1>2, GrowKeeps, ManageKeeps, PTL DEF Spec

----
\* Managing the context keeps the head of a conversation and its newest
\* message, whatever it drops between them, and reorders nothing.
THEOREM EndsAreKept == Spec => KeepsBothEnds
<1> DEFINE Kept ==
       next' = next =>
         /\ \A i \in 1..kept(messages) : i \in DOMAIN messages => messages'[i].id = messages[i].id
         /\ messages'[Len(messages')].id = messages[Len(messages)].id
         /\ \A i, j \in DOMAIN messages' : i < j => messages'[i].id < messages'[j].id
         /\ \A i \in DOMAIN messages' :
              \E k \in DOMAIN messages :
                /\ messages[k].id = messages'[i].id
                /\ messages[k].role = messages'[i].role
<1>1. GInv /\ Manage => Kept
  <2> SUFFICES ASSUME GInv, Manage PROVE Kept
    OBVIOUS
  <2>1. PICK d \in Nat : DropsBehindHead(messages, messages', d)
    BY ManageFacts DEF GInv, Manage
  <2>2. messages' \in Seq(Message)
    BY ManageFacts DEF GInv, Manage
  <2> QED BY <2>1, <2>2, DroppingKeepsOrder
<1>2. GInv /\ Grow => Kept
  BY DEF GInv, Grow
<1>3. GInv /\ [Grow \/ Manage]_vars => [Kept]_vars
  BY <1>1, <1>2
<1> QED BY <1>3, GrowthInvariant, PTL DEF Spec, KeepsBothEnds

\* What compaction leaves of a conversation, by length alone.
LEMMA CompactLength ==
  ASSUME NEW ms \in Seq(Message), ms # << >>, Len(ms) > 4
  PROVE  /\ Len(compactMessages(ms)) < Len(ms)
         /\ 2 * Len(compactMessages(ms)) >= Len(ms)
<1>1. PICK d \in Nat : /\ DropsBehindHead(ms, compactMessages(ms), d)
                       /\ Len(ms) > 4 => d >= 1 /\ 2 * d <= Len(ms)
  BY CompactFacts
<1>2. Len(compactMessages(ms)) = Len(ms) - d /\ Len(ms) \in Nat
  BY <1>1 DEF DropsBehindHead
<1> QED BY <1>1, <1>2

\* Each compaction of five messages or more makes progress, and none forgets
\* more than half of the conversation.
THEOREM CompactionAlwaysHalves == Spec => []CompactionHalves
<1>1. GInv => CompactionHalves
  BY CompactLength DEF GInv, CompactionHalves
<1> QED BY <1>1, GrowthInvariant, PTL

\* For every limit and suffix, what truncation leaves it leaves again.
LEMMA TruncatedTwice ==
  ASSUME NEW m \in Message PROVE truncated(truncated(m)) = truncated(m)
<1>1. MaxToolResult \in Nat /\ CompactedSuffix \in Nat
  BY ContextAssumption
<1>2. CASE m.role = "tool" /\ m.size > MaxToolResult
  <2>1. PICK short \in Message : /\ short = truncated(m)
                                 /\ short.role = m.role /\ short.id = m.id
                                 /\ short.size = MaxToolResult + CompactedSuffix
    <3>1. truncated(m) = [m EXCEPT !.size = MaxToolResult + CompactedSuffix]
      BY <1>2 DEF truncated
    <3>2. MaxToolResult + CompactedSuffix \in Nat
      BY <1>1
    <3>3. truncated(m) \in Message
      BY <3>1, <3>2 DEF Message
    <3>4. /\ truncated(m).role = m.role /\ truncated(m).id = m.id
          /\ truncated(m).size = MaxToolResult + CompactedSuffix
      BY <3>1 DEF Message
    <3> QED BY <3>3, <3>4
  <2>2. truncated(short) = [short EXCEPT !.size = MaxToolResult + CompactedSuffix]
                \/ truncated(short) = short
    BY DEF truncated
  <2>3. [short EXCEPT !.size = MaxToolResult + CompactedSuffix] = short
    BY <2>1 DEF Message
  <2> QED BY <2>1, <2>2, <2>3
<1>3. CASE ~(m.role = "tool" /\ m.size > MaxToolResult)
  BY <1>3 DEF truncated
<1> QED BY <1>2, <1>3

\* A shortened tool result is left alone from then on, however often the
\* conversation is managed.
THEOREM TruncationAlwaysSettles == Spec => []TruncationSettles
<1>1. GInv => TruncationSettles
  <2> SUFFICES ASSUME GInv PROVE TruncationSettles
    OBVIOUS
  <2> DEFINE once == truncateToolResults(messages)
             twice == truncateToolResults(once)
  <2>1. once \in Seq(Message) /\ Len(once) = Len(messages)
    BY TruncateFacts DEF GInv
  <2>2. twice \in Seq(Message) /\ Len(twice) = Len(once)
    BY <2>1, TruncateFacts
  <2>3. ASSUME NEW i \in 1..Len(once) PROVE twice[i] = once[i]
    <3>1. i \in DOMAIN messages /\ messages[i] \in Message /\ i \in DOMAIN once
      BY <2>1 DEF GInv
    <3>2. once[i] = truncated(messages[i])
      BY <3>1 DEF truncateToolResults
    <3>3. twice[i] = truncated(once[i])
      BY <3>1 DEF truncateToolResults
    <3> QED BY <3>1, <3>2, <3>3, TruncatedTwice
  <2> HIDE DEF once, twice
  <2>4. twice = once
    BY <2>1, <2>2, <2>3
  <2> QED BY <2>4 DEF TruncationSettles, once, twice
<1> QED BY <1>1, GrowthInvariant, PTL

\* Whatever the estimate and in whatever order the two thresholds stand, a
\* conversation of five messages or more above both loses some of them.
THEOREM RoomIsAlwaysMade == Spec => []RoomIsMade
<1>1. GInv => RoomIsMade
  <2> SUFFICES ASSUME GInv PROVE RoomIsMade
    OBVIOUS
  <2> DEFINE short == truncateToolResults(messages)
             managed == manageContext(messages)
  <2>1. short \in Seq(Message) /\ Len(short) = Len(messages)
    BY TruncateFacts DEF GInv
  <2>2. short # << >> /\ Len(messages) \in Nat
    BY <2>1 DEF GInv
  <2>3. CASE estimateTokens(messages) < TruncAt
    BY <2>3 DEF RoomIsMade, manageContext
  <2>4. CASE ~(estimateTokens(messages) < TruncAt) /\ estimateTokens(short) < CompactAt
    BY <2>4 DEF RoomIsMade, manageContext
  <2>5. CASE ~(estimateTokens(messages) < TruncAt) /\ ~(estimateTokens(short) < CompactAt)
    <3>1. managed = compactMessages(short)
      BY <2>5, Zenon DEF manageContext
    <3>2. CASE Len(short) > 4
      BY <3>1, <3>2, <2>1, <2>2, CompactLength DEF RoomIsMade
    <3>3. CASE ~(Len(short) > 4)
      <4>1. Len(short) <= 4
        BY <3>3, <2>1, <2>2
      <4> QED BY <3>1, <4>1 DEF RoomIsMade, compactMessages
    <3> QED BY <3>2, <3>3
  <2> QED BY <2>3, <2>4, <2>5
<1> QED BY <1>1, GrowthInvariant, PTL

====
