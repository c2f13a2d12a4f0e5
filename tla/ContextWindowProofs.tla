---- MODULE ContextWindowProofs ----
(***************************************************************************)
(* What context management does to a conversation, for every threshold and *)
(* every length. All that other proofs need is how positions map: the kept *)
(* head stays in place, the tail slides down, the middle is gone.          *)
(***************************************************************************)
EXTENDS ContextWindow, SequenceTheorems, TLAPS

\* short is the conversation ms with d messages dropped behind its kept
\* head, contents aside.
DropsBehindHead(ms, short, d) ==
  /\ Len(short) = Len(ms) - d
  /\ d > 0 => kept(ms) < Len(short)
  /\ \A i \in 1..Len(short) :
       /\ short[i].id = ms[IF i <= kept(ms) THEN i ELSE i + d].id
       /\ short[i].role = ms[IF i <= kept(ms) THEN i ELSE i + d].role

\* Truncation keeps the type, the length, every role and every id.
LEMMA TruncateFacts ==
  ASSUME NEW ms \in Seq(Message)
  PROVE  /\ truncateToolResults(ms) \in Seq(Message)
         /\ Len(truncateToolResults(ms)) = Len(ms)
         /\ \A i \in 1..Len(ms) : /\ truncateToolResults(ms)[i].id = ms[i].id
                                  /\ truncateToolResults(ms)[i].role = ms[i].role
<1> DEFINE short == truncateToolResults(ms)
<1>1. \A i \in 1..Len(ms) : ms[i] \in Message
  OBVIOUS
<1>2. \A i \in 1..Len(ms) : /\ truncated(ms[i]) \in Message
                            /\ truncated(ms[i]).id = ms[i].id
                            /\ truncated(ms[i]).role = ms[i].role
  <2> SUFFICES ASSUME NEW i \in 1..Len(ms)
               PROVE  /\ truncated(ms[i]) \in Message
                      /\ truncated(ms[i]).id = ms[i].id
                      /\ truncated(ms[i]).role = ms[i].role
    OBVIOUS
  <2>1. MaxToolResult + CompactedSuffix \in Nat
    BY ContextAssumption
  <2> QED BY <1>1, <2>1 DEF truncated, Message
<1>3. short = [i \in 1..Len(ms) |-> truncated(ms[i])]
  BY DEF truncateToolResults
<1>4. short \in Seq(Message) /\ Len(short) = Len(ms)
  BY <1>2, <1>3
<1> QED BY <1>2, <1>3, <1>4

\* Compaction drops a block behind the head it keeps and nothing else; of
\* five messages or more it drops at least one and at most half.
LEMMA CompactFacts ==
  ASSUME NEW ms \in Seq(Message), ms # << >>
  PROVE  /\ compactMessages(ms) \in Seq(Message)
         /\ \E d \in Nat : /\ DropsBehindHead(ms, compactMessages(ms), d)
                           /\ Len(ms) > 4 => d >= 1 /\ 2 * d <= Len(ms)
<1>1. CASE Len(ms) <= 4
  <2>1. compactMessages(ms) = ms
    BY <1>1 DEF compactMessages
  <2>2. DropsBehindHead(ms, ms, 0)
    BY DEF DropsBehindHead
  <2> QED BY <1>1, <2>1, <2>2
<1>2. CASE Len(ms) > 4
  <2> DEFINE k == kept(ms)
             d == (Len(ms) - k) \div 2
             head == SubSeq(ms, 1, k)
             tail == SubSeq(ms, k + d + 1, Len(ms))
  <2>1. k \in {1, 2} /\ Len(ms) \in Nat
    BY DEF kept
  <2>2. d \in Nat /\ d >= 1 /\ k + d < Len(ms) /\ 2 * d <= Len(ms)
    BY <2>1, <1>2
  <2>3. compactMessages(ms) = head \o tail
    <3>1. ~(Len(ms) <= 4)
      BY <1>2
    <3> QED BY <3>1, Zenon DEF compactMessages
  <2> HIDE DEF k, d
  <2>4. head \in Seq(Message) /\ Len(head) = k /\ \A i \in 1..k : head[i] = ms[i]
    BY <2>1, <1>2
  <2>5. /\ tail \in Seq(Message) /\ Len(tail) = Len(ms) - k - d
        /\ \A i \in 1..Len(tail) : tail[i] = ms[k + d + i]
    BY <2>1, <2>2
  <2> DEFINE short == head \o tail
  <2> HIDE DEF head, tail
  <2>6. short \in Seq(Message) /\ Len(short) = Len(ms) - d
    <3>1. short \in Seq(Message) /\ Len(short) = Len(head) + Len(tail)
      BY <2>4, <2>5, ConcatProperties
    <3> QED BY <3>1, <2>1, <2>2, <2>4, <2>5
  <2>7. \A i \in 1..Len(short) : short[i] = ms[IF i <= k THEN i ELSE i + d]
    <3> SUFFICES ASSUME NEW i \in 1..Len(short)
                 PROVE  short[i] = ms[IF i <= k THEN i ELSE i + d]
      OBVIOUS
    <3>1. CASE i <= k
      BY <3>1, <2>1, <2>4, <2>5, ConcatProperties
    <3>2. CASE i > k
      <4>1. i - k \in 1..Len(tail)
        BY <3>2, <2>1, <2>2, <2>5, <2>6
      <4>2. short[i] = tail[i - k]
        BY <3>2, <4>1, <2>1, <2>4, <2>5, ConcatProperties
      <4>3. k + d + (i - k) = i + d
        BY <2>1, <2>2
      <4> QED BY <3>2, <4>1, <4>2, <4>3, <2>5, <2>1
    <3> QED BY <3>1, <3>2, <2>1
  <2> HIDE DEF short
  <2>8. DropsBehindHead(ms, short, d)
    BY <2>1, <2>2, <2>6, <2>7 DEF DropsBehindHead, k
  <2> QED BY <2>2, <2>3, <2>6, <2>8 DEF short
<1> QED BY <1>1, <1>2

\* Managing the context keeps a conversation a conversation, with its head in
\* place and its newest messages behind it.
LEMMA ManageFacts ==
  ASSUME NEW ms \in Seq(Message), ms # << >>
  PROVE  /\ manageContext(ms) \in Seq(Message)
         /\ \E d \in Nat : DropsBehindHead(ms, manageContext(ms), d)
<1> DEFINE short == truncateToolResults(ms)
<1>1. /\ short \in Seq(Message) /\ Len(short) = Len(ms)
      /\ \A i \in 1..Len(ms) : short[i].id = ms[i].id /\ short[i].role = ms[i].role
  BY TruncateFacts
<1>2. short # << >> /\ Len(ms) \in Nat /\ Len(ms) >= 1
  BY <1>1
<1>3. kept(short) = kept(ms) /\ kept(ms) \in {1, 2}
  BY <1>1, <1>2 DEF kept
<1>4. DropsBehindHead(ms, ms, 0)
  BY DEF DropsBehindHead
<1>5. DropsBehindHead(ms, short, 0)
  BY <1>1 DEF DropsBehindHead
<1>6. /\ compactMessages(short) \in Seq(Message)
      /\ \E d \in Nat : DropsBehindHead(short, compactMessages(short), d)
  BY <1>1, <1>2, CompactFacts
<1>7. \E d \in Nat : DropsBehindHead(ms, compactMessages(short), d)
  <2>1. PICK d \in Nat : DropsBehindHead(short, compactMessages(short), d)
    BY <1>6
  <2>2. \A i \in 1..Len(compactMessages(short)) :
          (IF i <= kept(ms) THEN i ELSE i + d) \in 1..Len(ms)
    BY <2>1, <1>1, <1>2, <1>3 DEF DropsBehindHead
  <2>3. DropsBehindHead(ms, compactMessages(short), d)
    BY <2>1, <2>2, <1>1, <1>3 DEF DropsBehindHead
  <2> QED BY <2>3
<1> HIDE DEF short
<1> QED BY <1>1, <1>4, <1>5, <1>6, <1>7 DEF manageContext, short

====
