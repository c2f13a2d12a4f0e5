---- MODULE RagRunProofs ----
(***************************************************************************)
(* The RAG run for every number of attempts, every parser, every set of    *)
(* texts and everything a search can list: which URLs it finds and which   *)
(* pages it fetches, which words it answers with, how often it asks, and   *)
(* that it keeps the contract of a run.                                    *)
(***************************************************************************)
EXTENDS RagRun, FiniteSetTheorems, SequenceTheorems, TLAPS

----
(* Lists and places.                                                       *)

\* What induction comes down to without a predicate to instantiate.
LEMMA LeastNatural ==
  ASSUME NEW S \in SUBSET Nat, S # {} PROVE \E m \in S : \A n \in S : m <= n
<1>1. PICK m \in S : \A n \in S : ~(<<n, m>> \in OpToRel(<, Nat))
  BY NatLessThanWellFounded, WFMin, Zenon
<1>2. ASSUME NEW n \in S PROVE m <= n
  <2>1. n \in Nat /\ m \in Nat
    OBVIOUS
  <2>2. n < m => <<n, m>> \in OpToRel(<, Nat)
    BY <2>1 DEF OpToRel
  <2>3. ~(<<n, m>> \in OpToRel(<, Nat))
    BY <1>1
  <2>4. ~(n < m)
    BY <2>2, <2>3
  <2> QED BY <2>1, <2>4
<1> QED BY <1>2

\* How many of the places come no later than i.
Rank(places, i) == Cardinality({j \in places : j <= i})

\* Ranks grow by one at each place and nowhere else.
LEMMA RankSteps ==
  ASSUME NEW n \in Nat, NEW places \in SUBSET (1..n)
  PROVE  /\ IsFiniteSet(places) /\ Cardinality(places) \in Nat
         /\ Rank(places, 0) = 0 /\ Rank(places, n) = Cardinality(places)
         /\ \A i \in Nat : /\ Rank(places, i) \in Nat
                           /\ Rank(places, i + 1) =
                                IF i + 1 \in places THEN Rank(places, i) + 1 ELSE Rank(places, i)
<1> DEFINE upTo(i) == {j \in places : j <= i}
<1>0. \A j \in places : j \in Nat /\ 1 <= j /\ j <= n
  OBVIOUS
<1>1. IsFiniteSet(places)
  <2>1. IsFiniteSet(1..n)
    BY FS_Interval
  <2> QED BY <2>1, FS_Subset
<1>2. \A i : IsFiniteSet(upTo(i))
  BY <1>1, FS_Subset
<1>3. Cardinality(places) \in Nat /\ \A i : Cardinality(upTo(i)) \in Nat
  BY <1>1, <1>2, FS_CardinalityType
<1>4. Cardinality(upTo(0)) = 0 /\ upTo(n) = places
  <2>1. upTo(0) = {}
    <3>1. \A j \in places : ~(j <= 0)
      BY <1>0
    <3> QED BY <3>1
  <2>2. upTo(n) = places
    BY <1>0
  <2> QED BY <2>1, <2>2, FS_EmptySet
<1>5. ASSUME NEW i \in Nat
      PROVE  Cardinality(upTo(i + 1)) =
               IF i + 1 \in places THEN Cardinality(upTo(i)) + 1 ELSE Cardinality(upTo(i))
  <2>1. i + 1 \notin upTo(i) /\ \A j \in places : j <= i + 1 <=> j <= i \/ j = i + 1
    BY <1>0
  <2>2. CASE i + 1 \in places
    <3>1. upTo(i + 1) = upTo(i) \cup {i + 1}
      BY <2>1, <2>2
    <3> HIDE DEF upTo
    <3> QED BY <1>2, <2>1, <2>2, <3>1, FS_AddElement
  <2>3. CASE i + 1 \notin places
    <3>1. upTo(i + 1) = upTo(i)
      BY <2>1, <2>3
    <3> QED BY <2>3, <3>1
  <2> QED BY <2>2, <2>3
<1> QED BY <1>1, <1>3, <1>4, <1>5 DEF Rank

\* Every rank up to the number of places is the rank of a place: the first
\* number that has it.
LEMMA RankTaken ==
  ASSUME NEW n \in Nat, NEW places \in SUBSET (1..n), NEW k \in 1..Cardinality(places)
  PROVE  \E i \in places : Rank(places, i) = k
<1>1. /\ Cardinality(places) \in Nat
      /\ Rank(places, 0) = 0 /\ Rank(places, n) = Cardinality(places)
      /\ \A i \in Nat : Rank(places, i) \in Nat
  BY RankSteps
<1> DEFINE reached == {i \in Nat : k <= Rank(places, i)}
<1>2. n \in reached
  BY <1>1
<1>3. PICK i \in reached : \A j \in reached : i <= j
  BY <1>2, LeastNatural
<1>4. i # 0 /\ i \in Nat
  BY <1>1, <1>3
<1>5. i - 1 \in Nat /\ i = (i - 1) + 1 /\ i - 1 \notin reached
  BY <1>3, <1>4
<1>6. Rank(places, i) = IF i \in places THEN Rank(places, i - 1) + 1 ELSE Rank(places, i - 1)
  BY <1>5, RankSteps
<1> QED BY <1>1, <1>3, <1>5, <1>6

\* The place of a rank is the only one.
LEMMA RankOrders ==
  ASSUME NEW n \in Nat, NEW places \in SUBSET (1..n), NEW i \in places, NEW j \in places
  PROVE  i < j <=> Rank(places, i) < Rank(places, j)
<1>1. ASSUME NEW a \in places, NEW b \in places, a < b
      PROVE  Rank(places, a) < Rank(places, b)
  <2> DEFINE low == {c \in places : c <= a}
             high == {c \in places : c <= b}
  <2>1. IsFiniteSet(places)
    BY RankSteps
  <2>2. IsFiniteSet(low) /\ IsFiniteSet(high)
    BY <2>1, FS_Subset
  <2>3. low \subseteq high /\ b \in high /\ b \notin low
    <3>1. \A c \in places : c \in Nat
      OBVIOUS
    <3>2. b <= b /\ ~(b <= a) /\ \A c \in places : c <= a => c <= b
      BY <1>1, <3>1
    <3> QED BY <3>2
  <2>7. Rank(places, a) = Cardinality(low) /\ Rank(places, b) = Cardinality(high)
    BY DEF Rank
  <2>4. Cardinality(low) \in Nat /\ Cardinality(high) \in Nat
    BY <2>2, FS_CardinalityType
  <2> HIDE DEF low, high
  <2>5. Cardinality(low) <= Cardinality(high) /\ Cardinality(low) # Cardinality(high)
    <3> low \in SUBSET high
      BY <2>3
    <3>1. /\ Cardinality(low) <= Cardinality(high)
          /\ Cardinality(high) = Cardinality(low) => high = low
      BY <2>2, FS_Subset
    <3> QED BY <2>3, <3>1
  <2>6. Cardinality(low) < Cardinality(high)
    BY <2>4, <2>5
  <2> QED BY <2>6, <2>7
<1>2. Rank(places, i) \in Nat /\ Rank(places, j) \in Nat
  <2>1. i \in Nat /\ j \in Nat
    OBVIOUS
  <2>2. \A k \in Nat : Rank(places, k) \in Nat
    BY RankSteps
  <2> QED BY <2>1, <2>2
<1>3. i \in Nat /\ j \in Nat
  OBVIOUS
<1>4. CASE i = j
  BY <1>2, <1>4
<1>5. CASE i < j
  BY <1>1, <1>5
<1>6. CASE j < i
  <2>1. Rank(places, j) < Rank(places, i)
    BY <1>1, <1>6
  <2> QED BY <1>2, <1>3, <1>6, <2>1
<1> QED BY <1>3, <1>4, <1>5, <1>6

\* picked is what stands at the places of list, in the order of the list;
\* place[k] is where its member k stands.
PickedAt(picked, list, places, place) ==
  /\ place \in [1..Cardinality(places) -> places]
  /\ picked = [k \in 1..Cardinality(places) |-> list[place[k]]]
  /\ \A i, j \in 1..Cardinality(places) : i < j => place[i] < place[j]
  /\ \A i \in places : \E k \in 1..Cardinality(places) : place[k] = i

\* InOrder picks every place, each once and in order.
LEMMA InOrderFacts ==
  ASSUME NEW n \in Nat, NEW list, NEW places \in SUBSET (1..n)
  PROVE  \E place : PickedAt(InOrder(list, places), list, places, place)
<1> DEFINE m == Cardinality(places)
           at(k) == CHOOSE i \in places : Rank(places, i) = k
           place == [k \in 1..m |-> at(k)]
<1>1. m \in Nat
  BY RankSteps
<1>2. \A k \in 1..m : \E i \in places : Rank(places, i) = k
  BY RankTaken
<1>3. \A k \in 1..m : at(k) \in places /\ Rank(places, at(k)) = k
  BY <1>2
<1>4. InOrder(list, places) = [k \in 1..m |-> list[at(k)]]
  BY DEF InOrder, Rank
<1> HIDE DEF at, m
<1>5. place \in [1..m -> places] /\ \A k \in 1..m : place[k] = at(k)
  BY <1>3
<1>6. InOrder(list, places) = [k \in 1..m |-> list[place[k]]]
  BY <1>4
<1>7. ASSUME NEW i \in 1..m, NEW j \in 1..m, i < j PROVE place[i] < place[j]
  <2>1. PICK a \in places, b \in places : a = at(i) /\ b = at(j)
    BY <1>3
  <2>2. Rank(places, a) = i /\ Rank(places, b) = j
    BY <1>3, <2>1
  <2>3. a < b
    BY <1>7, <2>2, RankOrders
  <2> QED BY <1>5, <2>1, <2>3
<1>8. ASSUME NEW i \in places PROVE \E k \in 1..m : place[k] = i
  <2>1. PICK h \in Nat : i = h + 1
    <3>1. i \in 1..n
      OBVIOUS
    <3>2. i - 1 \in Nat /\ i = (i - 1) + 1
      BY <3>1
    <3> QED BY <3>2
  <2>2. Rank(places, i) = Rank(places, h) + 1 /\ Rank(places, h) \in Nat
    BY <2>1, RankSteps
  <2>3. Rank(places, i) <= m
    <3>1. {j \in places : j <= i} \in SUBSET places /\ IsFiniteSet(places)
      BY RankSteps
    <3> QED BY <3>1, FS_Subset DEF Rank, m
  <2>4. Rank(places, i) \in 1..m
    BY <1>1, <2>2, <2>3
  <2>5. PICK k \in 1..m : k = Rank(places, i)
    BY <2>4
  <2>6. at(k) \in places /\ Rank(places, at(k)) = Rank(places, i)
    BY <1>3, <2>5
  <2>7. at(k) = i
    <3>1. PICK j \in places : j = at(k)
      BY <2>6
    <3>2. Rank(places, i) \in Nat /\ Rank(places, j) = Rank(places, i)
      BY <2>2, <2>6, <3>1
    <3>3. ~(Rank(places, i) < Rank(places, j)) /\ ~(Rank(places, j) < Rank(places, i))
      BY <3>2
    <3>4. ~(i < j) /\ ~(j < i)
      BY <3>3, RankOrders
    <3>5. i \in Int /\ j \in Int
      OBVIOUS
    <3> QED BY <3>1, <3>4, <3>5
  <2> QED BY <1>5, <2>7
<1> HIDE DEF place
<1> QED BY <1>5, <1>6, <1>7, <1>8 DEF PickedAt, m

----
(* The inductive invariant.                                                *)

\* The types of what the synthesis and the outcome depend on.
SynthesisTyped ==
  /\ input \in Inputs
  /\ attempt \in 0..maxAttempts-1
  /\ reasoning \in Texts
  /\ outcome \in [status : {"running", "answered", "failed"}, answer : Texts, code : Codes]
  /\ ctxDone \in BOOLEAN /\ calls \in Nat
  /\ said \in Seq([content : Texts, reasoning : Texts])
  /\ outcome = Running <=> pc # "done"

\* An attempt is one request, the last one may have a second.
CallsAccounted ==
  /\ pc # "done" => calls <= attempt + (CASE pc = "following" -> 2
                                          [] pc \in {"call", "followup"} -> 1
                                          [] OTHER -> 0)
  /\ pc \in {"call", "followup", "following"} => calls > 0

\* The reply in place i is blank, content and reasoning.
Blank(i) == Trim[said[i].content] = Empty /\ Trim[said[i].reasoning] = Empty

\* Every reply but the newest was blank when it was passed over; the
\* reasoning kept is that of the reply the follow-up asks about.
WordsHeard ==
  /\ (pc \notin {"followup", "following", "done"} \/ outcome.status = "failed")
       => \A i \in DOMAIN said : Blank(i)
  /\ pc \in {"followup", "following"} =>
       /\ said # << >> /\ reasoning # Empty
       /\ Trim[said[Len(said)].content] = Empty
       /\ Trim[said[Len(said)].reasoning] = reasoning
  /\ AnswerIsNewestWord

QInv == SynthesisTyped /\ CallsAccounted /\ WordsHeard

LEMMA AttemptsArePositive == maxAttempts \in Nat /\ maxAttempts >= 1
BY RagAssumption DEF maxAttempts

\* No call error carries a code the run makes up itself.
LEMMA CallErrorCodes ==
  ASSUME NEW e \in CallErrors \cup CallErrorsWhenDone
  PROVE  e.code \in {GptOssUnreachable, ContextWindowExceeded, NoCode}
<1>1. \A p \in SUBSET {"context length"} :
        /\ OtherStatus(p).code = GptOssUnreachable
        /\ BadRequest(p).code \in {ContextWindowExceeded, NoCode}
  BY DEF OtherStatus, BadRequest, Wrap, Plain
<1>2. DoFailed.code = GptOssUnreachable /\ BadBody.code = NoCode
  BY DEF DoFailed, BadBody, Wrap, Plain
<1> QED BY <1>1, <1>2 DEF CallErrors, CallErrorsWhenDone

\* The codes a run fails with are codes, and its outcomes are told apart.
LEMMA Outcomes ==
  /\ Running.status = "running" /\ Running.answer = Empty /\ Running.code = NoCode
  /\ \A code \in Codes :
       /\ Failed(code) \in [status : {"running", "answered", "failed"}, answer : Texts, code : Codes]
       /\ Failed(code).status = "failed" /\ Failed(code).code = code /\ Failed(code) # Running
  /\ \A a \in Texts :
       /\ Answered(a) \in [status : {"running", "answered", "failed"}, answer : Texts, code : Codes]
       /\ Answered(a).status = "answered" /\ Answered(a).answer = a /\ Answered(a) # Running
BY RagAssumption DEF Running, Failed, Answered, Codes

LEMMA CodesAre == {NoCode, TimeoutExceeded, ContextWindowExceeded, GptOssUnreachable} \subseteq Codes
BY DEF Codes

\* A reply becomes the newest, behind those heard before.
LEMMA SaidGrows ==
  ASSUME said \in Seq([content : Texts, reasoning : Texts]),
         NEW content \in Texts, NEW thought \in Texts,
         said' = Append(said, [content |-> content, reasoning |-> thought])
  PROVE  /\ said' \in Seq([content : Texts, reasoning : Texts])
         /\ Len(said) \in Nat /\ Len(said') = Len(said) + 1 /\ said' # << >>
         /\ DOMAIN said = 1..Len(said) /\ DOMAIN said' = 1..Len(said)+1
         /\ \A i \in DOMAIN said : said'[i] = said[i]
         /\ said'[Len(said')].content = content
         /\ said'[Len(said')].reasoning = thought
OBVIOUS

----
(* The steps. *)

LEMMA InitEstablishes == Init => QInv
<1> SUFFICES ASSUME Init PROVE QInv
  OBVIOUS
<1>1. 0 \in 0..maxAttempts-1
  BY AttemptsArePositive
<1>2. Running \in [status : {"running", "answered", "failed"}, answer : Texts, code : Codes]
  BY RagAssumption DEF Running, Codes
<1>3. SynthesisTyped
  <2>1. << >> \in Seq([content : Texts, reasoning : Texts]) /\ Empty \in Texts
    BY RagAssumption
  <2> QED BY <1>1, <1>2, <2>1 DEF Init, SynthesisTyped
<1>4. CallsAccounted
  BY DEF Init, CallsAccounted
<1>5. WordsHeard
  BY Outcomes DEF Init, WordsHeard, AnswerIsNewestWord
<1> QED BY <1>3, <1>4, <1>5 DEF QInv

\* A step that says nothing, asks nothing and does not end the run.
LEMMA QuietKeeps ==
  ASSUME QInv, UNCHANGED <<input, attempt, outcome, said, calls, reasoning>>,
         ctxDone' \in BOOLEAN,
         \/ pc' = pc
         \/ /\ pc \notin {"call", "followup", "following", "done"}
            /\ pc' \notin {"call", "followup", "following", "done"}
  PROVE  QInv'
<1>1. SynthesisTyped'
  BY DEF QInv, SynthesisTyped, maxAttempts, Running
<1>2. CallsAccounted'
  BY DEF QInv, CallsAccounted
<1>3. AnswerIsNewestWord'
  BY DEF QInv, WordsHeard, AnswerIsNewestWord
<1>4. WordsHeard'
  BY <1>3 DEF QInv, WordsHeard, Blank
<1> QED BY <1>1, <1>2, <1>4 DEF QInv

\* A run that fails has heard nothing.
LEMMA FailureKeeps ==
  ASSUME QInv, NEW code \in Codes, pc' = "done", outcome' = Failed(code),
         UNCHANGED <<input, attempt, ctxDone, reasoning, calls>>,
         said' \in Seq([content : Texts, reasoning : Texts]),
         \A i \in DOMAIN said' : Blank(i)'
  PROVE  QInv'
<1>1. SynthesisTyped'
  BY Outcomes DEF QInv, SynthesisTyped, maxAttempts, Running
<1>2. CallsAccounted'
  BY DEF CallsAccounted
<1>3. outcome'.status = "failed"
  BY Outcomes
<1>4. WordsHeard'
  BY <1>3 DEF WordsHeard, AnswerIsNewestWord, Blank
<1> QED BY <1>1, <1>2, <1>4 DEF QInv

\* The loop's continue, after a reply without a word or without a reply.
LEMMA NextAttemptKeeps ==
  ASSUME QInv, pc \in {"ask", "call"}, NextAttempt,
         UNCHANGED <<input, ctxDone, reasoning, calls>>,
         said' \in Seq([content : Texts, reasoning : Texts]),
         \A i \in DOMAIN said' : Blank(i)'
  PROVE  QInv'
<1>1. CASE attempt + 1 < maxAttempts
  <2>1. pc' = "pause" /\ attempt' = attempt + 1 /\ UNCHANGED outcome
    BY <1>1 DEF NextAttempt
  <2>2. SynthesisTyped'
    <3>1. attempt' \in 0..maxAttempts-1
      BY <1>1, <2>1, AttemptsArePositive DEF QInv, SynthesisTyped
    <3>2. maxAttempts' = maxAttempts
      BY DEF maxAttempts
    <3> QED BY <2>1, <3>1, <3>2 DEF QInv, SynthesisTyped, Running
  <2>3. CallsAccounted'
    BY <2>1, AttemptsArePositive DEF QInv, SynthesisTyped, CallsAccounted
  <2>4. outcome'.status = "running"
    BY <2>1, Outcomes DEF QInv, SynthesisTyped
  <2>5. WordsHeard'
    BY <2>1, <2>4 DEF WordsHeard, AnswerIsNewestWord
  <2> QED BY <2>2, <2>3, <2>5 DEF QInv
<1>2. CASE ~(attempt + 1 < maxAttempts)
  <2>1. pc' = "done" /\ outcome' = Failed(NoCode) /\ UNCHANGED attempt
    BY <1>2 DEF NextAttempt, Return
  <2> QED BY <2>1, FailureKeeps, CodesAre
<1> QED BY <1>1, <1>2

\* Nothing was said before an attempt, and nothing is in a step without a reply.
LEMMA StillBlank ==
  ASSUME QInv, pc \notin {"followup", "following", "done"}, UNCHANGED said
  PROVE  /\ said' \in Seq([content : Texts, reasoning : Texts])
         /\ \A i \in DOMAIN said' : Blank(i)'
BY DEF QInv, SynthesisTyped, WordsHeard, Blank

\* An answer, and why it is the newest word.
LEMMA AnswerKeeps ==
  ASSUME QInv, NEW a \in Texts, a # Empty, pc' = "done", outcome' = Answered(a),
         UNCHANGED <<input, attempt, ctxDone>>, reasoning' \in Texts, calls' \in Nat,
         said' \in Seq([content : Texts, reasoning : Texts]),
         said' # << >>,
         \/ /\ Trim[said'[Len(said')].content] # Empty
            /\ a = Trim[said'[Len(said')].content]
         \/ /\ Trim[said'[Len(said')].content] = Empty
            /\ \E i \in DOMAIN said' : /\ Trim[said'[i].content] = Empty
                                       /\ a = Trim[said'[i].reasoning]
                                       /\ i >= Len(said') - 1
  PROVE  QInv'
<1>1. SynthesisTyped'
  BY Outcomes DEF QInv, SynthesisTyped, maxAttempts, Running
<1>2. CallsAccounted'
  BY <1>1 DEF CallsAccounted
<1>3. outcome'.status = "answered" /\ outcome'.answer = a
  BY Outcomes
<1>4. Len(said') \in DOMAIN said'
  OBVIOUS
<1>5. AnswerIsNewestWord'
  BY <1>3, <1>4 DEF AnswerIsNewestWord
<1>6. WordsHeard'
  BY <1>3, <1>5 DEF WordsHeard
<1> QED BY <1>1, <1>2, <1>6 DEF QInv

LEMMA RetrievalKeeps ==
  ASSUME QInv,
         \/ AcceptInput \/ StartTool \/ ToolFails \/ ToolSucceeds \/ StartFetch
         \/ FetchedEnough \/ ToolsDone \/ PauseEnds \/ (\E ok \in BOOLEAN : FetchEnds(ok))
  PROVE  QInv'
<1>1. UNCHANGED <<input, attempt, outcome, said, calls, reasoning, ctxDone>>
  BY DEF AcceptInput, StartTool, ToolFails, ToolSucceeds, StartFetch, FetchedEnough,
         ToolsDone, PauseEnds, FetchEnds, synthesis
<1>2. /\ pc \in {"start", "tools", "exec", "fetch", "fetching", "pause"}
      /\ pc' \in {"tools", "exec", "fetch", "fetching", "ask"}
  BY DEF AcceptInput, StartTool, ToolFails, ToolSucceeds, StartFetch, FetchedEnough,
         ToolsDone, PauseEnds, FetchEnds
<1>3. ctxDone' \in BOOLEAN
  BY <1>1 DEF QInv, SynthesisTyped
<1> QED BY <1>1, <1>2, <1>3, QuietKeeps

LEMMA StopKeeps == ASSUME QInv, RefuseInput \/ StopBeforeTool \/ StopInPause PROVE QInv'
<1>1. /\ pc \in {"start", "tools", "fetch", "pause"} /\ pc' = "done"
      /\ UNCHANGED <<input, attempt, ctxDone, reasoning, calls, said>>
      /\ outcome' \in {Failed(NoCode), Failed(TimeoutExceeded)}
  BY DEF RefuseInput, StopBeforeTool, StopInPause, Return, synthesis
<1> QED BY <1>1, StillBlank, FailureKeeps, CodesAre

LEMMA AskKeeps == ASSUME QInv, Ask PROVE QInv'
<1> USE DEF QInv, Ask
<1>1. SynthesisTyped'
  BY DEF SynthesisTyped, maxAttempts, Running
<1>2. CallsAccounted'
  BY AttemptsArePositive DEF SynthesisTyped, CallsAccounted
<1>3. WordsHeard'
  BY DEF WordsHeard, AnswerIsNewestWord, Blank
<1> QED BY <1>1, <1>2, <1>3

LEMMA CallFailureKeeps == ASSUME QInv, AskRefused \/ CallFails \/ NoChoices PROVE QInv'
<1>1. /\ pc \in {"ask", "call"} /\ UNCHANGED <<input, ctxDone, reasoning, calls, said>>
      /\ \/ NextAttempt
         \/ \E e \in CallErrors \cup CallErrorsWhenDone :
              pc' = "done" /\ outcome' = Failed(e.code) /\ UNCHANGED attempt
  BY DEF AskRefused, CallFails, NoChoices, Return
<1>2. ASSUME NEW e \in CallErrors \cup CallErrorsWhenDone PROVE e.code \in Codes
  BY CallErrorCodes, CodesAre
<1> QED BY <1>1, <1>2, StillBlank, NextAttemptKeeps, FailureKeeps

LEMMA ReplyKeeps ==
  ASSUME QInv, NEW content \in Texts, NEW thought \in Texts, Reply(content, thought)
  PROVE  QInv'
<1>1. /\ pc = "call" /\ UNCHANGED <<input, ctxDone, calls>>
      /\ said' = Append(said, [content |-> content, reasoning |-> thought])
  BY DEF Reply
<1>2. /\ said \in Seq([content : Texts, reasoning : Texts])
      /\ Trim[content] \in Texts /\ Trim[thought] \in Texts
  BY RagAssumption DEF QInv, SynthesisTyped
<1>3. /\ said' \in Seq([content : Texts, reasoning : Texts])
      /\ Len(said) \in Nat /\ Len(said') = Len(said) + 1 /\ said' # << >>
      /\ DOMAIN said = 1..Len(said) /\ DOMAIN said' = 1..Len(said)+1
      /\ \A i \in DOMAIN said : said'[i] = said[i]
      /\ said'[Len(said')].content = content
      /\ said'[Len(said')].reasoning = thought
  BY <1>1, <1>2, SaidGrows
<1>4. CASE Trim[content] # Empty
  <2>1. pc' = "done" /\ outcome' = Answered(Trim[content]) /\ UNCHANGED <<attempt, reasoning>>
    BY <1>4 DEF Reply, Return
  <2>2. reasoning' \in Texts /\ calls' \in Nat
    BY <1>1, <2>1 DEF QInv, SynthesisTyped
  <2> QED BY <1>1, <1>2, <1>3, <1>4, <2>1, <2>2, AnswerKeeps
<1>5. CASE Trim[content] = Empty /\ Trim[thought] # Empty
  <2>1. pc' = "followup" /\ reasoning' = Trim[thought] /\ UNCHANGED <<attempt, outcome>>
    BY <1>5 DEF Reply
  <2>2. SynthesisTyped'
    BY <1>1, <1>2, <1>3, <2>1 DEF QInv, SynthesisTyped, maxAttempts, Running
  <2>3. CallsAccounted'
    BY <1>1, <2>1 DEF QInv, CallsAccounted
  <2>4. outcome'.status = "running"
    BY <1>1, <2>1, Outcomes DEF QInv, SynthesisTyped
  <2>5. WordsHeard'
    BY <1>3, <1>5, <2>1, <2>4 DEF WordsHeard, AnswerIsNewestWord
  <2> QED BY <2>2, <2>3, <2>5 DEF QInv
<1>6. CASE Trim[content] = Empty /\ Trim[thought] = Empty
  <2>1. NextAttempt /\ UNCHANGED reasoning
    BY <1>6 DEF Reply
  <2>2. \A i \in DOMAIN said : Blank(i)
    BY <1>1 DEF QInv, WordsHeard
  <2>3. \A i \in DOMAIN said' : Blank(i)'
    BY <1>3, <1>6, <2>2 DEF Blank
  <2> QED BY <1>1, <1>3, <2>1, <2>3, NextAttemptKeeps
<1> QED BY <1>4, <1>5, <1>6

LEMMA FollowUpKeeps == ASSUME QInv, FollowUp PROVE QInv'
<1> USE DEF QInv, FollowUp
<1>1. SynthesisTyped'
  BY DEF SynthesisTyped, maxAttempts, Running
<1>2. CallsAccounted'
  BY AttemptsArePositive DEF SynthesisTyped, CallsAccounted
<1>3. WordsHeard'
  BY DEF WordsHeard, AnswerIsNewestWord, Blank
<1> QED BY <1>1, <1>2, <1>3

LEMMA FollowUpReplyKeeps ==
  ASSUME QInv, NEW content \in Texts, NEW thought \in Texts, FollowUpReply(content, thought)
  PROVE  QInv'
<1> DEFINE a == IF Trim[content] # Empty THEN Trim[content] ELSE reasoning
<1>1. /\ pc = "following" /\ pc' = "done" /\ outcome' = Answered(a)
      /\ UNCHANGED <<input, attempt, ctxDone, calls, reasoning>>
      /\ said' = Append(said, [content |-> content, reasoning |-> thought])
  BY DEF FollowUpReply, Return
<1>2. /\ said \in Seq([content : Texts, reasoning : Texts])
      /\ reasoning \in Texts /\ calls \in Nat /\ Trim[content] \in Texts
      /\ said # << >> /\ reasoning # Empty
      /\ Trim[said[Len(said)].content] = Empty
      /\ Trim[said[Len(said)].reasoning] = reasoning
  BY <1>1, RagAssumption DEF QInv, SynthesisTyped, WordsHeard
<1>3. /\ said' \in Seq([content : Texts, reasoning : Texts])
      /\ Len(said) \in Nat /\ Len(said') = Len(said) + 1 /\ said' # << >>
      /\ DOMAIN said = 1..Len(said) /\ DOMAIN said' = 1..Len(said)+1
      /\ \A i \in DOMAIN said : said'[i] = said[i]
      /\ said'[Len(said')].content = content
  BY <1>1, <1>2, SaidGrows
<1>4. Len(said) \in DOMAIN said /\ Len(said) \in DOMAIN said' /\ Len(said) >= Len(said') - 1
  BY <1>2, <1>3
<1>5. a \in Texts /\ a # Empty
  BY <1>2
<1>6. Trim[said'[Len(said')].content] = Empty =>
        \E i \in DOMAIN said' : /\ Trim[said'[i].content] = Empty
                                /\ a = Trim[said'[i].reasoning]
                                /\ i >= Len(said') - 1
  BY <1>2, <1>3, <1>4
<1>7. Trim[said'[Len(said')].content] # Empty => a = Trim[said'[Len(said')].content]
  BY <1>3
<1> HIDE DEF a
<1> QED BY <1>1, <1>2, <1>3, <1>5, <1>6, <1>7, AnswerKeeps

LEMMA FollowUpFailureKeeps == ASSUME QInv, FollowUpFails PROVE QInv'
<1>1. /\ pc \in {"followup", "following"} /\ pc' = "done" /\ outcome' = Answered(reasoning)
      /\ UNCHANGED <<input, attempt, ctxDone, calls, reasoning, said>>
  BY DEF FollowUpFails, Return, synthesis
<1>2. /\ said \in Seq([content : Texts, reasoning : Texts])
      /\ reasoning \in Texts /\ calls \in Nat /\ said # << >> /\ reasoning # Empty
      /\ Trim[said[Len(said)].content] = Empty
      /\ Trim[said[Len(said)].reasoning] = reasoning
  BY <1>1 DEF QInv, SynthesisTyped, WordsHeard
<1>3. Len(said') \in DOMAIN said' /\ Len(said') >= Len(said') - 1 /\ said' = said
  BY <1>1, <1>2
<1> QED BY <1>1, <1>2, <1>3, AnswerKeeps

LEMMA ExpireKeeps == ASSUME QInv, Expire PROVE QInv'
<1>1. UNCHANGED <<input, attempt, outcome, said, calls, reasoning>> /\ ctxDone' \in BOOLEAN /\ pc' = pc
  BY DEF Expire, synthesis
<1> QED BY <1>1, QuietKeeps

LEMMA StutterKeeps == ASSUME QInv, UNCHANGED vars PROVE QInv'
<1>1. UNCHANGED <<input, attempt, outcome, said, calls, reasoning>> /\ ctxDone' \in BOOLEAN /\ pc' = pc
  BY DEF vars, QInv, SynthesisTyped
<1> QED BY <1>1, QuietKeeps

LEMMA QInvKept == ASSUME QInv, [Next]_vars PROVE QInv'
BY RetrievalKeeps, StopKeeps, AskKeeps, CallFailureKeeps, ReplyKeeps, FollowUpKeeps,
   FollowUpReplyKeeps, FollowUpFailureKeeps, ExpireKeeps, StutterKeeps
   DEF Next, Step

LEMMA RagInvariant == Spec => []QInv
BY InitEstablishes, QInvKept, PTL DEF Spec

----
(* What is found and fetched.                                              *)

LEMMA InOrderType ==
  ASSUME NEW S, NEW T, NEW list \in Seq(T), NEW places \in SUBSET DOMAIN list,
         \A i \in places : list[i] \in S
  PROVE  InOrder(list, places) \in Seq(S)
<1>1. PICK n \in Nat : DOMAIN list = 1..n
  OBVIOUS
<1>2. places \in SUBSET (1..n)
  BY <1>1
<1>3. PICK place : PickedAt(InOrder(list, places), list, places, place)
  BY <1>2, InOrderFacts
<1>4. Cardinality(places) \in Nat
  BY <1>2, RankSteps
<1>5. \A k \in 1..Cardinality(places) : list[place[k]] \in S
  BY <1>3 DEF PickedAt
<1> QED BY <1>3, <1>4, <1>5 DEF PickedAt

LEMMA ListedType ==
  ASSUME NEW list \in Seq(Urls \cup {NoUrl}) PROVE Listed(list) \in Seq(Urls)
<1> DEFINE places == {i \in DOMAIN list : list[i] # NoUrl}
<1>1. places \in SUBSET DOMAIN list /\ \A i \in places : list[i] \in Urls
  OBVIOUS
<1> HIDE DEF places
<1>2. InOrder(list, places) \in Seq(Urls)
  BY <1>1, InOrderType
<1> QED BY <1>2 DEF Listed, places

LEMMA ScannedType ==
  ASSUME NEW S, NEW list \in Seq(S) PROVE Scanned(list) \in Seq(S)
<1> DEFINE places == {i \in DOMAIN list : \A j \in 1..i-1 : list[j] # list[i]}
<1>1. places \in SUBSET DOMAIN list /\ \A i \in places : list[i] \in S
  OBVIOUS
<1> HIDE DEF places
<1>2. InOrder(list, places) \in Seq(S)
  BY <1>1, InOrderType
<1> QED BY <1>2 DEF Scanned, places

\* Whatever way a result arrives, what is read in it is a list of URLs, at
\* most one of them cut; an empty URL never is.
LEMMA ExtractType ==
  ASSUME NEW r \in SearchResults, NEW found \in ExtractSearchURLs(r)
  PROVE  found \in Seq(Urls \cup {Cut})
<1>1. r.details \in Seq(Urls \cup {NoUrl}) /\ r.text \in Seq(Urls \cup {NoUrl})
  BY RagAssumption
<1>2. Listed(r.details) \in Seq(Urls) /\ Listed(r.text) \in Seq(Urls)
  BY <1>1, ListedType
<1>3. PICK scan \in Seq(Urls) : scan = Listed(r.text \o r.details)
  <2>1. r.text \o r.details \in Seq(Urls \cup {NoUrl})
    BY <1>1
  <2> QED BY <2>1, ListedType
<1>4. \A k \in 0..Len(scan) : /\ SubSeq(scan, 1, k) \in Seq(Urls \cup {Cut})
                              /\ Append(SubSeq(scan, 1, k), Cut) \in Seq(Urls \cup {Cut})
  <2> SUFFICES ASSUME NEW k \in 0..Len(scan)
               PROVE  /\ SubSeq(scan, 1, k) \in Seq(Urls \cup {Cut})
                      /\ Append(SubSeq(scan, 1, k), Cut) \in Seq(Urls \cup {Cut})
    OBVIOUS
  <2>1. scan \in Seq(Urls \cup {Cut})
    OBVIOUS
  <2>2. SubSeq(scan, 1, k) \in Seq(Urls \cup {Cut})
    BY <2>1
  <2> QED BY <2>2
<1>5. \A k \in 0..Len(scan) : /\ Scanned(SubSeq(scan, 1, k)) \in Seq(Urls \cup {Cut})
                              /\ Scanned(Append(SubSeq(scan, 1, k), Cut)) \in Seq(Urls \cup {Cut})
  BY <1>4, ScannedType
<1>6. \A k \in 0..Len(scan)-1 : k \in 0..Len(scan)
  OBVIOUS
<1>7. fromWhole(r) \in Seq(Urls \cup {Cut})
  <2>1. fromWhole(r) \in Seq(Urls)
    BY <1>2 DEF fromWhole
  <2> QED BY <2>1
<1>8. found = fromWhole(r) \/ found \in fromCut(r)
  BY DEF ExtractSearchURLs
<1>9. found \in fromCut(r) =>
        \E k \in 0..Len(scan) : \/ found = Scanned(SubSeq(scan, 1, k))
                                \/ found = Scanned(Append(SubSeq(scan, 1, k), Cut))
  BY <1>3, <1>6 DEF fromCut
<1> QED BY <1>5, <1>7, <1>8, <1>9

\* The question is a text of the conversation, so its intents are tools.
LEMMA IntentsTyped ==
  ASSUME input \in Inputs PROVE intents \in Seq(Tools) /\ Len(intents) \in Nat
<1>1. input \in Seq([role : {"system", "user", "assistant"}, content : Texts])
  BY RagAssumption
<1> DEFINE users == {i \in 1..Len(input) : input[i].role = "user"}
           first == IF users # {} THEN Min(users) ELSE 0
<1>2. extractUserQuery(input) = IF first = 0 THEN Empty ELSE Trim[input[first].content]
  BY DEF extractUserQuery, SelectInSeq
<1>3. users # {} => Min(users) \in users
  <2>1. users \in SUBSET Nat
    OBVIOUS
  <2> HIDE DEF users
  <2> QED BY <2>1, LeastNatural DEF Min
<1>4. first = 0 \/ first \in DOMAIN input
  BY <1>1, <1>3
<1>5. extractUserQuery(input) \in Texts
  <2> HIDE DEF first
  <2>1. \A i \in DOMAIN input : input[i].content \in Texts
    <3> HIDE DEF users
    <3> DEFINE Posts == [role : {"system", "user", "assistant"}, content : Texts]
    <3>1. \A m \in Posts : m.content \in Texts
      OBVIOUS
    <3>2. input \in Seq(Posts)
      BY <1>1
    <3> HIDE DEF Posts
    <3>3. \A i \in DOMAIN input : input[i] \in Posts
      BY <3>2
    <3> QED BY <3>1, <3>3
  <2> QED BY <1>2, <1>4, <2>1, RagAssumption
<1>6. intents \in Seq(Tools)
  BY <1>5, RagAssumption DEF intents
<1> QED BY <1>6

\* The last intent executed, in place own, and the fetches behind it: the
\* first nextUrl - 1 URLs of its result, fetched of them with success.
Own == Len(tried) - (nextUrl - 1)

Successes == {i \in 1..nextUrl-1 : tried[Own + i].ok}

Ranking ==
  /\ Own \in Nat
  /\ Own = 0 \/ tried[Own].url = NoUrl
  /\ nextUrl - 1 <= Len(urls)
  /\ \A i \in 1..nextUrl-1 : tried[Own + i].url = urls[i]
  /\ fetched = Cardinality(Successes)

\* Auto-fetch is left with enough pages or without a URL to try, or not at all.
Phase ==
  /\ pc \in {"exec", "fetch", "fetching"} => next <= Len(intents)
  /\ pc = "fetching" => nextUrl <= Len(urls) /\ fetched < limit
  /\ \/ pc \in {"fetch", "fetching"} \/ outcome.code = TimeoutExceeded
     \/ fetched = limit \/ nextUrl - 1 = Len(urls)

RInv == QInv /\ TypeOK /\ Ranking /\ Phase

LEMMA IntentsStay == ASSUME UNCHANGED input PROVE intents' = intents
BY DEF intents, extractUserQuery, SelectInSeq

LEMMA LimitIsPositive == limit \in Nat /\ limit >= 1
BY RagAssumption DEF limit

LEMMA InitRanks == ASSUME Init PROVE RInv
<1>1. QInv
  BY InitEstablishes
<1>2. Successes = {} /\ Len(tried) = 0 /\ nextUrl = 1 /\ urls = << >> /\ fetched = 0
  BY DEF Init, Successes
<1>3. Ranking
  BY <1>2, FS_EmptySet DEF Ranking, Own
<1>4. TypeOK
  <2>1. 0 \in 0..limit
    BY LimitIsPositive
  <2> QED BY <1>1, <2>1 DEF Init, TypeOK, QInv, SynthesisTyped
<1>5. Phase
  BY DEF Init, Phase
<1> QED BY <1>1, <1>3, <1>4, <1>5 DEF RInv

\* A step that neither executes a tool nor fetches a page.
LEMMA UntriedKeeps ==
  ASSUME RInv, QInv', UNCHANGED <<urls, nextUrl, fetched, blocks, tried>>,
         next' \in Nat \ {0}, pc' \in {"start", "tools", "exec", "fetch", "fetching", "ask",
                                       "call", "followup", "following", "pause", "done"},
         Phase'
  PROVE  RInv'
<1>1. Ranking'
  BY DEF RInv, Ranking, Own, Successes
<1>2. limit' = limit
  BY DEF limit
<1>3. TypeOK'
  BY <1>2 DEF RInv, TypeOK, QInv, SynthesisTyped
<1> QED BY <1>1, <1>3 DEF RInv

LEMMA WaitingRanks ==
  ASSUME RInv, QInv',
         \/ RefuseInput \/ AcceptInput \/ StopBeforeTool \/ StartTool \/ StartFetch
         \/ FetchedEnough \/ ToolsDone \/ PauseEnds \/ StopInPause \/ Expire
         \/ UNCHANGED vars
  PROVE  RInv'
<1>1. UNCHANGED <<input, urls, nextUrl, fetched, blocks, tried>>
  BY DEF RefuseInput, AcceptInput, StopBeforeTool, StartTool, StartFetch, FetchedEnough,
         ToolsDone, PauseEnds, StopInPause, Expire, retrieval, vars
<1>2. intents' = intents /\ limit' = limit
  BY <1>1, IntentsStay DEF limit
<1>3. /\ Len(intents) \in Nat /\ next \in Nat \ {0} /\ Len(urls) \in Nat /\ nextUrl \in Nat
      /\ fetched \in Nat /\ limit \in Nat /\ fetched <= limit
  BY IntentsTyped, LimitIsPositive DEF RInv, TypeOK
<1>4. /\ next' \in Nat \ {0}
      /\ pc' \in {"start", "tools", "exec", "fetch", "fetching", "ask", "call",
                  "followup", "following", "pause", "done"}
  BY <1>3 DEF RInv, TypeOK, RefuseInput, AcceptInput, StopBeforeTool, StartTool, StartFetch,
         FetchedEnough, ToolsDone, PauseEnds, StopInPause, Expire, retrieval, vars, Return
<1>5. Failed(TimeoutExceeded).code = TimeoutExceeded /\ Failed(NoCode).code = NoCode
  BY DEF Failed
<1>6. Phase'
  <2> USE <1>1, <1>2, <1>3 DEF RInv, Phase, Ranking
  <2>1. CASE RefuseInput
    <3>1. pc = "start" /\ pc' = "done"
      BY <2>1 DEF RefuseInput, Return
    <3>2. outcome.code # TimeoutExceeded
      BY <3>1 DEF QInv, SynthesisTyped, Running, NoCode, TimeoutExceeded
    <3> QED BY <3>1, <3>2
  <2>2. CASE StopBeforeTool \/ StopInPause
    <3>1. pc' = "done" /\ outcome'.code = TimeoutExceeded
      BY <1>5, <2>2 DEF StopBeforeTool, StopInPause, Return
    <3> QED BY <3>1
  <2>3. CASE AcceptInput \/ StartTool \/ StartFetch \/ ToolsDone \/ PauseEnds
    BY <2>3 DEF AcceptInput, StartTool, StartFetch, ToolsDone, PauseEnds, retrieval
  <2>4. CASE FetchedEnough
    BY <2>4 DEF FetchedEnough
  <2>5. CASE Expire \/ UNCHANGED vars
    BY <2>5 DEF Expire, vars, retrieval
  <2> QED BY <2>1, <2>2, <2>3, <2>4, <2>5
<1> QED BY <1>1, <1>4, <1>6, UntriedKeeps

LEMMA SynthesisRanks ==
  ASSUME RInv, QInv',
         \/ Ask \/ AskRefused \/ CallFails \/ NoChoices \/ FollowUp \/ FollowUpFails
         \/ \E content, thought \in Texts :
              Reply(content, thought) \/ FollowUpReply(content, thought)
  PROVE  RInv'
<1>1. UNCHANGED <<input, next, urls, nextUrl, fetched, blocks, tried>>
  BY DEF Ask, AskRefused, CallFails, NoChoices, FollowUp, FollowUpFails, Reply,
         FollowUpReply, retrieval
<1>2. /\ pc \in {"ask", "call", "followup", "following"}
      /\ pc' \in {"ask", "call", "followup", "following", "pause", "done"}
  BY DEF Ask, AskRefused, CallFails, NoChoices, FollowUp, FollowUpFails, Reply,
         FollowUpReply, NextAttempt, Return
<1>3. outcome.code # TimeoutExceeded
  BY <1>2 DEF RInv, QInv, SynthesisTyped, Running, NoCode, TimeoutExceeded
<1>4. Phase'
  BY <1>1, <1>2, <1>3 DEF RInv, Phase, limit
<1> QED BY <1>1, <1>2, <1>4, UntriedKeeps DEF RInv, TypeOK

\* The end of a tool call or a fetch is recorded behind the others.
LEMMA TriedGrows ==
  ASSUME TypeOK, NEW tool \in Tools \cup {"web_fetch"}, NEW url \in Urls \cup {NoUrl, Cut},
         NEW ok \in BOOLEAN, Tried(tool, url, ok)
  PROVE  /\ Len(tried) \in Nat /\ tried' \in Seq(ToolCalls) /\ Len(tried') = Len(tried) + 1
         /\ \A i \in 1..Len(tried) : tried'[i] = tried[i]
         /\ tried'[Len(tried) + 1].url = url /\ tried'[Len(tried) + 1].ok = ok
         /\ blocks' \in Seq((Tools \cup {"web_fetch"}) \X (Urls \cup {NoUrl, Cut}))
<1> DEFINE call == [tool |-> tool, url |-> url, ok |-> ok]
<1>1. call \in ToolCalls /\ call.url = url /\ call.ok = ok
  BY DEF ToolCalls
<1>2. Block(call) \in (Tools \cup {"web_fetch"}) \X (Urls \cup {NoUrl, Cut})
  BY DEF Block
<1>3. tried' = Append(tried, call) /\ blocks' \in {blocks, Append(blocks, Block(call))}
  BY DEF Tried
<1> HIDE DEF call
<1>4. tried \in Seq(ToolCalls) /\ Len(tried) \in Nat
  BY DEF TypeOK
<1>5. /\ tried' \in Seq(ToolCalls) /\ Len(tried') = Len(tried) + 1
      /\ \A i \in 1..Len(tried) : tried'[i] = tried[i]
      /\ tried'[Len(tried) + 1] = call
  BY <1>1, <1>3, <1>4
<1>6. blocks' \in Seq((Tools \cup {"web_fetch"}) \X (Urls \cup {NoUrl, Cut}))
  <2>1. blocks \in Seq((Tools \cup {"web_fetch"}) \X (Urls \cup {NoUrl, Cut}))
    BY DEF TypeOK
  <2> QED BY <1>2, <1>3, <2>1, AppendProperties
<1> QED BY <1>1, <1>4, <1>5, <1>6

LEMMA ToolRanks == ASSUME RInv, QInv', ToolFails \/ ToolSucceeds PROVE RInv'
<1>1. /\ pc = "exec" /\ UNCHANGED <<input, outcome>> /\ nextUrl' = 1 /\ fetched' = 0
      /\ \/ pc' = "tools" /\ next' = next + 1 /\ urls' = << >>
         \/ /\ pc' = "fetch" /\ UNCHANGED next
            /\ \E r \in SearchResults : urls' \in ExtractSearchURLs(r)
  BY DEF ToolFails, ToolSucceeds
<1>2. next \in Nat \ {0} /\ next <= Len(intents) /\ Len(intents) \in Nat
  BY <1>1, IntentsTyped DEF RInv, TypeOK, Phase
<1>3. PICK tool \in Tools : tool = intents[next]
  <2>1. next \in 1..Len(intents)
    BY <1>2
  <2> QED BY <2>1, IntentsTyped DEF RInv, TypeOK
<1>4. PICK ok \in BOOLEAN : Tried(tool, NoUrl, ok)
  BY <1>3 DEF ToolFails, ToolSucceeds
<1>5. /\ Len(tried) \in Nat /\ tried' \in Seq(ToolCalls) /\ Len(tried') = Len(tried) + 1
      /\ tried'[Len(tried) + 1].url = NoUrl
      /\ blocks' \in Seq((Tools \cup {"web_fetch"}) \X (Urls \cup {NoUrl, Cut}))
  BY <1>4, TriedGrows DEF RInv
<1>6. urls' \in Seq(Urls \cup {Cut}) /\ Len(urls') \in Nat
  <2>1. CASE urls' = << >>
    BY <2>1
  <2>2. CASE \E r \in SearchResults : urls' \in ExtractSearchURLs(r)
    <3>1. PICK r \in SearchResults : urls' \in ExtractSearchURLs(r)
      BY <2>2
    <3>2. PICK found \in ExtractSearchURLs(r) : urls' = found
      BY <3>1
    <3>3. found \in Seq(Urls \cup {Cut})
      BY ExtractType
    <3> QED BY <3>2, <3>3
  <2> QED BY <1>1, <2>1, <2>2
<1>7. Ranking'
  <2>1. Own' = Len(tried) + 1
    BY <1>1, <1>5 DEF Own
  <2>2. Successes' = {}
    BY <1>1 DEF Successes
  <2>3. fetched' = Cardinality(Successes')
    BY <1>1, <2>2, FS_EmptySet
  <2> QED BY <1>1, <1>5, <1>6, <2>1, <2>3 DEF Ranking
<1>8. TypeOK'
  <2>1. 0 \in 0..limit'
    BY LimitIsPositive DEF limit
  <2> QED BY <1>1, <1>2, <1>5, <1>6, <2>1 DEF TypeOK, QInv, SynthesisTyped
<1>9. Phase'
  <2>1. intents' = intents
    BY <1>1, IntentsStay
  <2> QED BY <1>1, <1>2, <2>1 DEF Phase
<1> QED BY <1>7, <1>8, <1>9 DEF RInv

\* A fetch tries the next URL of the list; a page more is fetched or not.
LEMMA FetchRanks == ASSUME RInv, QInv', NEW ok \in BOOLEAN, FetchEnds(ok) PROVE RInv'
<1>1. /\ pc = "fetching" /\ pc' = "fetch" /\ UNCHANGED <<input, next, urls, outcome>>
      /\ nextUrl' = nextUrl + 1 /\ fetched' = IF ok THEN fetched + 1 ELSE fetched
      /\ Tried("web_fetch", urls[nextUrl], ok)
  BY DEF FetchEnds
<1>2. /\ nextUrl \in Nat \ {0} /\ nextUrl <= Len(urls) /\ Len(urls) \in Nat
      /\ fetched \in Nat /\ fetched < limit /\ limit \in Nat
  BY <1>1, LimitIsPositive DEF RInv, TypeOK, Phase
<1>3. PICK url \in Urls \cup {Cut} : url = urls[nextUrl]
  <2>1. nextUrl \in 1..Len(urls)
    BY <1>2
  <2> QED BY <2>1 DEF RInv, TypeOK
<1>4. /\ Len(tried) \in Nat /\ tried' \in Seq(ToolCalls) /\ Len(tried') = Len(tried) + 1
      /\ \A i \in 1..Len(tried) : tried'[i] = tried[i]
      /\ tried'[Len(tried) + 1].url = url /\ tried'[Len(tried) + 1].ok = ok
      /\ blocks' \in Seq((Tools \cup {"web_fetch"}) \X (Urls \cup {NoUrl, Cut}))
  BY <1>1, <1>3, TriedGrows DEF RInv
<1>5. /\ Own' = Own /\ Own \in Nat /\ Own + nextUrl = Len(tried) + 1
      /\ \A i \in 1..nextUrl-1 : Own + i \in 1..Len(tried)
  <2>1. Own \in Nat
    BY DEF RInv, Ranking
  <2>2. Own + nextUrl = Len(tried) + 1
    BY <1>2, <1>4 DEF Own
  <2>3. Own' = Own
    BY <1>1, <1>2, <1>4 DEF Own
  <2>4. \A i \in 1..nextUrl-1 : Own + i \in 1..Len(tried)
    BY <1>2, <1>4, <2>1, <2>2
  <2> QED BY <2>1, <2>2, <2>3, <2>4
<1>6. \A i \in 1..nextUrl-1 : tried'[Own + i] = tried[Own + i]
  BY <1>4, <1>5
<1>7. Ranking'
  <2>1. Own = 0 \/ tried'[Own].url = NoUrl
    <3>1. Own = 0 \/ Own \in 1..Len(tried)
      BY <1>2, <1>5
    <3> QED BY <1>4, <3>1 DEF RInv, Ranking
  <2>2. \A i \in 1..nextUrl : tried'[Own + i].url = urls[i]
    <3> SUFFICES ASSUME NEW i \in 1..nextUrl PROVE tried'[Own + i].url = urls[i]
      OBVIOUS
    <3>1. CASE i = nextUrl
      BY <1>3, <1>4, <1>5, <3>1
    <3>2. CASE i # nextUrl
      <4>1. i \in 1..nextUrl-1
        BY <1>2, <3>2
      <4> QED BY <1>6, <4>1 DEF RInv, Ranking
    <3> QED BY <3>1, <3>2
  <2>3. Successes' = IF ok THEN Successes \cup {nextUrl} ELSE Successes
    <3>1. Successes' = {i \in 1..nextUrl : tried'[Own + i].ok}
      BY <1>1, <1>2, <1>5 DEF Successes
    <3>2. \A i \in 1..nextUrl-1 : tried'[Own + i].ok = tried[Own + i].ok
      BY <1>6
    <3>3. tried'[Own + nextUrl].ok = ok
      BY <1>4, <1>5
    <3>4. 1..nextUrl = (1..nextUrl-1) \cup {nextUrl} /\ nextUrl \notin 1..nextUrl-1
      BY <1>2
    <3> QED BY <3>1, <3>2, <3>3, <3>4 DEF Successes
  <2>4. fetched' = Cardinality(Successes')
    <3>1. IsFiniteSet(Successes)
      <4>1. IsFiniteSet(1..nextUrl-1)
        BY <1>2, FS_Interval
      <4> QED BY <4>1, FS_Subset DEF Successes
    <3>2. nextUrl \notin Successes
      BY <1>2 DEF Successes
    <3>3. Cardinality(Successes \cup {nextUrl}) = Cardinality(Successes) + 1
      BY <3>1, <3>2, FS_AddElement
    <3> QED BY <1>1, <2>3, <3>3 DEF RInv, Ranking
  <2> QED BY <1>1, <1>2, <1>5, <2>1, <2>2, <2>4 DEF Ranking
<1>8. TypeOK'
  <2>1. limit' = limit
    BY DEF limit
  <2>2. fetched' \in 0..limit
    BY <1>1, <1>2
  <2> QED BY <1>1, <1>2, <1>4, <2>1, <2>2 DEF RInv, TypeOK, QInv, SynthesisTyped
<1>9. Phase'
  <2>1. intents' = intents
    BY <1>1, IntentsStay
  <2> QED BY <1>1, <2>1 DEF RInv, Phase
<1> QED BY <1>7, <1>8, <1>9 DEF RInv

LEMMA RetrievalInvariant == Spec => []RInv
<1>1. RInv /\ [Next]_vars => RInv'
  <2> SUFFICES ASSUME RInv, [Next]_vars PROVE RInv'
    OBVIOUS
  <2>1. QInv'
    BY QInvKept DEF RInv
  <2> QED BY <2>1, WaitingRanks, SynthesisRanks, ToolRanks, FetchRanks DEF Next, Step
<1> QED BY InitRanks, <1>1, PTL DEF Spec

----
(* The results. *)

\* The variables of a RAG run keep their types: a tool executed is one the
\* parser found, a URL fetched is not empty, an attempt is one of max_retries.
THEOREM RagTypeCorrect == Spec => []TypeOK
<1>1. RInv => TypeOK
  BY DEF RInv
<1> QED BY <1>1, RetrievalInvariant, PTL

\* What lies behind the last intent executed is what was fetched for it.
LEMMA FetchesAre ==
  ASSUME RInv
  PROVE  /\ Len(Fetches) = nextUrl - 1 /\ DOMAIN Fetches = 1..nextUrl-1
         /\ \A i \in 1..nextUrl-1 : Fetches[i] = tried[Own + i]
<1>1. /\ Own \in Nat /\ nextUrl \in Nat \ {0} /\ Len(tried) \in Nat /\ tried \in Seq(ToolCalls)
      /\ Own + (nextUrl - 1) = Len(tried) /\ Len(urls) \in Nat /\ nextUrl - 1 <= Len(urls)
  <2>1. Own \in Nat /\ nextUrl - 1 <= Len(urls)
    BY DEF RInv, Ranking
  <2>2. nextUrl \in Nat \ {0} /\ tried \in Seq(ToolCalls) /\ urls \in Seq(Urls \cup {Cut})
    BY DEF RInv, TypeOK
  <2>3. Len(tried) \in Nat /\ Len(urls) \in Nat
    BY <2>2
  <2>4. Own + (nextUrl - 1) = Len(tried)
    BY <2>2, <2>3 DEF Own
  <2> QED BY <2>1, <2>2, <2>3, <2>4
<1> DEFINE own == {i \in 1..Len(tried) : tried[i].url = NoUrl}
<1>2. ASSUME NEW i \in own PROVE i <= Own
  <2>1. CASE i > Own
    <3>1. i - Own \in 1..nextUrl-1 /\ Own + (i - Own) = i /\ i - Own \in 1..Len(urls)
      BY <1>1, <2>1
    <3>2. tried[i].url = urls[i - Own] /\ urls[i - Own] \in Urls \cup {Cut}
      BY <3>1 DEF RInv, TypeOK, Ranking
    <3> QED BY <3>2, RagAssumption
  <2> QED BY <1>1, <2>1
<1>3. CASE Own = 0
  <2>1. own = {}
    BY <1>2, <1>3
  <2>2. SelectLastInSeq(tried, LAMBDA c : c.url = NoUrl) = 0
    BY <2>1 DEF SelectLastInSeq
  <2>3. Fetches = SubSeq(tried, 0 + 1, Len(tried))
    BY <2>2 DEF Fetches
  <2> QED BY <1>1, <1>3, <2>3
<1>4. CASE Own # 0
  <2>1. Own \in own
    BY <1>1, <1>4 DEF RInv, Ranking
  <2>2. Max(own) = Own
    <3>1. \A x \in own : x \in Int
      OBVIOUS
    <3>2. \A x \in own : (\A y \in own : x >= y) <=> x = Own
      BY <1>2, <2>1, <3>1
    <3> HIDE DEF own
    <3> QED BY <2>1, <3>2 DEF Max
  <2>3. SelectLastInSeq(tried, LAMBDA c : c.url = NoUrl) = Own
    BY <2>1, <2>2 DEF SelectLastInSeq
  <2>4. Fetches = SubSeq(tried, Own + 1, Len(tried))
    BY <2>3 DEF Fetches
  <2>5. Len(tried) - Own = nextUrl - 1 /\ Own + 1 \in Int
    BY <1>1
  <2>6. Fetches = [i \in 1..nextUrl-1 |-> tried[Own + i]]
    <3>1. SubSeq(tried, Own + 1, Len(tried))
            = [i \in 1..Len(tried)-(Own+1)+1 |-> tried[i + (Own + 1) - 1]]
      BY <1>1
    <3>2. Len(tried) - (Own + 1) + 1 = nextUrl - 1
      BY <1>1, <2>5
    <3>3. \A i \in 1..nextUrl-1 : i + (Own + 1) - 1 = Own + i
      BY <1>1
    <3> QED BY <2>4, <3>1, <3>2, <3>3
  <2> QED BY <1>1, <2>6
<1> QED BY <1>3, <1>4

\* Whatever a search lists and however many pages are wanted, auto-fetch
\* tries the URLs found in their order, none skipped, none twice, and stops
\* with enough pages, without a URL left to try, or on time.
THEOREM FetchesStayInRank == Spec => []FetchesInRank
<1>1. RInv => FetchesInRank
  <2> SUFFICES ASSUME RInv PROVE FetchesInRank
    OBVIOUS
  <2>1. /\ Len(Fetches) = nextUrl - 1 /\ DOMAIN Fetches = 1..nextUrl-1
        /\ \A i \in 1..nextUrl-1 : Fetches[i] = tried[Own + i]
    BY FetchesAre
  <2>2. {i \in DOMAIN Fetches : Fetches[i].ok} = Successes
    BY <2>1 DEF Successes
  <2>3. /\ Cardinality(Successes) = fetched /\ fetched <= limit
        /\ nextUrl - 1 <= Len(urls)
        /\ \A i \in 1..nextUrl-1 : tried[Own + i].url = urls[i]
        /\ \/ pc \in {"fetch", "fetching"} \/ outcome.code = TimeoutExceeded
           \/ fetched = limit \/ nextUrl - 1 = Len(urls)
    BY DEF RInv, TypeOK, Ranking, Phase
  <2> QED BY <2>1, <2>2, <2>3 DEF FetchesInRank
<1> QED BY <1>1, RetrievalInvariant, PTL

\* The scan of a cut result lists every URL in it, and none twice: seen is
\* what makes auto-fetch try a page once.
THEOREM ScanListsEachOnce ==
  ASSUME NEW S, NEW list \in Seq(S)
  PROVE  /\ \A i, j \in DOMAIN Scanned(list) : i # j => Scanned(list)[i] # Scanned(list)[j]
         /\ \A i \in DOMAIN list : \E k \in DOMAIN Scanned(list) : Scanned(list)[k] = list[i]
<1> DEFINE places == {i \in DOMAIN list : \A j \in 1..i-1 : list[j] # list[i]}
           m == Cardinality(places)
<1>1. PICK n \in Nat : DOMAIN list = 1..n
  OBVIOUS
<1>2. places \in SUBSET (1..n) /\ \A i \in places : i \in Nat
  BY <1>1
<1>3. PICK place : PickedAt(Scanned(list), list, places, place)
  BY <1>2, InOrderFacts DEF Scanned
<1>4. m \in Nat
  BY <1>2, RankSteps
<1>5. ASSUME NEW a \in places, NEW b \in places, a < b PROVE list[a] # list[b]
  <2>1. a \in 1..b-1
    BY <1>1, <1>5
  <2> QED BY <2>1
<1>6. ASSUME NEW i \in DOMAIN list PROVE \E a \in places : list[a] = list[i]
  <2> DEFINE same == {a \in 1..n : list[a] = list[i]}
  <2>1. i \in same /\ same \in SUBSET Nat
    BY <1>1
  <2>2. PICK a \in same : \A b \in same : a <= b
    BY <2>1, LeastNatural
  <2>3. ASSUME NEW b \in 1..a-1 PROVE list[b] # list[a]
    <3>1. b \in 1..n /\ ~(a <= b)
      BY <2>1, <2>2
    <3> QED BY <2>2, <3>1
  <2> QED BY <1>1, <2>2, <2>3
<1> HIDE DEF places, m
<1>7. DOMAIN Scanned(list) = 1..m /\ \A k \in 1..m : Scanned(list)[k] = list[place[k]]
  BY <1>3 DEF PickedAt, m
<1>8. ASSUME NEW i \in 1..m, NEW j \in 1..m, i < j PROVE list[place[i]] # list[place[j]]
  <2>1. place[i] \in places /\ place[j] \in places /\ place[i] < place[j]
    BY <1>3, <1>8 DEF PickedAt, m
  <2> QED BY <1>5, <2>1
<1>9. \A i, j \in 1..m : i # j => i < j \/ j < i
  BY <1>4
<1>10. \A i, j \in 1..m : i # j => list[place[i]] # list[place[j]]
  BY <1>8, <1>9
<1>11. \A a \in places : \E k \in 1..m : place[k] = a
  BY <1>3 DEF PickedAt, m
<1> QED BY <1>6, <1>7, <1>10, <1>11

\* A RAG run answers with the newest content or, when that is blank or was
\* never received, the reasoning before it; it fails only in silence.
THEOREM RagAnswersAreNewest == Spec => []AnswerIsNewestWord
<1>1. QInv => AnswerIsNewestWord
  BY DEF QInv, WordsHeard
<1> QED BY <1>1, RagInvariant, PTL

\* Once the context is done no request leaves and no tool or fetch starts.
THEOREM RagStartsNothingWhenDone == Spec => NoWorkWhenDone
<1>1. [Next]_vars =>
        [ctxDone => calls' = calls /\ (pc' \in {"exec", "fetching"} => pc' = pc)]_vars
  <2> SUFFICES ASSUME Next, ctxDone
               PROVE  calls' = calls /\ (pc' \in {"exec", "fetching"} => pc' = pc)
    OBVIOUS
  <2>1. CASE \/ AcceptInput \/ StartTool \/ ToolFails \/ ToolSucceeds \/ StartFetch
             \/ FetchedEnough \/ ToolsDone \/ PauseEnds \/ (\E ok \in BOOLEAN : FetchEnds(ok))
    BY <2>1 DEF AcceptInput, StartTool, ToolFails, ToolSucceeds, StartFetch, FetchedEnough,
                ToolsDone, PauseEnds, FetchEnds, synthesis
  <2>2. CASE \/ RefuseInput \/ StopBeforeTool \/ StopInPause \/ Ask \/ AskRefused
             \/ CallFails \/ NoChoices \/ FollowUp \/ FollowUpFails \/ Expire
    BY <2>2 DEF RefuseInput, StopBeforeTool, StopInPause, Ask, AskRefused, CallFails,
                NoChoices, FollowUp, FollowUpFails, Expire, NextAttempt, Return, synthesis
  <2>3. CASE \E content, thought \in Texts :
               Reply(content, thought) \/ FollowUpReply(content, thought)
    BY <2>3 DEF Reply, FollowUpReply
  <2> QED BY <2>1, <2>2, <2>3 DEF Next, Step
<1> QED BY <1>1, PTL DEF Spec, NoWorkWhenDone

\* Every step of a RAG run is one of RunContract or a stutter: at most one
\* request for each attempt and one follow-up, none after the context is
\* done, then an answer or an error the contract allows.
THEOREM RagImplementsContract == Spec => Contract!Init /\ [][Contract!Next]_(Contract!vars)
<1> USE DEF Contract!Running, Contract!Answered, Contract!Failed, Contract!NoCode,
            Contract!MaxIterationsExceeded, Contract!TimeoutExceeded,
            Contract!ContextWindowExceeded
<1>1. Init => Contract!Init
  BY DEF Init, Contract!Init, Running, NoCode
<1>2. QInv /\ [Next]_vars => [Contract!Next]_(Contract!vars)
  <2> SUFFICES ASSUME QInv, [Next]_vars PROVE [Contract!Next]_(Contract!vars)
    OBVIOUS
  <2>0. pc # "done" => outcome = Contract!Running
    BY DEF QInv, SynthesisTyped, Running, NoCode
  <2>1. ASSUME pc # "done", NEW code \in {NoCode, TimeoutExceeded, ContextWindowExceeded},
               IF code = TimeoutExceeded THEN ctxDone ELSE calls > 0 \/ code = NoCode,
               outcome' = Failed(code), UNCHANGED <<ctxDone, calls>>
        PROVE  Contract!Next
    <3>1. Failed(code) = Contract!Failed(code)
      BY DEF Failed, NoCode
    <3> QED BY <2>0, <2>1, <3>1
            DEF Contract!Next, Contract!Fail, NoCode, TimeoutExceeded, ContextWindowExceeded
  <2>2. ASSUME pc # "done", NEW a \in Texts, a # Empty, calls > 0,
               outcome' = Answered(a), UNCHANGED <<ctxDone, calls>>
        PROVE  Contract!Next
    BY <2>0, <2>2 DEF Contract!Next, Contract!Answer, Answered, NoCode
  <2>3. ASSUME UNCHANGED <<outcome, ctxDone, calls>> PROVE UNCHANGED Contract!vars
    BY <2>3 DEF Contract!vars
  <2>4. ASSUME pc = "ask" \/ pc = "followup", ~ctxDone, calls' = calls + 1, UNCHANGED <<outcome, ctxDone>>
        PROVE  Contract!Next
    <3>1. calls < maxAttempts + 1
      BY <2>4, AttemptsArePositive DEF QInv, SynthesisTyped, CallsAccounted
    <3> QED BY <2>0, <2>4, <3>1 DEF Contract!Next, Contract!Ask
  <2>5. ASSUME pc = "call" \/ pc = "ask", calls > 0 \/ pc = "ask", NextAttempt, UNCHANGED <<ctxDone, calls>>
        PROVE  [Contract!Next]_(Contract!vars)
    <3>1. UNCHANGED outcome \/ outcome' = Failed(NoCode)
      BY <2>5 DEF NextAttempt, Return
    <3>2. NoCode # TimeoutExceeded
      BY DEF NoCode, TimeoutExceeded
    <3> QED BY <2>1, <2>3, <2>5, <3>1, <3>2
  <2>6. CASE \/ AcceptInput \/ StartTool \/ ToolFails \/ ToolSucceeds \/ StartFetch
             \/ FetchedEnough \/ ToolsDone \/ PauseEnds \/ (\E ok \in BOOLEAN : FetchEnds(ok))
    BY <2>3, <2>6 DEF AcceptInput, StartTool, ToolFails, ToolSucceeds, StartFetch,
                      FetchedEnough, ToolsDone, PauseEnds, FetchEnds, synthesis
  <2>7. CASE RefuseInput
    <3>1. pc # "done" /\ outcome' = Failed(NoCode) /\ UNCHANGED <<ctxDone, calls>>
      BY <2>7 DEF RefuseInput, Return, synthesis
    <3> QED BY <2>1, <3>1 DEF NoCode, TimeoutExceeded
  <2>8. CASE StopBeforeTool \/ StopInPause
    <3>1. pc # "done" /\ ctxDone /\ outcome' = Failed(TimeoutExceeded) /\ UNCHANGED <<ctxDone, calls>>
      BY <2>8 DEF StopBeforeTool, StopInPause, Return, synthesis
    <3> QED BY <2>1, <3>1
  <2>9. CASE Ask \/ FollowUp
    BY <2>4, <2>9 DEF Ask, FollowUp
  <2>10. CASE AskRefused
    BY <2>5, <2>10 DEF AskRefused
  <2>11. CASE CallFails \/ NoChoices
    <3>1. pc = "call" /\ calls > 0 /\ UNCHANGED <<ctxDone, calls>>
      BY <2>11 DEF CallFails, NoChoices, QInv, CallsAccounted
    <3>2. ASSUME NEW e \in CallErrors \cup CallErrorsWhenDone, ~IsTransientError(e),
                 outcome' = Failed(e.code)
          PROVE  Contract!Next
      <4>1. e.code \in {NoCode, ContextWindowExceeded}
        BY <3>2, CallErrorCodes DEF IsTransientError
      <4>2. e.code # TimeoutExceeded
        BY <4>1 DEF NoCode, ContextWindowExceeded, TimeoutExceeded
      <4> QED BY <2>1, <3>1, <3>2, <4>1, <4>2
    <3>3. \/ NextAttempt
          \/ \E e \in CallErrors \cup CallErrorsWhenDone : ~IsTransientError(e) /\ outcome' = Failed(e.code)
      BY <2>11 DEF CallFails, NoChoices, Return
    <3> QED BY <2>5, <3>1, <3>2, <3>3
  <2>12. CASE \E content, thought \in Texts : Reply(content, thought)
    <3> SUFFICES ASSUME NEW content \in Texts, NEW thought \in Texts, Reply(content, thought)
                 PROVE  [Contract!Next]_(Contract!vars)
      BY <2>12
    <3>1. pc = "call" /\ calls > 0 /\ UNCHANGED <<ctxDone, calls>>
      BY DEF Reply, QInv, CallsAccounted
    <3>2. \/ Trim[content] # Empty /\ outcome' = Answered(Trim[content])
          \/ UNCHANGED outcome
          \/ NextAttempt
      BY DEF Reply, Return
    <3>3. Trim[content] \in Texts
      BY RagAssumption
    <3> QED BY <2>2, <2>3, <2>5, <3>1, <3>2, <3>3
  <2>13. CASE FollowUpFails \/ \E content, thought \in Texts : FollowUpReply(content, thought)
    <3>1. /\ pc \in {"followup", "following"} /\ UNCHANGED <<ctxDone, calls>>
          /\ \E a \in Texts : a # Empty /\ outcome' = Answered(a)
      <4>1. /\ pc \in {"followup", "following"} /\ UNCHANGED <<ctxDone, calls>>
            /\ \/ outcome' = Answered(reasoning)
               \/ \E content \in Texts : Trim[content] # Empty /\ outcome' = Answered(Trim[content])
        BY <2>13 DEF FollowUpFails, FollowUpReply, Return, synthesis
      <4>2. reasoning \in Texts /\ reasoning # Empty
        BY <4>1 DEF QInv, SynthesisTyped, WordsHeard
      <4> QED BY <4>1, <4>2, RagAssumption
    <3>2. calls > 0 /\ pc # "done"
      BY <3>1 DEF QInv, CallsAccounted
    <3> QED BY <2>2, <3>1, <3>2
  <2>14. CASE Expire
    BY <2>0, <2>14 DEF Expire, synthesis, Contract!Next, Contract!Expire
  <2>15. CASE UNCHANGED vars
    BY <2>3, <2>15 DEF vars
  <2> QED BY <2>6, <2>7, <2>8, <2>9, <2>10, <2>11, <2>12, <2>13, <2>14, <2>15 DEF Next, Step
<1> QED BY <1>1, <1>2, RagInvariant, PTL DEF Spec

====
