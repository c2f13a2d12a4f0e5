---- MODULE AgentLoopProofs ----
(***************************************************************************)
(* The loop's safety properties for every budget, every parser, every set  *)
(* of texts and every conversation. Three invariants in layers: types, the *)
(* shape of the history, and what the outcome says of the run.             *)
(***************************************************************************)
EXTENDS AgentLoop, ContextWindowProofs

LEMMA RolesAre == Roles = {"system", "user", "assistant", "tool"}
  BY DEF Roles, RoleLen

\* No call error carries a code that Run makes up itself.
LEMMA CallErrorCodes ==
  ASSUME NEW e \in CallErrors \cup CallErrorsWhenDone
  PROVE  /\ e.code \in Codes
         /\ e.code # MaxIterationsExceeded /\ e.code # TimeoutExceeded
<1>1. \A p \in SUBSET {"context length"} :
        /\ OtherStatus(p).code = GptOssUnreachable
        /\ BadRequest(p).code \in {ContextWindowExceeded, NoCode}
  BY DEF OtherStatus, BadRequest, Wrap, Plain
<1>2. DoFailed.code = GptOssUnreachable /\ BadBody.code = NoCode
  BY DEF DoFailed, BadBody, Wrap, Plain
<1>3. e.code \in {GptOssUnreachable, ContextWindowExceeded, NoCode}
  BY <1>1, <1>2 DEF CallErrors, CallErrorsWhenDone
<1> QED BY <1>3 DEF Codes, GptOssUnreachable, ContextWindowExceeded, NoCode,
                    MaxIterationsExceeded, TimeoutExceeded

\* The history starts out as a non-empty conversation with ids in order.
LEMMA InitialMessages ==
  ASSUME NEW conversation \in Conversation
  PROVE  LET ms == buildInitialMessages(conversation)
         IN /\ ms \in Seq(Message) /\ ms # << >>
            /\ \A i, j \in DOMAIN ms : i < j => ms[i].id < ms[j].id
            /\ (\E i \in DOMAIN conversation : conversation[i].role = "user") =>
                 /\ Len(ms) = Len(conversation)
                 /\ \A i \in 1..Len(ms) : ms[i].id = i /\ ms[i].role = conversation[i].role
<1> DEFINE injected(i) == IF PromptSize > 0 /\ IsFirstUser(conversation, i)
                          THEN PromptSize + 2 ELSE 0
           m(i) == [role |-> conversation[i].role, id |-> i,
                    size |-> conversation[i].size + injected(i)]
           copied == [i \in DOMAIN conversation |-> m(i)]
           prompt == [role |-> "user", id |-> 0, size |-> PromptSize]
<1>1. /\ conversation \in Seq([role : Roles, size : Nat])
      /\ Len(conversation) \in Nat /\ Len(conversation) >= 1
      /\ DOMAIN conversation = 1..Len(conversation)
  BY DEF Conversation
<1>1a. \A i \in 1..Len(conversation) :
         conversation[i].role \in Roles /\ conversation[i].size \in Nat
  <2> SUFFICES ASSUME NEW i \in 1..Len(conversation)
               PROVE  conversation[i].role \in Roles /\ conversation[i].size \in Nat
    OBVIOUS
  <2>1. conversation[i] \in [role : Roles, size : Nat]
    BY <1>1, ElementOfSeq
  <2> QED BY <2>1
<1>2. PromptSize \in Nat
  BY ContextAssumption
<1>3. \A i \in 1..Len(conversation) :
        m(i) \in Message /\ m(i).id = i /\ m(i).role = conversation[i].role
  <2> SUFFICES ASSUME NEW i \in 1..Len(conversation) PROVE m(i) \in Message
    OBVIOUS
  <2>1. injected(i) \in Nat
    BY <1>2
  <2>2. conversation[i].role \in Roles /\ conversation[i].size \in Nat
    BY <1>1a
  <2> HIDE DEF injected
  <2> QED BY <2>1, <2>2 DEF Message
<1> HIDE DEF m
<1>4. /\ copied \in Seq(Message) /\ Len(copied) = Len(conversation)
      /\ \A i \in 1..Len(conversation) : copied[i] = m(i)
  BY <1>1, <1>3
<1>5. prompt \in Message
  BY <1>2, RolesAre DEF Message
<1> DEFINE prepended == <<prompt>> \o copied
<1>6. CASE PromptSize > 0 /\ \A i \in DOMAIN conversation : conversation[i].role # "user"
  <2>1. buildInitialMessages(conversation) = prepended
    BY <1>6 DEF buildInitialMessages, m
  <2> HIDE DEF prompt, copied
  <2>2. /\ prepended \in Seq(Message) /\ Len(prepended) = Len(conversation) + 1
        /\ \A i \in 1..Len(prepended) :
             prepended[i] = IF i = 1 THEN prompt ELSE copied[i - 1]
    BY <1>1, <1>4, <1>5
  <2>3. \A i \in 1..Len(prepended) : prepended[i].id = i - 1
    BY <1>1, <1>3, <1>4, <2>2 DEF prompt
  <2> HIDE DEF prepended
  <2>4. \A i, j \in DOMAIN prepended : i < j => prepended[i].id < prepended[j].id
    BY <2>2, <2>3
  <2>5. prepended # << >>
    BY <1>1, <2>2
  <2>6. ~(\E i \in DOMAIN conversation : conversation[i].role = "user")
    BY <1>6
  <2> QED BY <2>1, <2>2, <2>4, <2>5, <2>6, Zenon
<1>7. CASE ~(PromptSize > 0 /\ \A i \in DOMAIN conversation : conversation[i].role # "user")
  <2>1. buildInitialMessages(conversation) = copied
    BY <1>7 DEF buildInitialMessages, m
  <2> HIDE DEF copied
  <2>2. \A i \in 1..Len(copied) : copied[i].id = i /\ copied[i].role = conversation[i].role
    BY <1>3, <1>4
  <2>3. copied # << >>
    BY <1>1, <1>4
  <2>4. \A i, j \in DOMAIN copied : i < j => copied[i].id < copied[j].id
    BY <1>1, <1>4, <2>2
  <2> QED BY <1>4, <2>1, <2>2, <2>3, <2>4
<1> QED BY <1>6, <1>7

\* A message the run adds is one more, behind the others and with the
\* largest id.
LEMMA SaidFacts ==
  ASSUME messages \in Seq(Message), messages # << >>,
         NEW role \in Roles, NEW size \in Nat
  PROVE  LET ms == Said(role, size)
         IN /\ ms \in Seq(Message) /\ ms # << >> /\ Len(ms) = Len(messages) + 1
            /\ \A i \in 1..Len(messages) : ms[i] = messages[i]
            /\ ms[Len(ms)].role = role
            /\ ms[Len(ms)].id = messages[Len(messages)].id + 1
<1>1. Len(messages) \in Nat /\ Len(messages) >= 1
  OBVIOUS
<1>2. messages[Len(messages)] \in Message
  BY <1>1
<1>3. [role |-> role, size |-> size, id |-> messages[Len(messages)].id + 1] \in Message
  BY <1>2 DEF Message
<1> QED BY <1>1, <1>3 DEF Said

\* What the two kinds of return value hold.
LEMMA OutcomeFacts ==
  /\ Running.status = "running" /\ Running.code = NoCode /\ Running.answer = Empty
  /\ Running.iterations = 0
  /\ \A a, n : /\ Answered(a, n).status = "answered" /\ Answered(a, n).answer = a
               /\ Answered(a, n).code = NoCode /\ Answered(a, n).iterations = n
  /\ \A code : Failed(code).status = "failed" /\ Failed(code).code = code
  BY DEF Running, Answered, Failed

LEMMA OutcomeTypes ==
  /\ Running \in Outcome
  /\ \A a \in Texts, n \in Nat : Answered(a, n) \in Outcome
  /\ \A code \in Codes : Failed(code) \in Outcome
<1>1. Empty \in Texts
  BY LoopAssumption
<1>2. NoCode \in Codes
  BY DEF Codes
<1> QED BY <1>1, <1>2 DEF Outcome, Running, Answered, Failed

----
(* The first layer: types, and what pc says of the loop's variables. *)

TypeInv ==
  /\ TypeOK
  /\ messages # << >>
  /\ pc \in {"call", "pause", "tools", "exec"} => iteration < MaxIterations
  /\ pc \in {"tools", "exec"} => next <= Len(intents)

\* The outcomes of the end of Run are of the right type.
LEMMA FinishTypes ==
  ASSUME TypeOK, NEW a \in Texts, NEW last \in Texts, Finish(a, last)
  PROVE  pc' = "done" /\ outcome' \in Outcome
<1>1. iteration + 1 \in Nat
  BY LoopAssumption DEF TypeOK
<1>2. MaxIterationsExceeded \in Codes
  BY DEF Codes
<1>3. \/ outcome' = Answered(a, iteration + 1) \/ outcome' = Answered(last, iteration + 1)
      \/ outcome' = Failed(MaxIterationsExceeded)
  BY DEF Finish, Return
<1>4. pc' = "done"
  BY DEF Finish, Return
<1> QED BY <1>1, <1>2, <1>3, <1>4, OutcomeTypes

\* A tool message leaves the layer intact, whatever the tool did.
LEMMA ToolTypes ==
  ASSUME TypeInv, pc = "exec", NEW size \in Nat,
         messages' = Said("tool", size), AfterTool,
         errlog' \in Seq(Nat \X Tools),
         UNCHANGED <<lastContent, outcome, ctxDone, calls, said, input>>
  PROVE  TypeInv'
<1>1. messages' \in Seq(Message) /\ messages' # << >>
  BY SaidFacts, RolesAre DEF TypeInv, TypeOK
<1>2. next \in Nat /\ Len(intents) \in Nat /\ iteration \in 0..MaxIterations
      /\ iteration < MaxIterations /\ MaxIterations \in Nat
  BY LoopAssumption DEF TypeInv, TypeOK
<1>3. /\ pc' \in {"tools", "top"} /\ iteration' \in 0..MaxIterations
      /\ intents' \in Seq(Tools) /\ next' \in Nat \ {0}
      /\ pc' \in {"call", "pause", "tools", "exec"} => iteration' < MaxIterations
      /\ pc' \in {"tools", "exec"} => next' <= Len(intents')
  <2>1. CASE next < Len(intents)
    BY <2>1, <1>2 DEF AfterTool, TypeInv, TypeOK
  <2>2. CASE ~(next < Len(intents))
    BY <2>2, <1>2 DEF AfterTool, Continue, TypeInv, TypeOK
  <2> QED BY <2>1, <2>2
<1> QED BY <1>1, <1>3 DEF TypeInv, TypeOK

LEMMA TypeInvInductive ==
  ASSUME TypeInv, [Next]_vars
  PROVE  TypeInv'
<1> USE DEF TypeInv
<1>0. MaxIterations \in Nat \ {0} /\ iteration \in 0..MaxIterations /\ calls \in Nat
  BY LoopAssumption DEF TypeOK
<1>1. TimeoutExceeded \in Codes /\ ContextWindowExceeded \in Codes
  BY DEF Codes
<1>2. CASE Exhaust
  <2>1. Empty \in Texts /\ lastContent \in Texts
    BY LoopAssumption DEF TypeOK
  <2> QED BY <1>2, <2>1, FinishTypes DEF Exhaust, TypeOK
<1>3. CASE StopAtTop
  BY <1>1, <1>3, OutcomeTypes DEF StopAtTop, Return, TypeOK
<1>4. CASE StartCall
  <2>1. messages' \in Seq(Message) /\ messages' # << >>
    <3>1. messages \in Seq(Message) /\ messages # << >> /\ messages' = manageContext(messages)
      BY <1>4 DEF StartCall, TypeOK
    <3>2. PICK d \in Nat : DropsBehindHead(messages, manageContext(messages), d)
      BY <3>1, ManageFacts
    <3>3. manageContext(messages) \in Seq(Message)
      BY <3>1, ManageFacts
    <3>4. Len(manageContext(messages)) > 0
      BY <3>1, <3>2, <3>3 DEF DropsBehindHead, kept
    <3> QED BY <3>1, <3>3, <3>4
  <2> QED BY <1>0, <1>4, <2>1 DEF StartCall, TypeOK
<1>5. CASE CallFails
  <2>1. PICK e \in CallErrors \cup CallErrorsWhenDone :
          IF isContextWindowExceeded(e)
          THEN Return(Failed(ContextWindowExceeded)) /\ UNCHANGED iteration
          ELSE IF IsTransientError(e)
          THEN Continue /\ UNCHANGED outcome
          ELSE Return(Failed(e.code)) /\ UNCHANGED iteration
    BY <1>5 DEF CallFails
  <2>2. e.code \in Codes
    BY CallErrorCodes
  <2>3. \/ pc' = "done" /\ iteration' = iteration /\ outcome' = Failed(ContextWindowExceeded)
        \/ pc' = "done" /\ iteration' = iteration /\ outcome' = Failed(e.code)
        \/ pc' = "top" /\ iteration' = iteration + 1 /\ outcome' = outcome
    BY <2>1 DEF Return, Continue
  <2> QED BY <1>0, <1>1, <1>5, <2>2, <2>3, OutcomeTypes DEF CallFails, TypeOK
<1>6. CASE NoChoices
  BY <1>6 DEF NoChoices, TypeOK
<1>7. CASE PauseEnds
  BY <1>0, <1>7 DEF PauseEnds, Continue, TypeOK
<1>8. CASE StopInPause
  BY <1>1, <1>8, OutcomeTypes DEF StopInPause, Return, TypeOK
<1>9. CASE StopBeforeTool
  BY <1>1, <1>9, OutcomeTypes DEF StopBeforeTool, Return, TypeOK
<1>10. CASE StartTool
  BY <1>10 DEF StartTool, TypeOK
<1>11. CASE ToolSucceeds
  <2>1. PICK size \in Nat : messages' = Said("tool", size)
    BY <1>11, LoopAssumption DEF ToolSucceeds
  <2> QED BY <1>11, <2>1, ToolTypes DEF ToolSucceeds, TypeOK
<1>12. CASE ToolFails
  <2>1. PICK size \in Nat : messages' = Said("tool", size)
    BY <1>12, LoopAssumption DEF ToolFails
  <2>2. intents[next] \in Tools
    BY <1>12 DEF ToolFails, TypeOK
  <2>3. <<iteration + 1, intents[next]>> \in Nat \X Tools
    BY <1>0, <2>2
  <2>4. errlog' \in Seq(Nat \X Tools)
    BY <1>12, <2>3 DEF ToolFails, TypeOK
  <2> QED BY <1>12, <2>1, <2>4, ToolTypes DEF ToolFails
<1>13. CASE \E content, reasoning \in Texts : Reply(content, reasoning)
  <2>1. PICK content \in Texts, reasoning \in Texts : Reply(content, reasoning)
    BY <1>13
  <2> DEFINE last == IF IsBlank(content) THEN lastContent ELSE content
             source == selectParseSource(reasoning, content)
  <2>2. last \in Texts /\ source \in Texts
    BY <2>1, LoopAssumption DEF selectParseSource, TypeOK
  <2>3. messages' \in Seq(Message) /\ messages' # << >>
    <3>1. TextSize[content] \in Nat /\ messages \in Seq(Message)
      BY LoopAssumption DEF TypeOK
    <3>2. messages' = Said("assistant", TextSize[content])
      BY <2>1 DEF Reply
    <3> QED BY <3>1, <3>2, SaidFacts, RolesAre
  <2>4. said' \in Seq(Texts)
    BY <2>1 DEF Reply, TypeOK
  <2> HIDE DEF last, source
  <2>5. /\ pc = "call" /\ lastContent' = last
        /\ UNCHANGED <<iteration, ctxDone, calls, errlog, input>>
    BY <2>1 DEF Reply, last
  <2>6. \/ pc' = "pause" /\ UNCHANGED <<intents, next, outcome>>
        \/ Return(Answered(content, iteration + 1)) /\ UNCHANGED <<intents, next>>
        \/ Finish(content, last) /\ UNCHANGED <<intents, next>>
        \/ /\ pc' = "tools" /\ intents' = Parse[source] /\ next' = 1
           /\ Parse[source] # << >> /\ UNCHANGED outcome
    BY <2>1, Zenon DEF Reply, last, source
  <2>7. CASE pc' = "pause" /\ UNCHANGED <<intents, next, outcome>>
    BY <2>2, <2>3, <2>4, <2>5, <2>7 DEF TypeOK
  <2>8. CASE Return(Answered(content, iteration + 1)) /\ UNCHANGED <<intents, next>>
    BY <1>0, <2>2, <2>3, <2>4, <2>5, <2>8, OutcomeTypes DEF Return, TypeOK
  <2>9. CASE Finish(content, last) /\ UNCHANGED <<intents, next>>
    BY <2>2, <2>3, <2>4, <2>5, <2>9, FinishTypes DEF TypeOK
  <2>10. CASE /\ pc' = "tools" /\ intents' = Parse[source] /\ next' = 1
              /\ Parse[source] # << >> /\ UNCHANGED outcome
    <3>1. Parse[source] \in Seq(Tools) /\ Len(Parse[source]) >= 1
      BY <2>2, <2>10, LoopAssumption
    <3> QED BY <2>2, <2>3, <2>4, <2>5, <2>10, <3>1 DEF TypeOK
  <2> QED BY <2>6, <2>7, <2>8, <2>9, <2>10
<1>14. CASE Expire
  BY <1>14 DEF Expire, TypeOK
<1>15. CASE UNCHANGED vars
  BY <1>15 DEF vars, TypeOK
<1> QED BY <1>2, <1>3, <1>4, <1>5, <1>6, <1>7, <1>8, <1>9, <1>10, <1>11, <1>12,
           <1>13, <1>14, <1>15 DEF Next, Step

LEMMA TypeInvInitially == Init => TypeInv
<1> SUFFICES ASSUME Init PROVE TypeInv
  OBVIOUS
<1>1. input \in Conversation
  BY LoopAssumption DEF Init
<1>2. messages \in Seq(Message) /\ messages # << >>
  BY <1>1, InitialMessages DEF Init
<1>3. lastContent \in Texts /\ outcome = Running /\ iteration \in 0..MaxIterations
  BY LoopAssumption DEF Init
<1>4. intents \in Seq(Tools) /\ errlog \in Seq(Nat \X Tools) /\ said \in Seq(Texts)
  BY DEF Init
<1>5. /\ pc = "top" /\ next = 1 /\ calls = 0 /\ input \in Inputs
      /\ ctxDone \in BOOLEAN
  BY DEF Init
<1> QED BY <1>2, <1>3, <1>4, <1>5, OutcomeTypes DEF TypeInv, TypeOK

\* A run's variables keep their types, whatever gpt-oss and the tools answer:
\* in particular the history is never empty and always well formed.
THEOREM TypeCorrect == Spec => []TypeOK
<1>1. Spec => []TypeInv
  BY TypeInvInitially, TypeInvInductive, PTL DEF Spec
<1>2. TypeInv => TypeOK
  BY DEF TypeInv
<1> QED BY <1>1, <1>2, PTL

----
(* The second layer: what the counters and the replies kept so far let the *)
(* run answer. lastContent stands for the whole of said.                   *)

WordsKept ==
  IF lastContent = Empty THEN \A i \in DOMAIN said : IsBlank(said[i])
                         ELSE NewestWord(lastContent)

OutcomeInv ==
  /\ pc # "done" => outcome = Running
  /\ BudgetKept
  /\ WordsKept
  /\ AnswerIsNewestWord
  /\ GaveUpSilent
  /\ TimeoutIsHonest

\* A step that leaves the run undecided satisfies all that is said of outcomes.
LEMMA UndecidedIsFine ==
  ASSUME outcome' = Running
  PROVE  (AnswerIsNewestWord /\ GaveUpSilent /\ TimeoutIsHonest)'
BY OutcomeFacts DEF AnswerIsNewestWord, GaveUpSilent, TimeoutIsHonest, NoCode,
                    MaxIterationsExceeded, TimeoutExceeded

\* So does one that makes it fail with an honest code.
LEMMA FailureIsFine ==
  ASSUME NEW code, outcome' = Failed(code),
         code = TimeoutExceeded => ctxDone',
         code = MaxIterationsExceeded => (\A i \in DOMAIN said : IsBlank(said[i]))'
  PROVE  (AnswerIsNewestWord /\ GaveUpSilent /\ TimeoutIsHonest)'
BY OutcomeFacts DEF AnswerIsNewestWord, GaveUpSilent, TimeoutIsHonest

\* And one that makes it answer with its newest word.
LEMMA AnswerIsFine ==
  ASSUME NEW a, NEW n, outcome' = Answered(a, n), a # Empty,
         NewestWord(a)' \/ (said # << >> /\ a = said[Len(said)])'
  PROVE  (AnswerIsNewestWord /\ GaveUpSilent /\ TimeoutIsHonest)'
BY OutcomeFacts DEF AnswerIsNewestWord, GaveUpSilent, TimeoutIsHonest, NoCode,
                    MaxIterationsExceeded, TimeoutExceeded, NewestWord

\* A reply keeps lastContent the newest word.
LEMMA ReplyKeepsWords ==
  ASSUME TypeInv, WordsKept, NEW content \in Texts,
         lastContent' = IF IsBlank(content) THEN lastContent ELSE content,
         said' = Append(said, content)
  PROVE  WordsKept'
<1>1. said \in Seq(Texts) /\ Len(said) \in Nat
  BY DEF TypeInv, TypeOK
<1>2. /\ Len(said') = Len(said) + 1 /\ DOMAIN said' = 1..Len(said) + 1
      /\ said'[Len(said) + 1] = content
      /\ \A i \in 1..Len(said) : said'[i] = said[i]
  BY <1>1
<1>3. DOMAIN said = 1..Len(said)
  BY <1>1
<1>4. IsBlank(Empty)
  BY LoopAssumption DEF IsBlank
<1>5. CASE ~IsBlank(content)
  <2>1. lastContent' = content /\ content # Empty
    BY <1>4, <1>5
  <2>2. \A j \in DOMAIN said' : ~(j > Len(said) + 1)
    BY <1>1, <1>2
  <2>3. NewestWord(content)'
    BY <1>1, <1>2, <1>5, <2>2 DEF NewestWord, IsBlank
  <2> QED BY <2>1, <2>3 DEF WordsKept
<1>6. CASE IsBlank(content) /\ lastContent = Empty
  <2>1. \A i \in DOMAIN said : IsBlank(said[i])
    BY <1>6 DEF WordsKept
  <2>2. \A i \in DOMAIN said' : IsBlank(said'[i])
    BY <1>1, <1>2, <1>3, <1>6, <2>1
  <2> QED BY <1>6, <2>2 DEF WordsKept, IsBlank
<1>7. CASE IsBlank(content) /\ lastContent # Empty
  <2>1. PICK i \in DOMAIN said : /\ said[i] = lastContent /\ ~IsBlank(lastContent)
                                 /\ \A j \in DOMAIN said : j > i => IsBlank(said[j])
    BY <1>7 DEF WordsKept, NewestWord
  <2>2. i \in DOMAIN said' /\ said'[i] = lastContent
    BY <1>1, <1>2, <1>3, <2>1
  <2>3. \A j \in DOMAIN said' : j > i => IsBlank(said'[j])
    BY <1>1, <1>2, <1>3, <1>7, <2>1
  <2>4. NewestWord(lastContent)'
    BY <1>7, <2>1, <2>2, <2>3 DEF NewestWord, IsBlank
  <2> QED BY <1>7, <2>4 DEF WordsKept
<1> QED BY <1>5, <1>6, <1>7

\* The end of Run returns an answer that was said last, the newest word, or
\* a failure when there is none.
LEMMA FinishIsFine ==
  ASSUME NEW a, Finish(a, lastContent'), WordsKept',
         a # Empty => (said # << >> /\ a = said[Len(said)])'
  PROVE  /\ (AnswerIsNewestWord /\ GaveUpSilent /\ TimeoutIsHonest)'
         /\ outcome'.status = "answered" => outcome'.iterations = iteration + 1
<1>1. CASE a # Empty
  <2>1. outcome' = Answered(a, iteration + 1)
    BY <1>1 DEF Finish, Return
  <2> QED BY <1>1, <2>1, AnswerIsFine, OutcomeFacts
<1>2. CASE a = Empty /\ lastContent' # Empty
  <2>1. outcome' = Answered(lastContent', iteration + 1)
    BY <1>2 DEF Finish, Return
  <2>2. NewestWord(lastContent)'
    BY <1>2 DEF WordsKept
  <2> QED BY <1>2, <2>1, <2>2, AnswerIsFine, OutcomeFacts
<1>3. CASE a = Empty /\ lastContent' = Empty
  <2>1. outcome' = Failed(MaxIterationsExceeded)
    BY <1>3 DEF Finish, Return
  <2>2. (\A i \in DOMAIN said : IsBlank(said[i]))'
    BY <1>3 DEF WordsKept
  <2> QED BY <2>1, <2>2, FailureIsFine, OutcomeFacts
             DEF MaxIterationsExceeded, TimeoutExceeded
<1> QED BY <1>1, <1>2, <1>3

\* Words are kept by every step that receives no reply.
LEMMA NoReplyKeepsWords ==
  ASSUME WordsKept, UNCHANGED <<lastContent, said>>
  PROVE  WordsKept'
BY DEF WordsKept, NewestWord

LEMMA OutcomeInvInductive ==
  ASSUME TypeInv, OutcomeInv, [Next]_vars
  PROVE  OutcomeInv'
<1>0. /\ MaxIterations \in Nat \ {0} /\ iteration \in 0..MaxIterations /\ calls \in Nat
      /\ pc \in {"call", "pause", "tools", "exec"} => iteration < MaxIterations
  BY LoopAssumption DEF TypeInv, TypeOK
<1>1. BudgetKept /\ WordsKept /\ (pc # "done" => outcome = Running)
  BY DEF OutcomeInv
<1>2. Running.status # "answered" /\ \A code : Failed(code).status # "answered"
  BY OutcomeFacts
<1>3. TimeoutExceeded # MaxIterationsExceeded /\ ContextWindowExceeded # TimeoutExceeded
      /\ ContextWindowExceeded # MaxIterationsExceeded
  BY DEF TimeoutExceeded, MaxIterationsExceeded, ContextWindowExceeded
\* A step on which the run stays undecided and receives no reply.
<1>4. ASSUME pc # "done", outcome' = outcome, UNCHANGED <<lastContent, said>>, BudgetKept'
      PROVE  OutcomeInv'
  <2>1. outcome' = Running
    BY <1>1, <1>4
  <2> QED BY <1>1, <1>4, <2>1, NoReplyKeepsWords, UndecidedIsFine DEF OutcomeInv
\* The four ways to stop with an error that Run or the call's error names.
<1>5. ASSUME NEW code, pc # "done", Return(Failed(code)), code # MaxIterationsExceeded,
             code = TimeoutExceeded => ctxDone,
             UNCHANGED <<lastContent, said, ctxDone, calls, iteration>>
      PROVE  OutcomeInv'
  <2>1. pc' = "done" /\ outcome' = Failed(code)
    BY <1>5 DEF Return
  <2>2. BudgetKept'
    BY <1>1, <1>2, <1>5, <2>1 DEF BudgetKept
  <2> QED BY <1>1, <1>5, <2>1, <2>2, NoReplyKeepsWords, FailureIsFine DEF OutcomeInv
<1>6. CASE Exhaust
  <2>1. UNCHANGED <<iteration, lastContent, calls, said>> /\ Finish(Empty, lastContent')
        /\ pc = "top" /\ iteration = MaxIterations
    BY <1>6 DEF Exhaust
  <2>2. WordsKept'
    BY <1>1, <2>1, NoReplyKeepsWords
  <2>3. /\ (AnswerIsNewestWord /\ GaveUpSilent /\ TimeoutIsHonest)'
        /\ outcome'.status = "answered" => outcome'.iterations = iteration + 1
    BY <2>1, <2>2, FinishIsFine
  <2>4. pc' = "done"
    BY <2>1 DEF Finish, Return
  <2>5. BudgetKept'
    BY <1>0, <1>1, <2>1, <2>3, <2>4 DEF BudgetKept
  <2> QED BY <2>2, <2>3, <2>4, <2>5 DEF OutcomeInv
<1>7. CASE StopAtTop
  BY <1>3, <1>5, <1>7 DEF StopAtTop
<1>8. CASE StartCall
  <2>1. pc = "top" /\ pc' = "call" /\ calls' = calls + 1 /\ iteration < MaxIterations
        /\ UNCHANGED <<iteration, outcome, lastContent, said>>
    BY <1>8 DEF StartCall
  <2>2. outcome.status # "answered"
    BY <1>1, <1>2, <2>1
  <2>3. BudgetKept'
    BY <1>0, <1>1, <2>1, <2>2 DEF BudgetKept
  <2> QED BY <1>4, <2>1, <2>3
<1>9. CASE CallFails
  <2>1. PICK e \in CallErrors \cup CallErrorsWhenDone :
          IF isContextWindowExceeded(e)
          THEN Return(Failed(ContextWindowExceeded)) /\ UNCHANGED iteration
          ELSE IF IsTransientError(e)
          THEN Continue /\ UNCHANGED outcome
          ELSE Return(Failed(e.code)) /\ UNCHANGED iteration
    BY <1>9 DEF CallFails
  <2>2. e.code # MaxIterationsExceeded /\ e.code # TimeoutExceeded
    BY CallErrorCodes
  <2>3. pc = "call" /\ UNCHANGED <<lastContent, said, ctxDone, calls>>
    BY <1>9 DEF CallFails
  <2>4. CASE Return(Failed(ContextWindowExceeded)) /\ UNCHANGED iteration
    BY <1>3, <1>5, <2>3, <2>4
  <2>5. CASE Return(Failed(e.code)) /\ UNCHANGED iteration
    BY <1>5, <2>2, <2>3, <2>5
  <2>6. CASE Continue /\ UNCHANGED outcome
    <3>1. BudgetKept'
      BY <1>0, <1>1, <1>2, <2>3, <2>6 DEF BudgetKept, Continue
    <3> QED BY <1>4, <2>3, <2>6, <3>1
  <2> QED BY <2>1, <2>4, <2>5, <2>6
<1>10. CASE NoChoices
  <2>1. BudgetKept'
    BY <1>1, <1>10 DEF BudgetKept, NoChoices
  <2> QED BY <1>4, <1>10, <2>1 DEF NoChoices
<1>11. CASE PauseEnds
  <2>1. BudgetKept'
    BY <1>0, <1>1, <1>2, <1>11 DEF BudgetKept, PauseEnds, Continue
  <2> QED BY <1>4, <1>11, <2>1 DEF PauseEnds
<1>12. CASE StopInPause
  BY <1>3, <1>5, <1>12 DEF StopInPause
<1>13. CASE StopBeforeTool
  BY <1>3, <1>5, <1>13 DEF StopBeforeTool
<1>14. CASE StartTool
  <2>1. BudgetKept'
    BY <1>1, <1>14 DEF BudgetKept, StartTool
  <2> QED BY <1>4, <1>14, <2>1 DEF StartTool
<1>15. CASE ToolSucceeds \/ ToolFails
  <2>1. pc = "exec" /\ AfterTool /\ UNCHANGED <<lastContent, outcome, calls, said>>
    BY <1>15 DEF ToolSucceeds, ToolFails
  <2>2. BudgetKept'
    BY <1>0, <1>1, <1>2, <2>1 DEF BudgetKept, AfterTool, Continue
  <2> QED BY <1>4, <2>1, <2>2
<1>16. CASE \E content, reasoning \in Texts : Reply(content, reasoning)
  <2>1. PICK content \in Texts, reasoning \in Texts : Reply(content, reasoning)
    BY <1>16
  <2>2. /\ pc = "call" /\ said' = Append(said, content)
        /\ lastContent' = IF IsBlank(content) THEN lastContent ELSE content
        /\ UNCHANGED <<iteration, ctxDone, calls>>
    BY <2>1, Zenon DEF Reply
  <2>3. \/ pc' = "pause" /\ outcome' = outcome
        \/ ~IsBlank(content) /\ Return(Answered(content, iteration + 1))
        \/ Finish(content, lastContent')
        \/ pc' = "tools" /\ outcome' = outcome
    BY <2>1, Zenon DEF Reply
  <2>4. WordsKept'
    BY <1>1, <2>2, ReplyKeepsWords
  <2>5. said \in Seq(Texts)
    BY DEF TypeInv, TypeOK
  <2>6. said' # << >> /\ content = said'[Len(said')]
    BY <2>2, <2>5
  <2>7. outcome = Running
    BY <1>1, <2>2
  <2>8. CASE pc' \in {"pause", "tools"} /\ outcome' = outcome
    <3>1. BudgetKept'
      BY <1>1, <2>2, <2>8 DEF BudgetKept
    <3> QED BY <2>4, <2>7, <2>8, <3>1, UndecidedIsFine DEF OutcomeInv
  <2>9. CASE ~IsBlank(content) /\ Return(Answered(content, iteration + 1))
    <3>1. content # Empty
      BY <2>9, LoopAssumption DEF IsBlank
    <3>2. pc' = "done" /\ outcome' = Answered(content, iteration + 1)
      BY <2>9 DEF Return
    <3>3. BudgetKept'
      BY <1>1, <2>2, <3>2, OutcomeFacts DEF BudgetKept
    <3> QED BY <2>4, <2>6, <3>1, <3>2, <3>3, AnswerIsFine DEF OutcomeInv
  <2>10. CASE Finish(content, lastContent')
    <3>1. /\ (AnswerIsNewestWord /\ GaveUpSilent /\ TimeoutIsHonest)'
          /\ outcome'.status = "answered" => outcome'.iterations = iteration + 1
      BY <2>4, <2>6, <2>10, FinishIsFine
    <3>2. pc' = "done"
      BY <2>10 DEF Finish, Return
    <3>3. BudgetKept'
      BY <1>1, <2>2, <3>1, <3>2 DEF BudgetKept
    <3> QED BY <2>4, <3>1, <3>2, <3>3 DEF OutcomeInv
  <2> QED BY <2>3, <2>8, <2>9, <2>10
<1>17. CASE Expire
  <2>1. BudgetKept'
    BY <1>1, <1>17 DEF BudgetKept, Expire
  <2> QED BY <1>4, <1>17, <2>1 DEF Expire
<1>18. CASE UNCHANGED vars
  BY <1>18 DEF vars, OutcomeInv, BudgetKept, WordsKept, NewestWord, AnswerIsNewestWord,
               GaveUpSilent, TimeoutIsHonest
<1> QED BY <1>6, <1>7, <1>8, <1>9, <1>10, <1>11, <1>12, <1>13, <1>14, <1>15, <1>16,
           <1>17, <1>18 DEF Next, Step

LEMMA OutcomeInvInitially == Init => OutcomeInv
<1> SUFFICES ASSUME Init PROVE OutcomeInv
  OBVIOUS
<1>1. /\ pc = "top" /\ calls = 0 /\ iteration = 0 /\ outcome = Running
      /\ said = << >> /\ lastContent = Empty
  BY DEF Init
<1>2. BudgetKept
  BY <1>1, OutcomeFacts, LoopAssumption DEF BudgetKept
<1>3. WordsKept
  BY <1>1 DEF WordsKept
<1>4. AnswerIsNewestWord /\ GaveUpSilent /\ TimeoutIsHonest
  BY <1>1, OutcomeFacts DEF AnswerIsNewestWord, GaveUpSilent, TimeoutIsHonest, NoCode,
                            MaxIterationsExceeded, TimeoutExceeded
<1> QED BY <1>1, <1>2, <1>3, <1>4 DEF OutcomeInv

LEMMA OutcomeInvHolds == Spec => [](TypeInv /\ OutcomeInv)
<1>1. Init => TypeInv /\ OutcomeInv
  BY TypeInvInitially, OutcomeInvInitially
<1>2. TypeInv /\ OutcomeInv /\ [Next]_vars => (TypeInv /\ OutcomeInv)'
  BY TypeInvInductive, OutcomeInvInductive
<1> QED BY <1>1, <1>2, PTL DEF Spec

\* A run sends at most max_iterations requests, failed ones included, and the
\* iteration count it reports is the number of requests, or one more when the
\* loop was exhausted.
THEOREM BudgetIsKept == Spec => []BudgetKept
<1>1. OutcomeInv => BudgetKept
  BY DEF OutcomeInv
<1> QED BY <1>1, OutcomeInvHolds, PTL

\* An answer is never empty and never stale: it is the last reply's content,
\* or the newest content of the run that is not blank.
THEOREM AnswersAreNewest == Spec => []AnswerIsNewestWord
<1>1. OutcomeInv => AnswerIsNewestWord
  BY DEF OutcomeInv
<1> QED BY <1>1, OutcomeInvHolds, PTL

\* The loop gives up with ErrMaxIterations only on a model that said nothing.
THEOREM GivesUpOnlyInSilence == Spec => []GaveUpSilent
<1>1. OutcomeInv => GaveUpSilent
  BY DEF OutcomeInv
<1> QED BY <1>1, OutcomeInvHolds, PTL

\* ErrRunTimeout is returned only once the run's context is done.
THEOREM TimeoutsAreHonest == Spec => []TimeoutIsHonest
<1>1. OutcomeInv => TimeoutIsHonest
  BY DEF OutcomeInv
<1> QED BY <1>1, OutcomeInvHolds, PTL

----
(* The third layer: the shape of the history. FirstUserKept alone is not   *)
(* inductive: compaction keeps positions, so the first user message has to *)
(* be at its position of the posted conversation, behind a system message  *)
(* when it is the second.                                                  *)

HeadKept ==
  \A i \in 1..2 :
    StartsWithUser(input) /\ i \in DOMAIN input /\ IsFirstUser(input, i) =>
      /\ i <= Len(messages) /\ messages[i].id = i
      /\ i = 2 => messages[1].role = "system"

HistoryInv == HistoryInOrder /\ TurnIsRecorded /\ HeadKept

\* Managing the context keeps the order of the history and its head.
LEMMA ManageKeepsHistory ==
  ASSUME TypeInv, HistoryInOrder, HeadKept, messages' = manageContext(messages),
         UNCHANGED input
  PROVE  HistoryInOrder' /\ HeadKept'
<1>1. /\ messages \in Seq(Message) /\ messages # << >>
      /\ Len(messages) \in Nat /\ Len(messages) >= 1
      /\ DOMAIN messages = 1..Len(messages)
  BY DEF TypeInv, TypeOK
<1>2. messages' \in Seq(Message)
  BY <1>1, ManageFacts
<1>3. PICK d \in Nat : DropsBehindHead(messages, messages', d)
  BY <1>1, ManageFacts
<1>4. kept(messages) \in {1, 2} /\ (messages[1].role = "system" => kept(messages) = 2)
  BY DEF kept
<1>5. /\ Len(messages') = Len(messages) - d /\ (d > 0 => kept(messages) < Len(messages'))
      /\ DOMAIN messages' = 1..Len(messages')
      /\ \A i \in 1..Len(messages') :
           /\ messages'[i].id = messages[IF i <= kept(messages) THEN i ELSE i + d].id
           /\ messages'[i].role = messages[IF i <= kept(messages) THEN i ELSE i + d].role
  BY <1>2, <1>3 DEF DropsBehindHead
<1>6. HistoryInOrder'
  <2> SUFFICES ASSUME NEW i \in DOMAIN messages', NEW j \in DOMAIN messages', i < j
               PROVE  messages'[i].id < messages'[j].id
    BY DEF HistoryInOrder
  <2> DEFINE from(x) == IF x <= kept(messages) THEN x ELSE x + d
  <2>1. from(i) \in DOMAIN messages /\ from(j) \in DOMAIN messages /\ from(i) < from(j)
    BY <1>1, <1>4, <1>5
  <2>2. messages[from(i)].id < messages[from(j)].id
    BY <2>1 DEF HistoryInOrder
  <2> QED BY <1>5, <2>2
<1>7. HeadKept'
  <2> SUFFICES ASSUME NEW i \in 1..2, StartsWithUser(input), i \in DOMAIN input,
                      IsFirstUser(input, i)
               PROVE  /\ i <= Len(messages') /\ messages'[i].id = i
                      /\ i = 2 => messages'[1].role = "system"
    BY DEF HeadKept
  <2>1. /\ i <= Len(messages) /\ messages[i].id = i
        /\ i = 2 => messages[1].role = "system"
    BY DEF HeadKept
  <2>2. i <= kept(messages) /\ 1 <= kept(messages)
    BY <1>4, <2>1
  <2>3. i <= Len(messages') /\ 1 <= Len(messages')
    BY <1>1, <1>4, <1>5, <2>1, <2>2
  <2> QED BY <1>5, <2>1, <2>2, <2>3
<1> QED BY <1>6, <1>7

\* So does a message added at its end.
LEMMA SaidKeepsHistory ==
  ASSUME TypeInv, HistoryInOrder, HeadKept, NEW role \in Roles, NEW size \in Nat,
         messages' = Said(role, size), UNCHANGED input
  PROVE  HistoryInOrder' /\ HeadKept'
<1>1. /\ messages \in Seq(Message) /\ messages # << >>
      /\ Len(messages) \in Nat /\ Len(messages) >= 1
      /\ DOMAIN messages = 1..Len(messages)
      /\ \A i \in 1..Len(messages) : messages[i].id \in Nat
  <2>1. messages \in Seq(Message) /\ messages # << >>
    BY DEF TypeInv, TypeOK
  <2>2. \A i \in 1..Len(messages) : messages[i] \in Message
    BY <2>1
  <2> QED BY <2>1, <2>2 DEF Message
<1>2. /\ messages' \in Seq(Message) /\ Len(messages') = Len(messages) + 1
      /\ \A i \in 1..Len(messages) : messages'[i] = messages[i]
      /\ messages'[Len(messages) + 1].id = messages[Len(messages)].id + 1
  BY <1>1, SaidFacts
<1>3. HistoryInOrder'
  <2> SUFFICES ASSUME NEW i \in DOMAIN messages', NEW j \in DOMAIN messages', i < j
               PROVE  messages'[i].id < messages'[j].id
    BY DEF HistoryInOrder
  <2>1. i \in 1..Len(messages) /\ j \in 1..Len(messages) + 1 /\ i < j
    BY <1>1, <1>2
  <2>2. CASE j <= Len(messages)
    BY <1>1, <1>2, <2>1, <2>2 DEF HistoryInOrder
  <2>3. CASE j = Len(messages) + 1
    <3>1. messages[i].id <= messages[Len(messages)].id
      BY <1>1, <2>1 DEF HistoryInOrder
    <3> QED BY <1>1, <1>2, <2>1, <2>3, <3>1
  <2> QED BY <1>1, <2>1, <2>2, <2>3
<1>4. HeadKept'
  BY <1>1, <1>2 DEF HeadKept
<1> QED BY <1>3, <1>4

\* A tool message stays behind the reply that asked for it.
LEMMA ToolKeepsTurn ==
  ASSUME TypeInv, TurnIsRecorded, pc = "exec", NEW size \in Nat,
         messages' = Said("tool", size), AfterTool
  PROVE  TurnIsRecorded'
<1>1. /\ messages \in Seq(Message) /\ messages # << >> /\ Len(messages) \in Nat
      /\ next \in Nat \ {0} /\ Len(intents) \in Nat
  BY DEF TypeInv, TypeOK
<1>2. /\ messages' \in Seq(Message) /\ Len(messages') = Len(messages) + 1
      /\ \A i \in 1..Len(messages) : messages'[i] = messages[i]
      /\ messages'[Len(messages) + 1].role = "tool"
  <2>1. "tool" \in Roles
    BY RolesAre
  <2>2. messages' = Said("tool", size)
    OBVIOUS
  <2>3. /\ messages' \in Seq(Message) /\ Len(messages') = Len(messages) + 1
        /\ \A i \in 1..Len(messages) : messages'[i] = messages[i]
        /\ messages'[Len(messages')].role = "tool"
    BY <1>1, <2>1, <2>2, SaidFacts
  <2> QED BY <2>3
<1>3. /\ next <= Len(intents) /\ Len(messages) >= next
      /\ messages[Len(messages) - next + 1].role = "assistant"
      /\ \A k \in 1..next-1 : messages[Len(messages) - next + 1 + k].role = "tool"
  BY DEF TurnIsRecorded
<1>4. CASE next < Len(intents)
  <2>1. pc' = "tools" /\ next' = next + 1 /\ intents' = intents
    BY <1>4 DEF AfterTool
  <2>2. Len(messages') - next' + 1 = Len(messages) - next + 1
    BY <1>1, <1>2, <2>1
  <2>3. messages'[Len(messages') - next' + 1].role = "assistant"
    BY <1>1, <1>2, <1>3, <2>2
  <2>4. ASSUME NEW k \in 1..next'-1
        PROVE  messages'[Len(messages') - next' + 1 + k].role = "tool"
    <3>1. CASE k = next
      BY <1>1, <1>2, <2>1, <3>1
    <3>2. CASE k \in 1..next-1
      <4>1. Len(messages) - next + 1 + k \in 1..Len(messages)
        BY <1>1, <1>3, <3>2
      <4> QED BY <1>1, <1>2, <1>3, <2>2, <3>2, <4>1
    <3> QED BY <1>1, <2>1, <3>1, <3>2
  <2> QED BY <1>1, <1>2, <1>3, <1>4, <2>1, <2>3, <2>4 DEF TurnIsRecorded
<1>5. CASE ~(next < Len(intents))
  BY <1>5 DEF AfterTool, Continue, TurnIsRecorded
<1> QED BY <1>4, <1>5

LEMMA HistoryInvInductive ==
  ASSUME TypeInv, HistoryInv, [Next]_vars
  PROVE  HistoryInv'
<1>0. HistoryInOrder /\ TurnIsRecorded /\ HeadKept
  BY DEF HistoryInv
\* A step that leaves the conversation alone and starts no turn.
<1>1. ASSUME UNCHANGED <<messages, input>>,
             pc' \in {"tools", "exec"} => pc = "tools" /\ UNCHANGED <<intents, next>>
      PROVE  HistoryInv'
  BY <1>0, <1>1 DEF HistoryInv, HistoryInOrder, TurnIsRecorded, HeadKept
<1>2. CASE Exhaust
  BY <1>1, <1>2 DEF Exhaust, Finish, Return
<1>3. CASE StopAtTop
  BY <1>1, <1>3 DEF StopAtTop, Return
<1>4. CASE StartCall
  <2>1. messages' = manageContext(messages) /\ pc' = "call" /\ UNCHANGED input
    BY <1>4 DEF StartCall
  <2>2. TurnIsRecorded'
    BY <2>1 DEF TurnIsRecorded
  <2> QED BY <1>0, <2>1, <2>2, ManageKeepsHistory DEF HistoryInv
<1>5. CASE CallFails
  <2>1. pc' \in {"top", "done"}
    BY <1>5 DEF CallFails, Return, Continue
  <2> QED BY <1>1, <1>5, <2>1 DEF CallFails
<1>6. CASE NoChoices
  BY <1>1, <1>6 DEF NoChoices
<1>7. CASE PauseEnds
  BY <1>1, <1>7 DEF PauseEnds, Continue
<1>8. CASE StopInPause
  BY <1>1, <1>8 DEF StopInPause, Return
<1>9. CASE StopBeforeTool
  BY <1>1, <1>9 DEF StopBeforeTool, Return
<1>10. CASE StartTool
  BY <1>1, <1>10 DEF StartTool
<1>11. CASE ToolSucceeds \/ ToolFails
  <2>1. PICK size \in Nat : messages' = Said("tool", size)
    BY <1>11, LoopAssumption DEF ToolSucceeds, ToolFails
  <2>2. pc = "exec" /\ AfterTool /\ UNCHANGED input
    BY <1>11 DEF ToolSucceeds, ToolFails
  <2>3. HistoryInOrder' /\ HeadKept'
    BY <1>0, <2>1, <2>2, RolesAre, SaidKeepsHistory
  <2>4. TurnIsRecorded'
    BY <1>0, <2>1, <2>2, ToolKeepsTurn
  <2> QED BY <2>3, <2>4 DEF HistoryInv
<1>12. CASE \E content, reasoning \in Texts : Reply(content, reasoning)
  <2>1. PICK content \in Texts, reasoning \in Texts : Reply(content, reasoning)
    BY <1>12
  <2> DEFINE source == selectParseSource(reasoning, content)
  <2>2. messages' = Said("assistant", TextSize[content]) /\ UNCHANGED input
    BY <2>1, Zenon DEF Reply
  <2>3. \/ pc' \in {"pause", "done"}
        \/ pc' = "tools" /\ next' = 1 /\ intents' = Parse[source] /\ Parse[source] # << >>
    BY <2>1 DEF Reply, Return, Finish
  <2>4. TextSize[content] \in Nat /\ "assistant" \in Roles
    BY LoopAssumption, RolesAre
  <2>5. HistoryInOrder' /\ HeadKept'
    BY <1>0, <2>2, <2>4, SaidKeepsHistory
  <2>6. TurnIsRecorded'
    <3>1. CASE pc' \in {"pause", "done"}
      BY <3>1 DEF TurnIsRecorded
    <3>2. CASE pc' = "tools" /\ next' = 1 /\ intents' = Parse[source] /\ Parse[source] # << >>
      <4>1. source \in Texts
        BY LoopAssumption DEF selectParseSource
      <4> HIDE DEF source
      <4>2. Parse[source] \in Seq(Tools) /\ Len(Parse[source]) >= 1
        BY <3>2, <4>1, LoopAssumption
      <4>3. messages \in Seq(Message) /\ messages # << >>
        BY DEF TypeInv, TypeOK
      <4>4. /\ messages' \in Seq(Message) /\ messages' # << >>
            /\ messages'[Len(messages')].role = "assistant"
        BY <2>2, <2>4, <4>3, SaidFacts
      <4> QED BY <3>2, <4>2, <4>4 DEF TurnIsRecorded
    <3> QED BY <2>3, <3>1, <3>2
  <2> QED BY <2>5, <2>6 DEF HistoryInv
<1>13. CASE Expire
  BY <1>0, <1>13 DEF Expire, HistoryInv, HistoryInOrder, TurnIsRecorded, HeadKept
<1>14. CASE UNCHANGED vars
  BY <1>0, <1>14 DEF vars, HistoryInv, HistoryInOrder, TurnIsRecorded, HeadKept
<1> QED BY <1>2, <1>3, <1>4, <1>5, <1>6, <1>7, <1>8, <1>9, <1>10, <1>11, <1>12,
           <1>13, <1>14 DEF Next, Step

LEMMA HistoryInvInitially == Init => HistoryInv
<1> SUFFICES ASSUME Init PROVE HistoryInv
  OBVIOUS
<1>1. /\ input \in Conversation /\ messages = buildInitialMessages(input)
      /\ pc = "top"
  BY LoopAssumption DEF Init
<1>2. /\ \A i, j \in DOMAIN messages : i < j => messages[i].id < messages[j].id
      /\ (\E i \in DOMAIN input : input[i].role = "user") =>
           /\ Len(messages) = Len(input)
           /\ \A i \in 1..Len(messages) : messages[i].id = i /\ messages[i].role = input[i].role
  BY <1>1, InitialMessages
<1>3. HeadKept
  <2> SUFFICES ASSUME NEW i \in 1..2, StartsWithUser(input), i \in DOMAIN input,
                      IsFirstUser(input, i)
               PROVE  /\ i <= Len(messages) /\ messages[i].id = i
                      /\ i = 2 => messages[1].role = "system"
    BY DEF HeadKept
  <2>1. input[i].role = "user"
    BY DEF IsFirstUser
  <2>2. input \in Seq([role : Roles, size : Nat])
    BY <1>1 DEF Conversation
  <2>3. i <= Len(input) /\ Len(input) \in Nat
    BY <2>2
  <2>4. i = 2 => input[1].role = "system"
    BY <2>1 DEF StartsWithUser, IsFirstUser
  <2> QED BY <1>2, <2>1, <2>3, <2>4
<1> QED BY <1>1, <1>2, <1>3 DEF HistoryInv, HistoryInOrder, TurnIsRecorded

LEMMA HistoryInvHolds == Spec => [](TypeInv /\ HistoryInv)
<1>1. Init => TypeInv /\ HistoryInv
  BY TypeInvInitially, HistoryInvInitially
<1>2. TypeInv /\ HistoryInv /\ [Next]_vars => (TypeInv /\ HistoryInv)'
  BY TypeInvInductive, HistoryInvInductive
<1> QED BY <1>1, <1>2, PTL DEF Spec

\* However long a run and whatever the thresholds, compaction and truncation
\* never reorder or repeat a message of its history.
THEOREM HistoryStaysInOrder == Spec => []HistoryInOrder
<1>1. HistoryInv => HistoryInOrder
  BY DEF HistoryInv
<1> QED BY <1>1, HistoryInvHolds, PTL

\* The model finds each turn's tool results right behind the turn, in order.
THEOREM TurnsAreRecorded == Spec => []TurnIsRecorded
<1>1. HistoryInv => TurnIsRecorded
  BY DEF HistoryInv
<1> QED BY <1>1, HistoryInvHolds, PTL

\* The first user message, with the system prompt in it, outlives every
\* compaction of a conversation that starts with it or has only a system
\* message in front of it.
THEOREM FirstUserIsKept == Spec => []FirstUserKept
<1>1. TypeInv /\ HistoryInv => FirstUserKept
  <2> SUFFICES ASSUME TypeInv, HeadKept PROVE FirstUserKept
    BY DEF HistoryInv
  <2>1. messages \in Seq(Message)
    BY DEF TypeInv, TypeOK
  <2>2. DOMAIN messages = 1..Len(messages)
    BY <2>1
  <2> QED BY <2>2 DEF HeadKept, FirstUserKept
<1> QED BY <1>1, HistoryInvHolds, PTL

----
(* Steps. *)

\* No request to gpt-oss and no tool starts once the run's context is done.
THEOREM NothingStartsWhenDone == Spec => NoWorkWhenDone
<1>1. ASSUME [Next]_vars
      PROVE  [ctxDone => calls' = calls /\ ~(pc = "tools" /\ pc' = "exec")]_vars
  <2>1. CASE Step
    BY <2>1 DEF Step, Exhaust, StopAtTop, StartCall, CallFails, NoChoices, PauseEnds,
                StopInPause, StopBeforeTool, StartTool, ToolSucceeds, ToolFails, Reply,
                Return, Finish
  <2>2. CASE Expire
    BY <2>2 DEF Expire
  <2>3. CASE UNCHANGED vars
    BY <2>3
  <2> QED BY <1>1, <2>1, <2>2, <2>3 DEF Next
<1> QED BY <1>1, PTL DEF Spec, NoWorkWhenDone

----
(* The error log. *)

\* What the parser promises: it names a tool once.
NamesToolsOnce ==
  \A t \in Texts : \A i, j \in DOMAIN Parse[t] : Parse[t][i] = Parse[t][j] => i = j

\* Entries are of earlier iterations, or of intents already executed.
EntriesAreEarlier ==
  pc # "done" => \A i \in DOMAIN errlog :
    \/ errlog[i][1] <= iteration
    \/ /\ pc \in {"tools", "exec"} /\ errlog[i][1] = iteration + 1
       /\ \E k \in 1..next-1 : errlog[i][2] = intents[k]

LogInv ==
  /\ \A i, j \in DOMAIN intents : intents[i] = intents[j] => i = j
  /\ EntriesAreEarlier
  /\ FailureNamedOnce

\* A tool that fails adds an entry no other entry equals.
LEMMA FailureIsNew ==
  ASSUME TypeInv, LogInv, pc = "exec",
         errlog' = Append(errlog, <<iteration + 1, intents[next]>>)
  PROVE  /\ FailureNamedOnce'
         /\ \A i \in DOMAIN errlog' :
              \/ errlog'[i][1] <= iteration
              \/ errlog'[i][1] = iteration + 1 /\ \E k \in 1..next : errlog'[i][2] = intents[k]
<1> DEFINE entry == <<iteration + 1, intents[next]>>
<1>1. /\ iteration \in Nat /\ next \in Nat \ {0} /\ next <= Len(intents)
      /\ intents \in Seq(Tools) /\ errlog \in Seq(Nat \X Tools)
  BY LoopAssumption DEF TypeInv, TypeOK
<1>2. /\ DOMAIN errlog = 1..Len(errlog) /\ Len(errlog) \in Nat
      /\ DOMAIN errlog' = 1..Len(errlog)+1
      /\ \A i \in DOMAIN errlog : errlog'[i] = errlog[i]
      /\ errlog'[Len(errlog)+1] = entry
  BY <1>1
<1>3. \A i \in DOMAIN errlog :
        \/ errlog[i][1] <= iteration
        \/ errlog[i][1] = iteration + 1 /\ \E k \in 1..next-1 : errlog[i][2] = intents[k]
  BY DEF LogInv, EntriesAreEarlier
<1>4. entry[1] = iteration + 1 /\ entry[2] = intents[next]
  OBVIOUS
<1>5. \A k \in 1..next-1 : intents[k] # intents[next]
  BY <1>1 DEF LogInv
<1> HIDE DEF entry
<1>6. \A i \in DOMAIN errlog : errlog[i] # entry
  <2> SUFFICES ASSUME NEW i \in DOMAIN errlog, errlog[i] = entry PROVE FALSE
    OBVIOUS
  <2>1. ~(errlog[i][1] <= iteration)
    BY <1>1, <1>4
  <2> QED BY <1>3, <1>4, <1>5, <2>1
<1>7. FailureNamedOnce'
  BY <1>2, <1>6 DEF LogInv, FailureNamedOnce
<1>8. ASSUME NEW i \in DOMAIN errlog'
      PROVE  \/ errlog'[i][1] <= iteration
             \/ errlog'[i][1] = iteration + 1 /\ \E k \in 1..next : errlog'[i][2] = intents[k]
  <2>1. CASE i \in DOMAIN errlog
    <3>1. ASSUME NEW k \in 1..next-1 PROVE k \in 1..next
      BY <1>1
    <3> QED BY <1>2, <1>3, <2>1, <3>1
  <2>2. CASE i = Len(errlog) + 1
    <3>1. next \in 1..next
      BY <1>1
    <3> QED BY <1>2, <1>4, <2>2, <3>1
  <2> QED BY <1>2, <2>1, <2>2
<1> QED BY <1>7, <1>8

\* After a tool, with or without an entry for it.
LEMMA ToolKeepsLog ==
  ASSUME TypeInv, LogInv, pc = "exec", AfterTool,
         FailureNamedOnce',
         \A i \in DOMAIN errlog' :
           \/ errlog'[i][1] <= iteration
           \/ errlog'[i][1] = iteration + 1 /\ \E k \in 1..next : errlog'[i][2] = intents[k],
         errlog' \in Seq(Nat \X Tools)
  PROVE  LogInv'
<1>1. iteration \in Nat /\ next \in Nat \ {0}
  BY LoopAssumption DEF TypeInv, TypeOK
<1>2. CASE next < Len(intents)
  <2>1. pc' = "tools" /\ next' = next + 1 /\ iteration' = iteration /\ intents' = intents
    BY <1>2 DEF AfterTool
  <2>2. next'-1 = next
    BY <1>1, <2>1
  <2>3. EntriesAreEarlier'
    BY <2>1, <2>2 DEF EntriesAreEarlier
  <2> QED BY <2>1, <2>3 DEF LogInv
<1>3. CASE ~(next < Len(intents))
  <2>1. iteration' = iteration + 1 /\ intents' = << >>
    BY <1>3 DEF AfterTool, Continue
  <2>2. ASSUME NEW i \in DOMAIN errlog' PROVE errlog'[i][1] <= iteration'
    <3>1. errlog'[i][1] \in Nat
      <4>1. errlog'[i] \in Nat \X Tools
        OBVIOUS
      <4> QED BY <4>1
    <3>2. errlog'[i][1] <= iteration \/ errlog'[i][1] = iteration + 1
      OBVIOUS
    <3> QED BY <1>1, <2>1, <3>1, <3>2
  <2>3. EntriesAreEarlier'
    BY <2>2 DEF EntriesAreEarlier
  <2> QED BY <2>1, <2>3 DEF LogInv
<1> QED BY <1>2, <1>3

LEMMA LogInvInductive ==
  ASSUME NamesToolsOnce, TypeInv, LogInv, [Next]_vars, TypeInv'
  PROVE  LogInv'
<1>1. /\ iteration \in Nat /\ next \in Nat \ {0} /\ errlog \in Seq(Nat \X Tools)
      /\ errlog' \in Seq(Nat \X Tools)
  BY LoopAssumption DEF TypeInv, TypeOK
<1>2. ASSUME UNCHANGED <<errlog, intents>>,
             \/ pc' = "done"
             \/ iteration' = iteration /\ pc \notin {"tools", "exec"}
             \/ iteration' = iteration + 1 /\ pc \notin {"tools", "exec"}
             \/ UNCHANGED <<iteration, next>> /\ (pc' = pc \/ (pc = "tools" /\ pc' = "exec"))
      PROVE  LogInv'
  <2>1. FailureNamedOnce'
    BY <1>2 DEF LogInv, FailureNamedOnce
  <2>2. ASSUME NEW i \in DOMAIN errlog PROVE errlog[i][1] \in Nat
    <3>1. errlog[i] \in Nat \X Tools
      BY <1>1
    <3> QED BY <3>1
  <2>3. CASE pc' = "done"
    BY <1>2, <2>1, <2>3 DEF LogInv, EntriesAreEarlier
  <2>4. CASE pc' # "done" /\ pc = "done"
    BY <2>4 DEF Next, Step, vars, Exhaust, StopAtTop, StartCall, CallFails, NoChoices,
                PauseEnds, StopInPause, StopBeforeTool, StartTool, ToolSucceeds, ToolFails,
                Reply, Expire
  <2>5. CASE pc # "done" /\ pc \notin {"tools", "exec"} /\ iteration' \in {iteration, iteration + 1}
    <3>1. \A i \in DOMAIN errlog : errlog[i][1] <= iteration
      BY <2>5 DEF LogInv, EntriesAreEarlier
    <3>2. \A i \in DOMAIN errlog' : errlog'[i][1] <= iteration'
      BY <1>1, <1>2, <2>2, <2>5, <3>1
    <3> QED BY <1>2, <2>1, <3>2 DEF LogInv, EntriesAreEarlier
  <2>6. CASE pc # "done" /\ UNCHANGED <<iteration, next>> /\ (pc' = pc \/ (pc = "tools" /\ pc' = "exec"))
    BY <1>2, <2>1, <2>6 DEF LogInv, EntriesAreEarlier
  <2> QED BY <1>2, <2>3, <2>4, <2>5, <2>6
<1>3. CASE Exhaust \/ StopAtTop \/ StopInPause \/ StopBeforeTool
  BY <1>2, <1>3 DEF Exhaust, StopAtTop, StopInPause, StopBeforeTool, Finish, Return
<1>4. CASE StartCall \/ NoChoices \/ PauseEnds
  BY <1>2, <1>4 DEF StartCall, NoChoices, PauseEnds, Continue
<1>5. CASE CallFails
  <2>1. pc = "call" /\ iteration' \in {iteration, iteration + 1} /\ UNCHANGED <<errlog, intents>>
    BY <1>5 DEF CallFails, Continue
  <2> QED BY <1>2, <2>1
<1>6. CASE StartTool \/ Expire \/ UNCHANGED vars
  <2>1. UNCHANGED <<errlog, intents, iteration, next>>
        /\ (pc' = pc \/ (pc = "tools" /\ pc' = "exec"))
    BY <1>6 DEF StartTool, Expire, vars
  <2> QED BY <1>2, <2>1
<1>7. CASE ToolSucceeds
  <2>1. pc = "exec" /\ AfterTool /\ errlog' = errlog
    BY <1>7 DEF ToolSucceeds
  <2>2. FailureNamedOnce'
    BY <2>1 DEF LogInv, FailureNamedOnce
  <2>3. ASSUME NEW k \in 1..next-1 PROVE k \in 1..next
    BY <1>1
  <2>4. \A i \in DOMAIN errlog' :
          \/ errlog'[i][1] <= iteration
          \/ errlog'[i][1] = iteration + 1 /\ \E k \in 1..next : errlog'[i][2] = intents[k]
    BY <2>1, <2>3 DEF LogInv, EntriesAreEarlier
  <2> QED BY <1>1, <2>1, <2>2, <2>4, ToolKeepsLog
<1>8. CASE ToolFails
  <2>1. pc = "exec" /\ AfterTool
        /\ (errlog' = errlog \/ errlog' = Append(errlog, <<iteration + 1, intents[next]>>))
    BY <1>8 DEF ToolFails
  <2>2. CASE errlog' = errlog
    <3>1. FailureNamedOnce'
      BY <2>2 DEF LogInv, FailureNamedOnce
    <3>2. ASSUME NEW k \in 1..next-1 PROVE k \in 1..next
      BY <1>1
    <3>3. \A i \in DOMAIN errlog' :
            \/ errlog'[i][1] <= iteration
            \/ errlog'[i][1] = iteration + 1 /\ \E k \in 1..next : errlog'[i][2] = intents[k]
      BY <2>1, <2>2, <3>2 DEF LogInv, EntriesAreEarlier
    <3> QED BY <1>1, <2>1, <3>1, <3>3, ToolKeepsLog
  <2>3. CASE errlog' = Append(errlog, <<iteration + 1, intents[next]>>)
    BY <1>1, <2>1, <2>3, FailureIsNew, ToolKeepsLog
  <2> QED BY <2>1, <2>2, <2>3
<1>9. CASE \E content, reasoning \in Texts : Reply(content, reasoning)
  <2>1. PICK content \in Texts, reasoning \in Texts : Reply(content, reasoning)
    BY <1>9
  <2> DEFINE source == selectParseSource(reasoning, content)
  <2>2. pc = "call" /\ UNCHANGED <<iteration, errlog>>
    BY <2>1, Zenon DEF Reply
  <2>3. UNCHANGED intents \/ intents' = Parse[source]
    BY <2>1, Zenon DEF Reply
  <2>4. source \in Texts
    BY <2>1, LoopAssumption DEF selectParseSource
  <2> HIDE DEF source
  <2>5. \A i, j \in DOMAIN intents' : intents'[i] = intents'[j] => i = j
    BY <2>3, <2>4 DEF LogInv, NamesToolsOnce
  <2>6. FailureNamedOnce' /\ EntriesAreEarlier'
    BY <2>2 DEF LogInv, FailureNamedOnce, EntriesAreEarlier
  <2> QED BY <2>5, <2>6 DEF LogInv
<1> QED BY <1>3, <1>4, <1>5, <1>6, <1>7, <1>8, <1>9 DEF Next, Step

\* With a parser that names a tool once in a reply, run, iteration and tool
\* name one failure: the error log never holds an entry twice.
THEOREM FailuresAreNamedOnce ==
  ASSUME NamesToolsOnce PROVE Spec => []FailureNamedOnce
<1>1. Init => TypeInv /\ LogInv
  <2>1. Init => LogInv
    BY DEF Init, LogInv, EntriesAreEarlier, FailureNamedOnce
  <2> QED BY <2>1, TypeInvInitially
<1>2. TypeInv /\ LogInv /\ [Next]_vars => (TypeInv /\ LogInv)'
  BY TypeInvInductive, LogInvInductive
<1>3. TypeInv /\ LogInv => FailureNamedOnce
  BY DEF LogInv
<1> QED BY <1>1, <1>2, <1>3, PTL DEF Spec

----
(* The contract. A step of the loop is a step of the contract or none.     *)

\* What the contract sees of the two kinds of return value.
LEMMA ContractOutcomes ==
  /\ outcome = Running => Promised = Contract!Running
  /\ \A a, n : outcome' = Answered(a, n) => Promised' = Contract!Answered(a)
  /\ \A code : outcome' = Failed(code) => Promised' = Contract!Failed(code)
<1>1. ASSUME outcome = Running
      PROVE  Promised = Contract!Running
  BY <1>1 DEF Running, Promised, Contract!Running, NoCode, Contract!NoCode
<1>2. ASSUME NEW a, NEW n, outcome' = Answered(a, n)
      PROVE  Promised' = Contract!Answered(a)
  BY <1>2 DEF Answered, Running, Promised, Contract!Answered, NoCode, Contract!NoCode
<1>3. ASSUME NEW code, outcome' = Failed(code)
      PROVE  Promised' = Contract!Failed(code)
  BY <1>3 DEF Failed, Running, Promised, Contract!Failed
<1> QED BY <1>1, <1>2, <1>3

\* A return of the loop, of either kind, is one the contract allows.
LEMMA FailureIsContracted ==
  ASSUME outcome = Running, UNCHANGED <<ctxDone, calls>>,
         NEW code \in {NoCode, MaxIterationsExceeded, TimeoutExceeded, ContextWindowExceeded},
         Return(Failed(code)),
         IF code = TimeoutExceeded THEN ctxDone ELSE calls > 0
  PROVE  Contract!Fail
<1>1. code \in {Contract!NoCode, Contract!MaxIterationsExceeded, Contract!TimeoutExceeded,
                Contract!ContextWindowExceeded}
      /\ TimeoutExceeded = Contract!TimeoutExceeded
  BY DEF NoCode, MaxIterationsExceeded, TimeoutExceeded, ContextWindowExceeded,
         Contract!NoCode, Contract!MaxIterationsExceeded, Contract!TimeoutExceeded,
         Contract!ContextWindowExceeded
<1>2. Promised' = Contract!Failed(code)
      /\ Promised = Contract!Running
  BY ContractOutcomes DEF Return
<1> QED BY <1>1, <1>2 DEF Contract!Fail

LEMMA AnswerIsContracted ==
  ASSUME outcome = Running, UNCHANGED <<ctxDone, calls>>, calls > 0,
         AnswerIsNewestWord',
         NEW a \in Texts, NEW n, Return(Answered(a, n))
  PROVE  Contract!Answer
<1>1. /\ Promised = Contract!Running
      /\ Promised' = Contract!Answered(a)
  BY ContractOutcomes DEF Return
<1>2. outcome'.status = "answered" /\ outcome'.answer = a
  BY OutcomeFacts DEF Return
<1>3. a # Empty
  BY <1>2 DEF AnswerIsNewestWord
<1> QED BY <1>1, <1>3 DEF Contract!Answer

LEMMA FinishIsContracted ==
  ASSUME outcome = Running, UNCHANGED <<ctxDone, calls>>, calls > 0,
         AnswerIsNewestWord',
         NEW a \in Texts, NEW last \in Texts, Finish(a, last)
  PROVE  Contract!Answer \/ Contract!Fail
<1>1. \/ Return(Answered(a, iteration + 1)) \/ Return(Answered(last, iteration + 1))
      \/ Return(Failed(MaxIterationsExceeded))
  BY DEF Finish
<1>2. MaxIterationsExceeded # TimeoutExceeded
  BY DEF MaxIterationsExceeded, TimeoutExceeded
<1> QED BY <1>1, <1>2, AnswerIsContracted, FailureIsContracted

LEMMA StepIsContracted ==
  ASSUME TypeInv, OutcomeInv, OutcomeInv', [Next]_vars
  PROVE  [Contract!Next]_(Contract!vars)
<1>0. /\ MaxIterations \in Nat \ {0} /\ iteration \in 0..MaxIterations /\ calls \in Nat
      /\ Empty \in Texts /\ lastContent \in Texts
  BY LoopAssumption DEF TypeInv, TypeOK
<1>1. BudgetKept /\ AnswerIsNewestWord' /\ (pc # "done" => outcome = Running)
  BY DEF OutcomeInv
<1>2. pc \in {"call", "pause", "tools", "exec"} => calls > 0
  BY <1>0, <1>1 DEF BudgetKept
<1>3. ASSUME UNCHANGED <<outcome, ctxDone, calls>>
      PROVE  [Contract!Next]_(Contract!vars)
  BY <1>3 DEF Contract!vars, Promised
<1>4. ASSUME Contract!Answer \/ Contract!Fail
      PROVE  [Contract!Next]_(Contract!vars)
  BY <1>4 DEF Contract!Next
<1>5. CASE StopAtTop \/ StopInPause \/ StopBeforeTool
  <2>1. /\ pc # "done" /\ ctxDone /\ Return(Failed(TimeoutExceeded))
        /\ UNCHANGED <<ctxDone, calls>>
    BY <1>5 DEF StopAtTop, StopInPause, StopBeforeTool
  <2> QED BY <1>1, <1>4, <2>1, FailureIsContracted
<1>6. CASE Exhaust
  <2>1. /\ pc = "top" /\ iteration = MaxIterations /\ Finish(Empty, lastContent)
        /\ UNCHANGED <<ctxDone, calls>>
    BY <1>6 DEF Exhaust
  <2>2. calls > 0
    BY <1>0, <1>1, <2>1 DEF BudgetKept
  <2> QED BY <1>0, <1>1, <1>4, <2>1, <2>2, FinishIsContracted
<1>7. CASE StartCall
  <2>1. /\ pc = "top" /\ iteration < MaxIterations /\ ~ctxDone /\ calls' = calls + 1
        /\ UNCHANGED <<outcome, ctxDone>>
    BY <1>7 DEF StartCall
  <2>2. calls < MaxIterations /\ Promised = Contract!Running /\ UNCHANGED Promised
    BY <1>1, <2>1, ContractOutcomes DEF BudgetKept, Promised
  <2> QED BY <2>1, <2>2 DEF Contract!Next, Contract!Ask
<1>8. CASE CallFails
  <2>1. PICK e \in CallErrors \cup CallErrorsWhenDone :
          IF isContextWindowExceeded(e)
          THEN Return(Failed(ContextWindowExceeded)) /\ UNCHANGED iteration
          ELSE IF IsTransientError(e)
          THEN Continue /\ UNCHANGED outcome
          ELSE Return(Failed(e.code)) /\ UNCHANGED iteration
    BY <1>8 DEF CallFails
  <2>2. pc = "call" /\ UNCHANGED <<ctxDone, calls>>
    BY <1>8 DEF CallFails
  <2>3. CASE Continue /\ UNCHANGED outcome
    BY <1>3, <2>2, <2>3
  <2>4. CASE Return(Failed(ContextWindowExceeded))
    <3>1. ContextWindowExceeded # TimeoutExceeded
      BY DEF ContextWindowExceeded, TimeoutExceeded
    <3> QED BY <1>1, <1>2, <1>4, <2>2, <2>4, <3>1, FailureIsContracted
  <2>5. CASE ~IsTransientError(e) /\ Return(Failed(e.code))
    <3>1. e.code \in {NoCode, ContextWindowExceeded} /\ e.code # TimeoutExceeded
      BY <2>5, CallErrorCodes DEF IsTransientError, Codes
    <3> QED BY <1>1, <1>2, <1>4, <2>2, <2>5, <3>1, FailureIsContracted
  <2> QED BY <2>1, <2>3, <2>4, <2>5
<1>9. CASE \E content, reasoning \in Texts : Reply(content, reasoning)
  <2>1. PICK content \in Texts, reasoning \in Texts : Reply(content, reasoning)
    BY <1>9
  <2> DEFINE last == IF IsBlank(content) THEN lastContent ELSE content
  <2>2. pc = "call" /\ UNCHANGED <<ctxDone, calls>> /\ last \in Texts
    BY <1>0, <2>1, Zenon DEF Reply
  <2>3. \/ UNCHANGED outcome
        \/ Return(Answered(content, iteration + 1))
        \/ Finish(content, last)
    BY <2>1, Zenon DEF Reply
  <2> HIDE DEF last
  <2>4. CASE UNCHANGED outcome
    BY <1>3, <2>2, <2>4
  <2>5. CASE Return(Answered(content, iteration + 1))
    BY <1>1, <1>2, <1>4, <2>2, <2>5, AnswerIsContracted
  <2>6. CASE Finish(content, last)
    BY <1>1, <1>2, <1>4, <2>2, <2>6, FinishIsContracted
  <2> QED BY <2>3, <2>4, <2>5, <2>6
<1>10. CASE Expire
  <2>1. Promised = Contract!Running /\ UNCHANGED Promised
    BY <1>1, <1>10, ContractOutcomes DEF Expire, Promised
  <2> QED BY <1>10, <2>1 DEF Expire, Contract!Next, Contract!Expire
<1>11. CASE NoChoices \/ PauseEnds \/ StartTool \/ ToolSucceeds \/ ToolFails
  BY <1>3, <1>11 DEF NoChoices, PauseEnds, StartTool, ToolSucceeds, ToolFails
<1>12. CASE UNCHANGED vars
  BY <1>3, <1>12 DEF vars
<1> QED BY <1>5, <1>6, <1>7, <1>8, <1>9, <1>10, <1>11, <1>12 DEF Next, Step

\* The safety part of KeepsContract: whatever gpt-oss and the tools answer,
\* Run asks at most max_iterations times, never once its context is done, and
\* returns once, an answer that is not empty or an error it may return.
THEOREM LoopImplementsContract ==
  Spec => Contract!Init /\ [][Contract!Next]_(Contract!vars)
<1>1. Init => Contract!Init
  BY ContractOutcomes DEF Init, Contract!Init
<1>2. /\ TypeInv /\ OutcomeInv /\ (TypeInv /\ OutcomeInv)' /\ [Next]_vars
      => [Contract!Next]_(Contract!vars)
  BY StepIsContracted
<1> QED BY <1>1, <1>2, OutcomeInvHolds, PTL DEF Spec

====
