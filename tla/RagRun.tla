---- MODULE RagRun ----
(***************************************************************************)
(* One run in RAG mode: Executor.RunRAG of internal/executor/executor.go.  *)
(* The tools the fuzzy parser finds in the user's question are executed,   *)
(* search results are fetched, and gpt-oss is asked for one answer, with a *)
(* retry loop of its own.                                                  *)
(*                                                                         *)
(* A tool call is one step with the two results Execute can have. A search *)
(* result is the URLs it lists, structured (details) and as nested JSON    *)
(* (text); result_limits may cut it at any place before it is read.        *)
(***************************************************************************)
EXTENDS RunErrors, Integers, Sequences, FiniteSets, SequencesExt

CONSTANTS
  MaxRetries,      \* executor.max_retries, 0 or less for the default
  RagAutoFetch,    \* executor.rag_auto_fetch
  RagFetchTopN,    \* executor.rag_fetch_top_n
  Texts,           \* what a message, a reply's content or reasoning can be
  Trim,            \* strings.TrimSpace on Texts
  Empty,           \* ""
  Tools,           \* canonical tool names
  Parse,           \* Parse[t] is the sequence of tools the parser finds in t
  Inputs,          \* conversations clients post
  Urls,            \* URLs of search results
  NoUrl,           \* the empty URL
  Cut,             \* a URL cut by truncateResult, with the suffix behind it
  SearchResults    \* what a web_search can list

ASSUME RagAssumption ==
  /\ MaxRetries \in Int /\ RagFetchTopN \in Int /\ RagAutoFetch \in BOOLEAN
  /\ Empty \in Texts /\ Trim \in [Texts -> Texts] /\ Trim[Empty] = Empty
  /\ Parse \in [Texts -> Seq(Tools)]
  /\ Inputs \subseteq Seq([role : {"system", "user", "assistant"}, content : Texts])
  /\ NoUrl \notin Urls /\ Cut \notin Urls /\ Cut # NoUrl
  /\ SearchResults \subseteq [details : Seq(Urls \cup {NoUrl}), text : Seq(Urls \cup {NoUrl})]

VARIABLES
  pc,         \* where RunRAG is
  input,      \* the conversation the client posted
  next,       \* index of the intent to execute next
  urls,       \* what ExtractSearchURLs found in the last result
  nextUrl,    \* index of the URL to fetch next
  fetched,    \* pages fetched of those
  blocks,     \* contextBlocks: the tool and URL of each result kept
  attempt,    \* the loop variable of the synthesis
  reasoning,  \* the reasoning to fall back on
  outcome,    \* what RunRAG returned
  ctxDone,    \* runCtx is done
  calls,      \* requests sent to gpt-oss so far
  tried,      \* tool calls so far and whether they succeeded (history variable)
  said        \* replies so far (history variable)

vars == <<pc, input, next, urls, nextUrl, fetched, blocks, attempt, reasoning,
          outcome, ctxDone, calls, tried, said>>
retrieval == <<next, urls, nextUrl, fetched, blocks, tried>>
synthesis == <<attempt, reasoning, calls, said>>

Running == [status |-> "running", answer |-> Empty, code |-> NoCode]
Answered(a) == [status |-> "answered", answer |-> a, code |-> NoCode]
Failed(code) == [status |-> "failed", answer |-> Empty, code |-> code]

maxAttempts == IF MaxRetries <= 0 THEN 3 ELSE MaxRetries
limit == IF RagFetchTopN <= 0 THEN 1 ELSE RagFetchTopN

ToolCalls == [tool : Tools \cup {"web_fetch"}, url : Urls \cup {NoUrl, Cut}, ok : BOOLEAN]
Block(call) == <<call.tool, call.url>>

TypeOK ==
  /\ pc \in {"start", "tools", "exec", "fetch", "fetching", "ask", "call",
             "followup", "following", "pause", "done"}
  /\ input \in Inputs
  /\ next \in Nat \ {0} /\ nextUrl \in Nat \ {0}
  /\ urls \in Seq(Urls \cup {Cut})
  /\ fetched \in 0..limit
  /\ blocks \in Seq((Tools \cup {"web_fetch"}) \X (Urls \cup {NoUrl, Cut}))
  /\ attempt \in 0..maxAttempts-1
  /\ reasoning \in Texts
  /\ outcome \in [status : {"running", "answered", "failed"}, answer : Texts, code : Codes]
  /\ ctxDone \in BOOLEAN /\ calls \in Nat
  /\ tried \in Seq(ToolCalls)
  /\ said \in Seq([content : Texts, reasoning : Texts])

Init ==
  /\ pc = "start" /\ input \in Inputs
  /\ next = 1 /\ urls = << >> /\ nextUrl = 1 /\ fetched = 0 /\ blocks = << >>
  /\ attempt = 0 /\ reasoning = Empty
  /\ outcome = Running /\ ctxDone = FALSE /\ calls = 0
  /\ tried = << >> /\ said = << >>

----
\* The first user message, trimmed; the rest of the conversation is not read.
extractUserQuery(conversation) ==
  LET first == SelectInSeq(conversation, LAMBDA m : m.role = "user")
  IN IF first = 0 THEN Empty ELSE Trim[conversation[first].content]

intents == Parse[extractUserQuery(input)]

\* What stands at these places of a list, in the order of the list.
InOrder(list, places) ==
  LET place(k) == CHOOSE i \in places : Cardinality({j \in places : j <= i}) = k
  IN [k \in 1..Cardinality(places) |-> list[place(k)]]

Listed(list) == InOrder(list, {i \in DOMAIN list : list[i] # NoUrl})

\* The URLs the regular expression finds in a result, each once.
Scanned(list) == InOrder(list, {i \in DOMAIN list : \A j \in 1..i-1 : list[j] # list[i]})

\* ExtractSearchURLs of a result that arrived whole.
fromWhole(r) ==
  IF Listed(r.details) # << >> THEN Listed(r.details) ELSE Listed(r.text)

\* And of one truncateResult cut: no longer JSON, it is scanned. The cut may
\* go through a URL, which the pattern follows into the suffix.
fromCut(r) ==
  LET scan == Listed(r.text \o r.details)
  IN {Scanned(SubSeq(scan, 1, k)) : k \in 0..Len(scan)}
       \cup {Scanned(Append(SubSeq(scan, 1, k), Cut)) : k \in 0..Len(scan)-1}

ExtractSearchURLs(r) == {fromWhole(r)} \cup fromCut(r)

Return(result) == pc' = "done" /\ outcome' = result

----
(* The question and its tools. *)

RefuseInput ==
  /\ pc = "start" /\ extractUserQuery(input) = Empty
  /\ Return(Failed(NoCode))
  /\ UNCHANGED <<input, ctxDone, retrieval, synthesis>>

AcceptInput ==
  /\ pc = "start" /\ extractUserQuery(input) # Empty
  /\ pc' = "tools"
  /\ UNCHANGED <<input, outcome, ctxDone, retrieval, synthesis>>

\* Before each intent and before each URL.
StopBeforeTool ==
  /\ ctxDone
  /\ \/ pc = "tools" /\ next <= Len(intents)
     \/ pc = "fetch" /\ nextUrl <= Len(urls) /\ fetched < limit
  /\ Return(Failed(TimeoutExceeded))
  /\ UNCHANGED <<input, ctxDone, retrieval, synthesis>>

StartTool ==
  /\ pc = "tools" /\ next <= Len(intents) /\ ~ctxDone
  /\ pc' = "exec"
  /\ UNCHANGED <<input, outcome, ctxDone, retrieval, synthesis>>

\* The tool call at hand has ended.
Tried(tool, url, ok) ==
  LET call == [tool |-> tool, url |-> url, ok |-> ok]
  IN /\ tried' = Append(tried, call)
     /\ blocks' = IF ok THEN Append(blocks, Block(call)) ELSE blocks

ToolFails ==
  /\ pc = "exec"
  /\ Tried(intents[next], NoUrl, FALSE)
  /\ urls' = << >> /\ nextUrl' = 1 /\ fetched' = 0
  /\ pc' = "tools" /\ next' = next + 1
  /\ UNCHANGED <<input, outcome, ctxDone, synthesis>>

ToolSucceeds ==
  /\ pc = "exec"
  /\ Tried(intents[next], NoUrl, TRUE)
  /\ nextUrl' = 1 /\ fetched' = 0
  /\ IF intents[next] = "web_search" /\ RagAutoFetch
     THEN /\ \E r \in SearchResults : urls' \in ExtractSearchURLs(r)
          /\ pc' = "fetch" /\ UNCHANGED next
     ELSE pc' = "tools" /\ next' = next + 1 /\ urls' = << >>
  /\ UNCHANGED <<input, outcome, ctxDone, synthesis>>

\* Mutant: the context is looked at before each intent only.
StartFetchUnchecked ==
  /\ pc = "fetch" /\ nextUrl <= Len(urls) /\ fetched < limit
  /\ pc' = "fetching"
  /\ UNCHANGED <<input, outcome, ctxDone, retrieval, synthesis>>

StartFetch ==
  /\ pc = "fetch" /\ nextUrl <= Len(urls) /\ fetched < limit /\ ~ctxDone
  /\ pc' = "fetching"
  /\ UNCHANGED <<input, outcome, ctxDone, retrieval, synthesis>>

\* Mutant: failures use up rag_fetch_top_n as well.
FetchEndsCounted(ok) ==
  /\ pc = "fetching"
  /\ Tried("web_fetch", urls[nextUrl], ok)
  /\ fetched' = fetched + 1 /\ nextUrl' = nextUrl + 1 /\ pc' = "fetch"
  /\ UNCHANGED <<input, next, urls, outcome, ctxDone, synthesis>>

\* A page that cannot be fetched does not count: the next URL is tried.
FetchEnds(ok) ==
  /\ pc = "fetching"
  /\ Tried("web_fetch", urls[nextUrl], ok)
  /\ fetched' = IF ok THEN fetched + 1 ELSE fetched
  /\ nextUrl' = nextUrl + 1 /\ pc' = "fetch"
  /\ UNCHANGED <<input, next, urls, outcome, ctxDone, synthesis>>

FetchedEnough ==
  /\ pc = "fetch" /\ (nextUrl > Len(urls) \/ fetched >= limit)
  /\ pc' = "tools" /\ next' = next + 1
  /\ UNCHANGED <<input, urls, nextUrl, fetched, blocks, outcome, ctxDone, tried, synthesis>>

ToolsDone ==
  /\ pc = "tools" /\ next > Len(intents)
  /\ pc' = "ask"
  /\ UNCHANGED <<input, outcome, ctxDone, retrieval, synthesis>>

----
(* The answer. *)

\* Mutant: an attempt is repeated without being counted.
NextAttemptForFree == pc' = "pause" /\ UNCHANGED <<attempt, outcome>>

\* Mutant: one attempt too many.
NextAttemptOnceMore ==
  IF attempt < maxAttempts
  THEN pc' = "pause" /\ attempt' = attempt + 1 /\ UNCHANGED outcome
  ELSE Return(Failed(NoCode)) /\ UNCHANGED attempt

\* continue: the next attempt, or the end of the loop with no answer.
NextAttempt ==
  IF attempt + 1 < maxAttempts
  THEN pc' = "pause" /\ attempt' = attempt + 1 /\ UNCHANGED outcome
  ELSE Return(Failed(NoCode)) /\ UNCHANGED attempt

Ask ==
  /\ pc = "ask" /\ ~ctxDone
  /\ pc' = "call" /\ calls' = calls + 1
  /\ UNCHANGED <<input, attempt, reasoning, outcome, ctxDone, said, retrieval>>

\* The context is not looked at here, but the transport refuses to send.
AskRefused ==
  /\ pc = "ask" /\ ctxDone
  /\ NextAttempt
  /\ UNCHANGED <<input, reasoning, ctxDone, calls, said, retrieval>>

\* Any HTTP 400 is asked again, a context overflow included.
CallFails ==
  /\ pc = "call"
  /\ \E e \in IF ctxDone THEN CallErrorsWhenDone ELSE CallErrors :
       IF IsTransientError(e) \/ isVLLMBadRequest(e)
       THEN NextAttempt
       ELSE Return(Failed(e.code)) /\ UNCHANGED attempt
  /\ UNCHANGED <<input, reasoning, ctxDone, calls, said, retrieval>>

NoChoices ==
  /\ pc = "call" /\ ~ctxDone
  /\ NextAttempt
  /\ UNCHANGED <<input, reasoning, ctxDone, calls, said, retrieval>>

Reply(content, thought) ==
  /\ pc = "call" /\ ~ctxDone
  /\ said' = Append(said, [content |-> content, reasoning |-> thought])
  /\ \/ /\ Trim[content] # Empty
        /\ Return(Answered(Trim[content])) /\ UNCHANGED <<attempt, reasoning>>
     \/ /\ Trim[content] = Empty /\ Trim[thought] # Empty
        /\ pc' = "followup" /\ reasoning' = Trim[thought] /\ UNCHANGED <<attempt, outcome>>
     \/ /\ Trim[content] = Empty /\ Trim[thought] = Empty
        /\ NextAttempt /\ UNCHANGED reasoning
  /\ UNCHANGED <<input, ctxDone, calls, retrieval>>

FollowUp ==
  /\ pc = "followup" /\ ~ctxDone
  /\ pc' = "following" /\ calls' = calls + 1
  /\ UNCHANGED <<input, attempt, reasoning, outcome, ctxDone, said, retrieval>>

\* Mutant: the reasoning is answered whatever the follow-up says.
FollowUpReplyIgnored(content, thought) ==
  /\ pc = "following" /\ ~ctxDone
  /\ said' = Append(said, [content |-> content, reasoning |-> thought])
  /\ Return(Answered(reasoning))
  /\ UNCHANGED <<input, attempt, reasoning, ctxDone, calls, retrieval>>

FollowUpReply(content, thought) ==
  /\ pc = "following" /\ ~ctxDone
  /\ said' = Append(said, [content |-> content, reasoning |-> thought])
  /\ Return(Answered(IF Trim[content] # Empty THEN Trim[content] ELSE reasoning))
  /\ UNCHANGED <<input, attempt, reasoning, ctxDone, calls, retrieval>>

\* Refused, failed in any way, or without choices: the reasoning will do.
FollowUpFails ==
  /\ pc = "following" \/ (pc = "followup" /\ ctxDone)
  /\ Return(Answered(reasoning))
  /\ UNCHANGED <<input, ctxDone, retrieval, synthesis>>

PauseEnds ==
  /\ pc = "pause" /\ pc' = "ask"
  /\ UNCHANGED <<input, outcome, ctxDone, retrieval, synthesis>>

StopInPause ==
  /\ pc = "pause" /\ ctxDone
  /\ Return(Failed(TimeoutExceeded))
  /\ UNCHANGED <<input, ctxDone, retrieval, synthesis>>

----
Expire ==
  /\ pc # "done" /\ ~ctxDone
  /\ ctxDone' = TRUE
  /\ UNCHANGED <<pc, input, outcome, retrieval, synthesis>>

Step ==
  \/ RefuseInput \/ AcceptInput
  \/ StopBeforeTool \/ StartTool \/ ToolFails \/ ToolSucceeds
  \/ StartFetch \/ FetchedEnough \/ ToolsDone
  \/ \E ok \in BOOLEAN : FetchEnds(ok)
  \/ Ask \/ AskRefused \/ CallFails \/ NoChoices
  \/ FollowUp \/ FollowUpFails \/ PauseEnds \/ StopInPause
  \/ \E content, thought \in Texts :
       Reply(content, thought) \/ FollowUpReply(content, thought)

Next == Step \/ Expire

\* The HTTP clients have timeouts and the pause is a timer.
Spec == Init /\ [][Next]_vars /\ WF_vars(Step)

----
\* The tool calls made after the last one the question asked for.
Fetches ==
  LET own == SelectLastInSeq(tried, LAMBDA c : c.url = NoUrl)
  IN SubSeq(tried, own + 1, Len(tried))

\* Auto-fetch goes down the ranking without skipping or repeating a place,
\* stops at rag_fetch_top_n pages, and stays below only when every URL found
\* was tried or the run timed out.
FetchesInRank ==
  LET pages == {i \in DOMAIN Fetches : Fetches[i].ok}
  IN /\ Len(Fetches) <= Len(urls)
     /\ \A i \in DOMAIN Fetches : Fetches[i].url = urls[i]
     /\ Cardinality(pages) <= limit
     /\ \/ pc \in {"fetch", "fetching"} \/ outcome.code = TimeoutExceeded
        \/ Cardinality(pages) = limit \/ Len(Fetches) = Len(urls)

\* An answer is what the model said last: the content of its last reply, or,
\* when that is blank or was never received, the reasoning before it.
\* A run that fails has heard nothing: neither content nor reasoning.
AnswerIsNewestWord ==
  LET heard == {i \in DOMAIN said : Trim[said[i].content] # Empty \/ Trim[said[i].reasoning] # Empty}
      last == said[Len(said)]
  IN /\ outcome.status = "failed" => heard = {}
     /\ outcome.status = "answered" =>
          /\ outcome.answer # Empty /\ heard # {}
          /\ IF Trim[last.content] # Empty THEN outcome.answer = Trim[last.content]
             ELSE \E i \in heard : /\ Trim[said[i].content] = Empty
                                   /\ outcome.answer = Trim[said[i].reasoning]
                                   /\ i >= Len(said) - 1

\* Once the context is done no request is sent and no tool started, neither
\* between two intents nor between two pages.
NoWorkWhenDone ==
  [][ctxDone => calls' = calls /\ (pc' \in {"exec", "fetching"} => pc' = pc)]_vars

\* ExtractSearchURLs "returns the ordered list of result URLs", from
\* truncated JSON as well: what is fetched is a URL the search returned.
FetchesFoundUrls == \A i \in DOMAIN tried : tried[i].url \in Urls \cup {NoUrl}

\* The contract of a run: one request for each attempt, and one follow-up,
\* which always ends the run with an answer.
Contract == INSTANCE RunContract WITH MaxCalls <- maxAttempts + 1, MayRefuse <- TRUE

\* Every RAG run is one the contract allows, its end included.
KeepsContract == Contract!Spec

====
