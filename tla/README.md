# gpt-oss-executor: a TLA+ model of the service, its runs and its tools

gpt-oss-executor is an HTTP service that speaks the OpenAI chat protocol. For
each request it lets a gpt-oss model (served by vLLM) reason, recognises in the
model's text which tools it wants, runs them through the OpenClaw gateway, feeds
the results back and returns the final answer. This directory holds TLA+ modules
translated from the Go source, TLC configurations that model-check them on small
instances, and proofs, checked by TLAPS, that the main properties hold for every
value of the parameters.

## 1. Inventory

| Part | Source | State it keeps | Operations | Hard because |
|---|---|---|---|---|
| Agentic loop (react mode) | `internal/executor/executor.go` `Run` | conversation, iteration, last content, intents of the reply, run context | ask, retry, answer, pause, run tools, give up | the deadline may pass at any step; failures are retried by going round; the answer may be salvaged |
| Context window | same file, `buildInitialMessages` to `compactMessages` | none: functions of the conversation | inject prompt, estimate, truncate, compact | applied again before every call, to conversations of any shape |
| Run errors | `internal/errors/errors.go` | none | wrap, classify | classification decides between retry, abort and HTTP status, partly by error text |
| Tool executor | `internal/tools/tool_executor.go` | attempt, last error, backoff | execute, retry, back off, truncate | answers get lost, the gateway may run a tool after the client gave up |
| Intent parser | `internal/parser/intent_parser.go` | none (compiled patterns) | four strategies, fallback | aliases, duplicates, done signals, text that fits two strategies |
| RAG run | `executor.go` `RunRAG`, `ExtractSearchURLs` | context blocks, pages fetched, attempt, reasoning | classify, run tools, auto-fetch, synthesise, follow up | a second retry policy over the same errors; results cut before they are read |
| HTTP server | `internal/httpserver/server.go` | requests in flight | chat completions, health, models, shutdown | concurrent runs, disconnecting clients, slow bodies |
| Process lifecycle | `cmd/main.go` | signal and error channels | load, start, wait, shut down, exit code | shutdown races with runs and with server errors |
| Error log | `internal/logging/logger.go` `ErrorLogger` | a file per day, a mutex | append | the date is read before the lock; writes fail half way |
| Configuration, logger | `internal/config`, `logger.go` `NewLogger` | written once at start | environment, defaults, validation | the order of the three; zero means "not set" |

How they interact: `main` loads the configuration, builds logger, executor and
server, and waits for a signal or a server error. The server calls `Run` with
the request's context; `Run` (or `RunRAG`, by mode) derives a context with the
run's deadline and passes it to the two things that wait, the gpt-oss request
and `ToolExecutor.Execute`. The parser is called with a text and returns
intents. A failed tool is reported to the model and, in react mode, written to
the error log. All runs share one executor, parser, tool executor and error
log; only the log has state, behind its mutex. Everything else a run changes is
local to it, which is why the runs are modelled one at a time, with an
environment that may end their context at any step, and the process sees them
through the contract they are shown to keep.

What makes each part correct: a run ends, within its budget, with an outcome it
can justify; the conversation it sends stays complete and ordered; compaction
makes room and loses no more than half; a tool is run at most once per attempt,
and repeated only when it may not have run; tools take effect in the order
asked for unless an answer was lost; the parser finds exactly the calls that are
written, once each; a response tells the truth about its own run; the process
ends when told to and its exit code says how; the log's lines do not mix; the
configuration a run sees is complete, valid and honours the environment.

## 2. Modules

| Module | Models | Uses |
|---|---|---|
| `RunErrors` | the errors `callGptOss` ends with and how they are classified | |
| `RunContract` | what a run promises its caller, in either mode | `RunErrors` |
| `ContextWindow` | the conversation and `manageContext` | |
| `AgentLoop` | `Run` | `ContextWindow`, `RunErrors`; implements `RunContract` |
| `RagRun` | `RunRAG` | `RunErrors`; implements `RunContract` |
| `ToolCall` | what a tool call promises the loops | |
| `ToolExecutor` | one `Execute` call and the gateway | implements `ToolCall` |
| `AgentSystem` | `Run` with `Execute` and the gateway | `AgentLoop`, `ToolExecutor`; implements `AgentLoop` |
| `IntentParser` | `Parse`, `fillEmptyArgs`, the argument mapping | |
| `ErrorLog` | `ErrorLogger.Log` | |
| `Config` | `Load`, `Validate`, `NewLogger` | |
| `Service` | `main.run`, the HTTP server, concurrent requests | `Config`, `ErrorLog`, `RunContract` |
| `MC...` | instances for TLC | |
| `...Proofs` | theorems | |

**AgentLoop.** `pc` says where `Run` is: `top` at the loop's condition, `call`
while gpt-oss answers, `pause` in the half second after an empty reply, `tools`
before the next intent, `exec` while a tool runs, `done` after the return. The
other variables are the locals of the same name (`iteration`, `messages`,
`intents`, `lastContent`), the run's context (`ctxDone`), the entries of the
error log, and two history variables, `said` and `calls`, that only the
properties read. There is one action for each way from one of these places to
the next, with every append, counter and return the code does on the way.
Texts are a small set: what matters of a text is whether it is empty, whether it
trims to nothing, how long it is and which tools the parser finds in it. A
message is its role, its length and an identity. While a call or a tool is in
flight the code does not look at the context, the transport does: an answer that
arrives in time is a step before `Expire`; after it a call fails with the
transport's error or with the read error of a body that was under way
(`CallErrorsWhenDone`).

**RunErrors.** An error is the code of the first `ExecutorError` of its chain and
the phrases of its text the code searches for. `CallErrors` is the set of errors
`callGptOss` can return, built by the branches that build them.

**ContextWindow.** Token estimates are exact: `(2 * total) \div 7` is
`int(total / 3.5)`. The two thresholds are the smallest token counts that reach
`limit * threshold`. `compactMessages` keeps a head (a leading system message and
the message behind it, or the first message) and the newer half of the rest.

**RagRun.** `pc` goes from `start` over `tools`/`exec` (an intent of the
question) and `fetch`/`fetching` (a URL of a search result) to `ask`/`call`,
`followup`/`following` and `pause` (the synthesis). A search result is the URLs
it lists, in the two structured forms the code knows; `result_limits` may have
cut it at any place, inside a URL too, and then the pattern scans what is left
(`fromCut`). `tried` and `said` are history variables.

**ToolExecutor.** An attempt fails in one of eleven ways, each with the phrase of
its error text that `isRetryable` would find. A request the client gives up may
be run by the gateway later (`astray`). Backoff durations are left out; a backoff
is a state that its timer or the context ends.

**AgentSystem.** Replaces the loop's one-step tool by a whole `Execute` call with
the variables of `ToolExecutor`; what is astray when a call returns stays in
`late` and may take effect during later tools or after the run. `effects`,
`lost` and `told` are history variables.

**IntentParser.** A text is the syntax it uses, the calls written in it, a done
flag, and for each fuzzy tool whether an argument or only an intent pattern
matches its prose. The arguments of an intent are a map in which a key is
missing, blank or filled; `fillEmptyArgs` fills blank ones, `gatewayArgs` is what
`Execute` always sends with each tool. The regular expressions, and which value
fills a key, are not modelled. `MCAgentLoop` gives
`AgentLoop` the parser of `IntentParser`, so the tools a reply asks for are those
the parser's definitions find.

**ErrorLog.** `stage[w]` follows writer `w` through `Log`: the date is taken
(`stamped`), the mutex (`locked`), the line begun (`half`). A file is the
sequence of pieces in it; a write may fail before or after its first piece.

**Config.** A configuration is a function from the fields other modules depend
on; a field not mentioned in the file holds its zero value. `loaded` applies
environment and defaults in the code's order.

**Service.** `proc`, `server`, `signalled` and `exitCode` are `main.run` and the
listener. `Start` starts the listener's goroutine; from then on it may listen,
accept and fail, but until `Notify` a signal kills the process with whatever
requests it has by then (`Killed`). `at[r]`, `runs[r]` and `reply[r]` are the handler of request `r`: the
body being read, the run, the response being written. A run takes the steps of
`RunContract` and, in react mode with an error log, calls `ErrorLog`'s `Log`.
`classifyRunError` gives a run's error the status and the code the server sends,
which are not always the error's own: `ErrorOf` is the error a code stands for.
`Shutdown` looks for open requests at once and then again and again
(`ShutdownEnds`) until its deadline (`ShutdownTimesOut`). What `net/http` does
is modelled from how the code uses it.

A definition marked *Mutant* is a definition with a plausible bug, kept beside
it; `PROJECT.json` says which property each one breaks. No specification uses
them.

## 3. Runs

| Run | Checks | Shows | Distinct states |
|---|---|---|---|
| `agent_loop` | `TypeOK BudgetKept AnswerIsNewestWord GaveUpSilent TimeoutIsHonest FailureNamedOnce NoWorkWhenDone KeepsContract` | the outcome of a run, its end, and that it implements `RunContract` | 554 816 |
| `agent_history` | `TurnIsRecorded HistoryInOrder FirstUserKept` | the conversation, for all 120 shapes of one to four posted messages | 1 233 965 |
| `context_window` | `CompactionHalves TruncationSettles RoomIsMade KeepsBothEnds` | what context management keeps and drops | 61 282 |
| `tool_executor` | `TypeOK RunsBounded RepeatNeedsLostAnswer GivesUpForAReason NothingSentWhenDone KeepsCallContract` | attempts, retries and lost answers | 1 437 |
| `intent_parser` | `OneIntentPerTool FindsWhatIsWritten FuzzyArgumentsFilled FoundStaysFound` | the strategies, the fallback and the arguments of a vague request | 707 364 |
| `rag_run` | `TypeOK FetchesInRank AnswerIsNewestWord NoWorkWhenDone KeepsContract` | which pages a RAG run fetches, which words it answers with, its end, and that it implements `RunContract` | 385 039 |
| `agent_system` | `EffectsInOrder ReportsAreTrue ImplementsLoop` | what the tools of a run do to the world, and that attempts and delays never hold the loop up | 147 332 |
| `service` | `TypeOK ReplyIsTrue ExitTellsTruth LogIsWhole LoadedIsUsable SignalEndsProcess EveryRequestEnds` | responses, exit codes, the shared log, start-up and shutdown | 157 093 |

Four runs end in a violation on purpose. Each states what a comment or a test
of the repository says and the code does not do; section 6 explains them.

**Bounds.** Agentic runs of three iterations reach every action in every order
that matters: a call that fails, one that is retried, a last one; a blank reply
before and after a spoken one. Five texts cover both meanings of empty, an
answer, and calls of one and two tools under three aliases, with a done action
and a repeated tool. In `agent_history` the thresholds are so low that both
tiers are reached from the first call and conversations of up to thirteen
messages are compacted again and again. `context_window` grows to seven
messages: both parities of the tail and both kinds of head, compacted
repeatedly. Three attempts are the tool executor's default. Three calls per text
are the least that have a call before, between and after a duplicate or a done
action. The fuzzy tier runs over its real five tools, with prose that gives
each its argument, a request without one to the two tools that have a pattern
for it, and none. In `rag_run` two attempts are the least with a retry and a last one; two
pages out of three URLs leave one to replace a failure; results list a page
twice, an entry without a URL, and nothing. `agent_system` has one reply with two
tools, three attempts each: one call's lost request can overtake another's. `service` has two
requests, the least that share anything, one entry of the log each and one
midnight; nine configurations, three of which start. With one entry per request
the run shows that the entries of two runs do not mix; that one run's stay in
their order it cannot show, and only the theorem does. Small sizes stand for the
real limits (a limit of 50 for 500 and so on). The proofs depend on none of
these bounds.

**Fairness.** `AgentLoop`, `RagRun` and `AgentSystem` have weak fairness on
their steps and none on `Expire`: the HTTP clients have timeouts and the pauses
are timers, so a run takes its next step sooner or later, but nothing makes the
deadline pass. `ToolExecutor` has it on the client's steps only; the gateway may
stay silent for ever, and a late request may never be run. `Service` has weak
fairness on `main`'s goroutine, on the shutdown deadline (a context with a
timeout) and on each handler (a run keeps `RunContract`, which ends), and strong
fairness on the steps of `Log`, because Go's mutex hands itself on to a waiter.
Nothing is assumed of clients: a body may never be sent to its end.
`MCContextWindow` and `MCIntentParser` explore inputs and have none.

**Deadlock** is not checked where a behaviour ends: a run that returned, a tool
call that returned, a process that exited, a text of maximal length.

## 4. Proofs

Eight modules hold theorems. Their assumptions are the named `ASSUME`s of the
modules they extend: the types of the constants and what `Validate`, the alias
table or the server enforces (`max_iterations >= 1`, no alias for nothing and
none called "done", at least one message posted). Values where the code has a
default for zero or less (`max_retries`, `rag_fetch_top_n`) may be any integer.

| Module | Theorems |
|---|---|
| `AgentLoopProofs` | `TypeCorrect`, `BudgetIsKept`, `AnswersAreNewest`, `GivesUpOnlyInSilence`, `TimeoutsAreHonest`, `HistoryStaysInOrder`, `TurnsAreRecorded`, `FirstUserIsKept`, `NothingStartsWhenDone`, `FailuresAreNamedOnce`, `LoopImplementsContract` |
| `ContextWindowProofs` | lemmas on what context management does to positions and lengths |
| `MCContextWindowProofs` | `EndsAreKept`, `CompactionAlwaysHalves`, `TruncationAlwaysSettles`, `RoomIsAlwaysMade` |
| `ToolExecutorProofs` | `CallTypeCorrect`, `RunsAreBounded`, `RepeatsNeedLostAnswers`, `GivesUpOnlyForAReason`, `NothingIsSentWhenDone`, `CallImplementsContract` |
| `AgentSystemProofs` | `SystemImplementsLoop`, `EffectsStayInOrder`, `ReportsStayTrue` |
| `RagRunProofs` | `RagTypeCorrect`, `FetchesStayInRank`, `ScanListsEachOnce`, `RagAnswersAreNewest`, `RagStartsNothingWhenDone`, `RagImplementsContract` |
| `IntentParserProofs` | `OneIntentEach`, `FindsTheWritten`, `FuzzyIsFilled`, `WhatIsFoundStays` |
| `ServiceProofs` | `LogStaysWhole`, `ServiceTypeCorrect`, `RepliesAreTrue`, `ExitsTruthfully`, `RunsWithUsableConfig`, `ServiceLogIsWhole` |

*The loop.* The properties are not inductive alone. `TypeInv` adds to the types
that the history is never empty and that iterations are left while a reply is
handled. `OutcomeInv` adds `WordsKept`: `lastContent` is the newest content that
is not blank, or nothing was said; without it the step that salvages an answer
says nothing about `said`. `HistoryInv` adds `HeadKept`: the first user message
is not only present but at its posted position, behind a system message if it is
the second; presence alone would not survive the next compaction. `LogInv` adds
that entries belong to earlier iterations or to intents already executed, which
together with a parser that names a tool once (`NamesToolsOnce`, which
`OneIntentEach` proves of the real parser) makes a new entry differ from all
others.

*The context window.* `MCContextWindow` is any conversation that grows by a
message or is managed, in any order; its proofs bound neither the number nor the
lengths of the messages. What `compactMessages` keeps is given by positions
(`CompactFacts`): the head, then the tail from a place that drops at least one
message and at most half, so order, both ends and the halving are arithmetic on
that place. `RoomIsMade` is proved for thresholds in either order, because the
code does not compare them: it compacts only above both, so what it promises is
room below one of them.

*The tool call.* `RunsAccounted` counts the request in flight as a run that may
still come, and says how much of that sum is left while no answer has been lost:
nothing in a backoff, one during an attempt. `Progress` adds that a request is
kept back only when the context is done; otherwise a retried refusal might
follow an attempt that never left.

*The loop with its tools.* The steps of the whole map to steps of the loop without
any invariant. `EffectsBegun` says that whatever has taken effect, or still may,
belongs to a call the loop has begun, and that a request left behind by a call
that is over is recorded in `lost`; so an effect of the call at hand is never
early, and one that is late is recorded. Nothing is assumed of the constants.
For `ReportsStayTrue` that is not enough. `CallsCounted` counts the effects of
each call in the order of their places: for the call at hand they are `runs`,
for one that is over they and what still waits in `late` are no more than its
attempts. The invariant of `ToolExecutorProofs` carries over to the call at hand
through the instance; when the call is over its counts are frozen, and
`ToldTruly` keeps what was reported true while `late` empties: a later effect
moves one from waiting to happened.

*The RAG run.* `CallsAccounted` ties the requests sent to the attempt and the
place in it; `WordsHeard` says that every reply passed over was blank and that
the reasoning kept is that of the newest reply. The contract's budget, one
request for each attempt and one more, follows from the first, its non-empty
answers from the second. `Ranking` says of auto-fetch that the last entries of
`tried` are the URLs before `nextUrl`, one for one, and that `fetched` counts
the successes among them; `Phase` says when it may be left. `TypeOK` needs that
what is read from a search result is a sequence of URLs, and `ScanListsEachOnce`
that the scan of a cut result lists each once; both come from `InOrder`, which
lists a set of places in ascending order: the k-th is the one with k-1 before it
(`RankOrders`, by taking the least of the places that remain).

*The parser.* All four strategies are one loop, `Collect`, over what a text
offers at the places a strategy reads. `CollectSifts` says what the loop returns:
for each offer a place that is the first of its tool, all such places, in
ascending order. It is shown by induction on the number of offers read. The
library's induction schemes take an operator and cannot be used here;
`Induction` is stated for sets of numbers instead (a set that holds 0 and with n
holds n+1 is all of `Nat`), from the well-foundedness of `<`, and each use names
the set of lengths for which the claim holds. `OneIntentEach` and
`FindsTheWritten` follow from that one fact; `WhatIsFoundStays` from
`CollectGrows`, an offer at the end only appends, after `TextGrows` has shown
that a further call changes no earlier offer's tool. (In ReAct form it may
change an earlier offer's *argument*, which is why the property speaks of
tools.) `FuzzyIsFilled` follows an intent from `parseFuzzy` to the gateway
(`FuzzySent`): the one key it is filed under is one `Execute` sends, and is
blank only until `fillEmptyArgs`; for a write the other key, its text, is
missing all the way. The theorem says so rather than leaving writes out.

*The error log and the process.* `LInv`, an invariant of `ErrorLog`, adds that the mutex
is held by whoever is between `Lock` and `Return`, that a begun line is the last
piece of its file, and that nothing of an entry is in a file before its time.
`LogRefined` shows that every step of the process is a step of the log or a
stutter, so the log's theorem carries over through the instance. `PInv` relates
exit code, requests cut off and configuration: no request exists before `Start`,
no signal is noted before `Notify`, and none is cut off while the process lives.
So exit code 0 means a signal and nothing cut off, 1 with a request cut off a
signal or a failed server, and killed by a signal that it came before `Notify`.
A lemma shows that what `Validate` accepts after `applyDefaults` is usable.
`RInv` relates each reply to its run, over the steps `RunContract` allows; that a
code stands for the run's error is a case for each branch of
`classifyRunError`.

Only model-checked: liveness (`KeepsContract`, `KeepsCallContract`,
`ImplementsLoop`, `SignalEndsProcess`, `EveryRequestEnds`), which the proof
system does not handle under fairness; the theorems named after the contracts
are their safety parts. Every invariant and every action property of the
passing runs is stated by a theorem; the runs remain because they check the
same formulas on instances where the interesting cases are known to occur, and
because the mutants are run against them.

What a theorem does not say: `Collect`'s callers are proved about the texts of
`MCIntentParser`, whose abstraction of the regular expressions is the model's;
`RagRunProofs` and `AgentLoopProofs` leave the parser a parameter, as the
modules do.

## 5. Not modelled

Logging through slog and the logging middleware, the run id, the health and
models endpoints (no state), wording of prompts and entries, JSON encoding,
regular expressions, argument values (beyond whether one is there or blank),
backoff durations, model and sampling settings, per-tool settings other than
`result_limits`, `os.ExpandEnv` and YAML, the case of logging settings.
`ErrToolNotFound`, `ErrEmptyReasoning` and `ErrNoToolIntents` are never returned
by the program. The process sees a run through `RunContract` rather than as a
whole `AgentLoop`: that both modes keep the contract is checked and its safety
part proved, and the two together would be out of TLC's reach.

## 6. Where the code and its comments or tests disagree

| Run | The repository says | The code does |
|---|---|---|
| `agent_deadline` | `Run` "enforces RunTimeoutSeconds as an overall deadline"; `ErrRunTimeout` "is returned when the overall run deadline is exceeded" | a deadline that passes during a call ends the run with a plain read error, or as `ErrMaxIterations` |
| `agent_exhausted` | `TestRun_MaxIterationsExhausted`: the loop "must exhaust and return ErrMaxIterations" | the text of the last tool call is returned as the answer |
| `tool_timeout` | `isRetryable`: "timeouts" are retried | the HTTP client's own timeout says "Client.Timeout", which the case-sensitive search for "timeout" misses |
| `rag_urls` | `ExtractSearchURLs` "returns the ordered list of result URLs", from truncated JSON too | a URL that the cut went through is fetched with the suffix behind it |

### What was noticed

Met while modelling; no run states it.

- `intent_parser.go` speaks of a done action and a done flag that end
  processing (lines 247 and 318); the fuzzy fallback still runs on the same text,
  because an empty result means both "nothing found" and "finished".
- `compactMessages`: "Always keep the first user message" (`executor.go:584`).
  The message behind a leading system message is kept, whatever its role.
- An HTTP 400 for garbled output is called transient in a comment
  (`executor.go:484-485`) and aborts the react loop; the RAG run asks again after
  any HTTP 400, a context overflow included, and then ends with a plain error.
- The RAG run answers the first user message of the conversation only, and the
  structured forms of a search result may have one page fetched twice.
- "Calls gpt-oss once" in the RAG documentation: retries and a follow-up make it
  up to `max_retries + 1` calls.
- `ErrGptOssUnreachable` never leaves a run, so the server's 502 is unreachable:
  the react loop counts such calls and gives up, and a RAG run whose every attempt
  fails that way ends as "empty answer", an error without a code
  (`executor.go:831`).
- The table of error codes in `docs/gpt-oss-executor-spec.md` (lines 294-302) is
  not the server's. It has 503, 408 and 400 where `classifyRunError` has 502, 504
  and, for `max_iterations_exceeded`, 500; and it names the codes of the errors
  themselves, where the server sends `context_length_exceeded` for
  `context_window_exceeded` and `upstream_unavailable` for `gpt_oss_unreachable`
  (`server.go:346`, `352`; `TestClassifyRunError` agrees with the server). The
  model follows the server; the documented table is the mutant of `Service`'s
  `TypeOK`.
- The listener is started (`main.go:69`) before signals are caught
  (`main.go:77`): a signal in between kills a process that may have accepted
  requests, without a shutdown.
- With a signal and a server error both there, `select` takes either
  (`main.go:79`): a server that failed may be reported as a clean shutdown, exit
  code 0.
- A write found by the fuzzy tier has a path and nothing else
  (`intent_parser.go:136`); `fillEmptyArgs` adds no key, so the gateway is asked
  to write an empty file.
- A zero in the file cannot be told from an absent setting: it becomes the
  default. `write_timeout` is not compared with `run_timeout`: when it is the
  shorter one, a finished run's response is dropped unnoticed. The default
  server timeouts the documentation lists are not applied when left out, and
  `context_buffer_tokens` is read by nothing.
- Truncated results exceed their limit by the suffix; failure messages are not
  subject to the result limits; a ReAct input that is not JSON leaves the key the
  gateway reads empty.

## 7. Plan

1. That the react loop with the parser of `IntentParser` satisfies
   `NamesToolsOnce`, as a theorem about `MCAgentLoop`'s instance rather than as
   two theorems side by side.
2. That a process whose runs are whole `AgentLoop`s implements `Service`, from
   `LoopImplementsContract`.
3. Two replies with tools in `agent_system`, and three requests in `service`,
   when a reduction of their states is found.
