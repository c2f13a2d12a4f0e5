---- MODULE Service ----
(***************************************************************************)
(* The process: cmd/main.go, the HTTP server of internal/httpserver and    *)
(* the concurrent runs of its requests, which share the error log. A run   *)
(* is whatever RunContract allows, as AgentLoop and RagRun do.             *)
(*                                                                         *)
(* The clients, the network, the signals and the disk are the environment. *)
(* What net/http does for the server is modelled from how the code uses    *)
(* it: Shutdown closes the listener and looks again and again whether a    *)
(* request is still open, until its context ends.                          *)
(***************************************************************************)
EXTENDS Config, RunErrors, Sequences

CONSTANTS
  Requests,     \* POST /v1/chat/completions requests of one process
  NoOne, Days,  \* as in ErrorLog
  MaxCalls,     \* most gpt-oss requests of a run, in either mode
  MaxLogs,      \* bound on the error log entries of a run
  Texts, Empty, \* as in RunContract
  Settings      \* what the file at -config and the environment can hold

ASSUME ServiceAssumption ==
  /\ NoOne \notin Requests /\ Days \in Nat \ {0}
  /\ MaxCalls \in Nat /\ MaxLogs \in Nat /\ Empty \in Texts
  /\ \A s \in Settings : /\ s = [file |-> s.file, env |-> s.env]
                         /\ Configuration(s.file) /\ s.env \in Overrides

VARIABLES
  proc,       \* "starting", "started" (the listener's goroutine runs, signals
              \* are not caught yet), "serving", "stopping" (in Shutdown), "exited"
  exitCode,   \* -1 while the process lives, 143 when a signal killed it
  file, env,  \* what the configuration is loaded from
  config,     \* the configuration loaded, the file's before that
  server,     \* the listener: "opening", "accepting", "closed", or "failed",
              \* which the channel serverErr tells main
  signalled,  \* the channel quit holds a signal, or held it
  at,         \* at[r]: "none", "body", "running", "replying", "over" or "cut" off
  runs,       \* runs[r]: the run of r, as RunContract sees it
  reply,      \* reply[r]: status and error code of the response to write, or << >>
  daily, today, stage, date, entry, mu, files   \* ErrorLog

logVars == <<daily, today, stage, date, entry, mu, files>>
mainVars == <<proc, exitCode, file, env, config, server, signalled>>
reqVars == <<at, runs, reply>>
vars == <<mainVars, reqVars, logVars>>

Log == INSTANCE ErrorLog WITH Writers <- Requests
Run(r) == INSTANCE RunContract WITH
  MayRefuse <- TRUE, outcome <- runs[r].outcome,
  ctxDone <- runs[r].ctxDone, calls <- runs[r].calls

FreshRun == [outcome |-> [status |-> "running", answer |-> Empty, code |-> NoCode],
             ctxDone |-> FALSE, calls |-> 0]

\* What a run can return.
Outcomes ==
  {[status |-> "answered", answer |-> a, code |-> NoCode] : a \in Texts}
    \cup {[status |-> "failed", answer |-> Empty, code |-> c] : c \in Codes}

\* The codes a response can carry; they are not all the errors' own.
ReplyCodes == {NoCode, "context_length_exceeded", "max_iterations_exceeded",
               "timeout_exceeded", "upstream_unavailable"}

TypeOK ==
  /\ proc \in {"starting", "started", "serving", "stopping", "exited"}
  /\ exitCode \in {-1, 0, 1, 143}
  /\ [file |-> file, env |-> env] \in Settings /\ DOMAIN config = Fields
  /\ server \in {"opening", "accepting", "failed", "closed"}
  /\ signalled \in BOOLEAN
  /\ at \in [Requests -> {"none", "body", "running", "replying", "over", "cut"}]
  /\ runs \in [Requests -> [outcome : Outcomes \cup {FreshRun.outcome},
                          ctxDone : BOOLEAN, calls : 0..MaxCalls]]
  /\ reply \in [Requests -> {<< >>} \cup ({200, 400, 500, 502, 504} \X ReplyCodes)]
  /\ Log!TypeOK

Init ==
  /\ proc = "starting" /\ exitCode = -1
  /\ \E s \in Settings : file = s.file /\ env = s.env
  /\ config = file
  /\ server = "opening" /\ signalled = FALSE
  /\ at = [r \in Requests |-> "none"]
  /\ runs = [r \in Requests |-> FreshRun]
  /\ reply = [r \in Requests |-> << >>]
  /\ Log!Init /\ daily = (file.error_log_filename = "YYYY-MM-DD-errors.md")

Open == {r \in Requests : at[r] \in {"body", "running", "replying"}}

----
(* main.run                                                                *)

\* The process ends, and every open request and its memory with it.
Exit(n) ==
  /\ proc' = "exited" /\ exitCode' = n
  /\ at' = [r \in Requests |-> IF r \in Open THEN "cut" ELSE at[r]]
  /\ runs' = [r \in Requests |-> FreshRun] /\ reply' = [r \in Requests |-> << >>]
  /\ UNCHANGED <<file, env, logVars>>

StartSucceeds(good) ==
  /\ LoadSucceeds(file, env, good)
  /\ LoggerSucceeds(loaded(file, env), good)
  /\ ExecutorSucceeds(loaded(file, env), good)

StartFails ==
  /\ proc = "starting" /\ \E good \in SUBSET Files : ~StartSucceeds(good)
  /\ Exit(1)
  /\ UNCHANGED <<config, server, signalled>>

\* The goroutine of the listener is started; it may listen, accept and fail
\* from now on.
Start ==
  /\ proc = "starting" /\ \E good \in SUBSET Files : StartSucceeds(good)
  /\ proc' = "started" /\ config' = loaded(file, env)
  /\ UNCHANGED <<exitCode, file, env, server, signalled, reqVars, logVars>>

Notify ==
  /\ proc = "started" /\ proc' = "serving"
  /\ UNCHANGED <<exitCode, file, env, config, server, signalled, reqVars, logVars>>

\* Before signal.Notify a signal kills the process, with the requests it has
\* accepted by then.
Killed ==
  /\ proc \in {"starting", "started"} /\ Exit(143)
  /\ UNCHANGED <<config, server, signalled>>

Signal ==
  /\ proc \in {"serving", "stopping"} /\ ~signalled
  /\ signalled' = TRUE
  /\ UNCHANGED <<proc, exitCode, file, env, config, server, reqVars, logVars>>

\* select: a signal and a server error that are both there have an equal
\* chance. Shutdown closes the listener and looks for open requests.
TakeSignal ==
  /\ proc = "serving" /\ signalled
  /\ server' = IF server = "failed" THEN "failed" ELSE "closed"
  /\ \/ Open = {} /\ Exit(0)
     \/ Open # {} /\ proc' = "stopping" /\ UNCHANGED <<exitCode, file, env, reqVars, logVars>>
  /\ UNCHANGED <<config, signalled>>

TakeServerErr ==
  /\ proc = "serving" /\ server = "failed"
  /\ Exit(1)
  /\ UNCHANGED <<config, server, signalled>>

\* Mutant: Shutdown does not wait for the open requests.
ShutdownAtOnce ==
  /\ proc = "stopping" /\ Exit(0)
  /\ UNCHANGED <<config, server, signalled>>

\* Shutdown looks again, a few milliseconds later, until no request is open.
ShutdownEnds ==
  /\ proc = "stopping" /\ Open = {} /\ Exit(0)
  /\ UNCHANGED <<config, server, signalled>>

\* Mutant: Shutdown is given a context without a deadline.
ShutdownForever == FALSE /\ UNCHANGED vars

\* shutdown_timeout_seconds, or five seconds, have passed since the signal. It
\* may be so before Shutdown sees that the last request has ended.
ShutdownTimesOut ==
  /\ proc = "stopping" /\ Exit(1)
  /\ UNCHANGED <<config, server, signalled>>

----
(* The listener and the requests.                                          *)

\* main is between the start of the listener and Shutdown.
Up == proc \in {"started", "serving"}

Listens ==
  /\ Up /\ server = "opening" /\ server' = "accepting"
  /\ UNCHANGED <<proc, exitCode, file, env, config, signalled, reqVars, logVars>>

\* The address cannot be bound, or accepting fails later.
ServerFails ==
  /\ Up /\ server \in {"opening", "accepting"}
  /\ server' = "failed"
  /\ UNCHANGED <<proc, exitCode, file, env, config, signalled, reqVars, logVars>>

Accept(r) ==
  /\ Up /\ server = "accepting" /\ at[r] = "none"
  /\ at' = [at EXCEPT ![r] = "body"]
  /\ UNCHANGED <<mainVars, runs, reply, logVars>>

Respond(r, status, code) ==
  /\ reply' = [reply EXCEPT ![r] = <<status, code>>]
  /\ at' = [at EXCEPT ![r] = "replying"]

\* The body is not JSON, has no messages, or breaks off as the client goes.
RejectBody(r) ==
  /\ proc # "exited" /\ at[r] = "body" /\ Respond(r, 400, NoCode)
  /\ UNCHANGED <<mainVars, runs, logVars>>

StartRun(r) ==
  /\ proc # "exited" /\ at[r] = "body"
  /\ at' = [at EXCEPT ![r] = "running"]
  /\ UNCHANGED <<mainVars, runs, reply, logVars>>

Running(r) == proc # "exited" /\ at[r] = "running"

\* The run asks gpt-oss; a Log call in progress comes first.
RunAsks(r) ==
  /\ Running(r) /\ stage[r] = "idle"
  /\ runs' = [runs EXCEPT ![r].calls = @ + 1] /\ Run(r)!Ask
  /\ UNCHANGED <<mainVars, at, reply, logVars>>

\* run_timeout_seconds pass, or the client goes and its context is cancelled.
Expire(r) ==
  /\ Running(r)
  /\ runs' = [runs EXCEPT ![r].ctxDone = TRUE] /\ Run(r)!Expire
  /\ UNCHANGED <<mainVars, at, reply, logVars>>

\* A tool of an agentic run failed: the run logs it.
LogFailure(r) ==
  /\ Running(r) /\ errorLogging(config) /\ config.mode = "react"
  /\ runs[r].calls > 0 /\ entry[r] < MaxLogs
  /\ Log!Log(r)
  /\ UNCHANGED <<mainVars, reqVars>>

LogStep(r) ==
  /\ Running(r) /\ Log!Step(r)
  /\ UNCHANGED <<mainVars, reqVars>>

Midnight ==
  /\ (Up \/ proc = "stopping") /\ Log!Midnight
  /\ UNCHANGED <<mainVars, reqVars>>

----
\* The error's class and the sentinel's are compared by code, or by being
\* transient; an error without a code has the code of no sentinel.
Transient(code) == IsTransientError([code |-> code, says |-> {}])

\* Mutant: one of the two being transient is enough.
isErrEither(code, target) == Transient(code) \/ Transient(target) \/ code = target

isErr(code, target) == (Transient(code) /\ Transient(target)) \/ code = target

\* Mutant: the table of error codes in docs/gpt-oss-executor-spec.md, 3.1.
classifyAsDocumented(code) ==
  CASE code = NoCode -> <<500, NoCode>>
    [] code \in {ContextWindowExceeded, MaxIterationsExceeded} -> <<400, code>>
    [] code = TimeoutExceeded -> <<408, code>>
    [] code = GptOssUnreachable -> <<503, code>>
    [] code = ToolExecutionFailed -> <<500, code>>

classifyRunError(code) ==
  IF code = ContextWindowExceeded THEN <<400, "context_length_exceeded">>
  ELSE IF isErr(code, MaxIterationsExceeded) THEN <<500, "max_iterations_exceeded">>
  ELSE IF isErr(code, TimeoutExceeded) THEN <<504, "timeout_exceeded">>
  ELSE IF isErr(code, GptOssUnreachable) THEN <<502, "upstream_unavailable">>
  ELSE <<500, NoCode>>

\* Run returns an answer, or an error.
RunReturns(r) ==
  /\ Running(r) /\ stage[r] = "idle"
  /\ \E o \in Outcomes :
       LET error == classifyRunError(o.code)
       IN /\ runs' = [runs EXCEPT ![r].outcome = o]
          /\ \/ Run(r)!Answer /\ Respond(r, 200, NoCode)
             \/ Run(r)!Fail /\ Respond(r, error[1], error[2])
  /\ UNCHANGED <<mainVars, logVars>>

\* The response is written, or lost: the client is gone, or the write timeout,
\* which counts from the request's header on, has passed. Nobody is told. The
\* handler's variables go with it.
Reply(r) ==
  /\ proc # "exited" /\ at[r] = "replying"
  /\ at' = [at EXCEPT ![r] = "over"]
  /\ runs' = [runs EXCEPT ![r] = FreshRun] /\ reply' = [reply EXCEPT ![r] = << >>]
  /\ UNCHANGED <<mainVars, logVars>>

----
Main == StartFails \/ Start \/ Notify \/ TakeSignal \/ TakeServerErr \/ ShutdownEnds

Handler(r) == RunAsks(r) \/ RunReturns(r) \/ Reply(r)

Next ==
  \/ Main \/ Killed \/ Signal \/ ShutdownTimesOut \/ Listens \/ ServerFails \/ Midnight
  \/ \E r \in Requests :
       \/ Accept(r) \/ RejectBody(r) \/ StartRun(r) \/ Handler(r)
       \/ Expire(r) \/ LogFailure(r) \/ LogStep(r)

\* main's goroutine and each request's run on; the shutdown context has a
\* deadline; the mutex is handed on. Clients owe nothing, not even a body.
Spec ==
  /\ Init /\ [][Next]_vars
  /\ WF_vars(Main) /\ WF_vars(ShutdownTimesOut)
  /\ \A r \in Requests : WF_vars(Handler(r)) /\ SF_vars(LogStep(r))

----
\* The error of a run that a response code stands for.
ErrorOf == [none |-> NoCode,
            context_length_exceeded |-> ContextWindowExceeded,
            max_iterations_exceeded |-> MaxIterationsExceeded,
            timeout_exceeded |-> TimeoutExceeded,
            upstream_unavailable |-> GptOssUnreachable]

\* A client reads what happened to its request: 200 means a non-empty answer
\* gpt-oss had a part in, 504 a run whose context was done, a 400 without a
\* code a body no run was started for. A code stands for the error its run
\* ended with, and a 500 without one for an error that has none.
ReplyIsTrue ==
  \A r \in Requests :
    LET status == reply[r][1]
        code == reply[r][2]
        run == runs[r]
    IN reply[r] # << >> =>
         /\ status = 200 => run.outcome.answer # Empty /\ run.calls > 0
         /\ status = 504 => run.ctxDone
         /\ status = 400 => IF code = NoCode THEN run = [FreshRun EXCEPT !.ctxDone = run.ctxDone]
                            ELSE run.calls > 0
         /\ run.outcome.code = ErrorOf[code]

\* The exit code tells the operator how the process ended. With 0 a signal was
\* taken and no request was cut off. A request cut off by an exit with 1 is
\* owed to a signal or to the failed server, so main had served: a start that
\* fails cuts nothing. One cut off otherwise is owed to a signal that main did
\* not catch yet.
ExitTellsTruth ==
  LET cut == \E r \in Requests : at[r] = "cut"
  IN /\ exitCode = 0 => signalled /\ ~cut
     /\ exitCode = 1 /\ cut => signalled \/ server = "failed"
     /\ exitCode = 143 => ~signalled

\* The error log stays readable while runs share it.
LogIsWhole == Log!LogIsWhole

\* What main runs with meets what the other modules assume of it, whatever
\* the file and the environment leave out or get wrong.
LoadedIsUsable ==
  Up \/ proc = "stopping" => Usable(config) /\ EnvironmentWins(config, env)

----
\* A signal ends the process, however slow the clients and the model are.
SignalEndsProcess == signalled ~> proc = "exited"

\* A run that was started ends, and so does its request, whatever its client
\* and the other requests do and whatever the error log's disk does.
EveryRequestEnds == \A r \in Requests : at[r] = "running" ~> at[r] \in {"over", "cut"}

====
