---- MODULE MCService ----
(* A process with two requests: which configurations it is started with.   *)
EXTENDS Service

\* The example file without what it shares with the defaults.
Example ==
  [f \in Fields |-> IF f \in Required THEN "set"
                    ELSE IF f = "error_log_dir" THEN "errors"
                    ELSE IF f = "error_log_filename" THEN "YYYY-MM-DD-errors.md" ELSE Zero[f]]

With(f, value) == [Example EXCEPT ![f] = value]

NoOverride ==
  [gpt_oss_url |-> "", gateway_url |-> "", gateway_token |-> "", level |-> "", port |-> << >>]
Port(n) == [NoOverride EXCEPT !.port = <<n>>]

\* Settings the process starts with: an agentic one with a daily error log,
\* one with a single log file, a RAG one whose prompt and log file must open;
\* then those it refuses.
MCSettings ==
  {[file |-> Example, env |-> NoOverride],
   [file |-> [With("error_log_filename", "errors.md") EXCEPT !.gateway_token = ""],
    env |-> [Port(0) EXCEPT !.gateway_token = "secret", !.level = "debug"]],
   [file |-> [With("mode", "rag") EXCEPT !.guided_json_schema_path = "schema.json", !.output = "log.txt"],
    env |-> Port(8080)]}
    \cup {[file |-> c, env |-> NoOverride] :
            c \in {With("mode", "RAG"), With("gateway_token", ""), With("max_iterations", -1),
                  With("run_timeout", -1), With("level", "verbose"), With("format", "xml")}}

====
