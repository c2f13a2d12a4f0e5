---- MODULE Config ----
(***************************************************************************)
(* How a configuration comes about: Load of internal/config/config.go, and *)
(* what NewLogger of internal/logging/logger.go makes of it. A field keeps *)
(* the zero value of its type ("" or 0) until something sets it; the       *)
(* fields no other module depends on (model and sampling, session key,     *)
(* per-tool settings, address, read and idle timeouts) are left out, and   *)
(* so are the case of a logging setting and the white space around it.     *)
(***************************************************************************)
EXTENDS Integers, Sequences

\* The documented defaults of applyDefaults, thresholds in percent.
Defaults ==
  [mode |-> "react", rag_fetch_top_n |-> 1, max_iterations |-> 5, max_retries |-> 3,
   run_timeout |-> 300, context_window_limit |-> 32768,
   context_compact_threshold |-> 80, context_trunc_threshold |-> 60,
   strategy |-> "react", fallback_strategy |-> "fuzzy",
   source_field |-> "reasoning", fallback_field |-> "content",
   port |-> 8001, level |-> "info", format |-> "json", output |-> "stdout"]

Numbers == {"rag_fetch_top_n", "max_iterations", "max_retries", "run_timeout",
            "context_window_limit", "context_compact_threshold",
            "context_trunc_threshold", "port"}

\* Fields without a default.
Required == {"gpt_oss_url", "gateway_url", "gateway_token"}
Optional == {"error_log_dir", "error_log_filename",
             "system_prompt_path", "guided_json_schema_path"}

Fields == DOMAIN Defaults \cup Required \cup Optional

\* What unmarshalling leaves in a field the file does not mention.
Zero == [f \in Fields |-> IF f \in Numbers THEN 0 ELSE ""]

\* A configuration has every field; those unmarshalled as numbers hold one.
Configuration(c) == c = [f \in Fields |-> c[f]] /\ \A f \in Numbers : c[f] \in Int

\* The environment: "" is unset. Of the port only its number matters:
\* << >> is unset or not a number, otherwise it is the one element.
Overrides == [gpt_oss_url : STRING, gateway_url : STRING, gateway_token : STRING,
              level : STRING, port : Seq(Int)]

applyEnvOverrides(file, env) ==
  [f \in Fields |->
     IF f = "port" /\ env.port # << >> THEN env.port[1]
     ELSE IF f \in Required \cup {"level"} /\ env[f] # "" THEN env[f]
     ELSE file[f]]

applyDefaults(c) ==
  [f \in Fields |-> IF f \in DOMAIN Defaults /\ c[f] = Zero[f] THEN Defaults[f] ELSE c[f]]

Validate(c) ==
  /\ c.mode \in {"react", "rag"}
  /\ \A f \in Required : c[f] # ""
  /\ c.max_iterations >= 1 /\ c.run_timeout >= 1

\* Mutant: the environment is read after the defaults are set.
loadedDefaultsFirst(file, env) == applyEnvOverrides(applyDefaults(file), env)

\* The environment first, then the defaults, then validation.
loaded(file, env) == applyDefaults(applyEnvOverrides(file, env))

\* The files a start may need: those that are there and can be read (the
\* log: written) are passed on as "good".
Files == {"config", "output", "system_prompt_path", "guided_json_schema_path"}

LoadSucceeds(file, env, good) == "config" \in good /\ Validate(loaded(file, env))

\* NewLogger knows level and format; an output that is neither stdout nor
\* stderr is a file.
LoggerSucceeds(c, good) ==
  /\ c.level \in {"debug", "info", "", "warn", "warning", "error"}
  /\ c.format \in {"json", "", "text"}
  /\ c.output \in {"stdout", "", "stderr"} \/ "output" \in good

\* executor.New reads the prompt and the schema when their paths are set.
ExecutorSucceeds(c, good) ==
  \A f \in {"system_prompt_path", "guided_json_schema_path"} : c[f] = "" \/ f \in good

\* main makes an error log when both its settings are there.
errorLogging(c) == c.error_log_dir # "" /\ c.error_log_filename # ""

----
\* What the other modules assume of the configuration they run under: no
\* field with a default is zero, and validation has done its part.
Usable(c) ==
  /\ \A f \in DOMAIN Defaults : c[f] # Zero[f]
  /\ c.mode \in {"react", "rag"}
  /\ c.max_iterations \in Nat \ {0} /\ c.run_timeout \in Nat \ {0}
  /\ \A f \in Required : c[f] # ""

\* A variable that is set wins over the file, and over the defaults unless it
\* names the zero value.
EnvironmentWins(c, env) ==
  /\ \A f \in Required \cup {"level"} : env[f] # "" => c[f] = env[f]
  /\ env.port # << >> /\ env.port[1] # 0 => c.port = env.port[1]

====
