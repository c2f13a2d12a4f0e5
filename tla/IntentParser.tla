---- MODULE IntentParser ----
(***************************************************************************)
(* The four-tier intent parser of internal/parser/intent_parser.go and the *)
(* two places that complete an intent's arguments: fillEmptyArgs of        *)
(* executor.go and the argument mapping of ToolExecutor.Execute.           *)
(*                                                                         *)
(* A text is what the strategies can see in it:                            *)
(*   form   the one structured syntax it uses, "prose" for none            *)
(*   calls  the calls written in that syntax, in order                     *)
(*   done   a JSON payload's done flag                                     *)
(*   prose  for each fuzzy tool, whether an argument pattern matches, only *)
(*          an intent pattern does, or neither                             *)
(* A call has a surface name and an input: << >> if none is written with   *)
(* it, else the one element, a map from argument keys to values. A value   *)
(* is "" when it is blank; which one it is otherwise does not matter.      *)
(***************************************************************************)
EXTENDS Integers, Sequences, SequencesExt

CONSTANTS
  Aliases,       \* defaultAliases: canonical name of each known surface name
  FuzzyOrder,    \* toolOrder of parseFuzzy
  Names,         \* surface names a text may use, unknown ones included
  Inputs         \* argument maps a text may write

\* Mutant: the command is filed under another key than Execute looks up.
fuzzyArgKeysRenamed == [web_search |-> "query", web_fetch |-> "url", read |-> "path",
                        write |-> "path", exec |-> "cmd"]

\* The key under which parseFuzzy files what it found for a tool.
fuzzyArgKeys == [web_search |-> "query", web_fetch |-> "url", read |-> "path",
                 write |-> "path", exec |-> "command"]

ASSUME ParserAssumption ==
  /\ DOMAIN Aliases \subseteq Names \ {"done"}
  /\ \A name \in DOMAIN Aliases : Aliases[name] # ""
  /\ FuzzyOrder \in Seq(DOMAIN fuzzyArgKeys)

Strategies == {"guided_json", "react", "markers", "fuzzy"}
Forms == {"json", "fenced", "react", "markers", "prose"}
Matches == {"arg", "intent", "none"}

Calls == [name : Names, input : {<< >>} \cup {<<args>> : args \in Inputs}]

----
\* intentExists: one intent for each tool is enough.
intentExists(intents, tool) == \E i \in DOMAIN intents : intents[i].tool = tool

\* The canonical name, or "" for a name that is nobody's.
normalizeTool(name) == IF name \in DOMAIN Aliases THEN Aliases[name] ELSE ""

Intent(name, input) ==
  [tool |-> normalizeTool(name), args |-> IF input = << >> THEN << >> ELSE input[1]]

\* Mutants: no check for a tool already found; the last call of a tool wins.
AddIntentAlways(intents, intent) ==
  IF intent.tool # "" THEN Append(intents, intent) ELSE intents
AddIntentLast(intents, intent) ==
  IF intent.tool # ""
  THEN Append(SelectSeq(intents, LAMBDA i : i.tool # intent.tool), intent)
  ELSE intents

\* The body of every strategy's loop: unknown tools and tools already found
\* are skipped.
AddIntent(intents, intent) ==
  IF intent.tool # "" /\ ~intentExists(intents, intent.tool)
  THEN Append(intents, intent) ELSE intents

\* The loop itself, over what a text offers at these places.
Collect(offers, places) ==
  LET found[i \in 0..Len(offers)] ==
        IF i = 0 THEN << >>
        ELSE IF i \in places THEN AddIntent(found[i-1], offers[i]) ELSE found[i-1]
  IN found[Len(offers)]

\* JSON, bare or fenced. done with no calls has nothing to return anyway.
parseGuidedJSON(text) ==
  LET calls == text.calls
  IN IF text.form \notin {"json", "fenced"} THEN << >>
     ELSE Collect([i \in DOMAIN calls |-> Intent(calls[i].name, calls[i].input)], DOMAIN calls)

\* Action lines up to the first "done"; the input of an action is the first
\* Action Input after it, a later action's if it has none of its own.
parseReAct(text) ==
  LET calls == text.calls
      inputs(i) == {k \in i..Len(calls) : calls[k].input # << >>}
      input(i) == IF inputs(i) = {} THEN << >> ELSE calls[Min(inputs(i))].input
  IN IF text.form # "react" THEN << >>
     ELSE Collect([i \in DOMAIN calls |-> Intent(calls[i].name, input(i))],
                  {i \in DOMAIN calls : \A j \in 1..i : calls[j].name # "done"})

\* Mutant: a marker needs no input.
parseMarkersBare(text) ==
  LET calls == text.calls
  IN IF text.form # "markers" THEN << >>
     ELSE Collect([i \in DOMAIN calls |-> Intent(calls[i].name, calls[i].input)], DOMAIN calls)

\* [TOOL:name|...]: a marker without an input is no marker at all.
parseMarkers(text) ==
  LET calls == text.calls
  IN IF text.form # "markers" THEN << >>
     ELSE Collect([i \in DOMAIN calls |-> Intent(calls[i].name, calls[i].input)],
                  {i \in DOMAIN calls : calls[i].input # << >>})

\* Prose, which a structured text may contain too.
parseFuzzy(text) ==
  LET match(i) == text.prose[FuzzyOrder[i]]
      args(i) == [key \in {fuzzyArgKeys[FuzzyOrder[i]]} |-> IF match(i) = "arg" THEN "value" ELSE ""]
  IN Collect([i \in DOMAIN FuzzyOrder |-> [tool |-> FuzzyOrder[i], args |-> args(i)]],
             {i \in DOMAIN FuzzyOrder : match(i) # "none"})

runStrategy(strategy, text) ==
  CASE strategy = "guided_json" -> parseGuidedJSON(text)
    [] strategy = "react" -> parseReAct(text)
    [] strategy = "markers" -> parseMarkers(text)
    [] strategy = "fuzzy" -> parseFuzzy(text)
    [] OTHER -> << >>

ParseText(strategy, fallback, text) ==
  LET results == runStrategy(strategy, text)
  IN IF results = << >> /\ fallback # "" THEN runStrategy(fallback, text) ELSE results

----
\* The arguments that are there and empty become the user's query, unless
\* there is none. No argument is added.
fillEmptyArgs(intent, query) ==
  IF query = "" THEN intent
  ELSE [intent EXCEPT !.args = [key \in DOMAIN @ |-> IF @[key] = "" THEN query ELSE @[key]]]

\* The arguments Execute always sends with a tool it knows; "count" and the
\* like go along only when they are given, or are the same for every call.
sentAlways ==
  [web_search |-> {"query"}, web_fetch |-> {"url"}, read |-> {"path"},
   write |-> {"path", "file_text"}, exec |-> {"command"}, browser |-> {"action"}]

\* What Execute sends under them: the intent's value of the same key, "" if it
\* has none, but the text to write is the intent's content if that is there.
\* An unknown tool gets its arguments as they are.
gatewayArgs(intent) ==
  LET given(key) == IF key \in DOMAIN intent.args THEN intent.args[key] ELSE ""
  IN IF intent.tool \notin DOMAIN sentAlways THEN intent.args
     ELSE [key \in sentAlways[intent.tool] |->
             IF key = "file_text" /\ given("content") # "" THEN given("content") ELSE given(key)]

====
