---- MODULE MCIntentParser ----
(* A text that grows by one call at a time, read by every useful pair of   *)
(* strategies: the inputs over which the parser's promises are checked.    *)
EXTENDS IntentParser

CONSTANTS MaxCalls, Prose

ASSUME TextAssumption == MaxCalls \in Nat /\ Prose \subseteq [ToSet(FuzzyOrder) -> Matches]

MCAliases == [search |-> "web_search", web_search |-> "web_search", bash |-> "exec"]
MCNames == {"search", "web_search", "bash", "ponder", "done"}
MCFuzzyOrder == <<"web_search", "web_fetch", "read", "write", "exec">>

\* The right key, another one (for a bare text), and an empty value.
MCInputs == {[query |-> "value"], [input |-> "value"], [query |-> ""]}

\* Prose without a request, with requests of every tool, the vague ones where
\* vague ones are known (web_search and web_fetch), and all of them specific.
MCProse ==
  {[t \in ToSet(MCFuzzyOrder) |-> "none"], [t \in ToSet(MCFuzzyOrder) |-> "arg"],
   [t \in ToSet(MCFuzzyOrder) |-> IF t \in {"web_search", "web_fetch"} THEN "intent"
                                 ELSE IF t = "read" THEN "none" ELSE "arg"]}

Pairs == {<<"guided_json", "fuzzy">>, <<"react", "fuzzy">>, <<"markers", "fuzzy">>,
          <<"fuzzy", "">>}

VARIABLES text, strategy, fallback

vars == <<text, strategy, fallback>>

Init ==
  /\ \E p \in Pairs : strategy = p[1] /\ fallback = p[2]
  /\ text \in [form : Forms, calls : {<< >>}, done : BOOLEAN, prose : Prose]
  /\ text.done => text.form \in {"json", "fenced"}

WriteCall ==
  /\ Len(text.calls) < MaxCalls
  /\ \E c \in Calls : text' = [text EXCEPT !.calls = Append(@, c)]
  /\ UNCHANGED <<strategy, fallback>>

Spec == Init /\ [][WriteCall]_vars

Intents == ParseText(strategy, fallback, text)
Tools(intents) == [i \in DOMAIN intents |-> intents[i].tool]

\* The text is written in the syntax the configured strategy reads.
ReadsItsForm ==
  \/ strategy = text.form
  \/ strategy = "guided_json" /\ text.form \in {"json", "fenced"}

----
\* Parse's promise "Results are deduplicated by tool name": a reply asks for
\* a tool at most once, whatever its spellings, so it runs at most once.
OneIntentPerTool ==
  LET tools == Tools(Intents)
  IN \A i, j \in DOMAIN tools : tools[i] = tools[j] => i = j

\* The calls a strategy must honour, by their place in the text: those with
\* a known name, not after a done action, not of a tool called before.
Honoured ==
  LET calls == text.calls
      readable(i) == /\ calls[i].name \in DOMAIN Aliases
                     /\ strategy = "markers" => calls[i].input # << >>
                     /\ strategy = "react" => \A j \in 1..i : calls[j].name # "done"
  IN {i \in DOMAIN calls :
        /\ readable(i)
        /\ \A j \in 1..i-1 : readable(j) => Aliases[calls[j].name] # Aliases[calls[i].name]}

\* A structured strategy finds in its own syntax exactly the calls to be
\* honoured, in the order of the text.
FindsWhatIsWritten ==
  LET tools == Tools(runStrategy(strategy, text))
  IN ReadsItsForm =>
       \E place \in [DOMAIN tools -> Honoured] :
         /\ \A i, j \in DOMAIN tools : i < j => place[i] < place[j]
         /\ \A c \in Honoured : \E i \in DOMAIN tools : place[i] = c
         /\ \A i \in DOMAIN tools : tools[i] = Aliases[text.calls[place[i]].name]

\* What "Substitute the original user query" is for: when the run has a query,
\* a tool the fuzzy tier found has every argument the gateway is always sent.
\* The exception is the text of a write: no pattern looks for one and nothing
\* is filled in where there is no key, so it is always empty.
FuzzyArgumentsFilled ==
  LET fuzzy == strategy = "fuzzy" \/ (fallback = "fuzzy" /\ runStrategy(strategy, text) = << >>)
  IN fuzzy => \A intent \in ToSet(Intents) :
       LET sent == gatewayArgs(fillEmptyArgs(intent, "a query"))
       IN {key \in DOMAIN sent : sent[key] = ""} =
            IF intent.tool = "write" THEN {"file_text"} ELSE {}

\* Reading on changes nothing found so far: a longer text has the shorter
\* one's intents first, in the same order.
FoundStaysFound ==
  [][\A found \in {Tools(runStrategy(strategy, text))},
        further \in {Tools(runStrategy(strategy', text'))} : IsPrefix(found, further)]_vars

====
