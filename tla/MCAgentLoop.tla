---- MODULE MCAgentLoop ----
(* Small instances of AgentLoop: a few texts, two tools, short windows.    *)
EXTENDS AgentLoop

\* What replies carry: nothing, white space, an answer, a call of one tool
\* or of two. A text with a call may come as content or as reasoning.
MCTexts == {"", " ", "answer", "act", "act2"}
MCFewTexts == {"", "answer", "act2"}
MCBlanks == {"", " "}
MCEmptyOnly == {""}
MCTextSize == [t \in Texts |-> IF t \in Blanks THEN 0 ELSE 20]

\* The texts as the parser reads them, and the default strategies react and
\* fuzzy reading them. act2 calls exec twice, under two of its names.
FuzzyTools == <<"web_search", "web_fetch", "read", "write", "exec">>
Parser == INSTANCE IntentParser WITH
  Names <- {"search", "bash", "exec", "done"},
  Aliases <- [search |-> "web_search", bash |-> "exec", exec |-> "exec"],
  FuzzyOrder <- FuzzyTools, Inputs <- {[input |-> "value"]}

Call(name) == [name |-> name, input |-> <<[input |-> "value"]>>]
Reading(t) ==
  [form |-> IF t \in {"act", "act2"} THEN "react" ELSE "prose", done |-> FALSE,
   prose |-> [i \in Parser!ToSet(FuzzyTools) |-> "none"],
   calls |-> CASE t = "act" -> <<Call("bash"), Call("done"), Call("search")>>
               [] t = "act2" -> <<Call("search"), Call("bash"), Call("exec")>>
               [] OTHER -> << >>]
MCParse ==
  [t \in Texts |->
     LET found == Parser!ParseText("react", "fuzzy", Reading(t))
     IN [i \in DOMAIN found |-> found[i].tool]]

\* Conversations: the usual ones, and every shape of up to four messages.
Post(role) == [role |-> role, size |-> 10]
MCUsualInputs == {<<Post("user")>>, <<Post("system"), Post("user")>>}
MCLongInputs ==
  UNION {[1..n -> {Post(r) : r \in {"system", "user", "assistant"}}] : n \in 1..4}

====
