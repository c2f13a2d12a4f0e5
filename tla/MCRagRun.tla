---- MODULE MCRagRun ----
(* Small instances of RagRun: five texts, two intents, three URLs.         *)
EXTENDS RagRun

\* " x " stands for a text with white space around it.
MCTexts == {"", " ", " x ", "x", "search", "both"}
MCTrim == [t \in Texts |-> CASE t = " " -> "" [] t = " x " -> "x" [] OTHER -> t]
MCParse ==
  [t \in Texts |-> CASE t = "search" -> <<"web_search">>
                     [] t = "both" -> <<"web_search", "exec">>
                     [] OTHER -> << >>]

Post(role, content) == [role |-> role, content |-> content]
MCInputs ==
  {<<Post("assistant", "x")>>, <<Post("user", " ")>>, <<Post("user", " x ")>>,
   <<Post("system", "x"), Post("user", "search")>>,
   <<Post("user", "both"), Post("assistant", "x"), Post("user", "x")>>}

\* A search engine may list a page twice, or a result without a URL.
MCSearchResults ==
  {[details |-> <<"u1", "u2", "u3">>, text |-> <<"u1", "u2", "u3">>],
   [details |-> <<"", "u2", "u2">>, text |-> << >>],
   [details |-> <<"">>, text |-> <<"u3", "", "u1">>],
   [details |-> << >>, text |-> << >>]}

====
