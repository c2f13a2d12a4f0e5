---- MODULE MCAgentSystem ----
(* A small run: one reply, two tools, three attempts each.                *)
EXTENDS AgentSystem

MCTexts == {"", "answer", "act2"}
MCBlanks == {""}
MCTextSize == [t \in Texts |-> 4]
MCParse == [t \in Texts |-> IF t = "act2" THEN <<"web_search", "exec">> ELSE << >>]
MCInputs == {<<[role |-> "user", size |-> 10]>>}

====
