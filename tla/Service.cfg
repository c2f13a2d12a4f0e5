\* Two requests, one gpt-oss call and one error log entry each, one midnight.
SPECIFICATION Spec
CONSTANTS
  Requests = {r1, r2}
  NoOne = NoOne
  Days = 2
  MaxCalls = 1
  MaxLogs = 1
  Texts = {"", "answer"}
  Empty = ""
  Settings <- MCSettings
CHECK_DEADLOCK FALSE
INVARIANTS TypeOK ReplyIsTrue ExitTellsTruth LogIsWhole LoadedIsUsable
PROPERTIES SignalEndsProcess EveryRequestEnds
