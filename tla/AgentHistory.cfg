\* The conversation of a run, for every shape the client may post.
SPECIFICATION Spec
CONSTANTS
  PromptSize = 30
  TruncAt = 30
  CompactAt = 50
  MaxToolResult = 50
  CompactedSuffix = 16
  MaxIterations = 3
  SourceField = "reasoning"
  FallbackField = "none"
  Texts <- MCFewTexts
  Blanks <- MCEmptyOnly
  Empty = ""
  TextSize <- MCTextSize
  Tools = {"web_search", "exec"}
  Parse <- MCParse
  Inputs <- MCLongInputs
  ResultSizes = {20, 60}
  FailureSizes = {20}
  ErrorLogging = FALSE
CHECK_DEADLOCK FALSE
INVARIANTS TurnIsRecorded HistoryInOrder FirstUserKept
