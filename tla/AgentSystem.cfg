\* One reply with two tools, three attempts a tool.
SPECIFICATION Spec
CONSTANTS
  PromptSize = 10
  TruncAt = 1000
  CompactAt = 2000
  MaxToolResult = 500
  CompactedSuffix = 16
  MaxIterations = 1
  SourceField = "content"
  FallbackField = "content"
  Texts <- MCTexts
  Blanks <- MCBlanks
  Empty = ""
  TextSize <- MCTextSize
  Tools = {"web_search", "exec"}
  Parse <- MCParse
  Inputs <- MCInputs
  ResultSizes = {4, 9}
  FailureSizes = {7}
  ErrorLogging = TRUE
  MaxRetries = 0
  ResultLimit = 0
  DefaultLimit = 3
  SuffixSize = 2
  RawSizes = {0, 5}
  Failures = {"refused", "reset", "client_timeout", "tool_error", "ctx_done"}
  HeaderSize = 4
CHECK_DEADLOCK FALSE
INVARIANTS EffectsInOrder ReportsAreTrue
PROPERTY ImplementsLoop
