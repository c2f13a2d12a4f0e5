\* The outcome of a run under the default parser configuration.
SPECIFICATION Spec
CONSTANTS
  PromptSize = 30
  TruncAt = 40
  CompactAt = 70
  MaxToolResult = 50
  CompactedSuffix = 16
  MaxIterations = 3
  SourceField = "reasoning"
  FallbackField = "content"
  Texts <- MCTexts
  Blanks <- MCBlanks
  Empty = ""
  TextSize <- MCTextSize
  Tools = {"web_search", "exec"}
  Parse <- MCParse
  Inputs <- MCUsualInputs
  ResultSizes = {60}
  FailureSizes = {20}
  ErrorLogging = TRUE
CHECK_DEADLOCK FALSE
INVARIANTS TypeOK BudgetKept AnswerIsNewestWord GaveUpSilent TimeoutIsHonest FailureNamedOnce
PROPERTIES NoWorkWhenDone KeepsContract
