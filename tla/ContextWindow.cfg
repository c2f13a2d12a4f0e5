\* Conversations of up to seven messages in a window that overflows.
SPECIFICATION Spec
CONSTANTS
  PromptSize = 0
  TruncAt = 20
  CompactAt = 30
  MaxToolResult = 10
  CompactedSuffix = 3
  MaxId = 7
  ToolSizes = {10, 11, 30}
INVARIANTS CompactionHalves TruncationSettles RoomIsMade
PROPERTIES KeepsBothEnds
