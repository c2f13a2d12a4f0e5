\* One call with three attempts and every failure.
SPECIFICATION Spec
CONSTANTS
  MaxRetries = 0
  ResultLimit = 0
  DefaultLimit = 3
  SuffixSize = 2
  RawSizes = {3, 4}
  Failures = {"refused", "dial_timeout", "reset", "client_timeout", "ctx_done",
              "http_5xx", "http_4xx", "http_4xx_timeout",
              "tool_error", "tool_error_timeout", "garbled"}
CHECK_DEADLOCK FALSE
INVARIANTS TypeOK RunsBounded RepeatNeedsLostAnswer GivesUpForAReason
PROPERTIES NothingSentWhenDone KeepsCallContract
