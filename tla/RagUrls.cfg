\* Search results that arrive cut by result_limits.
SPECIFICATION Spec
CONSTANTS
  MaxRetries = 2
  RagAutoFetch = TRUE
  RagFetchTopN = 2
  Texts <- MCTexts
  Trim <- MCTrim
  Empty = ""
  Tools = {"web_search", "web_fetch", "exec"}
  Parse <- MCParse
  Inputs <- MCInputs
  Urls = {"u1", "u2", "u3"}
  NoUrl = ""
  Cut = "cut"
  SearchResults <- MCSearchResults
CHECK_DEADLOCK FALSE
INVARIANT FetchesFoundUrls
