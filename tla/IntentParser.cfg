\* Every text of up to three calls, read by four strategy pairs.
SPECIFICATION Spec
CONSTANTS
  Aliases <- MCAliases
  Names <- MCNames
  FuzzyOrder <- MCFuzzyOrder
  Inputs <- MCInputs
  Prose <- MCProse
  MaxCalls = 3
CHECK_DEADLOCK FALSE
INVARIANTS OneIntentPerTool FindsWhatIsWritten FuzzyArgumentsFilled
PROPERTIES FoundStaysFound
