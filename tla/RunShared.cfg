SPECIFICATION Spec
CONSTANTS
  Run = {r1}
  ApiThread = {a1}
  McpThread = {m1}
  Answer <- MCAnswer
  NoAnswer = NoAnswer
  NoRun = NoRun
  NoStage = NoStage
  MaxFindings = 1
  MaxCalls = 1
  MaxCrashes = 1
  MaxErrors = 0
INVARIANTS
  OnlyVerifiedIsCommitted
  OnlyReviewedIsCommitted
  GateShowsVerifiedFindings
PROPERTIES
  KeepsTheContract
CHECK_DEADLOCK FALSE
