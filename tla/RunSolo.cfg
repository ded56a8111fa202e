SPECIFICATION SoloSpec
CONSTANTS
  Run = {r1}
  ApiThread = {a1}
  McpThread = {m1}
  Answer <- MCAnswer
  NoAnswer = NoAnswer
  NoRun = NoRun
  NoStage = NoStage
  MaxFindings = 1
  MaxCalls = 2
  MaxCrashes = 2
  MaxErrors = 1
INVARIANTS
  TypeOK
  VerdictsAnswerTheReview
  RowMatchesCheckpoint
PROPERTIES
  NothingCheckpointedIsRecomputed
  FinishedIsFinal
  
CHECK_DEADLOCK FALSE
