SPECIFICATION Spec
CONSTANTS
  api = api
  first = first
  second = second
  Process = {api}
  Thread = {t1}
  ProcessOf <- MCProcessOf
  Question = {q1}
  Model = {first, second}
  Settings <- MCNewModel
  Fallbacks <- MCFallbacks
  MaxAttempts = 2
  QuotaMaxAttempts = 3
  Rate = 1
  Minute = 2
  Horizon = 2
  MaxCalls = 2
INVARIANTS
  AnswersAreOfTheModelAsked
CHECK_DEADLOCK FALSE
