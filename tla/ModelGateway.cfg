SPECIFICATION Spec
CONSTANTS
  api = api
  first = first
  second = second
  Process = {api}
  Thread = {t1, t2}
  ProcessOf <- MCProcessOf
  Question = {q1}
  Model = {first, second}
  Settings <- MCSettings
  Fallbacks <- MCFallbacks
  MaxAttempts = 2
  QuotaMaxAttempts = 3
  Rate = 1
  Minute = 2
  Horizon = 2
  MaxCalls = 2
INVARIANTS
  TypeOK
  PacedWithinBudget
  AttemptBudget
PROPERTIES
  QuotaIsNeverGuessed
  EveryCallEnds
CHECK_DEADLOCK FALSE
