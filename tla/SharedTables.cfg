SPECIFICATION Spec
CONSTANTS
  agreement = agreement
  second = second
  Doc = {agreement, second}
  Says <- MCSays
  Verdicts = {"not_real", "absent"}
  Readings <- MCReadings
  DatedAt <- MCDatedAt
  FirstKinds <- MCFirstKinds
  Kind = {"msa"}
  Unset = Unset
  Inbox <- MCInbox
  Garbage = {prose}
  Failed = Failed
  NoProblem = NoProblem
  Nothing = Nothing
  Attempts = 2
  MaxRuns = 2
  MaxTroubles = 1
INVARIANTS TypeOK ExtractedOnce NothingFoundVanishes ReportedIsOpen OpenedHereIsReportedHere
PROPERTIES NobodyWaitsForEver
CHECK_DEADLOCK FALSE
