SPECIFICATION FairSpec
CONSTANTS
  agreement = agreement
  copy = copy
  File = {agreement, copy}
  Content = {c1, scan}
  Readable = {c1}
  Absent = Absent
  Timer = Timer
  Caller = {caller}
  MaxWrites <- MCMaxWrites
  MaxFaults = 1
  MaxCrashes = 1
CHECK_DEADLOCK FALSE
INVARIANTS
  TypeOK
  NoDocumentIsForgotten
PROPERTIES
  DroppedDocumentsAreIngested
