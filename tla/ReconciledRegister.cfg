SPECIFICATION Spec
CONSTANTS
  Fact <- MCFact
  Doc <- MCDoc
  Said <- MCSaid
  DatedAt <- MCDatedAt
  FirstKinds <- MCFirstKinds
  Kind <- MCKind
  Rules <- MCRules
  Settles <- MCSettles
  RowOrders <- MCRowOrders
  Inbox <- MCInbox
  MaxRuns = 2
  MaxMoves = 1
INVARIANTS
  TypeOK
  TiesAreReported
  MismatchesAreOnTheBill
  FindingsSpeakOfTheRegister
  ChangesNameTheArrival
PROPERTIES
  LaterInstrumentsLeaveOldFindings
CHECK_DEADLOCK FALSE
