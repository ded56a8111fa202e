SPECIFICATION Spec
CONSTANTS
  Fact <- MCFact
  Doc <- MCDoc
  Said <- MCSaid
  DatedAt <- MCDatedAt
  FirstKinds <- MCFirstKinds
  Kind <- MCKind
  Rules <- MCRules
  Settles <- MCSettles
  RowOrders <- MCRowOrders
  Inbox <- MCInbox
  MaxRuns = 2
  MaxMoves = 1
INVARIANTS
  DecisionsStick
CHECK_DEADLOCK FALSE
