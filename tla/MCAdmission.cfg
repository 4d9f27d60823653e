CONSTANTS
  Actions = {"deploy", "edit"}
  Kinds = {"deploy", "edit"}
  KindOf <- MCKindOf
  Obligations = {"log"}
  Reservations = {"canary", "dry-run"}
  Principals = {"maker", "author", "lead"}
  Roles = {"lead"}
  Maker = "maker"
  Blocks <- MCBlocks
  Pins <- MCPins
  PolicyAuthors = {"author", "maker"}
  Receipts <- MCReceipts
  Preflight = {"solver"}
  Approvals <- MCApprovals
  Authorized <- MCAuthorized
  Lapsing <- MCLapsing
  NoPin = NoPin
  NoApproval = NoApproval
  MaxAdmits = 2
  MaxPermits = 1
SPECIFICATION Spec
INVARIANTS
  TypeOK
  PermitsRestOnEvidence
  RefusalIsFinal
  PinnedBoundaryHolds
PROPERTY LapsedApprovalsAdmitNothing
CHECK_DEADLOCK FALSE
