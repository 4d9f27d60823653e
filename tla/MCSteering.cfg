CONSTANTS
  Actions = {"edit", "deploy"}
  Kinds = {"edit", "deploy", "share"}
  Obligations = {}
  NoAction = NoAction
  Related <- MCRelated
  Bare = Bare
  KindOf <- MCKindOf
  Contexts <- MCContexts
  Planes <- MCPlanes
  Working <- MCWorking
  Agents = {"overseer", "peer"}
  Overseers = {"overseer"}
  Blocks <- MCBlocks
  NoBlock = NoBlock
  NoKind = NoKind
  NoResult = NoResult
  Capabilities = {"ledger"}
  RequiredByRoles = {}
  Inventories = {{}}
  Preflight = {"solver"}
  Postflight = {"audit"}
  Oversight = "oversight"
  Bundles <- MCBundles
  MaxResults = 1
  MaxPlans = 2
  MaxPreviews = 1
  MaxDispatches = 1
  MaxClosings = 1
  MaxObjects = 6
SPECIFICATION Spec
INVARIANTS
  TypeOK
  VerdictAndDecisionAgree
  SteersFitFindings
  PreviewsAreEarned
  SteeredIsNotAdmitted
  CertifiedRunsAreComplete
CHECK_DEADLOCK FALSE
