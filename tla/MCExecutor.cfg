CONSTANTS
  Issuers = {"i1", "i2"}
  Callers = {"c1", "c2"}
  StoreNames = {"issued", "dispatched"}
  StoreOf <- TwoStores
  IdentityOf <- MCIdentityOf
  Keys = {"k1"}
  Actions = {"build", "wipe"}
  Admitted = {"build"}
  Calls = {"run", "delete"}
  Unbound = "unbound"
  Forms <- MCForms
  Lapsing <- LapsingForms
  Anyone = "anyone"
  Half = "half"
  NoForm = NoForm
  FileStore = TRUE
  MaxIssues = 2
  MaxCalls = 2
  MaxMishaps = 1
SPECIFICATION FairSpec
INVARIANTS
  TypeOK
  OnlyPermittedEffects
  ReceiptsMatchEffects
  ReuseMeansDispatched
PROPERTIES
  EffectIsSingleUse
  SomeCallGetsReceipt
CHECK_DEADLOCK FALSE
