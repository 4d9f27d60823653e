CONSTANTS
  Permits = {"p1", "p2", "p3"}
  Actions = {"run", "delete"}
  ActionOf <- MCActionOf
  Tools = {"runner", "eraser"}
  ToolOf <- MCToolOf
  Enforcing = {"p1", "p2"}
  Principals = {"issuer", "executor", "reconciler", "certifier"}
  IssuerOf <- MCIssuerOf
  RecorderOf <- MCRecorderOf
  Effects = {"done", "else"}
  None = "none"
  Intentions <- MCIntentions
  Blocking = {"notify"}
  Source = "norms"
  Lapsing <- MCLapsing
  MaxReconciliations = 1
  MaxCertificates = 1
  MaxReceipts = 2
SPECIFICATION Spec
INVARIANTS
  TypeOK
  CertificatesAreEarned
  AuditsVouch
PROPERTY StagesInOrder
CHECK_DEADLOCK FALSE
