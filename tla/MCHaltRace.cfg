CONSTANTS
  Threads = {"t1", "t2"}
  AgentOf <- OneAgent
  Agents = {"a1"}
  StoreNames = {"store"}
  StoreOf <- SharedStore
  Receipts = {"next1", "next2"}
  ReceiptInfo <- MCReceiptInfo
  Runs = {"run"}
  Makers = {"m1", "m2"}
  Overseen <- MCOverseen
  Lapsing = {}
  Marker = "marker"
  NoReceipt = "none"
  FileStore = TRUE
  MaxCalls = 2
  MaxDeaths = 0
SPECIFICATION Spec
INVARIANT OneNextActionPerRun
CHECK_DEADLOCK FALSE
