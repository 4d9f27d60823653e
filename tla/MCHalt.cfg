CONSTANTS
  Threads = {"t1", "t2"}
  AgentOf <- OneAgent
  Agents = {"a1"}
  StoreNames = {"store"}
  StoreOf <- SharedStore
  Receipts = {"next1", "next2", "session", "forged", "bymaker", "other"}
  ReceiptInfo <- MCReceiptInfo
  Runs = {"run"}
  Makers = {"m1", "m2", "m3"}
  Overseen <- MCOverseen
  Lapsing = {"next1"}
  Marker = "marker"
  NoReceipt = "none"
  FileStore = TRUE
  MaxCalls = 3
  MaxDeaths = 1
SPECIFICATION FairSpec
INVARIANTS
  TypeOK
  RefusalBurnsNothing
PROPERTIES
  LaterCallsFindTheMark
  ReceiptIsSingleUse
  SomePresentationWins
CHECK_DEADLOCK FALSE
