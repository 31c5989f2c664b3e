SPECIFICATION FairSpec
CONSTANTS
  Scenes = {"dispute", "faucet", "hub", "ingestion", "mock", "position", "receipts", "shell", "stores", "tx"}
  Ends = TRUE
  Null = Null
  NoAccount = NoAccount
  Nowhere = Nowhere
  NoDeed = NoDeed
  Unread = Unread
  Gone = Gone
  NoFile = NoFile
CHECK_DEADLOCK FALSE
PROPERTIES
  RunsAreReported
  TabsCatchUp
  
  
  
