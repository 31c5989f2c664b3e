SPECIFICATION Spec
CONSTANTS
  Scenes = {
    "asset", "bell", "build", "cache", "claim", "directory", "dispute", "docs",
    "faucet", "feed", "flags", "form", "governance", "holders", "hub", "ingestion",
    "keys", "limiter", "local", "market", "mock", "pager", "palette", "portfolio", "position", "sockets", "paged", "toaster", "owners", "invested", "tip", "wrapper", "visitor",
    "receipts", "shell", "stores", "topbar", "tour", "tx"}
  Ends = FALSE
  Null = Null
  NoAccount = NoAccount
  Nowhere = Nowhere
  NoDeed = NoDeed
  Unread = Unread
  Gone = Gone
  NoFile = NoFile
CHECK_DEADLOCK FALSE
INVARIANTS
  TypeOK
  ShownWasTrue
  
  
  
  
  CopiesAreFresh
  CountsAreExact
PROPERTIES
  NeverTakenBack
  
  PromisesKept
