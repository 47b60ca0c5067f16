SPECIFICATION FairSpec
CONSTANTS
  a = a
  b = b
  c = c
  u = u
  w = w
  Path <- MCPath
  Url <- MCUrl
  Session <- MCSession
  Value <- MCValue
  Conn = {d}
  NoSession = none
  ScriptWrites <- MCScriptWrites
  CallbackAsked <- MCCallbackAsked
  PortalMayOpen = TRUE
  SendsMayFail = TRUE
  MaxSubscriptions = 2
  PollCapacity = 1
  MaxSession = 2
  MaxWrites = 2
  MaxRid = 2
INVARIANTS NoOrphans NoLeakedSenders InWriteOrder SubscribersUpToDate
PROPERTIES QueuedIsServed FailedAreCancelled
