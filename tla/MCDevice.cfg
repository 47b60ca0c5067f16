SPECIFICATION Spec
CONSTANTS
  Capacity = 2
  NoValue <- MCNoValue
  NoLimit <- MCNoLimit
  Trimmed <- MCTrimmed
  BuiltIn <- MCBuiltIn
  Sensor <- MCSensor
  Folder <- MCFolder
  Hosts <- MCHosts
  Values = {7}
  Subscribed <- MCSubscribed
  Requests <- MCRequests
  CallbackWrites <- MCCallbackWrites
  MAX_SCRIPT_DEPTH = 4
  BlobItems = 2
  MaxRequests = 2
  MaxCrashes = 1
  MaxFaults = 1
  MaxEvents = 1
INVARIANTS SubscribersSeeFinalValue SavedUnlessDirty
PROPERTY EventuallySaved
CHECK_DEADLOCK FALSE
