SPECIFICATION Spec
CONSTANTS
  MaxRotations = 2
  Networks <- MCNetworks
  BuildTime <- HomeBuiltIn
  Forms <- MCForms
  MaxForms = 2
  MaxRestarts = 1
  MaxFaults = 1
INVARIANTS CaptiveDnsOff GaveUpIsReachable
PROPERTIES PortalAfterAllTried FormsAnswered RetriesEnd
CHECK_DEADLOCK FALSE
