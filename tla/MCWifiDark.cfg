SPECIFICATION Spec
CONSTANTS
  MaxRotations = 2
  Networks <- MCNetworks
  BuildTime <- HomeBuiltIn
  Forms <- MCForms
  MaxForms = 1
  MaxRestarts = 0
  MaxFaults = 0
INVARIANT PortalReopens
CHECK_DEADLOCK FALSE
