SPECIFICATION Spec
CONSTANTS
  MAX_NVS_BLOB = 4000
  MAX_WIFI_CFG_BLOB = 4000
  MAX_WIFI_APS = 3
  ApIp <- PortalIp
  MAX_DEPTH = 8
  MAX_OBJECT_DEPTH = 2
  Whole = {"-1", "0", "1", "2", "200", "70000"}
  Negative = {"-1"}
  TooLarge = {"70000"}
  Rooted = {"/a", "/b"}
  Refused = Refused
  None = None
INVARIANTS
  RoundTrips
  CutsRefused
  ReadersAgree
CHECK_DEADLOCK FALSE
