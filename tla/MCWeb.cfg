SPECIFICATION Spec
CONSTANTS
  Ratio = 3
  OutSize = 2
  Upload <- MCUpload
  OTA_READ_BUF = 5
  Path <- MCPath
  MaxBody = 3
  MAX_SINGLE_PAGE = 2
  MaxTotal = 5
INVARIANTS TotalIsExact GzipInStep FlashIsUpload NeverBricked IdleIsClean
CHECK_DEADLOCK FALSE
