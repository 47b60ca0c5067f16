SPECIFICATION Spec
CONSTANTS
  Device = {a, b}
  MAX_PENDING = 2
  Window = 1
  Drift = 1
  Skew = 0
  ServesJoiner = TRUE
  MaxPollAttempts = 2
  MaxScanRetries = 1
  MaxRetryAttempts = 2
INVARIANTS OnlyApprovedGetIn FailuresAreOwn
PROPERTY JoinersEnd
CHECK_DEADLOCK FALSE
