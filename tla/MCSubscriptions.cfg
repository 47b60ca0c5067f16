SPECIFICATION FairSpec
CONSTANTS
  Path = {a}
  Item = {i}
  ItemOf <- MCItemOf
  Url = {u}
  Session = {s}
  Value = {v, w}
  MaxSubscriptions = 2
  PollCapacity = 1
  Intervals <- MCIntervals
  Ttls <- MCTtls
  MAX_SCRIPT_DEPTH = 4
  MaxScriptWrites = 1
  MaxRid = 3
  MaxTime = 3
INVARIANTS IndexesAgree OneFiringPerSlot
PROPERTIES TimedEventuallyForgotten NoDeliveryAfterExpiry TickServesAllDue WriteNotifiesAll
