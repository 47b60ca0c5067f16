SPECIFICATION PinsSpec
CONSTANTS
  Absent = Absent
  Board <- WroverBoard
  BusConfig <- WroverBuses
  Restored <- SomeRestored
  Typed <- AllTyped
  Deletable <- SomeDeletable
  HexText <- Digits
  MaxWrites = 2
  MaxEdges = 2
  MaxFaults = 1
  MaxLevels = 1
INVARIANTS
  EdgesAreKept
  SentOnce
PROPERTY
  PinsSettle
