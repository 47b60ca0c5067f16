SPECIFICATION PinsSpec
CONSTANTS
  Absent = Absent
  Board <- WroverBoard
  BusConfig <- WroverBuses
  Restored = {}
  Typed <- TypedWrites
  Deletable = {}
  HexText <- Digits
  MaxWrites = 1
  MaxEdges = 1
  MaxFaults = 0
  MaxLevels = 1
INVARIANT
  TypedAsMeant
