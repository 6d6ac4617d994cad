SPECIFICATION BuilderSpec
CONSTANTS
  Keys = {k1, k2}
  NoKey = NoKey
  Absent = Absent
  NotInt = NotInt
  MaxWire = 3
  MaxBasket = 2
  ContextDigits = 4
CHECK_DEADLOCK FALSE
INVARIANTS
  NeverStricter
  CheckedIsTaken
  NamesOffender
  WireMeansCall
  ConvertedExactly
