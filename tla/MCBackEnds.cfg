SPECIFICATION SpecOfBoth
CONSTANTS
  NarrowBits = 2
  IntBits = 4
  WideBits = 5
  SingleBits = 2
  DoubleBits = 3
  Statements <- AllStatements
  Types <- ObjectTypes
  Objects = {a, b}
  BackEnds = {"C++", "IR"}
INVARIANTS
  EmittedAsRecorded
  InterpretedAsRecorded
  OneHolder
  BackEndsAgree
CHECK_DEADLOCK FALSE
