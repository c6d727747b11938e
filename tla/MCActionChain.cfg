SPECIFICATION MCSpec
CONSTANTS
  Size = 12
  Floor = 8
  Parses <- AllTables
  Group = 2
  Width = 5
INVARIANTS
  TypeOK
  LoopIsACycle
  EndedIsFinite
  UnsignedExact
  SignedExact
PROPERTIES
  WalkStops
