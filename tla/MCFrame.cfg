SPECIFICATION Spec
CONSTANTS
  Preserved = {"rbx", "rbp"}
  Volatile = {"rax", "rcx"}
  Data = {"rax"}
  Top = 17
  MaxFrames = 4
  Layouts <- AllLayouts
  Pushes = {0, 1}
  Clobbers <- NewValues
  Unknown = Unknown
INVARIANTS
  KnownIsTrue
  UnknownOnlyIfLost
PROPERTIES
  PadsLandAtHome
