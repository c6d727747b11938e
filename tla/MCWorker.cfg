SPECIFICATION Spec
CONSTANTS
  MaxWord = 3
  MaxArgs = 4
  FrameLimit = 2
  MaxFrames = 3
  Addresses = {1, 2}
  Free = free
  None = none
INVARIANTS
  BoundaryHolds
  NothingOutlives
  TraceIsHonest
PROPERTIES
  WorkerEnds
