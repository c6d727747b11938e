SPECIFICATION FairSpec
CONSTANTS
  MaxDepth = 3
  Exceptions = {e1}
  e1 = e1
  NoException = none
  Sites <- FaultySites
  PadSites <- SomePads
  StopFns <- OneStop
  Params <- OneParam
INVARIANTS
  PhaseTwoOnCourse
  ForcedCleansAll
PROPERTIES
  PhaseTwoFailsOnlyOnDefect
  WalkEnds
