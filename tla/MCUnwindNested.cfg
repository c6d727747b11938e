SPECIFICATION Spec
CONSTANTS
  MaxDepth = 4
  Exceptions = {e1, e2}
  e1 = e1
  e2 = e2
  NoException = none
  Sites <- BasicSites
  PadSites <- PlainPads
  StopFns <- OneStop
  Params <- OneParam
INVARIANTS
  HandlerAhead
  ResumeKeepsKind
PROPERTIES
  CaughtWhereChosen
  NewestFirst
  KeepsPromise
