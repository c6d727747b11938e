SPECIFICATION Spec
CONSTANTS
  e1 = e1
  e2 = e2
  Exceptions <- Two
  NoException = none
  MaxSelector = 1
  Match <- Verdicts
  Tables <- Tabled
  Requests <- Asked
INVARIANTS
  PadHasABranch
  PromisesKept
  AnswerFitsPhase
