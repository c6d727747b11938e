SPECIFICATION Spec
CONSTANTS
  Top = 60
  Caller = 54
  Depths <- SomeDepths
  Targets <- SomeTargets
  RedZone = 16
  Interrupted <- EntryCode
INVARIANTS
  CapturedIsCaller
  CallerResumes
  StackKept
  InstalledIsSelected
