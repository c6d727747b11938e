SPECIFICATION Spec
CONSTANTS
  MaxAddress = 1000
  Word = 8
  Lsdas <- AllLsdas
  Images <- AllImages
  Damages <- AllDamages
  Indices <- AllIndices
  Garbage <- AllGarbage
INVARIANTS
  TypeOK
  HeaderAccepted
  EntriesDecode
  SidesKept
  SpecificationsDecode
