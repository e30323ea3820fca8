CONSTANTS
  a = a
  b = b
  Objects <- MCObjects
  Inputs <- MCInputs
  MaxSeeds = 3
  NoFile = NoFile
  Empty = Empty
SPECIFICATION Spec
INVARIANTS
  TypeOK
  SeedsReplay
  SavedSeedsAreFirst
