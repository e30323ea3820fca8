CONSTANTS
  main = main
  worker = worker
  Threads <- MCThreads
  Exits <- MCExits
  Contexts <- MCContexts
  Frames <- MCFrames
  MaxFree = 1
  MaxKeys = 2
  Null = Null
SPECIFICATION Spec
INVARIANTS
  PointersAreLive
  CallsLeaveNothing
  ErrorsReachHandlers
  ErrorsAreReturned
  ThreadsFreeEverything
  OptionsAreSetBack
