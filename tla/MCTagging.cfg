CONSTANTS
  main = main
  exit = exit
  a = a
  b = b
  indirect = indirect
  Function <- MCFunction
  NumLevels = 3
  Main = main
  ExitWrapper = exit
  Indirect = indirect
  NoTag = NoTag
  Startup = Startup
  Modules <- AnyModules
SPECIFICATION FairSpec
INVARIANTS TypeOK InferredTagIsMaxOfCallers NoNodeLost RoundTagsReachable DoneOnlyIfCanComplete
PROPERTIES InfersLevels Completes
