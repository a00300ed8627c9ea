CONSTANTS
  main = main
  exit = exit
  a = a
  Function <- MCFunction
  NumLevels = 2
  Main = main
  ExitWrapper = exit
  Indirect = indirect
  NoTag = NoTag
  Startup = Startup
  Modules <- MCModules
SPECIFICATION Spec
INVARIANTS TypeOK OrderIndependent
CHECK_DEADLOCK FALSE
