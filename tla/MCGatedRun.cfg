CONSTANTS
  main = main
  exit = exit
  a = a
  b = b
  c = c
  indirect = indirect
  Function <- MCFunction
  NumLevels = 3
  Main = main
  ExitWrapper = exit
  Indirect = indirect
  NoTag = NoTag
  Startup = Startup
  MaxDepth = 4
  Programs <- AnyPrograms
SPECIFICATION RunSpec
INVARIANTS RunsAtItsLevel LossIsBounded
PROPERTIES DeniedMeansNotEntered RunsAsWritten
