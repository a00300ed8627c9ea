CONSTANTS
  main = main
  f = f
  g = g
  x = x
  y = y
  al = al
  Name <- MCName
  NumLevels = 3
  None = None
  Modules <- AnyModules
SPECIFICATION Spec
INVARIANTS TypeOK NoUseOfErased EachNameOnce ReferencesKept PlacedByLevel CrashesOnAnnotation
