CONSTANTS
  f = f
  g = g
  h = h
  k = k
  c = c
  v = v
  NumLevels = 3
  Inputs <- AnyInputs
SPECIFICATION Spec
INVARIANTS NoDangling DefinitionWithItsLevel ReferencesResolved NothingHalfLinked FailsOnConflict
