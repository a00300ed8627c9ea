CONSTANTS
  f = f
  g = g
  h = h
  k = k
  c = c
  v = v
  NumLevels = 3
  Inputs <- Files
SPECIFICATION Spec
INVARIANT FormsAreEquivalent
