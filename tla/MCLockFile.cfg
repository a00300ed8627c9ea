CONSTANTS
  p = p
  q = q
  r = r
  Process = {p, q, r}
  HostOf <- MCHostOf
  None = None
  Garbage = Garbage
  LongTries = 2
  ShortTries = 2
  MaxCrashes = 1
SPECIFICATION Spec
INVARIANTS TypeOK Exclusive NoLitter
PROPERTY ComesBack
