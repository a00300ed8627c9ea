CONSTANTS
  Compilation = {c1, c2, c3}
  Nobody = Nobody
  Buffer = 3
  UsedLevels <- MCUsedLevels
  NumLevels = 2
  Page = 4
SYMMETRY MCCompilations
SPECIFICATION Spec
INVARIANTS LastScriptIfSequential WholeIfSameLevels NoHoleInLastScript
