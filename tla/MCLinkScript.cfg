CONSTANTS
  NumLevels = 2
  Page = 4
  Sizes <- MCSizes
  Starts <- MCStarts
SPECIFICATION LinkSpec
INVARIANTS LevelsApart OverlapIfLastTooLarge SegmentsAgree
