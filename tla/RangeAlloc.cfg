SPECIFICATION Spec
CONSTANTS
  Top = 12
  Granule = 4
  MIN_RANGE_LEN = 2
  Layouts <- MCLayouts
  Targets = {6}
  Bounds <- MCBounds
  IsizeMin <- MCIsizeMin
  UsedLens = {1,2}
  IsizeMax = 20
  MaxRanges = 3
INVARIANTS ServedOnce AnswersMeetRequest RefusesOnlyAtBound
PROPERTIES LosesLittle
