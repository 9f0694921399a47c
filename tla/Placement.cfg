SPECIFICATION PlacementSpec
CONSTANTS
  Top = 72
  Granule = 8
  MIN_RANGE_LEN = 2
  Layouts <- MCNone
  Targets <- MCNone
  Bounds <- MCNone
  IsizeMin <- MCIsizeMin
  UsedLens = {3,6}
  IsizeMax = 100
  MaxRanges = 3
  JmpLen = 4
  MaxInsnLen = 5
  RelocBufLen = 6
  Base = 4
  Target = 36
  NoRef = NoRef
  Codes <- MCCodes
  Patches <- MCPatches
  Maps <- MCMaps
  MIN_ADDRESS = 8
  MAX_ADDRESS = 72
  ThunkLayout <- MCThunkLayout
  MaxChanges = 1
INVARIANTS BytesSuffice RefusesOnlyIfFull FailureGivesBack JumpFits TrampolineReaches
PROPERTIES ImplementsAllocator
CHECK_DEADLOCK FALSE
