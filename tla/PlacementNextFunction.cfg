SPECIFICATION PlacementSpec
CONSTANTS
  Top = 36
  Granule = 4
  MIN_RANGE_LEN = 2
  Layouts <- MCNone
  Targets <- MCNone
  Bounds <- MCNone
  IsizeMin <- MCIsizeMin
  UsedLens = {2,3}
  IsizeMax = 60
  MaxRanges = 3
  JmpLen = 5
  MaxInsnLen = 6
  RelocBufLen = 3
  Base = 2
  Target = 18
  NoRef = NoRef
  Codes <- MCReturning
  Patches <- MCPatches
  Maps <- MCMaps
  MIN_ADDRESS = 4
  MAX_ADDRESS = 36
  ThunkLayout <- MCThunkLayout
  MaxChanges = 2
INVARIANT OverwritesOwnCode
CHECK_DEADLOCK FALSE
