SPECIFICATION Spec
CONSTANTS
  Low = {0, 1}
  High = {16}
  Places <- ClosurePlaces
  WriteInitial = FALSE
  MaxInitial = 2
  MaxWrites = 2
INVARIANTS ReadsRegisters RestoresWritten
PROPERTY ArgumentsApart
