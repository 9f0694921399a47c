SPECIFICATION FairSpec
CONSTANTS
  Threads = {t1, t2}
  Insns = 4
  ScratchThreads = 2
  MaxWrites = 1
INVARIANTS NobodyInOverwritten TrampolineKept NobodyForgotten
PROPERTIES GoesOnUnlessRewritten EverybodyGoesOn
CHECK_DEADLOCK FALSE
