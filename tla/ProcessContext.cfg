SPECIFICATION FairContextSpec
CONSTANTS
  t1 = t1
  t2 = t2
  t3 = t3
  a = a
  b = b
  Threads = {t1, t2, t3}
  NoThread = NoThread
  Copies = {a, b}
  CopyOf <- MCCopyOf
  Platforms = {"linux", "windows"}
  Objects = {o1, o2, o3}
  Inners = {i1, i2}
  Targets = {1, 2, 3}
  None = None
  MaxFaults = 2
  EntrySize = 1
  PageSize = 1
  Blank = None
INVARIANTS OneContext SharedMemoryIsSafe TableSearchable
PROPERTIES Answered ImplementsRegistry
CHECK_DEADLOCK FALSE
