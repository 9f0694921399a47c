SPECIFICATION FairSpec
CONSTANTS
  Threads = {t1, t2}
  NoThread = NoThread
  Program = Program
  Items = {h1, h2, h3}
  None = None
  Keys = {0, 1, 2}
  NoKey = 99
  OnceHooks = {h2}
  PanicHooks = {h3}
INVARIANTS KeyOwned NewestToOldest
PROPERTIES DrainsWhenQuiet
