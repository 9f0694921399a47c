SPECIFICATION FairSpec
CONSTANTS
  Threads = {t1, t2, t3, t4}
  NoThread = NoThread
INVARIANTS NoLostWakeup
PROPERTIES DrainsWhenQuiet ImplementsLock
