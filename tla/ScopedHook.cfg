SPECIFICATION FairSpec
CONSTANTS
  Threads = {t1, t2, t3}
  Hooks = {h1, h2}
  UnitHooks = {h1}
  Scope = Scope
  Guard = Guard
  None = None
INVARIANTS RunsInsideScope DroppedOnce
PROPERTIES DrainsWhenQuiet
CHECK_DEADLOCK FALSE
