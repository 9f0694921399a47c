SPECIFICATION FairSpec
CONSTANTS
  Threads = {t1, t2}
  PlainHooks = {s1}
  MutHooks = {s2, s3}
  OnceHooks = {s4}
  CustomHooks = {c1}
  Lists = {l1}
  Original = Original
  None = None
  MaxInstalled = 2
INVARIANTS PassesThroughAll NeverJumpsToNull RunsOnce SomebodyGoesOn
PROPERTIES DrainsWhenQuiet
