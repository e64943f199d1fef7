SPECIFICATION Spec
CONSTANTS
  Sandboxes = {s1}
  Calls = {c1, c2}
  Tenants = {t1}
  Unlabelled = Unlabelled
  Flushers = {f1}
  Minute = 2
  MaxTime = 3
  MaxExecutes = 2
  MaxFlushes = 2
  MaxCrashes = 0
INVARIANTS
  SamplesAccumulate
