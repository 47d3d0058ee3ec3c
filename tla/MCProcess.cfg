\* Pools of three, two and one slots, one after the other in any order, with two,
\* one and no bucket.
CONSTANTS
  t1 = t1
  t2 = t2
  t3 = t3
  Tree = {t1, t2, t3}
  None = None
  Capacity <- Unequal
  CoolNum = 2
  CoolDen = 3
  NUM_ENTRIES = 1
  DistSpan = 4
SPECIFICATION Spec
INVARIANTS ProcessTypeOK SelectInPool DynamicPoolHandedOut PagesGoHome BucketIndexInRange WarmUpFindsSlot
CHECK_DEADLOCK FALSE
