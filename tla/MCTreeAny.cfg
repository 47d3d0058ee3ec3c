\* Any sequence of calls on three keys; the fourth key is inserted last (MaxKeyLast), and inner
\* nodes below the root split then.  Leaves of two and inner nodes of three children: the tree
\* grows to height 3 while only four slots hold its pages.
CONSTANTS
  Slot = {s1, s2, s3, s4}
  NoSlot = NoSlot
  Super = Super
  BackendPages = 11
  bucket_num_ = 1
  BucketOf <- MCBucketOf
  NUM_ENTRIES = 1
  probing_length = 1
  num_pages_to_sample = 2
  MaxKey = 4
  Val = {v1, v2}
  NoVal = NoVal
  Kinds = {"insert", "lookup", "update", "remove", "scan"}
  ScanLen = {2}
  LeafMax = 2
  InnerFull = 2
SPECIFICATION Spec
SYMMETRY Symmetry
CONSTRAINTS NoDanglingRef MaxKeyLast
INVARIANTS SamplerFindsVictim TreeTypeOK SwizzleSound FenceKeysAgree FlushDurable CleanMatchesBackend
PROPERTIES ImplementsKV PoolContract
CHECK_DEADLOCK FALSE
