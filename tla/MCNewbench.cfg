\* Six keys loaded in order and one operation: inner nodes below the root split too.  A leaf
\* that splits in a load in order keeps one key, and the slack is for the inner nodes, so the
\* backend holds this run.  Liveness is checked, so the slots are not taken for alike.
CONSTANTS
  Slot = {s1, s2, s3, s4}
  NoSlot = NoSlot
  Super = Super
  BackendPages = 14
  bucket_num_ = 2
  BucketOf <- MCBucketOf
  NUM_ENTRIES = 1
  probing_length = 2
  num_pages_to_sample = 1
  MaxKey = 7
  Val = {2, 3, 4, 5, 6, 7, 8, 9, 10, 11, 12, 13, 14}
  NoVal = NoVal
  Kinds = {"insert", "lookup", "update", "remove", "scan"}
  ScanLen = {2}
  LeafMax = 2
  InnerFull = 2
  key_space = 6
  op_num = 1
  scan_len = 2
  min_pages = 4
  keys_per_page = 1
  slack_pages = 8
SPECIFICATION FairBenchSpec
CONSTRAINT NoDanglingRef
INVARIANTS SwizzleSound FenceKeysAgree
PROPERTIES BenchTerminates ImplementsKV
CHECK_DEADLOCK FALSE
