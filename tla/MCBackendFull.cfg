\* A small key space: min_pages is the larger number, as in the program up to 516096 keys,
\* and op_num does not enter.  Expected to fail: the mix may insert only.
CONSTANTS
  Slot = {s1, s2, s3, s4, s5, s6}
  NoSlot = NoSlot
  Super = Super
  BackendPages = 5
  bucket_num_ = 2
  BucketOf <- MCBucketOf
  NUM_ENTRIES = 1
  probing_length = 2
  num_pages_to_sample = 1
  MaxKey = 6
  Val = {2, 3, 4, 5, 6, 7, 8, 9, 10, 11, 12, 13}
  NoVal = NoVal
  Kinds = {"insert", "lookup", "update", "remove", "scan"}
  ScanLen = {2}
  LeafMax = 2
  InnerFull = 2
  key_space = 2
  op_num = 4
  scan_len = 2
  min_pages = 5
  keys_per_page = 1
  slack_pages = 2
SPECIFICATION BenchSpec
CONSTRAINT NoDanglingRef
INVARIANT BackendHoldsAll
CHECK_DEADLOCK FALSE
