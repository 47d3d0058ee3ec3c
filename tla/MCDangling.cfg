\* Inserts on four keys split inner nodes in a pool of four slots.
CONSTANTS
  Slot = {s1, s2, s3, s4}
  NoSlot = NoSlot
  Super = Super
  BackendPages = 11
  bucket_num_ = 1
  BucketOf <- MCBucketOf
  NUM_ENTRIES = 1
  probing_length = 1
  num_pages_to_sample = 1
  MaxKey = 4
  Val = {v1}
  NoVal = NoVal
  Kinds = {"insert"}
  ScanLen = {2}
  LeafMax = 2
  InnerFull = 2
SPECIFICATION Spec
SYMMETRY Symmetry
INVARIANTS NoDanglingRef
CHECK_DEADLOCK FALSE
