\* Inserts and removals on three keys, then one operation of the server; a second
\* node holds every third page.
CONSTANTS
  Slot = {s1, s2, s3, s4}
  NoSlot = NoSlot
  Super = Super
  BackendPages = 7
  bucket_num_ = 1
  BucketOf <- MCBucketOf
  NUM_ENTRIES = 1
  probing_length = 1
  num_pages_to_sample = 2
  MaxKey = 3
  Val = {v1, v2}
  NoVal = NoVal
  Kinds = {"insert", "remove"}
  ScanLen = {}
  LeafMax = 2
  InnerFull = 2
  nodeID <- MCNodeID
  MaxServerOps = 1
SPECIFICATION ServerSpec
SYMMETRY SlotSymmetry
CONSTRAINT NoDanglingRef
INVARIANTS LookupFailsSafe HopsReachLeaf
PROPERTIES ServerImplementsKV
CHECK_DEADLOCK FALSE
