\* Two leaves in three slots and two buckets of two frames, which the third copy of a page
\* overflows.
CONSTANTS
  Slot = {s1, s2, s3}
  NoSlot = NoSlot
  BackendPages = 3
  bucket_num_ = 2
  BucketOf <- MCBucketOf
  NUM_ENTRIES = 2
  probing_length = 1
  num_pages_to_sample = 2
  Val = {v1, v2}
  IO_FLAG = IO_FLAG
SPECIFICATION AdmSpec
SYMMETRY Symmetry
INVARIANTS FlagWhileLoading AdmissionOwnership PromotionNeverFails WritesAreSeen
CHECK_DEADLOCK FALSE
