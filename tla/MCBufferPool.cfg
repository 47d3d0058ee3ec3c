\* Two two-frame buckets, so that a bucket overflows while the other is
\* empty, and more addresses than buckets, so that copies of a page pile up.
CONSTANTS
  Slot = {s1, s2, s3, s4}
  NoSlot = NoSlot
  BackendPages = 5
  bucket_num_ = 2
  BucketOf <- MCBucketOf
  NUM_ENTRIES = 2
  probing_length = 1
  num_pages_to_sample = 2
SPECIFICATION FairPoolSpec
INVARIANTS PoolTypeOK SlotOwnership OnlyHotDirty PageTableAgrees
PROPERTIES GetPageTerminates
CHECK_DEADLOCK FALSE
