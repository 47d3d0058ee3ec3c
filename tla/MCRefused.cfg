\* One slot, so that a page has one copy and the order of flush_all's writes is no question.
\* It stands for the free slot of a pool whose other slots hold other pages.  Expected to fail.
CONSTANTS
  Slot = {s1}
  NoSlot = NoSlot
  BackendPages = 2
  bucket_num_ = 1
  BucketOf <- MCBucketOf
  NUM_ENTRIES = 2
  probing_length = 1
  num_pages_to_sample = 1
  Val = {v1, v2}
  IO_FLAG = IO_FLAG
SPECIFICATION AdmSpec
INVARIANT RefusalsLoseNothing
CHECK_DEADLOCK FALSE
