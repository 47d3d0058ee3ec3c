\* Five keys in one chain of two-frame buckets: chains of three, of which the
\* middle one can be emptied and unlinked; two values, so that an operation may
\* name the wrong page.
CONSTANTS
  Addr = {0, 1, 2, 3, 4}
  IO_FLAG = IO_FLAG
  Value = {s1, IO_FLAG}
  Null = Null
  entry_num = 2
  num_entry_in_page_bucket = 2
  HashOf <- MCHashOf
SPECIFICATION Spec
VIEW ChainsOnly
CONSTRAINT OneLoad
INVARIANTS CountsEntries EntryFoundFirst
PROPERTIES ImplementsMap
