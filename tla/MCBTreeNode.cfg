\* Leaves of four entries over six keys, 0 among them; inner nodes of up to five
\* children over seven keys, in a word of seven bits.
CONSTANTS
  MaxKey = 5
  Val = {v1, v2}
  NoVal = NoVal
  max_entries = 4
  InnerMaxKey = 7
  inner_max_entries = 5
  Child = {c1, c2, c3, c4, c5}
  NoChild = NoChild
  WordBits = 7
SPECIFICATION NodeSpec
SYMMETRY Symmetry
INVARIANTS NodeTypeOK LeafAnswersMap LeafKeysWithinLimits
  WalkReachesChild BitsMarkSwizzled ClosestIsNearest
