SPECIFICATION Spec
CONSTANTS
  l1 = l1
  l2 = l2
  l3 = l3
  absent = absent
  empty = empty
  Launches = {l1, l2, l3}
  Absent = absent
  Empty = empty
  MaxBreaks = 2
  MaxRemovals = 1
SYMMETRY Alike
INVARIANTS
  TypeOK
  ChainComplete
  ThumbprintNamesRoots
  FailsForCause
