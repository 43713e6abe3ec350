\* Lengths at the ends of the regimes; five inputs fill the group of four and
\* reuse a slot of it, and fill the group of two twice and leave one over.
SPECIFICATION Spec
CONSTANTS
  B = 16
  L4 = 4
  L8 = 8
  L = 16
  SHORT_MAX = 64
  L4_MAX = 256
  L8_MAX = 1024
  Lengths = {64, 65, 257, 1024, 1025}
  MaxBatch = 5
INVARIANTS
  TypeOK
  StoresOwnHash
  PendingOnce
  StoredOnce
PROPERTIES
  EveryInputStored
\* A batch ends.
CHECK_DEADLOCK FALSE
