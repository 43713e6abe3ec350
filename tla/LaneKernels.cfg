SPECIFICATION Spec
CONSTANTS
  STRIPE = 2
  CHAINS = 3
  Kernels = {"register", "memory", "array", "scalar"}
  MaxLen = 26
INVARIANTS
  KernelEqualsSpec
  NoOverread
  EveryByteAbsorbed
CHECK_DEADLOCK FALSE
