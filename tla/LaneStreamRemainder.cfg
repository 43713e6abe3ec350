SPECIFICATION Spec
CONSTANTS
  STRIPE = 2
  CHAINS = 3
  Lengths = {0, 1, 2, 3, 4, 5, 6, 7, 8, 9, 10, 11, 12, 13, 14, 15, 16, 17, 18, 19, 20, 21, 22, 23, 24}
  MaxInput = 24
  USIZE = 64
INVARIANTS
  RemainderBelowChains
