\* Every length of a single input up to two steps beyond BULK.
SPECIFICATION KernelSpec
CONSTANTS
  B = 2
  L4 = 2
  L8 = 4
  L = 6
  SHORT_MAX = 4
  L4_MAX = 16
  L8_MAX = 32
  BULK = 46
  Backends = {"spec", "aesni", "vaes256", "vaesvl", "neon"}
  Lengths = {5, 6, 7, 8, 9, 10, 11, 12, 13, 14, 15, 16, 17, 18, 19, 20, 21, 22, 23, 24, 25, 26, 27, 28, 29, 30, 31, 32, 33, 34, 35, 36, 37, 38, 39, 40, 41, 42, 43, 44, 45, 46, 47, 48, 49, 50, 51, 52, 53, 54, 55, 56, 57, 58, 59, 60}
  Batch4 = {5, 9, 16}
  Batch2 = {17, 19, 21, 24, 25, 28, 29, 32}
INVARIANTS
  KernelEqualsLanesHash
  NoOverread
\* A kernel returns.
CHECK_DEADLOCK FALSE
