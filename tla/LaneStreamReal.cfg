\* The constants of the code; updates around every boundary of the buffer.
SPECIFICATION Spec
CONSTANTS
  STRIPE = 64
  CHAINS = 8
  Lengths = {0, 1, 63, 64, 65, 511, 512, 575, 576, 577, 1088}
  MaxInput = 2000
  USIZE = 1073741824
INVARIANTS
  IndInv
  StreamEqualsOneShot
