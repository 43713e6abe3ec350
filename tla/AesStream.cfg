SPECIFICATION Spec
CONSTANTS
  B = 2
  L4 = 1
  L8 = 2
  L = 3
  SHORT_MAX = 2
  L4_MAX = 5
  L8_MAX = 16
  Lengths = {0, 1, 2, 3, 4, 5, 6, 7, 8, 9, 10, 11, 12, 13, 14, 15, 16, 17, 18, 19, 20, 21, 22, 23, 24, 25, 26}
  MaxInput = 34
  USIZE = 64
INVARIANTS
  TypeOK
  BufferWindow
  LanesHoldBlocks
  ClosingRegionBuffered
  StreamEqualsOneShot
PROPERTIES
  AbsorbedIsPrefix
