SPECIFICATION LanesSpec
CONSTANTS
  Block <- MCBlock
  Zero = 0
  XorTable <- MCXor
  M <- MCM
  Seeds <- MCBlock
  MaxBlocks = 3
PROPERTIES
  ImplementsSandwich
  ShiftedImplementsSandwich
CHECK_DEADLOCK FALSE
