SPECIFICATION Spec
CONSTANTS
  H = 8
  LongLengths = {65, 256, 257, 1024, 1025}
INVARIANTS
  ReadsExactlyInput
  ZeroOperandKeepsInput
  PortsAgree
  MulExact
  RoundsAgree
CHECK_DEADLOCK FALSE
