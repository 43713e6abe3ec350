SPECIFICATION Spec
CONSTANTS
  Threads = {t1, t2}
  Functions = {"default", "aes"}
  Strings <- MCStrings
  Numbers <- MCNumbers
  MaxWrites = 2
INVARIANTS
  OneSeed
  DigestTellsData
  DigestTellsCuts
PROPERTIES
  NewReturns
CHECK_DEADLOCK FALSE
