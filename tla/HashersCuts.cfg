SPECIFICATION Spec
CONSTANTS
  Threads = {t1, t2}
  Functions = {"aes"}
  Strings <- MCWords
  Numbers = {}
  MaxWrites = 2
INVARIANTS
  WriteSequencesDisambiguated
CHECK_DEADLOCK FALSE
