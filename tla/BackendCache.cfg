SPECIFICATION CacheSpec
CONSTANTS
  Callers = {t1, t2, t3}
  MaxCalls = 2
INVARIANTS
  TypeOK
  OneSupportedBackend
  DetectsOncePerThread
CHECK_DEADLOCK FALSE
