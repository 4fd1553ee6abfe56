SPECIFICATION HttpSpec
CONSTANTS
  Threads = {t1}
  Callers = {c1}
  Owner = owner
  Parked = parked
  EngineTimeout <- MCEngineTimeout
  RequestTimeout <- MCRequestTimeout
  AgeBound = 3
CHECK_DEADLOCK FALSE
INVARIANT RequestTimeoutHonoured
