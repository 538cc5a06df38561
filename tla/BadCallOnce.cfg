CONSTANTS
  Threads = {t1, t2}
  NoThread = NoThread
SPECIFICATION OnceSpec
INVARIANTS NobodyThrows
CHECK_DEADLOCK FALSE
