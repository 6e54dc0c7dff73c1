\* async takes a coroutine that a late wake-up has killed in the pool.
CONSTANTS
  MaxCoroutines = 2
  MaxTasks = 3
  MaxSessions = 2
  PoolSlots = 2
  MaxNesting = 3
  ScriptsQuit = FALSE
  ScriptsWake = TRUE
SPECIFICATION Spec
INVARIANT AsyncStarts
\* The chunk ends.
CHECK_DEADLOCK FALSE
