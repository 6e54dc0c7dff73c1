\* async takes a coroutine that quit has closed in the pool.
CONSTANTS
  MaxCoroutines = 2
  MaxTasks = 3
  MaxSessions = 2
  PoolSlots = 2
  MaxNesting = 3
  ScriptsQuit = TRUE
  ScriptsWake = FALSE
SPECIFICATION Spec
INVARIANT AsyncStarts
\* The chunk ends.
CHECK_DEADLOCK FALSE
