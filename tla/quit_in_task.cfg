\* quit meets a coroutine it cannot close.
CONSTANTS
  MaxCoroutines = 2
  MaxTasks = 3
  MaxSessions = 2
  PoolSlots = 2
  MaxNesting = 3
  ScriptsQuit = TRUE
  ScriptsWake = FALSE
SPECIFICATION Spec
PROPERTY QuitClosesRest
\* The chunk ends.
CHECK_DEADLOCK FALSE
