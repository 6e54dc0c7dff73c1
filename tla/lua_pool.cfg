\* Scripts that neither quit nor wake up: async always starts its task.
CONSTANTS
  MaxCoroutines = 3
  MaxTasks = 4
  MaxSessions = 2
  PoolSlots = 4
  MaxNesting = 4
  ScriptsQuit = FALSE
  ScriptsWake = FALSE
SPECIFICATION Spec
INVARIANTS AsyncStarts PoolKeepsIdle
\* The chunk ends.
CHECK_DEADLOCK FALSE
