\* Scripts that do everything, with a chain limit that nested calls reach.
CONSTANTS
  MaxCoroutines = 3
  MaxTasks = 4
  MaxSessions = 2
  PoolSlots = 4
  MaxNesting = 3
  ScriptsQuit = TRUE
  ScriptsWake = TRUE
SPECIFICATION Spec
INVARIANTS TypeOK PoolIdle ChainSound
PROPERTIES SessionStable QuitClosesUnlessNested PoolPromise LossExplained
\* The chunk ends.
CHECK_DEADLOCK FALSE
