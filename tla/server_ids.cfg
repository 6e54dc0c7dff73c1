\* Local ids of two bits: one worker can be given more services than it has
\* local ids, and the next one runs into the worker's bits.
CONSTANTS
  Threads = 2
  MaxRequests = 6
  AskedIds = {0, 1}
  IdSpan = 4
  UINT32_MAX = 15
  BitOr <- WordOr
SPECIFICATION Spec
PROPERTY LostOnlyWhenSpent
\* The program ends: no step is left once the server is destroyed.
CHECK_DEADLOCK FALSE
