\* Words so narrow that counts and local ids wrap: a request is refused once
\* both workers are full, and ids collide on and between the workers.
CONSTANTS
  Threads = 2
  MaxRequests = 7
  AskedIds = {0, 1}
  IdSpan = 2
  UINT32_MAX = 3
  BitOr <- WordOr
SPECIFICATION Spec
PROPERTIES ServiceKept RefusesOnlyFull
\* The program ends: no step is left once the server is destroyed.
CHECK_DEADLOCK FALSE
