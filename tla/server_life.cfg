\* Two workers, with fairness; one worker id names no worker.
CONSTANTS
  Threads = 2
  MaxRequests = 4
  AskedIds = {0, 1, 3}
  IdSpan = 8
  UINT32_MAX = 31
  BitOr <- WordOr
SPECIFICATION FairSpec
INVARIANT NeverStuck
PROPERTIES PromiseSafe PromiseSettled PostedGoesLive ShutdownEnds
\* The program ends: no step is left once the server is destroyed.
CHECK_DEADLOCK FALSE
