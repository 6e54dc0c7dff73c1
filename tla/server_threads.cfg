\* Two workers; scripts ask for either worker, for none and for one that does
\* not exist.  Enough requests for all callers to pick the same worker at once.
CONSTANTS
  Threads = 2
  MaxRequests = 5
  AskedIds = {0, 1, 3}
  IdSpan = 8
  UINT32_MAX = 31
  BitOr <- WordOr
SPECIFICATION Spec
INVARIANTS TypeOK CountsExact IdsUnique ExplicitHonoured TeardownSafe BalancerBound LoadBound
\* The program ends: no step is left once the server is destroyed.
CHECK_DEADLOCK FALSE
