\* Refinement and liveness: no symmetry, one dependency that can hang, time for an entry
\* to expire and be made again.
CONSTANTS
  Requests = {r1, r2}
  NoRequest = NoRequest
  Enabled = {"redis"}
  CacheTTL = 1
  PingTimeout = 1
  MaxTime = 2

SPECIFICATION FairSpec

PROPERTIES
  ImplementsReadinessService
  EveryRequestAnswered
