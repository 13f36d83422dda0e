\* A slow early request overwrites the cache after a later one reported an outage.
CONSTANTS
  Requests = {r1, r2}
  NoRequest = NoRequest
  Enabled = {"postgres"}
  CacheTTL = 2
  PingTimeout = 1
  MaxTime = 3

SPECIFICATION ReportsSpec

INVARIANTS
  OutageStaysReported
