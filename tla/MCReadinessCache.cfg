\* Two overlapping requests, a dependency before and one after a disabled one,
\* and time for an entry to be made, expire and be made again.
CONSTANTS
  Requests = {r1, r2}
  NoRequest = NoRequest
  Enabled = {"postgres", "mongodb"}
  CacheTTL = 2
  PingTimeout = 1
  MaxTime = 3

SPECIFICATION Spec

SYMMETRY Symmetry

INVARIANTS
  TypeOK
  FreshReply
  OutageReportedWithinTTL
  AnswerAgreesWithChecks
  CacheWriterIsAlone
