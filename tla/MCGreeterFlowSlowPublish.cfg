\* No fault but a slow broker behind the second instance.
CONSTANTS
  Calls = {c1}
  Hops = 2
  RemoteFaults = FALSE

SPECIFICATION Spec

INVARIANTS
  PublishFailureKeepsTheFlow
