\* Two calls, which share the publisher, through the middle one of three instances.
CONSTANTS
  Calls = {c1, c2}
  NoCall = NoCall
  Hops = 3
  Here = 2

SPECIFICATION FairSpec

INVARIANTS
  CleanupLeavesNoCallBehind

PROPERTIES
  ImplementsPublisher
  AcceptedCallsAreAnswered
