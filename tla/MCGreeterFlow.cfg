\* Two calls through a chain with a first, a middle and a last instance.
CONSTANTS
  Calls = {c1, c2}
  Hops = 3
  RemoteFaults = TRUE

SPECIFICATION FairSpec

INVARIANTS
  TypeOK
  EventsFollowTheSave
  OneEventPerInstance
  BlankNameHasNoEffect
  AnswersTellOfTheSave

PROPERTIES
  EveryCallAnswered
