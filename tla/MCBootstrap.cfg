\* Every combination of disabled, refused and enabled providers; two requests.
CONSTANTS
  Requests = {r1, r2}

SPECIFICATION FairSpec

INVARIANTS
  TypeOK
  NothingLeaks
  RequestsSeeAllResources
  ServersHaveResources

PROPERTIES
  ImplementsScopedResources
  StopExits
