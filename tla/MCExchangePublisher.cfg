\* Three callers, so that two can queue behind a dial, and two exchanges.
CONSTANTS
  Callers = {c1, c2, c3}
  NoCaller = NoCaller
  Exchanges = {e1, e2}

SPECIFICATION FairSpec

INVARIANTS
  TypeOK
  OneConnectionPerExchange
  NothingLeftOpen
  SendsOnOpenConnection
  ClientsMapNotRaced

PROPERTIES
  EveryPublishReturns
  ShutdownCompletes
  ImplementsSharedConnections
