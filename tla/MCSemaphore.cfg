SPECIFICATION FairSpec
CONSTANTS
  t1 = t1
  t2 = t2
  t3 = t3
  Threads <- ThreeThreads
  NoThread = NoThread
  SEM_VALUE_MAX = 2
  RequestRCs = {"ok"}
  MaxOwed = 3
INVARIANTS
  TypeOK
  EventMatchesCount
  DestroyTouchesNoCaller
  HandlesAllOrNothing
PROPERTIES
  Implements
  WaiterWoken
  PostReturns
