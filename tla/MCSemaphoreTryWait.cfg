SPECIFICATION FairSpec
CONSTANTS
  t1 = t1
  t2 = t2
  t3 = t3
  Threads <- TwoThreads
  NoThread = NoThread
  SEM_VALUE_MAX = 2
  RequestRCs = {"ok"}
  MaxOwed = 2
PROPERTY
  TryWaitReturns
