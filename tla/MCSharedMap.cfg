SPECIFICATION Spec
CONSTANTS
  p1 = p1
  p2 = p2
  a1 = a1
  a2 = a2
  Procs <- TwoProcs
  Pages <- TwoPages
  Views <- TwoViews
  Addrs <- TwoAddrs
  Faults = {"dup", "alias", "malloc", "setmem", "fork", "exit"}
  MaxClock = 3
  MaxAttach = 2
  MaxLeaked = 1
SYMMETRY Symmetry
INVARIANTS
  TypeOK
  AliasBacked
  RefCountConserved
  NoLostStore
  MapCurrent
PROPERTIES
  FileNeverGoesBack
  StoresSurviveLoad
