SPECIFICATION Spec
CONSTANTS
  p1 = p1
  p2 = p2
  a1 = a1
  a2 = a2
  Procs <- TwoProcs
  Pages <- OnePage
  Views <- OneView
  Addrs <- TwoAddrs
  Faults = {"dup", "alias", "malloc", "read", "setmem", "seek", "write", "fork", "exit", "extwrite", "upgrade"}
  MaxClock = 3
  MaxAttach = 2
  MaxLeaked = 1
SYMMETRY Symmetry
INVARIANT
  BackedAndCounted
