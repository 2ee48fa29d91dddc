SPECIFICATION Spec
CONSTANTS
  t1 = t1
  t2 = t2
  Threads <- MCThreads
  MaxFd = 7
  Tables <- MCTables
  Home <- MCHome
  Exe <- MCExe
  Lists <- MCLists
  Stdfds <- MCStdfds
  Existing <- MCExisting
  Dirs <- MCDirs
  Chunk = 2
  PipeR = 3
  PipeW = 4
  Known = 5
  Null <- MCNull
  Data <- MCData
INVARIANTS
  TypeOK
  ParentRestored
  ChildAsPosix
  TargetsAsPosix
  TestsPass
