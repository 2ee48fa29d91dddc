SPECIFICATION LibSpec
CONSTANTS
  Fds <- MCFds
  Type <- MCType
  FD_SETSIZE = 3
  Asks <- MCAsks
  MaxFds = {1, 2}
  Changing <- MCChanging
  LoaderThreads = {1, 2}
  Present <- MCPresent
  MaxItems = 3
  Room = 1
  PipeThreads <- MCPipeThreads
  First = 1
  MaxPipes = 3
  Pages = 7
  Chunk = 3
  MaxTmps = 4
PROPERTY
  AliasRetries
CHECK_DEADLOCK FALSE
