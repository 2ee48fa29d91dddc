SPECIFICATION Spec
CONSTANTS
  Pages <- MCPages
  Programs <- MCPrograms
  Fds = {0, 1, 2}
  MaxMaps = 2
  AnonFds <- MCAnonFds
  FixedOver = {"private", "anon", "shared anon", "program"}
INVARIANTS
  TypeOK
  ResourcesOwned
  
