SPECIFICATION Spec
CONSTANTS
  c1 = c1
  c2 = c2
  n1 = n1
  n2 = n2
  n3 = n3
  Calls = {c1, c2}
  Names = {n1, n2, n3}
  Envs <- MCEnvs
  ENV_SIZE_MAX = 11
  ENV_STR_MAX = 5
  Other = other
SYMMETRY MCSymmetry
INVARIANTS
  TypeOK
  ChildServed
  FilesListed
  EnvWhole
CHECK_DEADLOCK FALSE
