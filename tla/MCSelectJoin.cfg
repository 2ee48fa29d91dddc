CONSTANTS
  RPipes = {pr}
  WPipes = {pw}
  Files = {fl}
  Socks = {sk}
  Modes <- MCModes
  Faults <- MCNoFaults
SPECIFICATION FairSpec
PROPERTY JoinEnds
