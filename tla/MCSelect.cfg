CONSTANTS
  RPipes = {pr}
  WPipes = {pw}
  Files = {fl}
  Socks = {sk}
  Modes <- MCModes
  Faults <- MCFaults
SPECIFICATION FairSpec
INVARIANTS TypeOK ReportedWereReady HeldReported ResourcesReleased ResultsStable
PROPERTIES TimedReturns
