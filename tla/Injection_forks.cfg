\* A service and its fork on arm64: copied breakpoints, copied loaders, SIGTERM at any point.
CONSTANTS
  p1 = p1
  p2 = p2
  Procs <- TwoProcs
  Services <- OneProc
  MaxModules = 1
  X86 = FALSE
  Disturbances <- Stopping
SPECIFICATION Spec
INVARIANT UntracedIntact
INVARIANT OwnedIsTraced
INVARIANT NobodyLeftParked
PROPERTY LoadedOnce
CHECK_DEADLOCK FALSE
