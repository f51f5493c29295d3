\* Kernel mode and a process that is held for good.
CONSTANTS
  p1 = p1
  p2 = p2
  Pids <- TwoPids
  Settings <- KernelHeld
SPECIFICATION FairSpec
PROPERTY HeldAreReported
CHECK_DEADLOCK FALSE
