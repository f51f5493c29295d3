\* One process on x86 with everything that may disturb an injection.
CONSTANTS
  p1 = p1
  p2 = p2
  Procs <- OneProc
  Services <- OneProc
  MaxModules = 2
  X86 = TRUE
  Disturbances <- Everything
SPECIFICATION FairSpec
INVARIANT UntracedIntact
INVARIANT InitIsRecorded
PROPERTY SuccessMeansInit
PROPERTY CallsComplete
PROPERTY InjectionEnds
CHECK_DEADLOCK FALSE
