\* Two processes in every mode, with and without a foreign tracer.
CONSTANTS
  p1 = p1
  p2 = p2
  Pids <- TwoPids
  Settings <- EveryMode
SPECIFICATION FairSpec
PROPERTY SettledOnce
PROPERTY TargetsSettled
PROPERTY GoneAreForgotten
PROPERTY HeldAreReported
CHECK_DEADLOCK FALSE
