\* Two clients and the boot scripts start, restart and stop daemons at once.
CONSTANTS
  c1 = c1
  c2 = c2
  Daemons = {2, 3, 4}
  Clients <- TwoClients
  Commands <- StartStop
  Running = {3}
  Booted = {2}
  Verdicts = {TRUE, FALSE}
  Prompt = TRUE
SPECIFICATION FairInstanceSpec
INVARIANT InstanceTypeOK
INVARIANT OneDaemon
INVARIANT RecordedServes
PROPERTY SuccessorServes
CHECK_DEADLOCK FALSE
