\* Two threads of the target and one of its child, with and without faults.
SPECIFICATION FairSpec
CHECK_DEADLOCK FALSE
CONSTANTS
  Parent = parent
  Child = child
  p1 = p1
  p2 = p2
  c1 = c1
  Callers = {p1, p2, c1}
  Threads <- MCThreads
  MaxCalls = 2
  Settings <- MCSettings
INVARIANT ServedOnce
PROPERTY FailsOnlyWithoutHelper
PROPERTY GoesWhenDone
PROPERTY Reaches
PROPERTY Returns
