\* Two tasks that execute, a ring of two records, a buffer of one line.
CONSTANTS
  Capacity = 2
  Tasks = {t1, t2}
  BufferLines = 1
  Settings <- MCSettings
  MaxLoads = 1
SPECIFICATION Spec
INVARIANT CleanLinesAreTrue
INVARIANT ChannelObserves
INVARIANT ReadOnce
INVARIANT NothingSkipped
PROPERTY Drained
CHECK_DEADLOCK FALSE
