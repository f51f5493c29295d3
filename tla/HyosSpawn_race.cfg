\* The spawner and two processes forked from it or from each other; one module too many.
SPECIFICATION Spec
CONSTANTS
  Spawner = spawner
  child = child
  grandchild = grandchild
  Processes = {spawner, child, grandchild}
  Main = main
  Worker = worker
  Modules = {m1, m2}
  Missing = {"setcontext", "setname"}
  HooksFail = TRUE
  MaxModules = 1
SYMMETRY MCSymmetry
INVARIANT ToldOnce
INVARIANT NameIsOwn
PROPERTY HooksRetried
PROPERTY AppIsTold
