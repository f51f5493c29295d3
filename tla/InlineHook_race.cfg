\* Every engine of arm64, three threads and two addresses.
SPECIFICATION Spec
CONSTANTS
  Arch = "arm64"
  Threads = {th1, th2, th3}
  Targets = {t1, t2}
  InlineNames = {"dobby", "shadowhook", "and64inlinehook", "frida-gum", "rv64hook"}
  ReuseStubs = FALSE
  MaxHooks = 3
SYMMETRY MCSymmetry
INVARIANT BooksAgree
INVARIANT EngineWorks
PROPERTY KeepsPromise
