\* The default engine, two modules hooking one slot at the same time.
SPECIFICATION Spec
CONSTANTS
  Arch = "arm64"
  Modules = {m1, m2}
  Slots = {s1, s2, gone}
  Absent = {gone}
  PltNames = {"lsplt"}
  Starts = {"ready"}
  Serialised = {}
SYMMETRY MCSymmetry
INVARIANT UnhookIsRecognised
