\* Every engine, bytehook that does not start included; with lsplt, which does not keep
\* its books while it patches, one call for a slot at a time.
SPECIFICATION Spec
CONSTANTS
  Arch = "arm64"
  Modules = {m1, m2, m3}
  Slots = {s1, s2, gone}
  Absent = {gone}
  PltNames = {"lsplt", "bytehook", "xhook", "plti", "disable"}
  Starts = {"ready", "failed"}
  Serialised = {"lsplt"}
SYMMETRY MCSymmetry
INVARIANT SlotsAgree
INVARIANT UnhookIsRecognised
