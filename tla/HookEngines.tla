---------------------------- MODULE HookEngines ----------------------------
(***************************************************************************)
(* The choice of the hook engines (loader/src/hook/engine.cpp and           *)
(* config/hooks.cpp).  An engine is its name in the configuration; the      *)
(* plan of the daemon carries two names, and a name that is unknown or not  *)
(* built for this architecture stands for the default.                     *)
(***************************************************************************)

CONSTANT Arch   \* the architecture the loader is built for

ASSUME ArchAssumption == Arch \in {"arm64", "arm", "x86_64", "x86", "riscv64"}

InlineEngines ==
  {"dobby", "shadowhook", "and64inlinehook", "frida-gum", "rv64hook", "disable"}
PltEngines == {"lsplt", "bytehook", "xhook", "plti", "disable"}

\* A backend that is not built for the architecture is a stub that fails.
inlineEngineSupported(e) ==
  \/ e = "disable"
  \/ e \in {"dobby", "frida-gum"} /\ Arch # "riscv64"
  \/ e = "shadowhook" /\ Arch \in {"arm64", "arm"}
  \/ e = "and64inlinehook" /\ Arch = "arm64"
  \/ e = "rv64hook" /\ Arch = "riscv64"

pltEngineSupported(e) ==
  \/ e \in {"lsplt", "plti", "disable"}
  \/ e \in {"bytehook", "xhook"} /\ Arch # "riscv64"

defaultInlineEngine == IF Arch = "riscv64" THEN "rv64hook" ELSE "dobby"
defaultPltEngine == "lsplt"

parseInlineEngine(name) == name \in InlineEngines /\ inlineEngineSupported(name)
parsePltEngine(name) == name \in PltEngines /\ pltEngineSupported(name)

setInlineEngine(old, e) == IF inlineEngineSupported(e) THEN e ELSE old
setPltEngine(old, e) == IF pltEngineSupported(e) THEN e ELSE old

\* resolveHookEngines.
resolvedInlineEngine(name) ==
  setInlineEngine(defaultInlineEngine,
                  IF parseInlineEngine(name) THEN name ELSE defaultInlineEngine)
resolvedPltEngine(name) ==
  setPltEngine(defaultPltEngine,
               IF parsePltEngine(name) THEN name ELSE defaultPltEngine)
=============================================================================
