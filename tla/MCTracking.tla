----------------------------- MODULE MCTracking -----------------------------
(* Instances of Tracking for TLC: p1 may be held by another loader.        *)
EXTENDS Tracking

CONSTANTS p1, p2

TwoPids == {p1, p2}

Setting(m, src, holds, drops) ==
  [mode |-> m, sources |-> src, held |-> holds, released |-> drops]

(* Kernel mode with two sources and no foreign tracer; late mode with kernel *)
(* events and a process that is held for good; late mode without events and  *)
(* a process that is held for a while; polling and one held for good.        *)
EveryMode == {
  Setting("kernel", {"tracefs", "fanotify"}, {}, {}),
  Setting("late", {"tracefs", "bpf"}, {p1}, {}),
  Setting("late", {}, {p1}, {p1}),
  Setting("proc", {}, {p1}, {}) }

KernelHeld == {Setting("kernel", {"tracefs"}, {p1}, {})}
=============================================================================
