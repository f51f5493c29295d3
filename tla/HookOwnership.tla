--------------------------- MODULE HookOwnership ---------------------------
(***************************************************************************)
(* What inlineHook and inlineUnhook promise the modules of a process        *)
(* (loader/src/include/zygisk_next_api.h): an address is hooked once, and   *)
(* again only after it was unhooked.  A call takes effect at one moment     *)
(* between its start and its end, or not at all, and it returns ZN_SUCCESS   *)
(* exactly when it took effect.  It may fail for any reason.               *)
(***************************************************************************)
CONSTANTS Threads, Targets

VARIABLES
  hooks,   \* the addresses that are hooked
  phase,   \* per thread: what its call is and whether it took effect
  told     \* per thread: the answer to the call that has ended

vars == <<hooks, phase, told>>

Idle == [op |-> "none"]
Pending(op, t) == [op |-> op, target |-> t, done |-> FALSE]
Done(op, t) == [op |-> op, target |-> t, done |-> TRUE]

Init ==
  /\ hooks = {}
  /\ phase = [th \in Threads |-> Idle]
  /\ told = [th \in Threads |-> "nothing"]

Begin(th, op, t) ==
  /\ phase[th] = Idle
  /\ phase' = [phase EXCEPT ![th] = Pending(op, t)]
  /\ told' = [told EXCEPT ![th] = "nothing"]
  /\ UNCHANGED hooks

Hook(th, t) ==
  /\ phase[th] = Pending("hook", t)
  /\ t \notin hooks
  /\ hooks' = hooks \cup {t}
  /\ phase' = [phase EXCEPT ![th] = Done("hook", t)]
  /\ UNCHANGED told

Unhook(th, t) ==
  /\ phase[th] = Pending("unhook", t)
  /\ t \in hooks
  /\ hooks' = hooks \ {t}
  /\ phase' = [phase EXCEPT ![th] = Done("unhook", t)]
  /\ UNCHANGED told

\* ZN_SUCCESS from a call that took effect, ZN_FAILED from one that did not.
End(th) ==
  /\ phase[th] # Idle
  /\ told' = [told EXCEPT ![th] = IF phase[th].done THEN "success" ELSE "failed"]
  /\ phase' = [phase EXCEPT ![th] = Idle]
  /\ UNCHANGED hooks

Next ==
  \E th \in Threads :
    \/ \E op \in {"hook", "unhook"}, t \in Targets : Begin(th, op, t)
    \/ \E t \in Targets : Hook(th, t) \/ Unhook(th, t)
    \/ End(th)

Spec == Init /\ [][Next]_vars
=============================================================================
