---------------------------- MODULE InlineHook -----------------------------
(***************************************************************************)
(* inlineHook and inlineUnhook of the module API (loader/src/api/hook.cpp)  *)
(* over the engine in use (hook/inline.cpp, hook/backend).  Any thread of    *)
(* the process may call them.  The set of hooked addresses is locked while  *)
(* it is read or written and not while the engine works, and the engines    *)
(* keep books of their own.                                                *)
(*                                                                         *)
(* A hook in place is a stub, a number, and the address it is at.  The       *)
(* libraries behind the backends are not part of the repository: they       *)
(* may refuse a call, they need not notice that an address is hooked        *)
(* already, and the memory of a stub that was freed may serve another.      *)
(***************************************************************************)
EXTENDS HookEngines, Integers, FiniteSets, Functions

CONSTANTS
  Threads, Targets,
  InlineNames,   \* names the plan may carry for the inline engine
  ReuseStubs,    \* whether shadowhook may hand out the memory of a freed stub
  MaxHooks       \* bound: the hooks made (with ReuseStubs: in place at a time)

ASSUME InlineHookAssumption == ReuseStubs \in BOOLEAN /\ MaxHooks \in Nat

VARIABLES
  engine,    \* g_inline_engine
  started,   \* per engine that is started when it is first used: how that went
  hooked,    \* g_hooked of api/hook.cpp
  book,      \* g_records of and64inlinehook.cpp and g_hooked of frida-gum.cpp
  stubs,     \* g_stubs of shadowhook.cpp
  patched,   \* the hooks in place, by stub
  made,      \* the last stub that was handed out
  call,      \* per thread: its call and how far it is
  told       \* per thread: the answer to the call that has ended

vars == <<engine, started, hooked, book, stubs, patched, made, call, told>>

StartedLate == {"shadowhook", "frida-gum"}
WithBook == {"and64inlinehook", "frida-gum"}
NoCall == [at |-> "none", op |-> "none", target |-> "none", stub |-> 0]

Init ==
  /\ engine \in {resolvedInlineEngine(n) : n \in InlineNames}
  /\ started = [e \in StartedLate |-> "not yet"]
  /\ hooked = {} /\ book = [e \in WithBook |-> {}]
  /\ stubs = [t \in {} |-> 0] /\ patched = [s \in {} |-> "none"] /\ made = 0
  /\ call = [th \in Threads |-> NoCall]
  /\ told = [th \in Threads |-> "nothing"]

(***************************************************************************)
(* api/hook.cpp.                                                           *)
(***************************************************************************)

engineVars == <<engine, started>>
hookVars == <<book, stubs, patched, made>>

At(th, at, op) == call[th].at = at /\ call[th].op = op
Target(th) == call[th].target

Goto(th, at) == /\ call' = [call EXCEPT ![th].at = at]
                /\ UNCHANGED told
Answer(th, answer) == /\ told' = [told EXCEPT ![th] = answer]
                      /\ call' = [call EXCEPT ![th] = NoCall]

Call(th, op, t) ==
  /\ call[th] = NoCall
  /\ call' = [call EXCEPT ![th] = [at |-> "called", op |-> op, target |-> t, stub |-> 0]]
  /\ told' = [told EXCEPT ![th] = "nothing"]
  /\ UNCHANGED <<engineVars, hooked, hookVars>>

\* The address is claimed before it is hooked.
\* A bug: the answer of g_hooked.insert is not looked at.
ClaimAnyway(th) ==
  /\ At(th, "called", "hook")
  /\ hooked' = hooked \cup {Target(th)}
  /\ Goto(th, "ready")
  /\ UNCHANGED <<engineVars, hookVars>>

\* The address is claimed before it is hooked.
Claim(th) ==
  /\ At(th, "called", "hook")
  /\ \/ /\ Target(th) \notin hooked
        /\ hooked' = hooked \cup {Target(th)}
        /\ Goto(th, "ready")
     \/ /\ Target(th) \in hooked
        /\ Answer(th, "failed")
        /\ UNCHANGED hooked
  /\ UNCHANGED <<engineVars, hookVars>>

CheckHooked(th) ==
  /\ At(th, "called", "unhook")
  /\ \/ Target(th) \in hooked /\ Goto(th, "ready")
     \/ Target(th) \notin hooked /\ Answer(th, "failed")
  /\ UNCHANGED <<engineVars, hooked, hookVars>>

\* The backend hooked it.
HookDone(th) ==
  /\ At(th, "done", "hook")
  /\ Answer(th, "success")
  /\ UNCHANGED <<engineVars, hooked, hookVars>>

\* A bug: an address the backend refused to hook stays claimed.
ForgetOnSuccess(th) ==
  /\ \/ At(th, "refused", "hook") /\ Answer(th, "failed") /\ UNCHANGED hooked
     \/ /\ At(th, "done", "unhook") /\ Answer(th, "success")
        /\ hooked' = hooked \ {Target(th)}
  /\ UNCHANGED <<engineVars, hookVars>>

\* The backend did not hook it, or it unhooked it: the address is free again.
Forget(th) ==
  /\ \/ At(th, "refused", "hook") /\ Answer(th, "failed")
     \/ At(th, "done", "unhook") /\ Answer(th, "success")
  /\ hooked' = hooked \ {Target(th)}
  /\ UNCHANGED <<engineVars, hookVars>>

\* The backend did not unhook it: it stays hooked.
NotUnhooked(th) ==
  /\ At(th, "refused", "unhook")
  /\ Answer(th, "failed")
  /\ UNCHANGED <<engineVars, hooked, hookVars>>

(***************************************************************************)
(* ensureInlineEngineReady.  An engine that could not be started once is    *)
(* not started again; the thread that learns of it turns to the default.    *)
(***************************************************************************)

\* A bug: once the start was tried, the engine is taken to be ready.
EnsureTried(th) ==
  /\ call[th].at = "ready"
  /\ started' = IF engine \in StartedLate /\ started[engine] = "not yet"
                 THEN [started EXCEPT ![engine] = "failed"] ELSE started
  /\ Goto(th, IF started' # started THEN "fall back" ELSE "dispatch")
  /\ UNCHANGED <<engine, hooked, hookVars>>

EnsureReady(th) ==
  /\ call[th].at = "ready"
  /\ \/ /\ engine \notin StartedLate
        /\ UNCHANGED started
        /\ Goto(th, "dispatch")
     \/ /\ engine \in StartedLate
        /\ \E how \in {"ready", "failed"} :
             /\ started[engine] \in {"not yet", how}
             /\ started' = [started EXCEPT ![engine] = how]
             /\ Goto(th, IF how = "ready" THEN "dispatch" ELSE "fall back")
  /\ UNCHANGED <<engine, hooked, hookVars>>

FallBack(th) ==
  /\ call[th].at = "fall back"
  /\ engine' = defaultInlineEngine
  /\ Goto(th, "dispatch")
  /\ UNCHANGED <<started, hooked, hookVars>>

(***************************************************************************)
(* The backends, hooking.  A failure leaves nothing behind: the target is   *)
(* restored and the trampoline unmapped (and64inlinehook), the book entry   *)
(* taken back (frida-gum).                                                 *)
(***************************************************************************)

NewStubs == IF ReuseStubs THEN (1..MaxHooks) \ DOMAIN patched
            ELSE {made + 1} \cap (1..MaxHooks)

Patch(th, s) ==
  /\ patched' = [x \in DOMAIN patched \cup {s} |-> IF x = s THEN Target(th) ELSE patched[x]]
  /\ made' = IF ReuseStubs THEN made ELSE s

\* A library that keeps the only book.
HookPlain(th) ==
  /\ \E s \in NewStubs : Patch(th, s)
  /\ Goto(th, "done")
  /\ UNCHANGED <<book, stubs>>

dobbyHook(th) == engine = "dobby" /\ HookPlain(th)
rv64hookHook(th) == engine = "rv64hook" /\ HookPlain(th)

\* A backend with a book, under its lock.
HookWithBook(th) ==
  /\ Target(th) \notin book[engine]
  /\ \E s \in NewStubs : Patch(th, s)
  /\ book' = [book EXCEPT ![engine] = @ \cup {Target(th)}]
  /\ Goto(th, "done")
  /\ UNCHANGED stubs

and64inlinehookHook(th) == engine = "and64inlinehook" /\ HookWithBook(th)
fridaGumHook(th) == engine = "frida-gum" /\ HookWithBook(th)

\* A bug: the stub is noted before it is known to be one.
HookUntested(th) ==
  /\ engine = "shadowhook"
  /\ \E s \in NewStubs \cup {0} :
       /\ IF s = 0 THEN UNCHANGED <<patched, made>> ELSE Patch(th, s)
       /\ call' = [call EXCEPT ![th].at = "note stub", ![th].stub = s]
  /\ UNCHANGED <<book, stubs, told>>

\* The lock is taken to note the stub, not to hook.
shadowhookHook(th) ==
  /\ engine = "shadowhook"
  /\ \E s \in NewStubs :
       /\ Patch(th, s)
       /\ call' = [call EXCEPT ![th].at = "note stub", ![th].stub = s]
  /\ UNCHANGED <<book, stubs, told>>

BackendHooks(th) ==
  /\ At(th, "dispatch", "hook")
  /\ \/ dobbyHook(th) \/ rv64hookHook(th)
     \/ and64inlinehookHook(th) \/ fridaGumHook(th)
     \/ shadowhookHook(th)
  /\ UNCHANGED <<engineVars, hooked>>

NoteStub(th) ==
  /\ call[th].at = "note stub"
  /\ stubs' = [t \in DOMAIN stubs \cup {Target(th)} |->
                 IF t = Target(th) THEN call[th].stub ELSE stubs[t]]
  /\ Goto(th, "done")
  /\ UNCHANGED <<engineVars, hooked, book, patched, made>>

\* The library refuses, there is no memory, the engine is "disable".
BackendRefuses(th) ==
  /\ call[th].at = "dispatch"
  /\ Goto(th, "refused")
  /\ UNCHANGED <<engineVars, hooked, hookVars>>

(***************************************************************************)
(* The backends, unhooking.                                                *)
(***************************************************************************)

Unpatch(ss) == /\ patched' = Restrict(patched, DOMAIN patched \ ss)
               /\ UNCHANGED made

StubsAt(t) == {s \in DOMAIN patched : patched[s] = t}

UnhookPlain(th) ==
  /\ \E s \in StubsAt(Target(th)) : Unpatch({s})
  /\ Goto(th, "done")
  /\ UNCHANGED <<book, stubs>>

dobbyUnhook(th) == engine = "dobby" /\ UnhookPlain(th)
rv64hookUnhook(th) == engine = "rv64hook" /\ UnhookPlain(th)

UnhookWithBook(th) ==
  /\ Target(th) \in book[engine]
  /\ Unpatch(StubsAt(Target(th)))
  /\ book' = [book EXCEPT ![engine] = @ \ {Target(th)}]
  /\ Goto(th, "done")
  /\ UNCHANGED stubs

and64inlinehookUnhook(th) == engine = "and64inlinehook" /\ UnhookWithBook(th)
fridaGumUnhook(th) == engine = "frida-gum" /\ UnhookWithBook(th)

\* shadowhook: the stub is looked up under the lock and used after it.
FindStub(th) ==
  /\ engine = "shadowhook"
  /\ Target(th) \in DOMAIN stubs
  /\ call' = [call EXCEPT ![th].at = "unhook stub", ![th].stub = stubs[Target(th)]]
  /\ UNCHANGED <<hookVars, told>>

BackendUnhooks(th) ==
  /\ At(th, "dispatch", "unhook")
  /\ \/ dobbyUnhook(th) \/ rv64hookUnhook(th)
     \/ and64inlinehookUnhook(th) \/ fridaGumUnhook(th)
     \/ FindStub(th)
  /\ UNCHANGED <<engineVars, hooked>>

UnhookStub(th) ==
  /\ call[th].at = "unhook stub"
  /\ \/ /\ call[th].stub \in DOMAIN patched
        /\ Unpatch({call[th].stub})
        /\ Goto(th, "drop stub")
     \/ Goto(th, "refused") /\ UNCHANGED <<patched, made>>
  /\ UNCHANGED <<engineVars, hooked, book, stubs>>

DropStub(th) ==
  /\ call[th].at = "drop stub"
  /\ stubs' = Restrict(stubs, DOMAIN stubs \ {Target(th)})
  /\ Goto(th, "done")
  /\ UNCHANGED <<engineVars, hooked, book, patched, made>>

ThreadStep(th) ==
  \/ \E op \in {"hook", "unhook"}, t \in Targets : Call(th, op, t)
  \/ Claim(th) \/ CheckHooked(th) \/ HookDone(th) \/ Forget(th) \/ NotUnhooked(th)
  \/ EnsureReady(th) \/ FallBack(th)
  \/ BackendHooks(th) \/ NoteStub(th) \/ BackendRefuses(th)
  \/ BackendUnhooks(th) \/ UnhookStub(th) \/ DropStub(th)

Next == \E th \in Threads : ThreadStep(th)

Spec == Init /\ [][Next]_vars

(***************************************************************************)
(* Properties.                                                             *)
(***************************************************************************)

Stubs == 1..MaxHooks
Places == {"called", "ready", "fall back", "dispatch", "note stub", "unhook stub",
           "drop stub", "refused", "done"}
Calls == [at : Places, op : {"hook", "unhook"}, target : Targets, stub : Stubs \cup {0}]

TypeOK ==
  /\ engine \in InlineEngines
  /\ started \in [StartedLate -> {"not yet", "ready", "failed"}]
  /\ hooked \subseteq Targets
  /\ book \in [WithBook -> SUBSET Targets]
  /\ DOMAIN stubs \subseteq Targets /\ \A t \in DOMAIN stubs : stubs[t] \in Stubs \cup {0}
  /\ DOMAIN patched \subseteq Stubs /\ \A s \in DOMAIN patched : patched[s] \in Targets
  /\ made \in Nat
  /\ call \in [Threads -> Calls \cup {NoCall}]
  /\ told \in [Threads -> {"nothing", "success", "failed"}]

\* A hook takes effect when the library has patched the address and an unhook when
\* it has restored it; from then on the call only does its books.
Effective(th) ==
  \/ call[th].op = "hook" /\ call[th].at \in {"note stub", "done"}
  \/ call[th].op = "unhook" /\ call[th].at \in {"drop stub", "done"}

Phase(th) ==
  IF call[th] = NoCall THEN [op |-> "none"]
  ELSE [op |-> call[th].op, target |-> call[th].target, done |-> Effective(th)]

HookedNow == {patched[s] : s \in DOMAIN patched}

Promise == INSTANCE HookOwnership WITH
             hooks <- HookedNow, phase <- [th \in Threads |-> Phase(th)]

\* Whatever the threads do at the same time, every call of inlineHook and
\* inlineUnhook behaves as if it happened at one moment: two modules racing for one
\* address are never both told that they hooked it, an address is hooked again only
\* after it was unhooked, ZN_SUCCESS is the answer exactly of a call that did what
\* it was asked for (api/hook.cpp, zygisk_next_api.h:33-44).
KeepsPromise == Promise!Spec

\* When no call is under way, the three sets of hooked addresses are the same: the
\* one of the API, the one of the backend in use and the code of the process.  An
\* address left in one of them only could never be hooked, or never be unhooked.
BooksAgree ==
  (\A th \in Threads : call[th] = NoCall) =>
    /\ hooked = HookedNow
    /\ engine \in WithBook => book[engine] = HookedNow
    /\ engine = "shadowhook" =>
         /\ DOMAIN stubs = HookedNow
         /\ \A t \in HookedNow : stubs[t] \in DOMAIN patched /\ patched[stubs[t]] = t

\* A call is dispatched to an engine that was built for the architecture and that
\* did start, although the engine is chosen, started and replaced by several threads
\* without a lock (engine.cpp, ensureInlineEngineReady).
EngineWorks ==
  \A th \in Threads : call[th].at = "dispatch" =>
    /\ inlineEngineSupported(engine)
    /\ engine \in StartedLate => started[engine] = "ready"
=============================================================================
