-------------------------- MODULE InlineHookProofs --------------------------
(***************************************************************************)
(* Proofs about InlineHook: whatever the architecture, the threads, the      *)
(* addresses and the number of hooks, a call is dispatched to an engine that  *)
(* works, and where a stub is not handed out twice the calls implement        *)
(* HookOwnership and leave the books in agreement.                           *)
(***************************************************************************)
EXTENDS InlineHook, TLAPS

\* A thread that owns its address: nobody else can hook or unhook it meanwhile.
Claims(th) ==
  \/ call[th].op = "hook" /\ call[th].at \in {"ready", "fall back", "dispatch", "refused"}
  \/ call[th].op = "unhook" /\ call[th].at \in {"drop stub", "done"}

\* The engine was built and, where a call relies on it, started.
EngineInv ==
  /\ inlineEngineSupported(engine)
  /\ \A th \in Threads :
       /\ call[th].at = "fall back" =>
            \/ engine = defaultInlineEngine
            \/ engine \in StartedLate /\ started[engine] = "failed"
       /\ call[th].at = "dispatch" => (engine \in StartedLate => started[engine] = "ready")
       /\ call[th].at \in {"note stub", "unhook stub", "drop stub"} =>
            engine = "shadowhook" /\ started["shadowhook"] = "ready"

OrderInv ==
  \A th \in Threads :
    /\ call[th].at = "note stub" => call[th].op = "hook"
    /\ call[th].at \in {"unhook stub", "drop stub"} => call[th].op = "unhook"

\* A stub that is in place is the one it was when it was handed out, and one that is
\* not noted yet is known to one thread.
KnowsStub(th) == call[th].at \in {"note stub", "unhook stub"}
StubFor(s, t) == s =< made /\ (s \in DOMAIN patched => patched[s] = t)

StubsMade == \A s \in DOMAIN patched : s =< made
OneStubEach == \A s, r \in DOMAIN patched : patched[s] = patched[r] => s = r
NotedStubs == \A t \in DOMAIN stubs : StubFor(stubs[t], t)
KnownStubs == \A th \in Threads : KnowsStub(th) => StubFor(call[th].stub, Target(th))
FreshStubs ==
  \A th \in Threads : call[th].at = "note stub" =>
    /\ call[th].stub \in DOMAIN patched
    /\ \A t \in DOMAIN stubs : stubs[t] # call[th].stub
    /\ \A ti \in Threads \ {th} : KnowsStub(ti) => call[ti].stub # call[th].stub

StubInv == StubsMade /\ OneStubEach /\ NotedStubs /\ KnownStubs /\ FreshStubs

\* A claimed address is in the set of the API and is not hooked, and one thread
\* claims it.
HookedAreKnown == HookedNow \subseteq hooked
ClaimsHold == \A th \in Threads : Claims(th) => Target(th) \in hooked \ HookedNow
OneClaimEach ==
  \A th, ti \in Threads : Claims(th) /\ Claims(ti) /\ Target(th) = Target(ti) => th = ti
KnownAreClaimed ==
  \A t \in hooked : t \in HookedNow \/ \E th \in Threads : Claims(th) /\ Target(th) = t

ClaimInv == HookedAreKnown /\ ClaimsHold /\ OneClaimEach /\ KnownAreClaimed

\* The backend's book is the set of hooks in place, but for the stubs that are about
\* to be noted or dropped.
HooksNoted ==
  \A t \in HookedNow :
    \/ t \in DOMAIN stubs /\ stubs[t] \in DOMAIN patched
    \/ \E th \in Threads : call[th].at = "note stub" /\ Target(th) = t
NotesHooked ==
  \A t \in DOMAIN stubs :
    \/ t \in HookedNow
    \/ \E th \in Threads : call[th].at = "drop stub" /\ Target(th) = t

BookInv ==
  /\ engine \in WithBook => book[engine] = HookedNow
  /\ engine = "shadowhook" => HooksNoted /\ NotesHooked

IndInv == TypeOK /\ EngineInv /\ OrderInv /\ StubInv /\ ClaimInv /\ BookInv

(***************************************************************************)
(* Types, and the engine: for any use of the memory of a stub.               *)
(***************************************************************************)

\* Steps of the API and of the start of the engine, and the call that is refused.
ApiStep(th) ==
  \/ \E op \in {"hook", "unhook"}, t \in Targets : Call(th, op, t)
  \/ Claim(th) \/ CheckHooked(th) \/ HookDone(th) \/ Forget(th) \/ NotUnhooked(th)
  \/ EnsureReady(th) \/ FallBack(th) \/ BackendRefuses(th)

LEMMA DefaultIsBuilt ==
  /\ inlineEngineSupported(defaultInlineEngine) /\ defaultInlineEngine \in InlineEngines
  /\ defaultInlineEngine \notin StartedLate /\ defaultInlineEngine \notin WithBook
  /\ defaultInlineEngine # "shadowhook"
  BY ArchAssumption DEF inlineEngineSupported, defaultInlineEngine, InlineEngines, StartedLate,
                        WithBook

\* What one thread does to its call.
LEMMA CallStep ==
  ASSUME TypeOK, NEW th \in Threads, ThreadStep(th)
  PROVE  /\ call' \in [Threads -> Calls \cup {NoCall}]
         /\ told' \in [Threads -> {"nothing", "success", "failed"}]
         /\ \A ti \in Threads \ {th} : call'[ti] = call[ti]
<1>1. /\ call \in [Threads -> Calls \cup {NoCall}]
      /\ told \in [Threads -> {"nothing", "success", "failed"}]
      /\ NoCall.at = "none"
  BY DEF TypeOK, NoCall
<1>2. ASSUME NEW at \in Places, call[th].at \in Places, Goto(th, at)
      PROVE  call' \in [Threads -> Calls \cup {NoCall}] /\ told' = told
  <2>1. "none" \notin Places
    BY DEF Places
  <2>2. call[th] \in Calls
    BY <1>1, <1>2, <2>1
  <2>3. [call[th] EXCEPT !.at = at] \in Calls
    BY <2>2 DEF Calls
  <2> QED BY <1>1, <1>2, <2>3 DEF Goto
<1>3. ASSUME NEW answer \in {"success", "failed"}, Answer(th, answer)
      PROVE  /\ call' \in [Threads -> Calls \cup {NoCall}]
             /\ told' \in [Threads -> {"nothing", "success", "failed"}]
  BY <1>1, <1>3 DEF Answer
<1>4. ASSUME NEW at \in Places, NEW s \in Stubs \cup {0}, call[th].at \in Places,
             call' = [call EXCEPT ![th].at = at, ![th].stub = s]
      PROVE  call' \in [Threads -> Calls \cup {NoCall}]
  <2>1. "none" \notin Places
    BY DEF Places
  <2>2. call[th] \in Calls
    BY <1>1, <1>4, <2>1
  <2>3. [call[th] EXCEPT !.at = at, !.stub = s] \in Calls
    BY <2>2 DEF Calls
  <2> QED BY <1>1, <1>4, <2>3
<1>5. NewStubs \subseteq Stubs
  BY DEF NewStubs, Stubs
<1>6. CASE \E op \in {"hook", "unhook"}, t \in Targets : Call(th, op, t)
  <2>1. PICK op \in {"hook", "unhook"}, t \in Targets : Call(th, op, t)
    BY <1>6
  <2>2. [at |-> "called", op |-> op, target |-> t, stub |-> 0] \in Calls
    BY DEF Calls, Places
  <2> QED BY <1>1, <2>1, <2>2 DEF Call
<1>7. CASE Claim(th) \/ CheckHooked(th) \/ HookDone(th) \/ Forget(th) \/ NotUnhooked(th)
  <2>1. \/ call[th].at = "called" /\ Goto(th, "ready")
        \/ \E answer \in {"success", "failed"} : Answer(th, answer)
    BY <1>7 DEF Claim, CheckHooked, HookDone, Forget, NotUnhooked, At
  <2>2. \A ti \in Threads \ {th} : call'[ti] = call[ti]
    BY <1>1, <2>1 DEF Goto, Answer
  <2>3. {"called", "ready"} \subseteq Places
    BY DEF Places
  <2> QED BY <1>1, <1>2, <1>3, <2>1, <2>2, <2>3
<1>8. CASE EnsureReady(th) \/ FallBack(th) \/ BackendRefuses(th) \/ NoteStub(th) \/ DropStub(th)
  <2>1. call[th].at \in Places /\ \E at \in Places : Goto(th, at)
    BY <1>8 DEF EnsureReady, FallBack, BackendRefuses, NoteStub, DropStub, Places
  <2>2. \A ti \in Threads \ {th} : call'[ti] = call[ti]
    BY <1>1, <2>1 DEF Goto
  <2> QED BY <1>1, <1>2, <2>1, <2>2
<1>9. CASE BackendHooks(th)
  <2>1. /\ call[th].at \in Places
        /\ \/ Goto(th, "done")
           \/ /\ \E s \in Stubs : call' = [call EXCEPT ![th].at = "note stub", ![th].stub = s]
              /\ told' = told
    BY <1>5, <1>9 DEF BackendHooks, dobbyHook, rv64hookHook, HookPlain, and64inlinehookHook,
                fridaGumHook, HookWithBook, shadowhookHook, At, Places
  <2>2. \A ti \in Threads \ {th} : call'[ti] = call[ti]
    BY <1>1, <2>1 DEF Goto
  <2>3. {"done", "note stub"} \subseteq Places
    BY DEF Places
  <2> QED BY <1>1, <1>2, <1>4, <2>1, <2>2, <2>3
<1>10. CASE BackendUnhooks(th) \/ UnhookStub(th)
  <2>1. /\ call[th].at \in Places
        /\ \/ \E at \in {"done", "drop stub", "refused"} : Goto(th, at)
           \/ /\ \E s \in Stubs \cup {0} : call' = [call EXCEPT ![th].at = "unhook stub", ![th].stub = s]
              /\ told' = told
    <3>1. CASE FindStub(th) /\ At(th, "dispatch", "unhook")
      BY <3>1 DEF FindStub, TypeOK, At, Places
    <3>2. CASE ~FindStub(th)
      BY <1>10, <3>2 DEF BackendUnhooks, dobbyUnhook, rv64hookUnhook, UnhookPlain,
            and64inlinehookUnhook, fridaGumUnhook, UnhookWithBook, UnhookStub, At, Places
    <3>3. CASE UnhookStub(th)
      BY <3>3 DEF UnhookStub, Places
    <3> QED BY <1>10, <3>1, <3>2, <3>3 DEF BackendUnhooks
  <2>2. \A ti \in Threads \ {th} : call'[ti] = call[ti]
    BY <1>1, <2>1 DEF Goto
  <2>3. {"done", "drop stub", "refused", "unhook stub"} \subseteq Places
    BY DEF Places
  <2> QED BY <1>1, <1>2, <1>4, <2>1, <2>2, <2>3
<1> QED BY <1>6, <1>7, <1>8, <1>9, <1>10 DEF ThreadStep

LEMMA TypeStep ==
  ASSUME TypeOK, NEW th \in Threads, ThreadStep(th)
  PROVE  TypeOK'
<1>1. /\ call' \in [Threads -> Calls \cup {NoCall}]
      /\ told' \in [Threads -> {"nothing", "success", "failed"}]
  BY CallStep
<1>2. engine' \in InlineEngines /\ started' \in [StartedLate -> {"not yet", "ready", "failed"}]
  BY DefaultIsBuilt DEF TypeOK, ThreadStep, Call, Claim, CheckHooked, HookDone, Forget,
     NotUnhooked, EnsureReady, FallBack, BackendHooks, NoteStub, BackendRefuses,
     BackendUnhooks, UnhookStub, DropStub, engineVars
<1>3. call[th].at \in Places => Target(th) \in Targets
  <2>1. call[th] \in Calls \cup {NoCall} /\ NoCall.at \notin Places
    BY DEF TypeOK, NoCall, Places
  <2> QED BY <2>1 DEF Target, Calls
<1>4. hooked' \subseteq Targets
  BY <1>3 DEF TypeOK, ThreadStep, Call, Claim, CheckHooked, HookDone, Forget, NotUnhooked,
     EnsureReady, FallBack, BackendHooks, NoteStub, BackendRefuses, BackendUnhooks,
     UnhookStub, DropStub, At, Places
<1>5. CASE BackendHooks(th)
  <2>1. PICK s \in Stubs : Patch(th, s)
    BY <1>5 DEF BackendHooks, dobbyHook, rv64hookHook, HookPlain, and64inlinehookHook,
       fridaGumHook, HookWithBook, shadowhookHook, NewStubs, Stubs
  <2>2. Target(th) \in Targets
    BY <1>3, <1>5 DEF BackendHooks, At, Places
  <2>3. /\ DOMAIN patched' \subseteq Stubs /\ \A x \in DOMAIN patched' : patched'[x] \in Targets
        /\ made' \in Nat
    <3>1. made' \in Nat
      <4>1. made \in Nat
        BY DEF TypeOK
      <4>2. s \in Nat
        BY <2>1 DEF Stubs
      <4> QED BY <2>1, <4>1, <4>2 DEF Patch
    <3>2. DOMAIN patched' = DOMAIN patched \cup {s}
      BY <2>1 DEF Patch
    <3>3. \A x \in DOMAIN patched' : patched'[x] = IF x = s THEN Target(th) ELSE patched[x]
      BY <2>1 DEF Patch
    <3> QED BY <2>2, <3>1, <3>2, <3>3 DEF TypeOK
  <2>4. stubs' = stubs /\ book' \in [WithBook -> SUBSET Targets]
    <3>1. /\ stubs' = stubs
          /\ book' = book \/ book' = [book EXCEPT ![engine] = @ \cup {Target(th)}]
      BY <1>5 DEF BackendHooks, dobbyHook, rv64hookHook, HookPlain, and64inlinehookHook,
         fridaGumHook, HookWithBook, shadowhookHook
    <3> QED BY <2>2, <3>1 DEF TypeOK
  <2> QED BY <1>1, <1>2, <1>4, <2>3, <2>4 DEF TypeOK
<1>6. CASE BackendUnhooks(th) \/ UnhookStub(th)
  <2>1. stubs' = stubs /\ book' \in [WithBook -> SUBSET Targets]
    BY <1>6 DEF BackendUnhooks, dobbyUnhook, rv64hookUnhook, UnhookPlain, FindStub, hookVars,
       and64inlinehookUnhook, fridaGumUnhook, UnhookWithBook, UnhookStub, TypeOK, WithBook
  <2>2. UNCHANGED <<patched, made>> \/ \E ss : Unpatch(ss)
    BY <1>6 DEF BackendUnhooks, dobbyUnhook, rv64hookUnhook, UnhookPlain, FindStub, hookVars,
       and64inlinehookUnhook, fridaGumUnhook, UnhookWithBook, UnhookStub
  <2>3. /\ DOMAIN patched' \subseteq Stubs /\ \A x \in DOMAIN patched' : patched'[x] \in Targets
        /\ made' \in Nat
    BY <2>2 DEF Unpatch, Restrict, TypeOK
  <2> QED BY <1>1, <1>2, <1>4, <2>1, <2>3 DEF TypeOK
<1>7. CASE NoteStub(th)
  <2>1. call[th].at = "note stub" /\ NoCall.at = "none"
    BY <1>7 DEF NoteStub, NoCall
  <2>2. call[th] \in Calls
    BY <2>1 DEF TypeOK
  <2>3. call[th].stub \in Stubs \cup {0} /\ Target(th) \in Targets
    BY <2>2 DEF Calls, Target
  <2>4. DOMAIN stubs' \subseteq Targets /\ \A t \in DOMAIN stubs' : stubs'[t] \in Stubs \cup {0}
    BY <1>7, <2>3 DEF NoteStub, TypeOK
  <2> QED BY <1>1, <1>2, <1>4, <1>7, <2>4 DEF NoteStub, TypeOK
<1>8. CASE DropStub(th)
  <2>1. DOMAIN stubs' \subseteq Targets /\ \A t \in DOMAIN stubs' : stubs'[t] \in Stubs \cup {0}
    BY <1>8 DEF DropStub, Restrict, TypeOK
  <2> QED BY <1>1, <1>2, <1>4, <1>8, <2>1 DEF DropStub, TypeOK
<1>9. CASE ApiStep(th)
  <2>1. UNCHANGED hookVars
    BY <1>9 DEF ApiStep, Call, Claim, CheckHooked, HookDone, Forget, NotUnhooked, EnsureReady,
           FallBack, BackendRefuses
  <2> QED BY <1>1, <1>2, <1>4, <2>1 DEF hookVars, TypeOK
<1> QED BY <1>5, <1>6, <1>7, <1>8, <1>9 DEF ThreadStep, ApiStep

\* What a hook or an unhook by a library does to the hooks in place.
LEMMA PatchAdds ==
  ASSUME NEW th \in Threads, NEW s \in NewStubs, ~ReuseStubs, TypeOK, StubInv, Patch(th, s)
  PROVE  /\ s = made + 1 /\ made' = s /\ s \in Stubs /\ s \notin DOMAIN patched
         /\ DOMAIN patched' = DOMAIN patched \cup {s} /\ patched'[s] = Target(th)
         /\ \A x \in DOMAIN patched : patched'[x] = patched[x]
         /\ HookedNow' = HookedNow \cup {Target(th)}
<1>1. s = made + 1 /\ s \in Stubs /\ made' = s
  BY DEF NewStubs, Patch, Stubs
<1>2. s \notin DOMAIN patched
  <2>1. made \in Nat
    BY DEF TypeOK
  <2>2. \A x \in DOMAIN patched : x =< made
    BY DEF StubInv, StubsMade
  <2> QED BY <1>1, <2>1, <2>2
<1>3. /\ DOMAIN patched' = DOMAIN patched \cup {s} /\ patched'[s] = Target(th)
      /\ \A x \in DOMAIN patched : patched'[x] = patched[x]
  BY <1>2 DEF Patch
<1>4. HookedNow' = HookedNow \cup {Target(th)}
  BY <1>3 DEF HookedNow
<1> QED BY <1>1, <1>2, <1>3, <1>4

LEMMA UnpatchRemoves ==
  ASSUME NEW ss \in SUBSET DOMAIN patched, Unpatch(ss)
  PROVE  /\ made' = made
         /\ DOMAIN patched' = DOMAIN patched \ ss
         /\ \A x \in DOMAIN patched' : patched'[x] = patched[x]
  BY DEF Unpatch, Restrict

\* Every address is hooked by one stub: without it, the address is not hooked.
LEMMA UnpatchFrees ==
  ASSUME NEW t, NEW ss \in SUBSET DOMAIN patched, ss # {}, \A s \in ss : patched[s] = t,
         TypeOK, StubInv, Unpatch(ss)
  PROVE  HookedNow' = HookedNow \ {t} /\ t \in HookedNow
<1>1. \A x \in DOMAIN patched : patched[x] = t => x \in ss
  <2>1. PICK s \in ss : patched[s] = t
    OBVIOUS
  <2>2. \A x, y \in DOMAIN patched : patched[x] = patched[y] => x = y
    BY DEF StubInv, OneStubEach
  <2> QED BY <2>1, <2>2
<1>2. /\ DOMAIN patched' = DOMAIN patched \ ss
      /\ \A x \in DOMAIN patched' : patched'[x] = patched[x]
  BY UnpatchRemoves
<1> QED BY <1>1, <1>2 DEF HookedNow

(***************************************************************************)
(* The steps of a thread, sorted by what they do to the hooks in place.      *)
(***************************************************************************)

MovesTo(th, at) == call' = [call EXCEPT ![th].at = at]
MovesStub(th, at, s) == call' = [call EXCEPT ![th].at = at, ![th].stub = s]

\* A library has patched the address of th.
Hooks(th) ==
  /\ At(th, "dispatch", "hook")
  /\ \E s \in NewStubs :
       /\ Patch(th, s)
       /\ \/ /\ engine # "shadowhook" /\ MovesTo(th, "done")
             /\ book' = IF engine \in WithBook
                         THEN [book EXCEPT ![engine] = @ \cup {Target(th)}] ELSE book
          \/ /\ engine = "shadowhook" /\ UNCHANGED book
             /\ MovesStub(th, "note stub", s)
  /\ UNCHANGED <<engineVars, hooked, stubs, told>>

\* A library other than shadowhook has restored the address of th.
Restores(th) ==
  /\ At(th, "dispatch", "unhook") /\ engine # "shadowhook"
  /\ \E ss \in SUBSET DOMAIN patched :
       /\ ss # {} /\ \A s \in ss : patched[s] = Target(th)
       /\ Unpatch(ss)
  /\ MovesTo(th, "done")
  /\ book' = IF engine \in WithBook
              THEN [book EXCEPT ![engine] = @ \ {Target(th)}] ELSE book
  /\ UNCHANGED <<engineVars, hooked, stubs, told>>

Finds(th) ==
  /\ At(th, "dispatch", "unhook") /\ Target(th) \in DOMAIN stubs
  /\ MovesStub(th, "unhook stub", stubs[Target(th)])
  /\ UNCHANGED <<engineVars, hooked, hookVars, told>>

\* shadowhook has restored the address of th, or refuses.
Frees(th) ==
  /\ call[th].at = "unhook stub" /\ call[th].stub \in DOMAIN patched
  /\ Unpatch({call[th].stub})
  /\ MovesTo(th, "drop stub")
  /\ UNCHANGED <<engineVars, hooked, book, stubs, told>>

Refuses(th) ==
  /\ call[th].at = "unhook stub"
  /\ MovesTo(th, "refused")
  /\ UNCHANGED <<engineVars, hooked, hookVars, told>>

LEMMA StepCases ==
  ASSUME IndInv, NEW th \in Threads, ThreadStep(th)
  PROVE  \/ ApiStep(th) \/ Hooks(th) \/ Restores(th) \/ Finds(th)
         \/ NoteStub(th) \/ Frees(th) \/ Refuses(th) \/ DropStub(th)
<1>1. CASE BackendHooks(th)
  <2>1. CASE dobbyHook(th) \/ rv64hookHook(th)
    BY <1>1, <2>1 DEF BackendHooks, dobbyHook, rv64hookHook, HookPlain, Goto, Hooks, WithBook, MovesTo
  <2>2. CASE and64inlinehookHook(th) \/ fridaGumHook(th)
    BY <1>1, <2>2 DEF BackendHooks, and64inlinehookHook, fridaGumHook, HookWithBook, Goto,
                      Hooks, WithBook, MovesTo
  <2>3. CASE shadowhookHook(th)
    BY <1>1, <2>3 DEF BackendHooks, shadowhookHook, Hooks, MovesStub
  <2> QED BY <1>1, <2>1, <2>2, <2>3 DEF BackendHooks
<1>2. CASE BackendUnhooks(th)
  <2>1. CASE dobbyUnhook(th) \/ rv64hookUnhook(th)
    <3>1. PICK s \in StubsAt(Target(th)) : Unpatch({s})
      BY <2>1 DEF dobbyUnhook, rv64hookUnhook, UnhookPlain
    <3>2. {s} \in SUBSET DOMAIN patched /\ {s} # {} /\ patched[s] = Target(th)
      BY DEF StubsAt
    <3> QED BY <1>2, <2>1, <3>1, <3>2 DEF BackendUnhooks, dobbyUnhook, rv64hookUnhook,
                                          UnhookPlain, Goto, Restores, WithBook, MovesTo
  <2>2. CASE and64inlinehookUnhook(th) \/ fridaGumUnhook(th)
    <3>1. engine \in WithBook /\ UnhookWithBook(th)
      BY <2>2 DEF and64inlinehookUnhook, fridaGumUnhook, WithBook
    <3>2. Target(th) \in HookedNow
      BY <3>1 DEF UnhookWithBook, IndInv, BookInv
    <3>3. /\ StubsAt(Target(th)) \in SUBSET DOMAIN patched /\ StubsAt(Target(th)) # {}
          /\ \A s \in StubsAt(Target(th)) : patched[s] = Target(th)
      BY <3>2 DEF StubsAt, HookedNow
    <3> QED BY <1>2, <3>1, <3>3 DEF BackendUnhooks, UnhookWithBook, Goto, Restores, WithBook, MovesTo
  <2>3. CASE FindStub(th)
    BY <1>2, <2>3 DEF BackendUnhooks, FindStub, Finds, MovesStub
  <2> QED BY <1>2, <2>1, <2>2, <2>3 DEF BackendUnhooks
<1>3. CASE UnhookStub(th)
  BY <1>3 DEF UnhookStub, Goto, Frees, Refuses, hookVars, MovesTo
<1> QED BY <1>1, <1>2, <1>3 DEF ThreadStep, ApiStep

LEMMA ApiStepIsQuiet ==
  ASSUME TypeOK, NEW th \in Threads, ApiStep(th)
  PROVE  /\ UNCHANGED hookVars /\ HookedNow' = HookedNow
         /\ \A ti \in Threads \ {th} : call'[ti] = call[ti]
         /\ call[th].at \notin {"note stub", "unhook stub", "drop stub"}
         /\ call'[th].at \notin {"note stub", "unhook stub", "drop stub"}
<1>1. UNCHANGED hookVars
  BY DEF ApiStep, Call, Claim, CheckHooked, HookDone, Forget, NotUnhooked, EnsureReady,
         FallBack, BackendRefuses
<1>2. call \in [Threads -> Calls \cup {NoCall}]
  BY DEF TypeOK
<1>3. \A ti \in Threads \ {th} : call'[ti] = call[ti]
  BY <1>2 DEF ApiStep, Call, Claim, CheckHooked, HookDone, Forget, NotUnhooked, EnsureReady,
              FallBack, BackendRefuses, Goto, Answer
<1>0. NoCall.at = "none"
  BY DEF NoCall
<1>4. call[th] \in Calls \cup {NoCall}
  BY <1>2
<1>5. ASSUME NEW at, call' = [call EXCEPT ![th].at = at], call[th] # NoCall
      PROVE  call'[th].at = at
  BY <1>2, <1>4, <1>5 DEF Calls
<1>6. ASSUME call' = [call EXCEPT ![th] = NoCall]
      PROVE  call'[th].at = "none"
  BY <1>2, <1>6 DEF NoCall
<1>7. CASE Claim(th) \/ CheckHooked(th) \/ HookDone(th) \/ Forget(th) \/ NotUnhooked(th)
  <2>1. call[th].at \in {"called", "refused", "done"}
    BY <1>7 DEF Claim, CheckHooked, HookDone, Forget, NotUnhooked, At
  <2>2. \/ call' = [call EXCEPT ![th].at = "ready"]
        \/ call' = [call EXCEPT ![th] = NoCall]
    BY <1>7 DEF Claim, CheckHooked, HookDone, Forget, NotUnhooked, Goto, Answer
  <2> QED BY <1>0, <1>1, <1>3, <1>5, <1>6, <2>1, <2>2 DEF hookVars, HookedNow
<1>8. CASE EnsureReady(th) \/ FallBack(th) \/ BackendRefuses(th)
  <2>1. call[th].at \in {"ready", "fall back", "dispatch"}
    BY <1>8 DEF EnsureReady, FallBack, BackendRefuses
  <2>2. \E at \in {"dispatch", "fall back", "refused"} : call' = [call EXCEPT ![th].at = at]
    BY <1>8 DEF EnsureReady, FallBack, BackendRefuses, Goto
  <2> QED BY ZenonT(40), <1>0, <1>1, <1>3, <1>5, <2>1, <2>2 DEF hookVars, HookedNow
<1>9. CASE \E op \in {"hook", "unhook"}, t \in Targets : Call(th, op, t)
  <2>1. call[th].at = "none" /\ call'[th].at = "called"
    BY <1>2, <1>9 DEF Call, NoCall
  <2> QED BY <1>1, <1>3, <2>1 DEF hookVars, HookedNow
<1> QED BY <1>7, <1>8, <1>9 DEF ApiStep

(***************************************************************************)
(* Every step keeps the invariant.                                         *)
(***************************************************************************)

\* Where a step of a thread takes its call.
LEMMA Moves ==
  ASSUME TypeOK, NEW th \in Threads, ThreadStep(th)
  PROVE  \/ call'[th].at \in {"none", "called"} /\ ApiStep(th)
         \/ /\ call'[th].op = call[th].op /\ call'[th].target = call[th].target
            /\ \/ call'[th].at = "ready" /\ At(th, "called", "hook") /\ Claim(th)
               \/ call'[th].at = "ready" /\ At(th, "called", "unhook") /\ CheckHooked(th)
               \/ call'[th].at \in {"dispatch", "fall back"} /\ EnsureReady(th)
               \/ call'[th].at = "dispatch" /\ FallBack(th)
               \/ call'[th].at = "refused" /\ BackendRefuses(th)
               \/ call'[th].at = "done" /\ BackendHooks(th) /\ engine # "shadowhook"
               \/ call'[th].at = "note stub" /\ BackendHooks(th) /\ engine = "shadowhook"
               \/ call'[th].at = "done" /\ NoteStub(th)
               \/ call'[th].at = "done" /\ BackendUnhooks(th) /\ engine # "shadowhook"
               \/ call'[th].at = "unhook stub" /\ BackendUnhooks(th) /\ engine = "shadowhook"
               \/ call'[th].at \in {"drop stub", "refused"} /\ UnhookStub(th)
               \/ call'[th].at = "done" /\ DropStub(th)
<1>1. call \in [Threads -> Calls \cup {NoCall}] /\ NoCall.at = "none" /\ "none" \notin Places
  BY DEF TypeOK, NoCall, Places
<1>2. ASSUME NEW at, call[th].at \in Places, Goto(th, at)
      PROVE  /\ call'[th].at = at
             /\ call'[th].op = call[th].op /\ call'[th].target = call[th].target
  <2>1. call[th] \in Calls
    BY <1>1, <1>2
  <2> QED BY <1>1, <1>2, <2>1 DEF Goto, Calls
<1>3. ASSUME NEW answer, Answer(th, answer)
      PROVE  call'[th].at = "none"
  BY <1>1, <1>3 DEF Answer
<1>4. ASSUME NEW at, NEW s, call[th].at \in Places,
             call' = [call EXCEPT ![th].at = at, ![th].stub = s]
      PROVE  /\ call'[th].at = at
             /\ call'[th].op = call[th].op /\ call'[th].target = call[th].target
  <2>1. call[th] \in Calls
    BY <1>1, <1>4
  <2> QED BY <1>1, <1>4, <2>1 DEF Calls
<1>5. CASE \E op \in {"hook", "unhook"}, t \in Targets : Call(th, op, t)
  <2>1. call'[th].at = "called"
    BY <1>1, <1>5 DEF Call
  <2> QED BY <1>5, <2>1 DEF ApiStep
<1>6. CASE Claim(th)
  BY <1>2, <1>3, <1>6 DEF Claim, At, Places, ApiStep
<1>7. CASE CheckHooked(th)
  BY <1>2, <1>3, <1>7 DEF CheckHooked, At, Places, ApiStep
<1>8. CASE HookDone(th) \/ Forget(th) \/ NotUnhooked(th)
  BY <1>3, <1>8 DEF HookDone, Forget, NotUnhooked, ApiStep
<1>9. CASE EnsureReady(th)
  BY <1>2, <1>9 DEF EnsureReady, Places
<1>10. CASE FallBack(th)
  BY <1>2, <1>10 DEF FallBack, Places
<1>11. CASE BackendRefuses(th)
  BY <1>2, <1>11 DEF BackendRefuses, Places
<1>12. CASE BackendHooks(th)
  <2>1. CASE shadowhookHook(th)
    <3>1. PICK s : call' = [call EXCEPT ![th].at = "note stub", ![th].stub = s]
      BY <2>1 DEF shadowhookHook
    <3>2. call[th].at \in Places /\ engine = "shadowhook"
      BY <1>12, <2>1 DEF BackendHooks, shadowhookHook, At, Places
    <3> QED BY <1>4, <1>12, <3>1, <3>2
  <2>2. CASE ~shadowhookHook(th)
    BY <1>2, <1>12, <2>2 DEF BackendHooks, dobbyHook, rv64hookHook, HookPlain,
       and64inlinehookHook, fridaGumHook, HookWithBook, At, Places
  <2> QED BY <2>1, <2>2
<1>13. CASE BackendUnhooks(th)
  <2>1. CASE FindStub(th)
    <3>1. call' = [call EXCEPT ![th].at = "unhook stub", ![th].stub = stubs[Target(th)]]
      BY <2>1 DEF FindStub
    <3>2. call[th].at \in Places /\ engine = "shadowhook"
      BY <1>13, <2>1 DEF BackendUnhooks, FindStub, At, Places
    <3> QED BY <1>4, <1>13, <3>1, <3>2
  <2>2. CASE ~FindStub(th)
    BY <1>2, <1>13, <2>2 DEF BackendUnhooks, dobbyUnhook, rv64hookUnhook, UnhookPlain,
       and64inlinehookUnhook, fridaGumUnhook, UnhookWithBook, At, Places
  <2> QED BY <2>1, <2>2
<1>14. CASE NoteStub(th)
  BY <1>2, <1>14 DEF NoteStub, Places
<1>15. CASE UnhookStub(th)
  BY <1>2, <1>15 DEF UnhookStub, Places
<1>16. CASE DropStub(th)
  BY <1>2, <1>16 DEF DropStub, Places
<1> QED BY <1>5, <1>6, <1>7, <1>8, <1>9, <1>10, <1>11, <1>12, <1>13, <1>14, <1>15, <1>16
        DEF ThreadStep

LEMMA EngineStep ==
  ASSUME TypeOK, EngineInv, NEW th \in Threads, ThreadStep(th)
  PROVE  EngineInv'
<1>1. /\ \A ti \in Threads \ {th} : call'[ti] = call[ti]
      /\ started \in [StartedLate -> {"not yet", "ready", "failed"}]
  BY CallStep DEF TypeOK
<1>3. CASE EnsureReady(th)
  <2>1. /\ engine' = engine
        /\ \/ engine \notin StartedLate /\ UNCHANGED started /\ Goto(th, "dispatch")
           \/ \E how \in {"ready", "failed"} :
                /\ engine \in StartedLate /\ started[engine] \in {"not yet", how}
                /\ started' = [started EXCEPT ![engine] = how]
                /\ Goto(th, IF how = "ready" THEN "dispatch" ELSE "fall back")
    BY <1>3 DEF EnsureReady
  <2>2. call[th] \in Calls
    <3>1. call[th].at = "ready" /\ NoCall.at = "none"
      BY <1>3 DEF EnsureReady, NoCall
    <3> QED BY <3>1 DEF TypeOK
  <2>3. ASSUME NEW at, Goto(th, at)
        PROVE  call'[th].at = at
    BY <2>2, <2>3 DEF Goto, TypeOK, Calls
  <2>4. CASE engine \notin StartedLate
    BY <1>1, <2>1, <2>3, <2>4 DEF EngineInv
  <2>5. CASE engine \in StartedLate
    <3>1. PICK how \in {"ready", "failed"} :
                /\ started[engine] \in {"not yet", how}
                /\ started' = [started EXCEPT ![engine] = how]
                /\ Goto(th, IF how = "ready" THEN "dispatch" ELSE "fall back")
      BY <2>1, <2>5
    <3>2. /\ started'[engine] = how
          /\ \A e \in StartedLate : started[e] # "not yet" => started'[e] = started[e]
      BY <1>1, <2>5, <3>1
    <3>3. call'[th].at = IF how = "ready" THEN "dispatch" ELSE "fall back"
      BY <2>3, <3>1
    <3> QED BY <1>1, <2>1, <2>5, <3>2, <3>3 DEF EngineInv, StartedLate
  <2> QED BY <2>4, <2>5
<1>4. CASE FallBack(th)
  <2>1. /\ engine' = defaultInlineEngine /\ started' = started
        /\ call[th].at = "fall back" /\ Goto(th, "dispatch")
    BY <1>4 DEF FallBack
  <2>2. call'[th].at \in {"none", "called", "dispatch"}
    BY <1>4, Moves DEF FallBack, EnsureReady, BackendRefuses, BackendHooks, NoteStub,
       BackendUnhooks, UnhookStub, DropStub, At
  <2>3. \A ti \in Threads : call[ti].at \notin {"note stub", "unhook stub", "drop stub"}
    BY <2>1, DefaultIsBuilt DEF EngineInv
  <2> QED BY <1>1, <2>1, <2>2, <2>3, DefaultIsBuilt DEF EngineInv
<1>5. CASE ~EnsureReady(th) /\ ~FallBack(th)
  <2>1. engine' = engine /\ started' = started
    BY <1>5 DEF ThreadStep, Call, Claim, CheckHooked, HookDone, Forget, NotUnhooked,
       BackendHooks, NoteStub, BackendRefuses, BackendUnhooks, UnhookStub, DropStub, engineVars
  <2>2. call'[th].at \notin {"fall back", "dispatch"}
    BY <1>5, Moves
  <2>3. call'[th].at \in {"note stub", "unhook stub", "drop stub"} =>
          engine = "shadowhook" /\ started["shadowhook"] = "ready"
    BY <1>5, Moves DEF BackendHooks, BackendUnhooks, UnhookStub, At, EngineInv, StartedLate
  <2> QED BY <1>1, <2>1, <2>2, <2>3 DEF EngineInv
<1> QED BY <1>3, <1>4, <1>5

LEMMA OrderStep ==
  ASSUME TypeOK, OrderInv, NEW th \in Threads, ThreadStep(th)
  PROVE  OrderInv'
<1>1. \A ti \in Threads \ {th} : call'[ti] = call[ti]
  BY CallStep
<1>2. call'[th].at = "note stub" => call'[th].op = "hook"
  BY Moves DEF BackendHooks, At
<1>3. call'[th].at \in {"unhook stub", "drop stub"} => call'[th].op = "unhook"
  BY Moves DEF BackendUnhooks, At, UnhookStub, OrderInv
<1> QED BY <1>1, <1>2, <1>3 DEF OrderInv

LEMMA StubNumbers ==
  ASSUME TypeOK
  PROVE  /\ made \in Nat /\ \A t \in DOMAIN stubs : stubs[t] \in Nat
         /\ DOMAIN patched \subseteq Nat
         /\ \A th \in Threads : call[th].stub \in Nat
<1>0. Stubs \subseteq Nat /\ 0 \in Nat
  BY DEF Stubs
<1>1. made \in Nat
  BY DEF TypeOK
<1>2. \A t \in DOMAIN stubs : stubs[t] \in Stubs \cup {0}
  BY DEF TypeOK
<1>3. DOMAIN patched \subseteq Nat
  BY <1>0 DEF TypeOK
<1>4. \A th \in Threads : call[th] \in Calls \cup {NoCall}
  BY DEF TypeOK
<1>5. NoCall.stub \in Stubs \cup {0}
  BY DEF NoCall
<1>6. \A c \in Calls : c.stub \in Stubs \cup {0}
  BY DEF Calls
<1> QED BY <1>0, <1>1, <1>2, <1>3, <1>4, <1>5, <1>6

\* The call after a step that only moves it, or also notes a stub.
LEMMA Moved ==
  ASSUME TypeOK, NEW th \in Threads, NEW at, call[th].at # "none", MovesTo(th, at)
  PROVE  /\ call'[th].at = at /\ call'[th].op = call[th].op
         /\ Target(th)' = Target(th) /\ call'[th].stub = call[th].stub
<1>1. call \in [Threads -> Calls \cup {NoCall}]
  BY DEF TypeOK
<1>2. call[th] \in Calls
  BY <1>1 DEF NoCall
<1> QED BY <1>1, <1>2 DEF Calls, Target, MovesTo

LEMMA MovedStub ==
  ASSUME TypeOK, NEW th \in Threads, NEW at, NEW s, call[th].at # "none", MovesStub(th, at, s)
  PROVE  /\ call'[th].at = at /\ call'[th].op = call[th].op
         /\ Target(th)' = Target(th) /\ call'[th].stub = s
<1>1. call \in [Threads -> Calls \cup {NoCall}]
  BY DEF TypeOK
<1>2. call[th] \in Calls
  BY <1>1 DEF NoCall
<1> QED BY <1>1, <1>2 DEF Calls, Target, MovesStub

\* The stubs stay what they are where the hooks in place stay and no stub is learnt.
LEMMA StubsStay ==
  ASSUME StubInv, UNCHANGED hookVars,
         \A th \in Threads : KnowsStub(th)' =>
            /\ call'[th].at = call[th].at /\ call'[th].stub = call[th].stub
            /\ Target(th)' = Target(th)
  PROVE  StubInv'
<1>1. UNCHANGED <<stubs, patched, made>>
  BY DEF hookVars
<1>2. StubsMade' /\ OneStubEach' /\ NotedStubs'
  BY <1>1 DEF StubInv, StubsMade, OneStubEach, NotedStubs, StubFor
<1>3. \A th \in Threads : KnowsStub(th)' => KnowsStub(th)
  BY DEF KnowsStub
<1>4. KnownStubs'
  BY <1>1, <1>3 DEF StubInv, KnownStubs, StubFor
<1>5. \A th \in Threads : call'[th].at = "note stub" => KnowsStub(th)' /\ call[th].at = "note stub"
  BY DEF KnowsStub
<1>6. FreshStubs'
  BY <1>1, <1>3, <1>5 DEF StubInv, FreshStubs
<1> QED BY <1>2, <1>4, <1>6 DEF StubInv

LEMMA HooksKeepsStubs ==
  ASSUME IndInv, ~ReuseStubs, NEW th \in Threads, Hooks(th)
  PROVE  StubInv'
<1>1. TypeOK /\ StubInv /\ ClaimInv
  BY DEF IndInv
<1>2. PICK s \in NewStubs : /\ Patch(th, s)
                          /\ \/ MovesTo(th, "done")
                             \/ MovesStub(th, "note stub", s)
  BY DEF Hooks
<1>3. /\ s = made + 1 /\ made' = s /\ s \notin DOMAIN patched
      /\ DOMAIN patched' = DOMAIN patched \cup {s} /\ patched'[s] = Target(th)
      /\ \A x \in DOMAIN patched : patched'[x] = patched[x]
  BY <1>1, <1>2, PatchAdds
<1>4. /\ made \in Nat /\ \A t \in DOMAIN stubs : stubs[t] \in Nat
      /\ DOMAIN patched \subseteq Nat /\ \A ti \in Threads : call[ti].stub \in Nat
  BY <1>1, StubNumbers
<1>5. call[th].at = "dispatch" /\ call[th].op = "hook" /\ stubs' = stubs
  BY DEF Hooks, At
<1>6. /\ Target(th)' = Target(th)
      /\ call'[th].at = "done" \/ (call'[th].at = "note stub" /\ call'[th].stub = s)
  <2>1. call[th].at # "none"
    BY <1>5
  <2>2. CASE MovesTo(th, "done")
    BY <1>1, <2>1, <2>2, Moved
  <2>3. CASE MovesStub(th, "note stub", s)
    BY <1>1, <2>1, <2>3, MovedStub
  <2> QED BY <1>2, <2>2, <2>3
<1>7. \A ti \in Threads \ {th} : call'[ti] = call[ti]
  BY <1>1, <1>2 DEF MovesTo, MovesStub, TypeOK
<1>8. \A x \in DOMAIN patched : patched[x] # Target(th)
  <2>1. Target(th) \notin HookedNow
    BY <1>1, <1>5 DEF ClaimInv, ClaimsHold, Claims
  <2> QED BY <2>1 DEF HookedNow
<1>9. StubsMade'
  BY <1>1, <1>3, <1>4 DEF StubInv, StubsMade
<1>10. OneStubEach'
  BY <1>1, <1>3, <1>8 DEF StubInv, OneStubEach
<1>11. ASSUME NEW r \in Nat, NEW t, StubFor(r, t)
       PROVE  StubFor(r, t)' /\ r # s
  BY <1>3, <1>4, <1>11 DEF StubFor
<1>12. ASSUME NEW t \in DOMAIN stubs
       PROVE  StubFor(stubs[t], t)' /\ stubs[t] # s
  <2>1. StubFor(stubs[t], t)
    BY <1>1 DEF StubInv, NotedStubs
  <2>2. PICK r \in Nat : r = stubs[t]
    BY <1>4
  <2>3. StubFor(r, t)' /\ r # s
    BY <1>11, <2>1, <2>2
  <2> QED BY <1>5, <2>2, <2>3 DEF StubFor
<1>13. NotedStubs'
  BY <1>5, <1>12 DEF NotedStubs, StubFor
<1>14. ASSUME NEW ti \in Threads \ {th}, KnowsStub(ti)
       PROVE  StubFor(call[ti].stub, Target(ti))' /\ call[ti].stub # s
  <2>1. StubFor(call[ti].stub, call[ti].target) /\ call[ti].stub \in Nat
    BY <1>1, <1>4, <1>14 DEF StubInv, KnownStubs, Target
  <2>2. PICK r \in Nat : r = call[ti].stub
    BY <2>1
  <2>3. PICK t : t = call[ti].target
    OBVIOUS
  <2>4. StubFor(r, t)' /\ r # s
    BY <1>11, <2>1, <2>2, <2>3
  <2> QED BY <1>7, <2>2, <2>3, <2>4 DEF StubFor, Target
<1>15. s =< made' /\ StubFor(s, Target(th))'
  <2>1. made' \in Nat /\ made' = s
    BY <1>3, <1>4
  <2>2. s =< made'
    BY <2>1
  <2>3. patched'[s] = call'[th].target
    BY <1>3, <1>6 DEF Target
  <2> QED BY <2>2, <2>3 DEF StubFor, Target
<1>16. KnownStubs'
  BY <1>6, <1>7, <1>14, <1>15 DEF KnownStubs, KnowsStub, StubFor
<1>17. FreshStubs'
  <2>1. \A ti \in Threads \ {th} : KnowsStub(ti)' => KnowsStub(ti) /\ call'[ti].stub # s
    BY <1>7, <1>14 DEF KnowsStub
  <2>2. ASSUME NEW ti \in Threads, call'[ti].at = "note stub"
        PROVE  /\ call'[ti].stub \in DOMAIN patched'
               /\ \A t \in DOMAIN stubs' : stubs'[t] # call'[ti].stub
    <3>1. CASE ti = th
      BY <1>3, <1>5, <1>6, <1>12, <2>2, <3>1
    <3>2. CASE ti # th
      BY <1>1, <1>3, <1>5, <1>7, <2>2, <3>2 DEF StubInv, FreshStubs
    <3> QED BY <3>1, <3>2
  <2>3. ASSUME NEW ti \in Threads, call'[ti].at = "note stub",
               NEW tj \in Threads \ {ti}, KnowsStub(tj)'
        PROVE  call'[tj].stub # call'[ti].stub
    <3>1. CASE ti = th
      BY <1>6, <2>1, <2>3, <3>1
    <3>2. CASE tj = th
      BY <1>6, <2>1, <2>3, <3>2 DEF KnowsStub
    <3>3. CASE ti # th /\ tj # th
      BY <1>1, <1>7, <2>1, <2>3, <3>3 DEF StubInv, FreshStubs
    <3> QED BY <3>1, <3>2, <3>3
  <2> QED BY <2>2, <2>3 DEF FreshStubs
<1> QED BY <1>9, <1>10, <1>13, <1>16, <1>17 DEF StubInv

\* A hook that is removed: what is known of the other stubs stays true.
LEMMA FewerStubs ==
  ASSUME TypeOK, StubInv, NEW ss \in SUBSET DOMAIN patched, Unpatch(ss)
  PROVE  /\ StubsMade' /\ OneStubEach'
         /\ \A r, t : StubFor(r, t) => StubFor(r, t)'
<1>1. /\ made' = made /\ DOMAIN patched' = DOMAIN patched \ ss
      /\ \A x \in DOMAIN patched' : patched'[x] = patched[x]
  BY UnpatchRemoves
<1>2. StubsMade'
  BY <1>1 DEF StubInv, StubsMade
<1>3. OneStubEach'
  BY <1>1 DEF StubInv, OneStubEach
<1>4. ASSUME NEW r, NEW t, StubFor(r, t)
      PROVE  StubFor(r, t)'
  BY <1>1, <1>4 DEF StubFor
<1> QED BY <1>2, <1>3, <1>4

LEMMA RestoresKeepsStubs ==
  ASSUME IndInv, NEW th \in Threads, Restores(th)
  PROVE  StubInv'
<1>1. TypeOK /\ StubInv /\ EngineInv
  BY DEF IndInv
<1>2. PICK ss \in SUBSET DOMAIN patched : Unpatch(ss)
  BY DEF Restores
<1>3. stubs' = stubs /\ engine # "shadowhook" /\ MovesTo(th, "done") /\ call[th].at # "none"
  BY DEF Restores, At
<1>4. \A ti \in Threads : ~KnowsStub(ti)
  BY <1>1, <1>3 DEF EngineInv, KnowsStub
<1>5. \A ti \in Threads : ~KnowsStub(ti)'
  <2>1. call'[th].at = "done"
    BY <1>1, <1>3, Moved
  <2>2. \A ti \in Threads \ {th} : call'[ti] = call[ti]
    BY <1>1, <1>3 DEF MovesTo, TypeOK
  <2> QED BY <1>4, <2>1, <2>2 DEF KnowsStub
<1>6. StubsMade' /\ OneStubEach' /\ \A r, t : StubFor(r, t) => StubFor(r, t)'
  BY <1>1, <1>2, FewerStubs
<1>7. NotedStubs'
  <2>1. ASSUME NEW t \in DOMAIN stubs
        PROVE  StubFor(stubs[t], t)'
    <3>1. PICK r : r = stubs[t]
      OBVIOUS
    <3>2. StubFor(r, t)
      BY <1>1, <3>1 DEF StubInv, NotedStubs
    <3>3. StubFor(r, t)'
      BY <1>6, <3>2
    <3> QED BY <1>3, <3>1, <3>3 DEF StubFor
  <2> QED BY <1>3, <2>1 DEF NotedStubs
<1> QED BY <1>5, <1>6, <1>7 DEF StubInv, KnownStubs, FreshStubs, KnowsStub

LEMMA FindsKeepsStubs ==
  ASSUME IndInv, NEW th \in Threads, Finds(th)
  PROVE  StubInv'
<1>1. TypeOK /\ StubInv
  BY DEF IndInv
<1>2. /\ UNCHANGED <<stubs, patched, made>> /\ Target(th) \in DOMAIN stubs
      /\ MovesStub(th, "unhook stub", stubs[Target(th)]) /\ call[th].at # "none"
  BY DEF Finds, hookVars, At
<1>3. /\ call'[th].at = "unhook stub" /\ call'[th].stub = stubs[Target(th)]
      /\ Target(th)' = Target(th)
  BY <1>1, <1>2, MovedStub
<1>4. \A ti \in Threads \ {th} : call'[ti] = call[ti]
  BY <1>1, <1>2 DEF MovesStub, TypeOK
<1>5. StubsMade' /\ OneStubEach' /\ NotedStubs'
  BY <1>1, <1>2 DEF StubInv, StubsMade, OneStubEach, NotedStubs, StubFor
<1>6. KnownStubs'
  <2>1. StubFor(stubs[Target(th)], Target(th))
    BY <1>1, <1>2 DEF StubInv, NotedStubs
  <2>2. StubFor(call[th].stub, Target(th))'
    BY <1>2, <1>3, <2>1 DEF StubFor
  <2>3. ASSUME NEW ti \in Threads \ {th}, KnowsStub(ti)'
        PROVE  StubFor(call[ti].stub, Target(ti))'
    BY <1>1, <1>2, <1>4, <2>3 DEF StubInv, KnownStubs, KnowsStub, StubFor, Target
  <2> QED BY <2>2, <2>3 DEF KnownStubs
<1>7. FreshStubs'
  <2>1. ASSUME NEW ti \in Threads, call'[ti].at = "note stub"
        PROVE  /\ ti # th /\ call'[ti] = call[ti] /\ call[ti].at = "note stub"
               /\ \A t \in DOMAIN stubs : stubs[t] # call[ti].stub
               /\ call[ti].stub \in DOMAIN patched
    BY <1>1, <1>3, <1>4, <2>1 DEF StubInv, FreshStubs
  <2>2. ASSUME NEW ti \in Threads, call'[ti].at = "note stub",
               NEW tj \in Threads \ {ti}, KnowsStub(tj)'
        PROVE  call'[tj].stub # call'[ti].stub
    <3>1. CASE tj = th
      BY <1>2, <1>3, <2>1, <2>2, <3>1
    <3>2. CASE tj # th
      BY <1>1, <1>4, <2>1, <2>2, <3>2 DEF StubInv, FreshStubs, KnowsStub
    <3> QED BY <3>1, <3>2
  <2> QED BY <1>2, <2>1, <2>2 DEF FreshStubs
<1> QED BY <1>5, <1>6, <1>7 DEF StubInv

LEMMA NoteKeepsStubs ==
  ASSUME IndInv, NEW th \in Threads, NoteStub(th)
  PROVE  StubInv'
<1>1. TypeOK /\ StubInv
  BY DEF IndInv
<1>2. /\ UNCHANGED <<patched, made>> /\ call[th].at = "note stub" /\ MovesTo(th, "done")
      /\ DOMAIN stubs' = DOMAIN stubs \cup {Target(th)}
      /\ stubs'[Target(th)] = call[th].stub
      /\ \A t \in DOMAIN stubs \ {Target(th)} : stubs'[t] = stubs[t]
  BY DEF NoteStub, Goto, MovesTo
<1>3. call'[th].at = "done"
  BY <1>1, <1>2, Moved
<1>4. \A ti \in Threads \ {th} : call'[ti] = call[ti]
  BY <1>1, <1>2 DEF MovesTo, TypeOK
<1>5. StubsMade' /\ OneStubEach'
  BY <1>1, <1>2 DEF StubInv, StubsMade, OneStubEach
<1>6. NotedStubs'
  <2>1. StubFor(call[th].stub, Target(th))
    BY <1>1, <1>2 DEF StubInv, KnownStubs, KnowsStub
  <2> QED BY <1>1, <1>2, <2>1 DEF StubInv, NotedStubs, StubFor
<1>7. KnownStubs'
  BY <1>1, <1>2, <1>3, <1>4 DEF StubInv, KnownStubs, KnowsStub, StubFor, Target
<1>8. FreshStubs'
  <2>1. ASSUME NEW ti \in Threads \ {th}, call[ti].at = "note stub"
        PROVE  call[ti].stub # call[th].stub
    BY <1>1, <1>2, <2>1 DEF StubInv, FreshStubs, KnowsStub
  <2>2. ASSUME NEW ti \in Threads, call'[ti].at = "note stub"
        PROVE  /\ ti # th /\ call'[ti] = call[ti] /\ call[ti].at = "note stub"
               /\ \A t \in DOMAIN stubs : stubs[t] # call[ti].stub
               /\ call[ti].stub \in DOMAIN patched
    BY <1>1, <1>3, <1>4, <2>2 DEF StubInv, FreshStubs
  <2>3. ASSUME NEW ti \in Threads, call'[ti].at = "note stub"
        PROVE  \A t \in DOMAIN stubs' : stubs'[t] # call'[ti].stub
    BY <1>2, <2>1, <2>2, <2>3
  <2>4. ASSUME NEW ti \in Threads, call'[ti].at = "note stub",
               NEW tj \in Threads \ {ti}, KnowsStub(tj)'
        PROVE  call'[tj].stub # call'[ti].stub
    <3>1. tj # th /\ call'[tj] = call[tj] /\ KnowsStub(tj)
      BY <1>3, <1>4, <2>4 DEF KnowsStub
    <3> QED BY <1>1, <2>2, <2>4, <3>1 DEF StubInv, FreshStubs
  <2> QED BY <1>2, <2>2, <2>3, <2>4 DEF FreshStubs
<1> QED BY <1>5, <1>6, <1>7, <1>8 DEF StubInv

LEMMA FreesKeepsStubs ==
  ASSUME IndInv, NEW th \in Threads, Frees(th)
  PROVE  StubInv'
<1>1. TypeOK /\ StubInv
  BY DEF IndInv
<1>2. /\ Unpatch({call[th].stub}) /\ {call[th].stub} \in SUBSET DOMAIN patched /\ stubs' = stubs
      /\ call[th].at = "unhook stub" /\ MovesTo(th, "drop stub")
  BY DEF Frees
<1>3. call'[th].at = "drop stub"
  BY <1>1, <1>2, Moved
<1>4. \A ti \in Threads \ {th} : call'[ti] = call[ti]
  BY <1>1, <1>2 DEF MovesTo, TypeOK
<1>5. StubsMade' /\ OneStubEach' /\ \A r, t : StubFor(r, t) => StubFor(r, t)'
  BY <1>1, <1>2, FewerStubs
<1>6. NotedStubs'
  <2>1. ASSUME NEW t \in DOMAIN stubs
        PROVE  StubFor(stubs[t], t)'
    <3>1. PICK r : r = stubs[t]
      OBVIOUS
    <3>2. StubFor(r, t)
      BY <1>1, <3>1 DEF StubInv, NotedStubs
    <3>3. StubFor(r, t)'
      BY <1>5, <3>2
    <3> QED BY <1>2, <3>1, <3>3 DEF StubFor
  <2> QED BY <1>2, <2>1 DEF NotedStubs
<1>7. KnownStubs'
  <2>1. ASSUME NEW ti \in Threads, KnowsStub(ti)'
        PROVE  StubFor(call[ti].stub, Target(ti))'
    <3>1. ti # th /\ call'[ti] = call[ti] /\ KnowsStub(ti)
      BY <1>3, <1>4, <2>1 DEF KnowsStub
    <3>2. StubFor(call[ti].stub, call[ti].target)
      BY <1>1, <3>1 DEF StubInv, KnownStubs, Target
    <3>3. PICK r : r = call[ti].stub
      OBVIOUS
    <3>4. PICK t : t = call[ti].target
      OBVIOUS
    <3>5. StubFor(r, t)'
      BY <1>5, <3>2, <3>3, <3>4
    <3> QED BY <3>1, <3>3, <3>4, <3>5 DEF StubFor, Target
  <2> QED BY <2>1 DEF KnownStubs
<1>8. FreshStubs'
  <2>1. DOMAIN patched' = DOMAIN patched \ {call[th].stub}
    BY <1>2, UnpatchRemoves
  <2>2. KnowsStub(th)
    BY <1>2 DEF KnowsStub
  <2>3. ASSUME NEW ti \in Threads \ {th}, call[ti].at = "note stub"
        PROVE  call[th].stub # call[ti].stub
    BY <1>1, <2>2, <2>3 DEF StubInv, FreshStubs
  <2>4. ASSUME NEW ti \in Threads, call'[ti].at = "note stub"
        PROVE  /\ ti # th /\ call'[ti] = call[ti] /\ call[ti].at = "note stub"
               /\ \A t \in DOMAIN stubs : stubs[t] # call[ti].stub
               /\ call[ti].stub \in DOMAIN patched
    BY <1>1, <1>3, <1>4, <2>4 DEF StubInv, FreshStubs
  <2>5. ASSUME NEW ti \in Threads, call'[ti].at = "note stub"
        PROVE  /\ call'[ti].stub \in DOMAIN patched'
               /\ \A t \in DOMAIN stubs' : stubs'[t] # call'[ti].stub
    BY <1>2, <2>1, <2>3, <2>4, <2>5
  <2>6. ASSUME NEW ti \in Threads, call'[ti].at = "note stub",
               NEW tj \in Threads \ {ti}, KnowsStub(tj)'
        PROVE  call'[tj].stub # call'[ti].stub
    <3>1. tj # th /\ call'[tj] = call[tj] /\ KnowsStub(tj)
      BY <1>3, <1>4, <2>6 DEF KnowsStub
    <3> QED BY <1>1, <2>4, <2>6, <3>1 DEF StubInv, FreshStubs
  <2> QED BY <2>5, <2>6 DEF FreshStubs
<1> QED BY <1>5, <1>6, <1>7, <1>8 DEF StubInv

LEMMA DropKeepsStubs ==
  ASSUME IndInv, NEW th \in Threads, DropStub(th)
  PROVE  StubInv'
<1>1. TypeOK /\ StubInv
  BY DEF IndInv
<1>2. /\ UNCHANGED <<patched, made>> /\ DOMAIN stubs' = DOMAIN stubs \ {Target(th)}
      /\ \A t \in DOMAIN stubs' : stubs'[t] = stubs[t]
  BY DEF DropStub, Restrict
<1>3. call'[th].at = "done"
  BY <1>1, Moved DEF DropStub, Goto, MovesTo
<1>4. \A ti \in Threads \ {th} : call'[ti] = call[ti]
  BY <1>1 DEF DropStub, Goto, TypeOK
<1>5. StubsMade' /\ OneStubEach' /\ NotedStubs'
  BY <1>1, <1>2 DEF StubInv, StubsMade, OneStubEach, NotedStubs, StubFor
<1>6. KnownStubs'
  BY <1>1, <1>2, <1>3, <1>4 DEF StubInv, KnownStubs, KnowsStub, StubFor, Target
<1>7. FreshStubs'
  BY <1>1, <1>2, <1>3, <1>4 DEF StubInv, FreshStubs, KnowsStub
<1> QED BY <1>5, <1>6, <1>7 DEF StubInv

LEMMA StubStep ==
  ASSUME IndInv, ~ReuseStubs, NEW th \in Threads, ThreadStep(th)
  PROVE  StubInv'
<1>1. TypeOK /\ StubInv
  BY DEF IndInv
<1>2. \A ti \in Threads \ {th} : call'[ti] = call[ti]
  BY <1>1, CallStep
<1>3. ASSUME UNCHANGED hookVars, ~KnowsStub(th)'
      PROVE  StubInv'
  <2>1. \A ti \in Threads : KnowsStub(ti)' =>
            /\ call'[ti].at = call[ti].at /\ call'[ti].stub = call[ti].stub
            /\ Target(ti)' = Target(ti)
    BY <1>2, <1>3 DEF Target
  <2> QED BY <1>1, <1>3, <2>1, StubsStay
<1>4. CASE ApiStep(th)
  BY <1>1, <1>3, <1>4, ApiStepIsQuiet DEF KnowsStub
<1>5. CASE Refuses(th)
  <2>1. call'[th].at = "refused" /\ UNCHANGED hookVars
    BY <1>1, <1>5, Moved DEF Refuses
  <2> QED BY <1>3, <2>1 DEF KnowsStub
<1> QED BY <1>4, <1>5, StepCases, HooksKeepsStubs, RestoresKeepsStubs, FindsKeepsStubs,
           NoteKeepsStubs, FreesKeepsStubs, DropKeepsStubs

(***************************************************************************)
(* The claims: an address changes hands in four ways.                       *)
(***************************************************************************)

Keeps(th) ==
  /\ UNCHANGED hooked /\ HookedNow' = HookedNow
  /\ Claims(th)' <=> Claims(th)
  /\ Claims(th) => Target(th)' = Target(th)
Takes(th) ==
  /\ Target(th) \notin hooked /\ hooked' = hooked \cup {Target(th)} /\ HookedNow' = HookedNow
  /\ ~Claims(th) /\ Claims(th)' /\ Target(th)' = Target(th)
Patches(th) ==
  /\ UNCHANGED hooked /\ HookedNow' = HookedNow \cup {Target(th)}
  /\ Claims(th) /\ ~Claims(th)'
Unpatches(th) ==
  /\ Target(th) \in HookedNow
  /\ UNCHANGED hooked /\ HookedNow' = HookedNow \ {Target(th)}
  /\ ~Claims(th) /\ Claims(th)' /\ Target(th)' = Target(th)
GivesUp(th) ==
  /\ hooked' = hooked \ {Target(th)} /\ HookedNow' = HookedNow
  /\ Claims(th) /\ ~Claims(th)'

LEMMA Answered ==
  ASSUME TypeOK, NEW th \in Threads, NEW answer, Answer(th, answer)
  PROVE  call'[th] = NoCall /\ ~Claims(th)' /\ call'[th].at = "none"
<1>1. call'[th] = NoCall
  BY DEF TypeOK, Answer
<1> QED BY <1>1 DEF NoCall, Claims

LEMMA FreesHooked ==
  ASSUME IndInv, NEW th \in Threads, Frees(th)
  PROVE  HookedNow' = HookedNow \ {Target(th)} /\ Target(th) \in HookedNow
<1>1. TypeOK /\ StubInv
  BY DEF IndInv
<1>2. /\ call[th].stub \in DOMAIN patched /\ Unpatch({call[th].stub})
      /\ call[th].at = "unhook stub"
  BY DEF Frees
<1>3. patched[call[th].stub] = Target(th)
  BY <1>1, <1>2 DEF StubInv, KnownStubs, KnowsStub, StubFor
<1>4. PICK ss \in SUBSET DOMAIN patched :
        ss # {} /\ (\A s \in ss : patched[s] = Target(th)) /\ Unpatch(ss)
  BY <1>2, <1>3
<1> QED BY <1>1, <1>4, UnpatchFrees

LEMMA RestoresHooked ==
  ASSUME IndInv, NEW th \in Threads, Restores(th)
  PROVE  HookedNow' = HookedNow \ {Target(th)} /\ Target(th) \in HookedNow
<1>1. TypeOK /\ StubInv
  BY DEF IndInv
<1>2. PICK ss \in SUBSET DOMAIN patched :
        ss # {} /\ (\A s \in ss : patched[s] = Target(th)) /\ Unpatch(ss)
  BY DEF Restores
<1> QED BY <1>1, <1>2, UnpatchFrees

LEMMA HooksHooked ==
  ASSUME IndInv, ~ReuseStubs, NEW th \in Threads, Hooks(th)
  PROVE  HookedNow' = HookedNow \cup {Target(th)}
<1>1. TypeOK /\ StubInv
  BY DEF IndInv
<1>2. PICK s \in NewStubs : Patch(th, s)
  BY DEF Hooks
<1> QED BY <1>1, <1>2, PatchAdds

LEMMA ClaimCases ==
  ASSUME IndInv, ~ReuseStubs, NEW th \in Threads, ThreadStep(th)
  PROVE  Keeps(th) \/ Takes(th) \/ Patches(th) \/ Unpatches(th) \/ GivesUp(th)
<1>1. TypeOK /\ OrderInv
  BY DEF IndInv
<1>2. ASSUME NEW at, MovesTo(th, at), call[th].at # "none"
      PROVE  call'[th].at = at /\ call'[th].op = call[th].op /\ Target(th)' = Target(th)
  BY <1>1, <1>2, Moved
<1>3. ASSUME NEW at, NEW s, MovesStub(th, at, s), call[th].at # "none"
      PROVE  call'[th].at = at /\ call'[th].op = call[th].op /\ Target(th)' = Target(th)
  BY <1>1, <1>3, MovedStub
<1>4. ASSUME ApiStep(th)
      PROVE  HookedNow' = HookedNow
  BY <1>1, <1>4, ApiStepIsQuiet
<1>5. CASE \E op \in {"hook", "unhook"}, t \in Targets : Call(th, op, t)
  <2>1. call[th] = NoCall /\ hooked' = hooked
    BY <1>5 DEF Call
  <2>2. call'[th].at = "called"
    <3>1. PICK op, t : call' = [call EXCEPT ![th] = [at |-> "called", op |-> op, target |-> t,
                                                    stub |-> 0]]
      BY <1>5 DEF Call
    <3> QED BY <1>1, <3>1 DEF TypeOK
  <2>0. call[th].at = "none"
    BY <2>1 DEF NoCall
  <2>3. ~Claims(th) /\ ~Claims(th)'
    BY <2>0, <2>2 DEF Claims
  <2> QED BY <1>4, <1>5, <2>1, <2>3 DEF Keeps, ApiStep
<1>6. CASE Claim(th)
  <2>1. call[th].at = "called" /\ call[th].op = "hook" /\ ~Claims(th)
    BY <1>6 DEF Claim, At, Claims
  <2>2. CASE MovesTo(th, "ready") /\ Target(th) \notin hooked /\ hooked' = hooked \cup {Target(th)}
    <3>1. Claims(th)' /\ Target(th)' = Target(th)
      BY <1>2, <2>1, <2>2 DEF Claims
    <3> QED BY <1>4, <1>6, <2>1, <2>2, <3>1 DEF Takes, ApiStep
  <2>3. CASE Answer(th, "failed") /\ UNCHANGED hooked
    BY <1>1, <1>4, <1>6, <2>1, <2>3, Answered DEF Keeps, ApiStep
  <2> QED BY <1>6, <2>2, <2>3 DEF Claim, Goto, MovesTo
<1>7. CASE CheckHooked(th)
  <2>1. call[th].at = "called" /\ call[th].op = "unhook" /\ ~Claims(th) /\ UNCHANGED hooked
    BY <1>7 DEF CheckHooked, At, Claims
  <2>2. ~Claims(th)'
    <3>1. CASE MovesTo(th, "ready")
      <4>1. call'[th].at = "ready" /\ call'[th].op = "unhook"
        BY <1>2, <2>1, <3>1
      <4> QED BY <4>1 DEF Claims
    <3>2. CASE Answer(th, "failed")
      BY <1>1, <3>2, Answered
    <3> QED BY <1>7, <3>1, <3>2 DEF CheckHooked, Goto, MovesTo
  <2> QED BY <1>4, <1>7, <2>1, <2>2 DEF Keeps, ApiStep
<1>8. CASE HookDone(th) \/ NotUnhooked(th)
  <2>1. ~Claims(th) /\ UNCHANGED hooked
    BY <1>8 DEF HookDone, NotUnhooked, At, Claims
  <2>2. ~Claims(th)'
    BY <1>1, <1>8, Answered DEF HookDone, NotUnhooked
  <2> QED BY <1>4, <1>8, <2>1, <2>2 DEF Keeps, ApiStep
<1>9. CASE Forget(th)
  <2>1. Claims(th) /\ hooked' = hooked \ {Target(th)}
    BY <1>9 DEF Forget, At, Claims
  <2>2. ~Claims(th)'
    BY <1>1, <1>9, Answered DEF Forget
  <2> QED BY <1>4, <1>9, <2>1, <2>2 DEF GivesUp, ApiStep
<1>10. CASE EnsureReady(th) \/ FallBack(th) \/ BackendRefuses(th)
  <2>1. PICK at \in {"dispatch", "fall back", "refused"} :
          /\ MovesTo(th, at) /\ call[th].at \in {"ready", "fall back", "dispatch"}
          /\ UNCHANGED hooked
    BY <1>10 DEF EnsureReady, FallBack, BackendRefuses, Goto, MovesTo
  <2>2. /\ Target(th)' = Target(th)
        /\ Claims(th)' <=> Claims(th)
    BY <1>2, <2>1 DEF Claims
  <2> QED BY <1>4, <1>10, <2>1, <2>2 DEF Keeps, ApiStep
<1>11. CASE Hooks(th)
  <2>1. Claims(th) /\ UNCHANGED hooked
    BY <1>11 DEF Hooks, At, Claims
  <2>2. call'[th].at \in {"done", "note stub"} /\ call'[th].op = "hook"
    BY <1>2, <1>3, <1>11 DEF Hooks, At
  <2>3. ~Claims(th)'
    BY <2>2 DEF Claims
  <2> QED BY <1>11, <2>1, <2>3, HooksHooked DEF Patches
<1>12. CASE Restores(th)
  <2>1. ~Claims(th) /\ UNCHANGED hooked
    BY <1>12 DEF Restores, At, Claims
  <2>2. Claims(th)' /\ Target(th)' = Target(th)
    BY <1>2, <1>12 DEF Restores, At, Claims
  <2> QED BY <1>12, <2>1, <2>2, RestoresHooked DEF Unpatches
<1>13. CASE Frees(th)
  <2>1. call[th].op = "unhook"
    BY <1>1, <1>13 DEF OrderInv, Frees
  <2>2. ~Claims(th) /\ UNCHANGED hooked
    BY <1>13, <2>1 DEF Frees, Claims
  <2>3. Claims(th)' /\ Target(th)' = Target(th)
    BY <1>2, <1>13, <2>1 DEF Frees, Claims
  <2> QED BY <1>13, <2>2, <2>3, FreesHooked DEF Unpatches
<1>14. CASE Finds(th) \/ Refuses(th)
  <2>1. call[th].at \in {"dispatch", "unhook stub"} /\ call[th].op = "unhook"
    BY <1>1, <1>14 DEF OrderInv, Finds, Refuses, At
  <2>2. \/ MovesStub(th, "unhook stub", stubs[Target(th)])
        \/ MovesTo(th, "refused")
    BY <1>14 DEF Finds, Refuses
  <2>3. call'[th].at \in {"unhook stub", "refused"} /\ call'[th].op = "unhook"
    BY <1>2, <1>3, <2>1, <2>2
  <2>4. ~Claims(th) /\ ~Claims(th)'
    BY <2>1, <2>3 DEF Claims
  <2>5. UNCHANGED <<hooked, patched>>
    BY <1>14 DEF Finds, Refuses, hookVars
  <2> QED BY <2>4, <2>5 DEF Keeps, HookedNow
<1>15. CASE NoteStub(th) \/ DropStub(th)
  <2>1. MovesTo(th, "done") /\ UNCHANGED <<hooked, patched>>
    BY <1>15 DEF NoteStub, DropStub, Goto, MovesTo
  <2>2. \/ call[th].at = "note stub" /\ call[th].op = "hook"
        \/ call[th].at = "drop stub" /\ call[th].op = "unhook"
    BY <1>1, <1>15 DEF NoteStub, DropStub, OrderInv
  <2>4. call'[th].at = "done" /\ call'[th].op = call[th].op /\ Target(th)' = Target(th)
    BY <1>2, <2>1, <2>2
  <2>3. Claims(th)' <=> Claims(th)
    BY <2>2, <2>4 DEF Claims
  <2> QED BY <2>1, <2>3, <2>4 DEF Keeps, HookedNow
<1> QED BY <1>5, <1>6, <1>7, <1>8, <1>9, <1>10, <1>11, <1>12, <1>13, <1>14, <1>15, StepCases
        DEF ApiStep

LEMMA ClaimStep ==
  ASSUME IndInv, ~ReuseStubs, NEW th \in Threads, ThreadStep(th)
  PROVE  ClaimInv'
<1>1. ClaimInv /\ TypeOK
  BY DEF IndInv
<1>2. \A ti \in Threads \ {th} : (Claims(ti)' <=> Claims(ti)) /\ Target(ti)' = Target(ti)
  <2>1. \A ti \in Threads \ {th} : call'[ti] = call[ti]
    BY <1>1, CallStep
  <2> QED BY <2>1 DEF Claims, Target
<1>3. CASE Keeps(th)
  BY <1>1, <1>2, <1>3 DEF Keeps, ClaimInv, HookedAreKnown, ClaimsHold, OneClaimEach,
                          KnownAreClaimed
<1>4. CASE Takes(th)
  BY <1>1, <1>2, <1>4 DEF Takes, ClaimInv, HookedAreKnown, ClaimsHold, OneClaimEach,
                          KnownAreClaimed
<1>5. CASE Patches(th)
  BY <1>1, <1>2, <1>5 DEF Patches, ClaimInv, HookedAreKnown, ClaimsHold, OneClaimEach,
                          KnownAreClaimed
<1>6. CASE Unpatches(th)
  BY <1>1, <1>2, <1>6 DEF Unpatches, ClaimInv, HookedAreKnown, ClaimsHold, OneClaimEach,
                          KnownAreClaimed
<1>7. CASE GivesUp(th)
  BY <1>1, <1>2, <1>7 DEF GivesUp, ClaimInv, HookedAreKnown, ClaimsHold, OneClaimEach,
                          KnownAreClaimed
<1> QED BY <1>3, <1>4, <1>5, <1>6, <1>7, ClaimCases

(***************************************************************************)
(* The books of the backends.                                              *)
(***************************************************************************)

LEMMA BookStep ==
  ASSUME IndInv, ~ReuseStubs, NEW th \in Threads, ThreadStep(th)
  PROVE  BookInv'
<1>1. TypeOK /\ StubInv /\ OrderInv /\ EngineInv /\ ClaimInv /\ BookInv
  BY DEF IndInv
<1>2. \A ti \in Threads \ {th} : call'[ti] = call[ti] /\ Target(ti)' = Target(ti)
  <2>1. \A ti \in Threads \ {th} : call'[ti] = call[ti]
    BY <1>1, CallStep
  <2> QED BY <2>1 DEF Target
<1>3. book \in [WithBook -> SUBSET Targets]
  BY <1>1 DEF TypeOK
<1>12. ASSUME NEW at, NEW t, call[th].at # at \/ Target(th) # t,
              \E ti \in Threads : call[ti].at = at /\ Target(ti) = t
       PROVE  \E ti \in Threads : call'[ti].at = at /\ Target(ti)' = t
  <2>1. PICK ti \in Threads : call[ti].at = at /\ Target(ti) = t
    BY <1>12
  <2>2. ti # th
    BY <1>12, <2>1
  <2> QED BY <1>2, <2>1, <2>2
<1>4. CASE FallBack(th)
  <2>1. engine' \notin WithBook /\ engine' # "shadowhook"
    BY <1>4, DefaultIsBuilt DEF FallBack
  <2> QED BY <2>1 DEF BookInv
<1>5. CASE ApiStep(th) /\ ~FallBack(th)
  <2>1. /\ UNCHANGED hookVars /\ HookedNow' = HookedNow
        /\ call[th].at \notin {"note stub", "unhook stub", "drop stub"}
        /\ call'[th].at \notin {"note stub", "unhook stub", "drop stub"}
    BY <1>1, <1>5, ApiStepIsQuiet
  <2>2. engine' = engine
    BY <1>5 DEF ApiStep, Call, Claim, CheckHooked, HookDone, Forget, NotUnhooked, EnsureReady,
                BackendRefuses, engineVars
  <2> QED BY <1>1, <1>2, <2>1, <2>2 DEF BookInv, HooksNoted, NotesHooked, hookVars
<1>6. CASE Hooks(th)
  <2>1. /\ HookedNow' = HookedNow \cup {Target(th)} /\ engine' = engine /\ stubs' = stubs
        /\ call[th].at = "dispatch"
    BY <1>6, HooksHooked DEF Hooks, engineVars, At
  <2>2. CASE engine # "shadowhook"
    <3>1. book' = IF engine \in WithBook
                   THEN [book EXCEPT ![engine] = @ \cup {Target(th)}] ELSE book
      BY <1>6, <2>2 DEF Hooks
    <3> QED BY <1>1, <1>3, <2>1, <2>2, <3>1 DEF BookInv
  <2>3. CASE engine = "shadowhook"
    <3>1. PICK s \in NewStubs : Patch(th, s) /\ MovesStub(th, "note stub", s)
      BY <1>6, <2>3 DEF Hooks
    <3>2. DOMAIN patched' = DOMAIN patched \cup {s}
      BY <1>1, <3>1, PatchAdds
    <3>3. call'[th].at = "note stub" /\ Target(th)' = Target(th)
      BY <1>1, <2>1, <3>1, MovedStub
    <3>4. "shadowhook" \notin WithBook
      BY DEF WithBook
    <3>5. HooksNoted /\ NotesHooked
      BY <1>1, <2>3 DEF BookInv
    <3>6. ASSUME NEW t \in HookedNow \cup {Target(th)}
          PROVE  \/ t \in DOMAIN stubs /\ stubs[t] \in DOMAIN patched'
                 \/ \E ti \in Threads : call'[ti].at = "note stub" /\ Target(ti)' = t
      BY <1>2, <2>1, <3>2, <3>3, <3>5 DEF HooksNoted
    <3>7. ASSUME NEW t \in DOMAIN stubs
          PROVE  \/ t \in HookedNow
                 \/ \E ti \in Threads : call'[ti].at = "drop stub" /\ Target(ti)' = t
      BY <1>2, <2>1, <3>5 DEF NotesHooked
    <3>8. HooksNoted' /\ NotesHooked'
      BY <2>1, <3>6, <3>7 DEF HooksNoted, NotesHooked
    <3> QED BY <2>1, <2>3, <3>4, <3>8 DEF BookInv
  <2> QED BY <2>2, <2>3
<1>7. CASE Restores(th)
  <2>1. HookedNow' = HookedNow \ {Target(th)} /\ engine' = engine /\ engine # "shadowhook"
    BY <1>7, RestoresHooked DEF Restores, engineVars
  <2>2. book' = IF engine \in WithBook
                 THEN [book EXCEPT ![engine] = @ \ {Target(th)}] ELSE book
    BY <1>7 DEF Restores
  <2> QED BY <1>1, <1>3, <2>1, <2>2 DEF BookInv
<1>8. CASE Finds(th) \/ Refuses(th)
  <2>1. UNCHANGED <<engine, book, stubs, patched>> /\ call[th].at \in {"dispatch", "unhook stub"}
    BY <1>8 DEF Finds, Refuses, engineVars, hookVars, At
  <2>2. HookedNow' = HookedNow
    BY <2>1 DEF HookedNow
  <2>3. ASSUME HooksNoted
        PROVE  HooksNoted'
    <3>1. ASSUME NEW t \in HookedNow,
                 \E ti \in Threads : call[ti].at = "note stub" /\ Target(ti) = t
          PROVE  \E ti \in Threads : call'[ti].at = "note stub" /\ Target(ti)' = t
      BY <1>12, <2>1, <3>1
    <3> QED BY <2>1, <2>2, <2>3, <3>1 DEF HooksNoted
  <2>4. ASSUME NotesHooked
        PROVE  NotesHooked'
    <3>1. ASSUME NEW t \in DOMAIN stubs,
                 \E ti \in Threads : call[ti].at = "drop stub" /\ Target(ti) = t
          PROVE  \E ti \in Threads : call'[ti].at = "drop stub" /\ Target(ti)' = t
      BY <1>12, <2>1, <3>1
    <3> QED BY <2>1, <2>2, <2>4, <3>1 DEF NotesHooked
  <2> QED BY <1>1, <2>1, <2>2, <2>3, <2>4 DEF BookInv
<1>9. CASE NoteStub(th)
  <2>1. /\ UNCHANGED <<engine, book, patched>> /\ call[th].at = "note stub"
        /\ DOMAIN stubs' = DOMAIN stubs \cup {Target(th)}
        /\ stubs'[Target(th)] = call[th].stub
        /\ \A t \in DOMAIN stubs \ {Target(th)} : stubs'[t] = stubs[t]
    BY <1>9 DEF NoteStub, engineVars
  <2>2. HookedNow' = HookedNow
    BY <2>1 DEF HookedNow
  <2>3. call[th].stub \in DOMAIN patched
    BY <1>1, <2>1 DEF StubInv, FreshStubs
  <2>4. patched[call[th].stub] = Target(th)
    BY <1>1, <2>1, <2>3 DEF StubInv, KnownStubs, KnowsStub, StubFor
  <2>5. Target(th) \in HookedNow
    BY <2>3, <2>4 DEF HookedNow
  <2>6. engine = "shadowhook" /\ "shadowhook" \notin WithBook
    BY <1>1, <2>1 DEF EngineInv, WithBook
  <2>9. HooksNoted /\ NotesHooked
    BY <1>1, <2>6 DEF BookInv
  <2>7. ASSUME NEW t \in HookedNow
        PROVE  \/ t \in DOMAIN stubs' /\ stubs'[t] \in DOMAIN patched'
               \/ \E ti \in Threads : call'[ti].at = "note stub" /\ Target(ti)' = t
    <3>1. CASE t = Target(th)
      BY <2>1, <2>3, <3>1
    <3>2. CASE t # Target(th)
      <4>1. ASSUME \E ti \in Threads : call[ti].at = "note stub" /\ Target(ti) = t
            PROVE  \E ti \in Threads : call'[ti].at = "note stub" /\ Target(ti)' = t
        BY <1>12, <3>2, <4>1
      <4> QED BY <2>1, <2>9, <3>2, <4>1 DEF HooksNoted
    <3> QED BY <3>1, <3>2
  <2>8. ASSUME NEW t \in DOMAIN stubs'
        PROVE  \/ t \in HookedNow
               \/ \E ti \in Threads : call'[ti].at = "drop stub" /\ Target(ti)' = t
    <3>1. CASE t = Target(th)
      BY <2>5, <3>1
    <3>2. CASE t # Target(th)
      <4>1. ASSUME \E ti \in Threads : call[ti].at = "drop stub" /\ Target(ti) = t
            PROVE  \E ti \in Threads : call'[ti].at = "drop stub" /\ Target(ti)' = t
        BY <1>12, <3>2, <4>1
      <4> QED BY <2>1, <2>9, <3>2, <4>1 DEF NotesHooked
    <3> QED BY <3>1, <3>2
  <2>10. HooksNoted' /\ NotesHooked'
    BY <2>1, <2>2, <2>7, <2>8 DEF HooksNoted, NotesHooked
  <2> QED BY <2>1, <2>6, <2>10 DEF BookInv
<1>10. CASE Frees(th)
  <2>1. /\ UNCHANGED <<engine, book, stubs>> /\ call[th].at = "unhook stub"
        /\ MovesTo(th, "drop stub") /\ call[th].stub \in DOMAIN patched
        /\ Unpatch({call[th].stub})
    BY <1>10 DEF Frees, engineVars
  <2>2. HookedNow' = HookedNow \ {Target(th)}
    BY <1>10, FreesHooked
  <2>3. DOMAIN patched' = DOMAIN patched \ {call[th].stub}
    BY <2>1, UnpatchRemoves
  <2>4. patched[call[th].stub] = Target(th)
    BY <1>1, <2>1 DEF StubInv, KnownStubs, KnowsStub, StubFor
  <2>5. call'[th].at = "drop stub" /\ Target(th)' = Target(th)
    BY <1>1, <2>1, Moved
  <2>6. engine = "shadowhook" /\ "shadowhook" \notin WithBook
    BY <1>1, <2>1 DEF EngineInv, WithBook
  <2>9. HooksNoted /\ NotesHooked
    BY <1>1, <2>6 DEF BookInv
  <2>7. ASSUME NEW t \in HookedNow \ {Target(th)}
        PROVE  \/ t \in DOMAIN stubs /\ stubs[t] \in DOMAIN patched'
               \/ \E ti \in Threads : call'[ti].at = "note stub" /\ Target(ti)' = t
    <3>1. CASE t \in DOMAIN stubs /\ stubs[t] \in DOMAIN patched
      <4>1. patched[stubs[t]] = t
        BY <1>1, <3>1 DEF StubInv, NotedStubs, StubFor
      <4> QED BY <2>3, <2>4, <3>1, <4>1
    <3>2. CASE \E ti \in Threads : call[ti].at = "note stub" /\ Target(ti) = t
      BY <1>2, <2>1, <3>2
    <3> QED BY <2>9, <3>1, <3>2 DEF HooksNoted
  <2>8. ASSUME NEW t \in DOMAIN stubs
        PROVE  \/ t \in HookedNow \ {Target(th)}
               \/ \E ti \in Threads : call'[ti].at = "drop stub" /\ Target(ti)' = t
    <3>1. CASE t = Target(th)
      BY <2>5, <3>1
    <3>2. CASE t # Target(th)
      <4>1. ASSUME \E ti \in Threads : call[ti].at = "drop stub" /\ Target(ti) = t
            PROVE  \E ti \in Threads : call'[ti].at = "drop stub" /\ Target(ti)' = t
        BY <1>12, <3>2, <4>1
      <4> QED BY <2>1, <2>9, <3>2, <4>1 DEF NotesHooked
    <3> QED BY <3>1, <3>2
  <2>10. HooksNoted' /\ NotesHooked'
    BY <2>1, <2>2, <2>7, <2>8 DEF HooksNoted, NotesHooked
  <2> QED BY <2>1, <2>6, <2>10 DEF BookInv
<1>11. CASE DropStub(th)
  <2>1. /\ UNCHANGED <<engine, book, patched>> /\ call[th].at = "drop stub"
        /\ DOMAIN stubs' = DOMAIN stubs \ {Target(th)}
        /\ \A t \in DOMAIN stubs' : stubs'[t] = stubs[t]
    BY <1>11 DEF DropStub, Restrict, engineVars
  <2>2. HookedNow' = HookedNow
    BY <2>1 DEF HookedNow
  <2>3. Target(th) \notin HookedNow
    <3>1. call[th].op = "unhook"
      BY <1>1, <2>1 DEF OrderInv
    <3> QED BY <1>1, <2>1, <3>1 DEF ClaimInv, ClaimsHold, Claims
  <2>4. engine = "shadowhook" /\ "shadowhook" \notin WithBook
    BY <1>1, <2>1 DEF EngineInv, WithBook
  <2>9. HooksNoted /\ NotesHooked
    BY <1>1, <2>4 DEF BookInv
  <2>5. ASSUME NEW t \in HookedNow
        PROVE  \/ t \in DOMAIN stubs' /\ stubs'[t] \in DOMAIN patched
               \/ \E ti \in Threads : call'[ti].at = "note stub" /\ Target(ti)' = t
    BY <1>2, <2>1, <2>3, <2>9 DEF HooksNoted
  <2>6. ASSUME NEW t \in DOMAIN stubs'
        PROVE  \/ t \in HookedNow
               \/ \E ti \in Threads : call'[ti].at = "drop stub" /\ Target(ti)' = t
    BY <1>2, <2>1, <2>9 DEF NotesHooked
  <2>10. HooksNoted' /\ NotesHooked'
    BY <2>1, <2>2, <2>5, <2>6 DEF HooksNoted, NotesHooked
  <2> QED BY <2>1, <2>4, <2>10 DEF BookInv
<1> QED BY <1>4, <1>5, <1>6, <1>7, <1>8, <1>9, <1>10, <1>11, StepCases

(***************************************************************************)
(* The theorems.                                                           *)
(***************************************************************************)

LEMMA InitHolds ==
  ASSUME Init
  PROVE  IndInv
<1>1. PICK n \in InlineNames : engine = resolvedInlineEngine(n)
  BY DEF Init
<1>2. inlineEngineSupported(engine) /\ engine \in InlineEngines
  BY <1>1, DefaultIsBuilt DEF resolvedInlineEngine, setInlineEngine, parseInlineEngine
<1>3. \A th \in Threads : call[th] = NoCall /\ call[th].at = "none"
  BY DEF Init, NoCall
<1>4. /\ hooked = {} /\ book = [e \in WithBook |-> {}] /\ made = 0
      /\ DOMAIN stubs = {} /\ DOMAIN patched = {}
  BY DEF Init
<1>5. HookedNow = {}
  BY <1>4 DEF HookedNow
<1>6. TypeOK
  <2>1. /\ started \in [StartedLate -> {"not yet", "ready", "failed"}]
        /\ call \in [Threads -> Calls \cup {NoCall}]
        /\ told \in [Threads -> {"nothing", "success", "failed"}]
    BY DEF Init
  <2>2. /\ book \in [WithBook -> SUBSET Targets] /\ made \in Nat /\ hooked \subseteq Targets
        /\ DOMAIN stubs \subseteq Targets /\ DOMAIN patched \subseteq Stubs
    BY <1>4
  <2> QED BY <1>2, <1>4, <2>1, <2>2 DEF TypeOK
<1>7. EngineInv
  BY <1>2, <1>3 DEF EngineInv
<1>8. OrderInv
  BY <1>3 DEF OrderInv
<1>9. StubInv
  BY <1>3, <1>4 DEF StubInv, StubsMade, OneStubEach, NotedStubs, KnownStubs, FreshStubs, KnowsStub
<1>10. ClaimInv
  BY <1>3, <1>4, <1>5 DEF ClaimInv, HookedAreKnown, ClaimsHold, OneClaimEach, KnownAreClaimed,
                          Claims
<1>11. BookInv
  BY <1>4, <1>5 DEF BookInv, HooksNoted, NotesHooked
<1> QED BY <1>6, <1>7, <1>8, <1>9, <1>10, <1>11 DEF IndInv

LEMMA IdleHolds ==
  ASSUME IndInv, UNCHANGED vars
  PROVE  IndInv'
<1>1. UNCHANGED <<engine, started, hooked, book, stubs, patched, made, call, told>>
  BY DEF vars
<1>2. TypeOK'
  BY <1>1 DEF IndInv, TypeOK
<1>3. EngineInv' /\ OrderInv'
  BY <1>1 DEF IndInv, EngineInv, OrderInv
<1>4. StubInv'
  BY <1>1 DEF IndInv, StubInv, StubsMade, OneStubEach, NotedStubs, KnownStubs, FreshStubs,
              KnowsStub, StubFor, Target
<1>5. HookedNow' = HookedNow
  BY <1>1 DEF HookedNow
<1>6. ClaimInv'
  BY <1>1, <1>5 DEF IndInv, ClaimInv, HookedAreKnown, ClaimsHold, OneClaimEach, KnownAreClaimed,
                    Claims, Target
<1>7. BookInv'
  BY <1>1, <1>5 DEF IndInv, BookInv, HooksNoted, NotesHooked, Target
<1> QED BY <1>2, <1>3, <1>4, <1>6, <1>7 DEF IndInv

\* Every state has the types it was declared with, whatever the engines do with the
\* memory of a stub (loader/src/hook, loader/src/api/hook.cpp).
THEOREM TypeCorrect == Spec => []TypeOK
<1>1. Init => TypeOK
  BY InitHolds DEF IndInv
<1>2. TypeOK /\ [Next]_vars => TypeOK'
  <2>1. TypeOK /\ UNCHANGED vars => TypeOK'
    BY DEF TypeOK, vars
  <2> QED BY <2>1, TypeStep DEF Next
<1> QED BY <1>1, <1>2, PTL DEF Spec

\* A call is dispatched to an engine that was built for the architecture and, where
\* it must be, started: for every architecture, plan and number of threads
\* (ensureInlineEngineReady, loader/src/hook/engine.cpp).
THEOREM EnginesWork == Spec => []EngineWorks
<1>1. Init => TypeOK /\ EngineInv
  BY InitHolds DEF IndInv
<1>2. TypeOK /\ EngineInv /\ [Next]_vars => (TypeOK /\ EngineInv)'
  <2>1. TypeOK /\ EngineInv /\ UNCHANGED vars => (TypeOK /\ EngineInv)'
    BY DEF TypeOK, EngineInv, vars
  <2> QED BY <2>1, TypeStep, EngineStep DEF Next
<1>3. EngineInv => EngineWorks
  BY DEF EngineInv, EngineWorks
<1> QED BY <1>1, <1>2, <1>3, PTL DEF Spec

\* The inductive invariant, where shadowhook hands out every stub once.
THEOREM Invariance ==
  ASSUME ~ReuseStubs
  PROVE  Spec => []IndInv
<1>1. Init => IndInv
  BY InitHolds
<1>2. IndInv /\ [Next]_vars => IndInv'
  <2>1. ASSUME IndInv, NEW th \in Threads, ThreadStep(th)
        PROVE  IndInv'
    BY <2>1, TypeStep, EngineStep, OrderStep, StubStep, ClaimStep, BookStep DEF IndInv
  <2> QED BY <2>1, IdleHolds DEF Next
<1> QED BY <1>1, <1>2, PTL DEF Spec

LEMMA AgreeAtRest ==
  ASSUME IndInv
  PROVE  BooksAgree
<1>1. SUFFICES ASSUME \A th \in Threads : call[th] = NoCall
               PROVE  /\ hooked = HookedNow
                      /\ engine \in WithBook => book[engine] = HookedNow
                      /\ engine = "shadowhook" =>
                           /\ DOMAIN stubs = HookedNow
                           /\ \A t \in HookedNow : stubs[t] \in DOMAIN patched /\ patched[stubs[t]] = t
  BY DEF BooksAgree
<1>0. \A th \in Threads : call[th].at = "none"
  BY <1>1 DEF NoCall
<1>2. \A th \in Threads : call[th].at = "none" /\ ~Claims(th)
  BY <1>0 DEF Claims
<1>3. hooked = HookedNow
  BY <1>2 DEF IndInv, ClaimInv, HookedAreKnown, KnownAreClaimed
<1>4. engine \in WithBook => book[engine] = HookedNow
  BY DEF IndInv, BookInv
<1>5. engine = "shadowhook" =>
        DOMAIN stubs = HookedNow /\ \A t \in HookedNow : stubs[t] \in DOMAIN patched
  BY <1>2 DEF IndInv, BookInv, HooksNoted, NotesHooked
<1>6. \A t \in DOMAIN stubs : stubs[t] \in DOMAIN patched => patched[stubs[t]] = t
  BY DEF IndInv, StubInv, NotedStubs, StubFor
<1> QED BY <1>3, <1>4, <1>5, <1>6

\* When no call is under way, the API, the backend and the code of the process agree
\* on what is hooked, for any threads and addresses (loader/src/api/hook.cpp).
THEOREM BooksInAgreement ==
  ASSUME ~ReuseStubs
  PROVE  Spec => []BooksAgree
<1>1. IndInv => BooksAgree
  BY AgreeAtRest
<1> QED BY <1>1, Invariance, PTL

(***************************************************************************)
(* The calls implement HookOwnership: a step of a thread is a step of its    *)
(* call there, or leaves it alone.                                         *)
(***************************************************************************)

Phases == [th \in Threads |-> Phase(th)]

\* What a step of th does to the promise.
Begins(th) ==
  \E op \in {"hook", "unhook"}, t \in Targets :
    /\ Phase(th) = Promise!Idle /\ Phase(th)' = Promise!Pending(op, t)
    /\ told' = [told EXCEPT ![th] = "nothing"] /\ HookedNow' = HookedNow
TakesEffect(th) ==
  \E t \in Targets :
    /\ UNCHANGED told
    /\ \/ /\ Phase(th) = Promise!Pending("hook", t) /\ Phase(th)' = Promise!Done("hook", t)
          /\ t \notin HookedNow /\ HookedNow' = HookedNow \cup {t}
       \/ /\ Phase(th) = Promise!Pending("unhook", t) /\ Phase(th)' = Promise!Done("unhook", t)
          /\ t \in HookedNow /\ HookedNow' = HookedNow \ {t}
Ends(th) ==
  /\ Phase(th) # Promise!Idle /\ Phase(th)' = Promise!Idle /\ HookedNow' = HookedNow
  /\ told' = [told EXCEPT ![th] = IF Phase(th).done THEN "success" ELSE "failed"]
Stays(th) ==
  Phase(th)' = Phase(th) /\ HookedNow' = HookedNow /\ UNCHANGED told

\* A call that is under way, in the words of the promise.
LEMMA PhaseOf ==
  ASSUME TypeOK, NEW th \in Threads
  PROVE  /\ call[th] = NoCall => Phase(th) = Promise!Idle
         /\ call[th].at # "none" =>
              /\ Target(th) \in Targets
              /\ Phase(th) = [op |-> call[th].op, target |-> Target(th), done |-> Effective(th)]
              /\ Phase(th) # Promise!Idle /\ Phase(th).done = Effective(th)
<1>1. call[th] = NoCall => Phase(th) = Promise!Idle
  BY DEF Phase, Promise!Idle
<1>2. ASSUME call[th].at # "none"
      PROVE  /\ Target(th) \in Targets
             /\ Phase(th) = [op |-> call[th].op, target |-> Target(th), done |-> Effective(th)]
             /\ call[th].op \in {"hook", "unhook"}
  <2>1. call[th] # NoCall
    BY <1>2 DEF NoCall
  <2>2. call[th] \in Calls
    BY <2>1 DEF TypeOK
  <2> QED BY <2>1, <2>2 DEF Calls, Target, Phase
<1>3. ASSUME call[th].at # "none"
      PROVE  Phase(th) # Promise!Idle /\ Phase(th).done = Effective(th)
  <2>1. Phase(th).op # "none"
    BY <1>2, <1>3
  <2>2. Promise!Idle.op = "none"
    BY DEF Promise!Idle
  <2> QED BY <1>2, <1>3, <2>1, <2>2
<1> QED BY <1>1, <1>2, <1>3

LEMMA PhaseAfter ==
  ASSUME TypeOK', NEW th \in Threads
  PROVE  /\ call'[th] = NoCall => Phase(th)' = Promise!Idle
         /\ call'[th].at # "none" =>
              Phase(th)' = [op |-> call'[th].op, target |-> Target(th)', done |-> Effective(th)']
<1>1. call'[th] = NoCall => Phase(th)' = Promise!Idle
  BY DEF Phase, Promise!Idle
<1>2. ASSUME call'[th].at # "none"
      PROVE  Phase(th)' = [op |-> call'[th].op, target |-> Target(th)', done |-> Effective(th)']
  <2>1. call'[th] # NoCall
    BY <1>2 DEF NoCall
  <2> QED BY <2>1 DEF Target, Phase
<1> QED BY <1>1, <1>2

\* A step that leaves the operation and the address of the call, and whether it took
\* effect, does not show.
LEMMA QuietMove ==
  ASSUME TypeOK, TypeOK', NEW th \in Threads, call[th].at # "none", call'[th].at # "none",
         call'[th].op = call[th].op, Target(th)' = Target(th),
         Effective(th)' <=> Effective(th), HookedNow' = HookedNow, UNCHANGED told
  PROVE  Stays(th)
<1>1. Phase(th) = [op |-> call[th].op, target |-> Target(th), done |-> Effective(th)]
  BY PhaseOf
<1>2. Phase(th)' = [op |-> call'[th].op, target |-> Target(th)', done |-> Effective(th)']
  BY PhaseAfter
<1>3. Effective(th) \in BOOLEAN /\ Effective(th)' \in BOOLEAN
  BY DEF Effective
<1>4. Effective(th)' = Effective(th)
  BY <1>3
<1> QED BY <1>1, <1>2, <1>4 DEF Stays

LEMMA EndOfCall ==
  ASSUME TypeOK, TypeOK', NEW th \in Threads, NEW answer, Answer(th, answer),
         call[th].at # "none", HookedNow' = HookedNow,
         answer = IF Effective(th) THEN "success" ELSE "failed"
  PROVE  Ends(th)
<1>1. Phase(th) # Promise!Idle /\ Phase(th).done = Effective(th)
  BY PhaseOf
<1>2. Phase(th)' = Promise!Idle
  BY Answered, PhaseAfter
<1>3. told' = [told EXCEPT ![th] = answer]
  BY DEF Answer
<1> QED BY <1>1, <1>2, <1>3 DEF Ends

LEMMA PromiseCases ==
  ASSUME IndInv, ~ReuseStubs, NEW th \in Threads, ThreadStep(th)
  PROVE  Begins(th) \/ TakesEffect(th) \/ Ends(th) \/ Stays(th)
<1>1. TypeOK /\ OrderInv /\ ClaimInv
  BY DEF IndInv
<1>2. TypeOK'
  BY <1>1, TypeStep
<1>3. ASSUME NEW at, MovesTo(th, at), call[th].at # "none"
      PROVE  call'[th].at = at /\ call'[th].op = call[th].op /\ Target(th)' = Target(th)
  BY <1>1, <1>3, Moved
<1>4. ASSUME NEW at, NEW s, MovesStub(th, at, s), call[th].at # "none"
      PROVE  call'[th].at = at /\ call'[th].op = call[th].op /\ Target(th)' = Target(th)
  BY <1>1, <1>4, MovedStub
<1>5. ASSUME ApiStep(th)
      PROVE  HookedNow' = HookedNow
  BY <1>1, <1>5, ApiStepIsQuiet
<1>6. CASE \E op \in {"hook", "unhook"}, t \in Targets : Call(th, op, t)
  <2>1. PICK op \in {"hook", "unhook"}, t \in Targets : Call(th, op, t)
    BY <1>6
  <2>2. /\ call[th] = NoCall /\ told' = [told EXCEPT ![th] = "nothing"]
        /\ call'[th] = [at |-> "called", op |-> op, target |-> t, stub |-> 0]
    BY <1>1, <2>1 DEF Call, TypeOK
  <2>3. /\ call'[th].at = "called" /\ call'[th].op = op /\ Target(th)' = t
    BY <2>2 DEF Target
  <2>4. ~Effective(th)'
    BY <2>3 DEF Effective
  <2>5. Phase(th)' = [op |-> op, target |-> t, done |-> Effective(th)']
    BY <1>2, <2>3, PhaseAfter
  <2>6. Phase(th)' = Promise!Pending(op, t)
    BY <2>4, <2>5 DEF Promise!Pending, Effective
  <2>7. Phase(th) = Promise!Idle
    BY <1>1, <2>2, PhaseOf
  <2> QED BY <1>5, <1>6, <2>2, <2>6, <2>7 DEF Begins, ApiStep
<1>7. CASE Claim(th) \/ CheckHooked(th)
  <2>1. call[th].at = "called" /\ ~Effective(th)
    BY <1>7 DEF Claim, CheckHooked, At, Effective
  <2>2. HookedNow' = HookedNow
    BY <1>5, <1>7 DEF ApiStep
  <2>3. CASE MovesTo(th, "ready") /\ UNCHANGED told
    <3>1. call'[th].at = "ready" /\ call'[th].op = call[th].op /\ Target(th)' = Target(th)
      BY <1>3, <2>1, <2>3
    <3>2. ~Effective(th)'
      BY <3>1 DEF Effective
    <3> QED BY <1>1, <1>2, <2>1, <2>2, <2>3, <3>1, <3>2, QuietMove
  <2>4. CASE Answer(th, "failed")
    BY <1>1, <1>2, <2>1, <2>2, <2>4, EndOfCall
  <2> QED BY <1>7, <2>3, <2>4 DEF Claim, CheckHooked, Goto, MovesTo
<1>8. CASE HookDone(th) \/ Forget(th) \/ NotUnhooked(th)
  <2>1. call[th].at # "none"
    BY <1>8 DEF HookDone, Forget, NotUnhooked, At
  <2>2. HookedNow' = HookedNow
    BY <1>5, <1>8 DEF ApiStep
  <2>3. \/ Answer(th, "success") /\ Effective(th)
        \/ Answer(th, "failed") /\ ~Effective(th)
    BY <1>8 DEF HookDone, Forget, NotUnhooked, At, Effective
  <2> QED BY <1>1, <1>2, <2>1, <2>2, <2>3, EndOfCall
<1>9. CASE EnsureReady(th) \/ FallBack(th) \/ BackendRefuses(th)
  <2>1. PICK at \in {"dispatch", "fall back", "refused"} :
          /\ MovesTo(th, at) /\ call[th].at \in {"ready", "fall back", "dispatch"}
          /\ UNCHANGED told
    BY <1>9 DEF EnsureReady, FallBack, BackendRefuses, Goto, MovesTo
  <2>2. call'[th].at = at /\ call'[th].op = call[th].op /\ Target(th)' = Target(th)
    BY <1>3, <2>1
  <2>3. ~Effective(th) /\ ~Effective(th)'
    BY <2>1, <2>2 DEF Effective
  <2>4. HookedNow' = HookedNow
    BY <1>5, <1>9 DEF ApiStep
  <2>5. call[th].at # "none" /\ call'[th].at # "none"
    BY <2>1, <2>2
  <2> QED BY <1>1, <1>2, <2>1, <2>2, <2>3, <2>4, <2>5, QuietMove
<1>10. CASE Hooks(th)
  <2>1. call[th].at = "dispatch" /\ call[th].op = "hook" /\ UNCHANGED told
    BY <1>10 DEF Hooks, At
  <2>2. call'[th].at \in {"done", "note stub"} /\ call'[th].op = "hook" /\ Target(th)' = Target(th)
    BY <1>3, <1>4, <1>10, <2>1 DEF Hooks
  <2>3. ~Effective(th)
    BY <2>1 DEF Effective
  <2>4. Effective(th)'
    BY <2>2 DEF Effective
  <2>5. Phase(th) = Promise!Pending("hook", Target(th)) /\ Target(th) \in Targets
    <3>1. Phase(th) = [op |-> "hook", target |-> Target(th), done |-> Effective(th)]
      BY <1>1, <2>1, PhaseOf
    <3>2. Target(th) \in Targets
      BY <1>1, <2>1, PhaseOf
    <3> QED BY <2>3, <3>1, <3>2 DEF Promise!Pending, Effective
  <2>6. Phase(th)' = Promise!Done("hook", Target(th))
    <3>1. Phase(th)' = [op |-> "hook", target |-> Target(th), done |-> Effective(th)']
      BY <1>2, <2>2, PhaseAfter
    <3> QED BY <2>4, <3>1 DEF Promise!Done, Effective
  <2>7. Target(th) \notin HookedNow /\ HookedNow' = HookedNow \cup {Target(th)}
    BY <1>1, <1>10, <2>1, HooksHooked DEF ClaimInv, ClaimsHold, Claims
  <2> QED BY <2>1, <2>5, <2>6, <2>7 DEF TakesEffect
<1>11. CASE Restores(th) \/ Frees(th)
  <2>1. call[th].at \in {"dispatch", "unhook stub"} /\ call[th].op = "unhook" /\ UNCHANGED told
    BY <1>1, <1>11 DEF Restores, Frees, At, OrderInv
  <2>2. /\ call'[th].at \in {"done", "drop stub"} /\ call'[th].op = "unhook"
        /\ Target(th)' = Target(th)
    BY <1>3, <1>11, <2>1 DEF Restores, Frees
  <2>3. ~Effective(th)
    BY <2>1 DEF Effective
  <2>4. Effective(th)'
    BY <2>2 DEF Effective
  <2>5. Phase(th) = Promise!Pending("unhook", Target(th)) /\ Target(th) \in Targets
    <3>1. Phase(th) = [op |-> "unhook", target |-> Target(th), done |-> Effective(th)]
      BY <1>1, <2>1, PhaseOf
    <3>2. Target(th) \in Targets
      BY <1>1, <2>1, PhaseOf
    <3> QED BY <2>3, <3>1, <3>2 DEF Promise!Pending, Effective
  <2>6. Phase(th)' = Promise!Done("unhook", Target(th))
    <3>1. Phase(th)' = [op |-> "unhook", target |-> Target(th), done |-> Effective(th)']
      BY <1>2, <2>2, PhaseAfter
    <3> QED BY <2>4, <3>1 DEF Promise!Done, Effective
  <2>7. Target(th) \in HookedNow /\ HookedNow' = HookedNow \ {Target(th)}
    BY <1>11, RestoresHooked, FreesHooked
  <2> QED BY <2>1, <2>5, <2>6, <2>7 DEF TakesEffect
<1>12. CASE Finds(th) \/ Refuses(th)
  <2>1. /\ call[th].at \in {"dispatch", "unhook stub"} /\ call[th].op = "unhook"
        /\ UNCHANGED <<told, patched>>
    BY <1>1, <1>12 DEF Finds, Refuses, At, OrderInv, hookVars
  <2>2. \/ MovesStub(th, "unhook stub", stubs[Target(th)])
        \/ MovesTo(th, "refused")
    BY <1>12 DEF Finds, Refuses
  <2>3. /\ call'[th].at \in {"unhook stub", "refused"} /\ call'[th].op = call[th].op
        /\ Target(th)' = Target(th)
    BY <1>3, <1>4, <2>1, <2>2
  <2>4. ~Effective(th) /\ ~Effective(th)'
    BY <2>1, <2>3 DEF Effective
  <2>5. HookedNow' = HookedNow
    BY <2>1 DEF HookedNow
  <2>6. call[th].at # "none" /\ call'[th].at # "none"
    BY <2>1, <2>3
  <2> QED BY <1>1, <1>2, <2>1, <2>3, <2>4, <2>5, <2>6, QuietMove
<1>13. CASE NoteStub(th) \/ DropStub(th)
  <2>1. MovesTo(th, "done") /\ UNCHANGED <<told, patched>>
    BY <1>13 DEF NoteStub, DropStub, Goto, MovesTo
  <2>2. \/ call[th].at = "note stub" /\ call[th].op = "hook"
        \/ call[th].at = "drop stub" /\ call[th].op = "unhook"
    BY <1>1, <1>13 DEF NoteStub, DropStub, OrderInv
  <2>3. call'[th].at = "done" /\ call'[th].op = call[th].op /\ Target(th)' = Target(th)
    BY <1>3, <2>1, <2>2
  <2>4. Effective(th) /\ Effective(th)'
    BY <2>2, <2>3 DEF Effective
  <2>5. HookedNow' = HookedNow
    BY <2>1 DEF HookedNow
  <2>6. call[th].at # "none" /\ call'[th].at # "none"
    BY <2>2, <2>3
  <2> QED BY <1>1, <1>2, <2>1, <2>3, <2>4, <2>5, <2>6, QuietMove
<1> QED BY <1>6, <1>7, <1>8, <1>9, <1>10, <1>11, <1>12, <1>13, StepCases DEF ApiStep

LEMMA PromiseStep ==
  ASSUME IndInv, ~ReuseStubs, [Next]_vars
  PROVE  [Promise!Next]_Promise!vars
<1>1. TypeOK
  BY DEF IndInv
<1>2. CASE UNCHANGED vars
  <2>1. HookedNow' = HookedNow /\ UNCHANGED <<told, call>>
    BY <1>2 DEF vars, HookedNow
  <2>2. \A th \in Threads : Phase(th)' = Phase(th)
    BY <2>1 DEF Phase, Effective
  <2> QED BY <2>1, <2>2 DEF Promise!vars, Phases
<1>3. ASSUME NEW th \in Threads, ThreadStep(th)
      PROVE  [Promise!Next]_Promise!vars
  <2>1. \A ti \in Threads \ {th} : Phase(ti)' = Phase(ti)
    <3>1. \A ti \in Threads \ {th} : call'[ti] = call[ti]
      BY <1>1, <1>3, CallStep
    <3> QED BY <3>1 DEF Phase, Effective
  <2>2. Phases' = [Phases EXCEPT ![th] = Phase(th)'] /\ Phases[th] = Phase(th)
    BY <2>1 DEF Phases
  <2>3. CASE Begins(th)
    <3>1. PICK op \in {"hook", "unhook"}, t \in Targets :
            /\ Phase(th) = Promise!Idle /\ Phase(th)' = Promise!Pending(op, t)
            /\ told' = [told EXCEPT ![th] = "nothing"] /\ HookedNow' = HookedNow
      BY <2>3 DEF Begins
    <3>2. Promise!Begin(th, op, t)
      BY <2>2, <3>1 DEF Promise!Begin, Phases
    <3> QED BY <3>2 DEF Promise!Next
  <2>4. CASE TakesEffect(th)
    <3>1. \E t \in Targets : Promise!Hook(th, t) \/ Promise!Unhook(th, t)
      BY <2>2, <2>4 DEF TakesEffect, Promise!Hook, Promise!Unhook, Phases
    <3> QED BY <3>1 DEF Promise!Next
  <2>5. CASE Ends(th)
    <3>1. Promise!End(th)
      BY <2>2, <2>5 DEF Ends, Promise!End, Phases
    <3> QED BY <3>1 DEF Promise!Next
  <2>6. CASE Stays(th)
    <3>1. Phases' = Phases
      BY <2>1, <2>6 DEF Stays, Phases
    <3> QED BY <2>6, <3>1 DEF Stays, Promise!vars, Phases
  <2> QED BY <1>3, <2>3, <2>4, <2>5, <2>6, PromiseCases
<1> QED BY <1>2, <1>3 DEF Next

LEMMA PromiseInit ==
  ASSUME Init
  PROVE  Promise!Init
<1>1. HookedNow = {} /\ told = [th \in Threads |-> "nothing"]
  BY DEF Init, HookedNow
<1>2. \A th \in Threads : Phase(th) = Promise!Idle
  BY DEF Init, Phase, Promise!Idle
<1> QED BY <1>1, <1>2 DEF Promise!Init

\* inlineHook and inlineUnhook behave as if every call happened at one moment: two
\* threads are never both told that they hooked an address, whatever the engine, the
\* threads and the addresses (loader/src/api/hook.cpp).
THEOREM Refinement ==
  ASSUME ~ReuseStubs
  PROVE  Spec => KeepsPromise
<1>1. Init => Promise!Init
  BY PromiseInit
<1>2. IndInv /\ [Next]_vars => [Promise!Next]_Promise!vars
  BY PromiseStep
<1> QED BY <1>1, <1>2, Invariance, PTL DEF Spec, KeepsPromise, Promise!Spec
=============================================================================
