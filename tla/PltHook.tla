------------------------------ MODULE PltHook ------------------------------
(***************************************************************************)
(* pltHook of the module API (loader/src/hook/plt.cpp) over the engine in   *)
(* use (hook/backend).  Hooking puts a handler into the PLT slots a library  *)
(* has for a symbol and answers with what was there; unhooking is the same  *)
(* call with that answer as the handler.  Any thread of the process may     *)
(* call it; here every module has one thread and one handler.              *)
(*                                                                         *)
(* A slot stands for all the slots of one library and symbol, and holds the *)
(* symbol's own function (Own) or the handler of a module.  A module only    *)
(* unhooks what it has hooked.                                             *)
(***************************************************************************)
EXTENDS HookEngines, FiniteSets

CONSTANTS
  Modules, Slots,
  Absent,      \* the slots that do not exist: the library does not import the symbol
  PltNames,    \* names the plan may carry for the PLT engine
  Starts,      \* what starting bytehook may come to: "ready", "failed"
  Serialised   \* the engines with which the modules call one after the other for
               \* one slot

Own == "own"
None == "none"

ASSUME PltHookAssumption ==
  /\ Own \notin Modules /\ None \notin Modules \cup Slots
  /\ Absent \subseteq Slots
  /\ Starts \subseteq {"ready", "failed"} /\ Starts # {}
  /\ Serialised \subseteq PltEngines

VARIABLES
  engine,    \* g_plt_engine
  started,   \* g_init_result of bytehook.cpp
  slot,      \* what the slots hold
  records,   \* per slot, the record of the backend in use (g_records; g_stubs and
             \* g_originals of bytehook.cpp)
  pending,   \* g_pending of bytehook.cpp
  call,      \* per module: its call and how far it is
  mine       \* per module and slot: the answer to its hook, until it unhooks

vars == <<engine, started, slot, records, pending, call, mine>>

NoRecord == [replacement |-> None, original |-> None]
NoCall == [at |-> "none", slot |-> None, handler |-> None, previous |-> None, backup |-> None]

Init ==
  /\ engine \in {resolvedPltEngine(n) : n \in PltNames}
  /\ started = "not yet"
  /\ slot = [s \in Slots |-> Own]
  /\ records = [s \in Slots |-> NoRecord] /\ pending = {}
  /\ call = [m \in Modules |-> NoCall]
  /\ mine = [m \in Modules |-> [s \in Slots |-> None]]

(***************************************************************************)
(* plt.cpp.                                                                *)
(***************************************************************************)

engineVars == <<engine, started>>
Slot(m) == call[m].slot
Handler(m) == call[m].handler
Record(m) == records[Slot(m)]
Unhooking(m) == mine[m][Slot(m)] # None

Goto(m, at) == call' = [call EXCEPT ![m].at = at] /\ UNCHANGED mine
Fail(m) == call' = [call EXCEPT ![m] = NoCall] /\ UNCHANGED mine
Succeed(m, original) ==
  /\ call' = [call EXCEPT ![m] = NoCall]
  /\ mine' = [mine EXCEPT ![m][Slot(m)] = IF @ = None THEN original ELSE None]

\* The engines that may come to work for a call that begins now.
ToBeUsed ==
  {engine} \cup IF engine = "bytehook" /\ started = "not yet" /\ "failed" \in Starts
                THEN {"lsplt"} ELSE {}

Call(m, s) ==
  /\ call[m] = NoCall
  /\ ToBeUsed \cap Serialised # {} => \A n \in Modules : Slot(n) # s
  /\ call' = [call EXCEPT ![m] =
       [at |-> "called", slot |-> s, previous |-> None, backup |-> None,
        handler |-> IF mine[m][s] = None THEN m ELSE mine[m][s]]]
  /\ UNCHANGED <<engineVars, slot, records, pending, mine>>

\* ensurePltEngineReady; a library that is not mapped ends the call.
EnsureReady(m) ==
  /\ call[m].at = "called"
  /\ IF engine = "bytehook"
     THEN \E how \in Starts :
            /\ started \in {"not yet", how}
            /\ started' = how
            /\ engine' = IF how = "ready" THEN engine ELSE "lsplt"
     ELSE UNCHANGED engineVars
  /\ Goto(m, "ready") \/ Fail(m)
  /\ UNCHANGED <<slot, records, pending>>

\* The engine is "disable", or the library refuses before it changes anything.
Refuse(m) ==
  /\ call[m].at = "ready"
  /\ Fail(m)
  /\ UNCHANGED <<engineVars, slot, records, pending>>

(***************************************************************************)
(* lsplt.cpp.  The records are locked while they are read and while they    *)
(* are written, and not while the slot is patched.  RegisterHook and         *)
(* CommitHook are one step: whichever thread commits a registration, it      *)
(* answers with what the slot held, and with nothing if that is the handler.*)
(***************************************************************************)

Put(m) == slot' = [slot EXCEPT ![Slot(m)] = Handler(m)]

LspltLookUp(m) ==
  /\ call[m].at = "ready" /\ engine = "lsplt"
  /\ \/ /\ Record(m) = NoRecord
        /\ Goto(m, "commit")
     \/ /\ Record(m) # NoRecord /\ Handler(m) = Record(m).original
        /\ call' = [call EXCEPT ![m].at = "commit", ![m].previous = Record(m).original]
        /\ UNCHANGED mine
     \/ /\ Record(m) # NoRecord /\ Handler(m) # Record(m).original
        /\ Fail(m)
  /\ UNCHANGED <<engineVars, slot, records, pending>>

LspltCommit(m) ==
  /\ call[m].at = "commit"
  /\ \/ /\ Slot(m) \notin Absent /\ slot[Slot(m)] # Handler(m)
        /\ Put(m)
        /\ call' = [call EXCEPT ![m].at = "record", ![m].backup = slot[Slot(m)]]
        /\ UNCHANGED mine
     \/ Fail(m) /\ UNCHANGED slot
  /\ UNCHANGED <<engineVars, records, pending>>

\* A bug: the record holds the handler for the original.
LspltRecordHandler(m) ==
  /\ call[m].at = "record"
  /\ records' = [records EXCEPT ![Slot(m)] =
       IF call[m].previous # None THEN NoRecord
       ELSE [replacement |-> Handler(m), original |-> Handler(m)]]
  /\ Succeed(m, call[m].backup)
  /\ UNCHANGED <<engineVars, slot, pending>>

LspltRecord(m) ==
  /\ call[m].at = "record"
  /\ IF call[m].previous # None
     THEN /\ records' = [records EXCEPT ![Slot(m)] = NoRecord]
          /\ Succeed(m, call[m].previous)
     ELSE /\ records' = [records EXCEPT ![Slot(m)] =
               [replacement |-> Handler(m), original |-> call[m].backup]]
          /\ Succeed(m, call[m].backup)
  /\ UNCHANGED <<engineVars, slot, pending>>

(***************************************************************************)
(* bytehook.cpp.  A slot that is being hooked is pending: the lock is        *)
(* released while bytehook works.                                          *)
(***************************************************************************)

BytehookUnhook(m) ==
  /\ call[m].at = "ready" /\ engine = "bytehook"
  /\ Record(m) # NoRecord
  /\ \/ /\ Handler(m) = Record(m).original
        /\ slot' = [slot EXCEPT ![Slot(m)] = Record(m).original]
        /\ records' = [records EXCEPT ![Slot(m)] = NoRecord]
        /\ Succeed(m, Record(m).original)
     \/ Fail(m) /\ UNCHANGED <<slot, records>>
  /\ UNCHANGED <<engineVars, pending>>

\* A bug: a slot that is being hooked is not looked for.
BytehookBeginAnyway(m) ==
  /\ call[m].at = "ready" /\ engine = "bytehook"
  /\ Record(m) = NoRecord
  /\ pending' = pending \cup {Slot(m)}
  /\ Goto(m, "install")
  /\ UNCHANGED <<engineVars, slot, records>>

BytehookBegin(m) ==
  /\ call[m].at = "ready" /\ engine = "bytehook"
  /\ Record(m) = NoRecord
  /\ \/ Slot(m) \in pending /\ Fail(m) /\ UNCHANGED pending
     \/ /\ Slot(m) \notin pending
        /\ pending' = pending \cup {Slot(m)}
        /\ Goto(m, "install")
  /\ UNCHANGED <<engineVars, slot, records>>

\* bytehook_hook_single and its callback, which brings the backup.
BytehookInstall(m) ==
  /\ call[m].at = "install"
  /\ \/ /\ Slot(m) \notin Absent
        /\ Put(m)
        /\ call' = [call EXCEPT ![m].at = "settle", ![m].backup = slot[Slot(m)]]
        /\ UNCHANGED mine
     \/ Goto(m, "settle") /\ UNCHANGED slot
  /\ UNCHANGED <<engineVars, records, pending>>

\* A bug: a slot that could not be hooked stays pending.
BytehookSettleOnSuccess(m) ==
  /\ call[m].at = "settle"
  /\ \/ /\ call[m].backup # None
        /\ pending' = pending \ {Slot(m)}
        /\ records' = [records EXCEPT ![Slot(m)] =
             [replacement |-> Handler(m), original |-> call[m].backup]]
        /\ Succeed(m, call[m].backup)
     \/ /\ call[m].backup = None
        /\ Fail(m) /\ UNCHANGED <<records, pending>>
  /\ UNCHANGED <<engineVars, slot>>

BytehookSettle(m) ==
  /\ call[m].at = "settle"
  /\ pending' = pending \ {Slot(m)}
  /\ \/ /\ call[m].backup # None
        /\ records' = [records EXCEPT ![Slot(m)] =
             [replacement |-> Handler(m), original |-> call[m].backup]]
        /\ Succeed(m, call[m].backup)
     \/ /\ call[m].backup = None
        /\ Fail(m) /\ UNCHANGED records
  /\ UNCHANGED <<engineVars, slot>>

(***************************************************************************)
(* xhook.cpp, all of it under the lock.  Every commit registers every       *)
(* record; xhook_refresh patches the slots that do not hold the handler and *)
(* answers with what they held, into the record.                           *)
(***************************************************************************)

Applies(recs, s) == recs[s] # NoRecord /\ s \notin Absent /\ slot[s] # recs[s].replacement
Refreshed(recs) == [s \in Slots |-> IF Applies(recs, s) THEN recs[s].replacement ELSE slot[s]]
Answered(recs) == [s \in Slots |-> IF Applies(recs, s)
                                   THEN [recs[s] EXCEPT !.original = slot[s]] ELSE recs[s]]

XhookUnhook(m) ==
  /\ call[m].at = "ready" /\ engine = "xhook"
  /\ Record(m) # NoRecord
  /\ \/ /\ Handler(m) = Record(m).original
        /\ LET restoring == [records EXCEPT ![Slot(m)].replacement = Record(m).original]
           IN  /\ slot' = Refreshed(restoring)
               /\ records' = [Answered(restoring) EXCEPT ![Slot(m)] = NoRecord]
        /\ Succeed(m, Record(m).original)
     \/ Fail(m) /\ UNCHANGED <<slot, records>>
  /\ UNCHANGED <<engineVars, pending>>

\* A bug: the record of a hook that failed is kept.
XhookHookKept(m) ==
  /\ call[m].at = "ready" /\ engine = "xhook"
  /\ Record(m) = NoRecord
  /\ LET adding == [records EXCEPT ![Slot(m)] = [replacement |-> m, original |-> None]]
         done == Answered(adding)
     IN  /\ slot' = Refreshed(adding)
         /\ records' = done
         /\ IF done[Slot(m)].original # None THEN Succeed(m, done[Slot(m)].original) ELSE Fail(m)
  /\ UNCHANGED <<engineVars, pending>>

XhookHook(m) ==
  /\ call[m].at = "ready" /\ engine = "xhook"
  /\ Record(m) = NoRecord
  /\ LET adding == [records EXCEPT ![Slot(m)] =
                      [replacement |-> Handler(m), original |-> None]]
         done == Answered(adding)
     IN  \/ /\ done[Slot(m)].original # None
            /\ slot' = Refreshed(adding) /\ records' = done
            /\ Succeed(m, done[Slot(m)].original)
         \/ /\ done[Slot(m)].original = None
            /\ slot' = Refreshed(records) /\ records' = Answered(records)
            /\ Fail(m)
  /\ UNCHANGED <<engineVars, pending>>

(***************************************************************************)
(* plti.cpp, all of it under the lock.                                     *)
(***************************************************************************)

PltiUnhook(m) ==
  /\ call[m].at = "ready" /\ engine = "plti"
  /\ Record(m) # NoRecord
  /\ \/ /\ Handler(m) = Record(m).original
        /\ Put(m)
        /\ records' = [records EXCEPT ![Slot(m)] = NoRecord]
        /\ Succeed(m, Record(m).original)
     \/ Fail(m) /\ UNCHANGED <<slot, records>>
  /\ UNCHANGED <<engineVars, pending>>

PltiHook(m) ==
  /\ call[m].at = "ready" /\ engine = "plti"
  /\ Record(m) = NoRecord
  /\ \/ /\ Slot(m) \notin Absent
        /\ Put(m)
        /\ records' = [records EXCEPT ![Slot(m)] =
             [replacement |-> Handler(m), original |-> slot[Slot(m)]]]
        /\ Succeed(m, slot[Slot(m)])
     \/ Slot(m) \in Absent /\ Fail(m) /\ UNCHANGED <<slot, records>>
  /\ UNCHANGED <<engineVars, pending>>

ModuleStep(m) ==
  \/ \E s \in Slots : Call(m, s)
  \/ EnsureReady(m) \/ Refuse(m)
  \/ LspltLookUp(m) \/ LspltCommit(m) \/ LspltRecord(m)
  \/ BytehookUnhook(m) \/ BytehookBegin(m) \/ BytehookInstall(m) \/ BytehookSettle(m)
  \/ XhookUnhook(m) \/ XhookHook(m)
  \/ PltiUnhook(m) \/ PltiHook(m)

Next == \E m \in Modules : ModuleStep(m)

Spec == Init /\ [][Next]_vars

(***************************************************************************)
(* Properties.                                                             *)
(***************************************************************************)

Handlers == Modules \cup {Own}
Places == {"called", "ready", "commit", "record", "install", "settle"}
Records == [replacement : Handlers, original : Handlers]
Calls == [at : Places, slot : Slots, handler : Handlers,
          previous : Handlers \cup {None}, backup : Handlers \cup {None}]

TypeOK ==
  /\ engine \in PltEngines
  /\ started \in Starts \cup {"not yet"}
  /\ slot \in [Slots -> Handlers]
  /\ records \in [Slots -> Records \cup {NoRecord}]
  /\ pending \subseteq Slots
  /\ call \in [Modules -> Calls \cup {NoCall}]
  /\ mine \in [Modules -> [Slots -> Handlers \cup {None}]]

Hooking(s) == {m \in Modules : mine[m][s] # None}

\* When no call for a slot is under way, at most one module has hooked it; the slot
\* holds its handler, the module and the record know the symbol's own function, and
\* a slot that nobody has hooked holds that function and can be hooked.
SlotsAgree ==
  \A s \in Slots : (\A m \in Modules : Slot(m) # s) =>
    /\ s \notin pending
    /\ \/ Hooking(s) = {} /\ slot[s] = Own /\ records[s] = NoRecord
       \/ \E m \in Modules :
            /\ Hooking(s) = {m} /\ mine[m][s] = Own
            /\ slot[s] = m /\ records[s] = [replacement |-> m, original |-> Own]

\* "If you want to unhook, please call this function with hook_handler = original"
\* (zygisk_next_api.h:27-28): the call by which a module unhooks is taken for that,
\* and not for a hook nor for one of a slot that another has hooked.
UnhookIsRecognised ==
  \A m \in Modules : call[m].at = "ready" /\ Unhooking(m) =>
    Record(m) # NoRecord /\ Handler(m) = Record(m).original
=============================================================================
