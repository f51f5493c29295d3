--------------------------- MODULE PltHookProofs ---------------------------
(***************************************************************************)
(* Proofs about PltHook: with any engine, modules and slots, and lsplt       *)
(* serialised, the slot, the record of the backend and what the modules were *)
(* told agree whenever no call for the slot is under way.                   *)
(***************************************************************************)
EXTENDS PltHook, TLAPS

At(m, places) == call[m].at \in places
Works(m) == At(m, {"commit", "record", "install", "settle"})

\* What a slot may be between two calls, and in the middle of one that hooks it.
Nobody(s) == \A m \in Modules : mine[m][s] = None
OnlyOne(s, m) == mine[m][s] = Own /\ \A n \in Modules \ {m} : mine[n][s] = None
Free(s) == Nobody(s) /\ slot[s] = Own /\ records[s] = NoRecord
Held(s, m) ==
  OnlyOne(s, m) /\ slot[s] = m /\ records[s] = [replacement |-> m, original |-> Own]
HalfHooked(s, m) == Nobody(s) /\ slot[s] = m /\ records[s] = NoRecord
HalfUnhooked(s, m) ==
  OnlyOne(s, m) /\ slot[s] = Own /\ records[s] = [replacement |-> m, original |-> Own]

\* A call that has patched the slot and not yet told the record or the module.
Between(m) ==
  \/ At(m, {"record"})
  \/ At(m, {"settle"}) /\ call[m].backup # None

SlotOk(s) ==
  /\ s \in Absent => slot[s] = Own
  /\ \/ Free(s)
     \/ \E m \in Modules : Held(s, m)
     \/ \E m \in Modules : Between(m) /\ Slot(m) = s

Wanted(m, s) == IF mine[m][s] = None THEN m ELSE mine[m][s]

CallOk(m) ==
  /\ call[m].at # "none" => Handler(m) = Wanted(m, Slot(m))
  /\ At(m, {"commit"}) =>
       \/ call[m].previous = None /\ Free(Slot(m))
       \/ call[m].previous = Own /\ Held(Slot(m), m)
  /\ At(m, {"record"}) =>
       \/ call[m].previous = None /\ call[m].backup = Own /\ HalfHooked(Slot(m), m)
       \/ call[m].previous = Own /\ HalfUnhooked(Slot(m), m)
  /\ At(m, {"install"}) => Free(Slot(m)) /\ call[m].backup = None
  /\ At(m, {"settle"}) =>
       \/ call[m].backup = None /\ Free(Slot(m))
       \/ call[m].backup = Own /\ HalfHooked(Slot(m), m)
  /\ At(m, {"called", "ready"}) => call[m].previous = None /\ call[m].backup = None

PendingOk(s) ==
  s \in pending <=> \E m \in Modules : At(m, {"install", "settle"}) /\ Slot(m) = s

\* The engines: lsplt is in use or may come to be.
LspltMayCome ==
  \/ engine = "lsplt"
  \/ engine = "bytehook" /\ started = "not yet" /\ "failed" \in Starts

SlotInv == \A s \in Slots : SlotOk(s)
CallInv == \A m \in Modules : CallOk(m)
PendingInv == \A s \in Slots : PendingOk(s)
OneWorks ==
  \A m, n \in Modules : Works(m) /\ Works(n) /\ Slot(m) = Slot(n) => m = n
EngineFits(m) ==
  /\ At(m, {"commit", "record"}) => engine = "lsplt"
  /\ At(m, {"install", "settle"}) => engine = "bytehook" /\ started = "ready"
  /\ At(m, {"ready"}) /\ engine = "bytehook" => started = "ready"
EngineInv ==
  /\ engine = "bytehook" => started # "failed"
  /\ \A m \in Modules : EngineFits(m)
  /\ LspltMayCome =>
       \A m, n \in Modules :
         call[m].at # "none" /\ call[n].at # "none" /\ Slot(m) = Slot(n) => m = n

IndInv == TypeOK /\ SlotInv /\ CallInv /\ PendingInv /\ OneWorks /\ EngineInv

(***************************************************************************)
(* A step of a module touches one slot, the one its call is for.            *)
(***************************************************************************)

Busy(m) == call[m].at # "none"
Touches(m, s) ==
  /\ Busy(m) => Slot(m) = s
  /\ Busy(m)' => Slot(m)' = s
  /\ \A n \in Modules \ {m} : call'[n] = call[n] /\ mine'[n] = mine[n]
  /\ \A t \in Slots \ {s} :
       /\ slot'[t] = slot[t] /\ records'[t] = records[t] /\ mine'[m][t] = mine[m][t]
       /\ t \in pending' <=> t \in pending
Leaves(m, s) ==
  slot'[s] = slot[s] /\ records'[s] = records[s] /\ mine'[m][s] = mine[m][s]
Settles(m, h, r, answer) ==
  /\ slot' = [slot EXCEPT ![Slot(m)] = h] /\ records' = [records EXCEPT ![Slot(m)] = r]
  /\ Succeed(m, answer)
HooksAtOnce(m) ==
  /\ engine \in {"xhook", "plti"} /\ Free(Slot(m)) /\ Slot(m) \notin Absent
  /\ Settles(m, m, [replacement |-> m, original |-> Own], Own)
UnhooksAtOnce(m) == Held(Slot(m), m) /\ Settles(m, Own, NoRecord, Own)
Refuses(m) == Fail(m) /\ UNCHANGED <<slot, records>>
AtOnce(m) ==
  /\ At(m, {"ready"}) /\ UNCHANGED <<engineVars, pending>>
  /\ HooksAtOnce(m) \/ UnhooksAtOnce(m) \/ Refuses(m)
Alone(m, s) == \A n \in Modules \ {m} : Works(n) => Slot(n) # s

LEMMA CallTypes ==
  ASSUME TypeOK, NEW m \in Modules, call[m].at # "none"
  PROVE  call[m] \in Calls /\ Slot(m) \in Slots /\ Handler(m) \in Handlers
<1>1. call[m] \in Calls \cup {NoCall}
  BY DEF TypeOK
<1>2. NoCall.at = "none"
  BY DEF NoCall
<1>3. call[m] \in Calls
  BY <1>1, <1>2
<1> QED BY <1>3 DEF Calls, Slot, Handler

\* Modules, the symbol's own function and no answer are different.
LEMMA Names ==
  ASSUME NEW m \in Modules
  PROVE  /\ m # Own /\ m # None /\ Own # None
         /\ [replacement |-> m, original |-> Own] # NoRecord
<1>1. m # Own /\ m # None /\ Own # None
  BY PltHookAssumption DEF Own, None
<1>2. [replacement |-> m, original |-> Own].replacement = m /\ NoRecord.replacement = None
  BY DEF NoRecord
<1> QED BY <1>1, <1>2

\* While nothing is in the middle of a call for a slot, its record tells who holds it.
LEMMA RecordTells ==
  ASSUME IndInv, NEW m \in Modules, At(m, {"called", "ready"}), NEW s \in Slots, s = Slot(m),
         \A n \in Modules : Between(n) => Slot(n) # s
  PROVE  /\ records[s] = NoRecord => Free(s) /\ Handler(m) = m
         /\ records[s] # NoRecord /\ Handler(m) = records[s].original =>
              Held(s, m) /\ records[s].original = Own /\ Handler(m) = Own
<1>1. Free(s) \/ \E n \in Modules : Held(s, n)
  BY DEF IndInv, SlotInv, SlotOk
<1>2. Handler(m) = Wanted(m, s)
  BY DEF IndInv, CallInv, CallOk, At
<1>3. ASSUME Free(s)
      PROVE  records[s] = NoRecord /\ Handler(m) = m
  BY <1>2, <1>3 DEF Free, Nobody, Wanted
<1>4. ASSUME NEW n \in Modules, Held(s, n)
      PROVE  /\ records[s] # NoRecord /\ records[s].original = Own
             /\ Handler(m) = Own => n = m
  <2>1. records[s] = [replacement |-> n, original |-> Own]
    BY <1>4 DEF Held
  <2>2. ASSUME n # m
        PROVE  Handler(m) = m
    BY <1>2, <1>4, <2>2 DEF Held, OnlyOne, Wanted
  <2>3. m # Own
    BY Names
  <2> QED BY <2>1, <2>2, <2>3, Names
<1> QED BY <1>1, <1>3, <1>4

(***************************************************************************)
(* The calls that are one step: the backend holds its lock from the look at  *)
(* the record to the change of it.                                         *)
(***************************************************************************)

LEMMA UnhookTells ==
  ASSUME IndInv, NEW m \in Modules, At(m, {"ready"}), engine # "lsplt",
         Record(m) # NoRecord, Handler(m) = Record(m).original
  PROVE  Held(Slot(m), m) /\ Handler(m) = Own /\ Record(m).original = Own
<1>1. Slot(m) \in Slots
  BY CallTypes DEF IndInv, At
<1>2. ASSUME NEW n \in Modules, Between(n), Slot(n) = Slot(m)
      PROVE  FALSE
  <2>1. ~At(n, {"record"})
    BY DEF IndInv, EngineInv, EngineFits, At
  <2>2. At(n, {"settle"}) /\ call[n].backup # None
    BY <1>2, <2>1 DEF Between
  <2>3. Free(Slot(n)) \/ HalfHooked(Slot(n), n)
    BY <2>2 DEF IndInv, CallInv, CallOk
  <2> QED BY <1>2, <2>3 DEF Free, HalfHooked, Record
<1>3. At(m, {"called", "ready"})
  BY DEF At
<1> QED BY <1>1, <1>2, <1>3, RecordTells DEF Record

LEMMA PltiAtOnce ==
  ASSUME IndInv, NEW m \in Modules, PltiUnhook(m) \/ PltiHook(m)
  PROVE  AtOnce(m)
<1>1. At(m, {"ready"}) /\ UNCHANGED <<engineVars, pending>> /\ engine = "plti"
  BY DEF PltiUnhook, PltiHook, At
<1>2. Slot(m) \in Slots
  BY <1>1, CallTypes DEF IndInv, At
<1>3. CASE Refuses(m)
  BY <1>1, <1>3 DEF AtOnce
<1>4. CASE PltiUnhook(m) /\ ~Refuses(m)
  <2>1. /\ Record(m) # NoRecord /\ Handler(m) = Record(m).original
        /\ Put(m) /\ records' = [records EXCEPT ![Slot(m)] = NoRecord]
        /\ Succeed(m, Record(m).original)
    BY <1>4 DEF PltiUnhook, Refuses
  <2>2. Held(Slot(m), m) /\ Handler(m) = Own /\ Record(m).original = Own
    BY <1>1, <2>1, UnhookTells
  <2> QED BY <1>1, <2>1, <2>2 DEF AtOnce, UnhooksAtOnce, Settles, Put
<1>5. CASE PltiHook(m) /\ ~Refuses(m)
  <2>1. /\ Slot(m) \notin Absent /\ Put(m) /\ Record(m) = NoRecord
        /\ records' = [records EXCEPT ![Slot(m)] =
             [replacement |-> Handler(m), original |-> slot[Slot(m)]]]
        /\ Succeed(m, slot[Slot(m)])
    BY <1>5 DEF PltiHook, Refuses
  <2>2. \A n \in Modules : ~Between(n)
    BY <1>1 DEF IndInv, EngineInv, EngineFits, Between, At
  <2>3. Free(Slot(m)) /\ Handler(m) = m
    BY <1>1, <1>2, <2>1, <2>2, RecordTells DEF At, Record
  <2>4. slot[Slot(m)] = Own
    BY <2>3 DEF Free
  <2> QED BY <1>1, <2>1, <2>3, <2>4 DEF AtOnce, HooksAtOnce, Settles, Put
<1> QED BY <1>3, <1>4, <1>5

\* No slot is in the middle of a call: what xhook registers again stays as it is.
LEMMA XhookSettled ==
  ASSUME IndInv, engine = "xhook"
  PROVE  /\ \A n \in Modules : ~Between(n)
         /\ \A t \in Slots : ~Applies(records, t)
<1>1. \A n \in Modules : ~Between(n)
  BY DEF IndInv, EngineInv, EngineFits, Between, At
<1>2. ASSUME NEW t \in Slots
      PROVE  ~Applies(records, t)
  <2>1. Free(t) \/ \E n \in Modules : Held(t, n)
    <3>1. SlotOk(t)
      BY DEF IndInv, SlotInv
    <3> QED BY <1>1, <3>1 DEF SlotOk
  <2>2. ASSUME Free(t)
        PROVE  records[t] = NoRecord
    BY <2>2 DEF Free
  <2>3. ASSUME NEW n \in Modules, Held(t, n)
        PROVE  slot[t] = n /\ records[t].replacement = n
    BY <2>3 DEF Held
  <2> QED BY <2>1, <2>2, <2>3 DEF Applies
<1> QED BY <1>1, <1>2

LEMMA XhookAtOnce ==
  ASSUME IndInv, NEW m \in Modules, XhookUnhook(m) \/ XhookHook(m)
  PROVE  AtOnce(m)
<1>1. At(m, {"ready"}) /\ UNCHANGED <<engineVars, pending>> /\ engine = "xhook"
  BY DEF XhookUnhook, XhookHook, At
<1>2. Slot(m) \in Slots /\ DOMAIN records = Slots /\ DOMAIN slot = Slots
  BY <1>1, CallTypes DEF IndInv, TypeOK, At
<1>3. slot = [t \in Slots |-> slot[t]] /\ records = [t \in Slots |-> records[t]]
  BY DEF IndInv, TypeOK
<1>4. CASE Refuses(m)
  BY <1>1, <1>4 DEF AtOnce
<1>5. CASE XhookUnhook(m) /\ ~Refuses(m)
  <2> DEFINE restoring == [records EXCEPT ![Slot(m)].replacement = Record(m).original]
  <2>1. /\ Record(m) # NoRecord /\ Handler(m) = Record(m).original
        /\ slot' = Refreshed(restoring)
        /\ records' = [Answered(restoring) EXCEPT ![Slot(m)] = NoRecord]
        /\ Succeed(m, Record(m).original)
    BY <1>5 DEF XhookUnhook, Refuses
  <2>2. Held(Slot(m), m) /\ Record(m).original = Own
    BY <1>1, <2>1, UnhookTells
  <2>3. slot[Slot(m)] # Own /\ Slot(m) \notin Absent
    BY <1>2, <2>2, Names DEF Held, IndInv, SlotInv, SlotOk
  <2>4. restoring[Slot(m)] = [replacement |-> Own, original |-> Own]
    BY <1>2, <2>2 DEF Held, Record
  <2>5. \A t \in Slots \ {Slot(m)} : restoring[t] = records[t]
    BY <1>2
  <2> HIDE DEF restoring
  <2>6. Applies(restoring, Slot(m))
    <3>1. restoring[Slot(m)] # NoRecord
      <4>1. restoring[Slot(m)].replacement = Own /\ NoRecord.replacement = None
        BY <2>4 DEF NoRecord
      <4> QED BY <4>1, Names
    <3> QED BY <2>3, <2>4, <3>1 DEF Applies
  <2>7. \A t \in Slots \ {Slot(m)} : ~Applies(restoring, t)
    BY <1>1, <2>5, XhookSettled DEF Applies
  <2>8. slot' = [slot EXCEPT ![Slot(m)] = Own]
    BY <1>2, <1>3, <2>1, <2>4, <2>6, <2>7 DEF Refreshed
  <2>9. records' = [records EXCEPT ![Slot(m)] = NoRecord]
    BY <1>2, <1>3, <2>1, <2>5, <2>7 DEF Answered
  <2> QED BY <1>1, <2>1, <2>2, <2>8, <2>9 DEF AtOnce, UnhooksAtOnce, Settles
<1>6. CASE XhookHook(m) /\ ~Refuses(m)
  <2> DEFINE adding == [records EXCEPT ![Slot(m)] =
                         [replacement |-> Handler(m), original |-> None]]
             done == Answered(adding)
  <2>1. Record(m) = NoRecord
    BY <1>6 DEF XhookHook
  <2>2. Free(Slot(m)) /\ Handler(m) = m
    BY <1>1, <1>2, <2>1, XhookSettled, RecordTells DEF At, Record
  <2>3. slot[Slot(m)] = Own /\ m # Own
    BY <2>2, Names DEF Free
  <2>4. adding[Slot(m)] = [replacement |-> m, original |-> None]
    BY <1>2, <2>2
  <2>5. \A t \in Slots \ {Slot(m)} : adding[t] = records[t]
    BY <1>2
  <2>6. \/ /\ done[Slot(m)].original # None
           /\ slot' = Refreshed(adding) /\ records' = done
           /\ Succeed(m, done[Slot(m)].original)
        \/ /\ slot' = Refreshed(records) /\ records' = Answered(records) /\ Fail(m)
    BY <1>6 DEF XhookHook
  <2> HIDE DEF adding
  <2>7. Refreshed(records) = slot /\ Answered(records) = records
    BY <1>1, <1>3, XhookSettled DEF Refreshed, Answered
  <2>8. done[Slot(m)].original # None
    BY <1>6, <2>6, <2>7 DEF Refuses
  <2>9. adding[Slot(m)] # NoRecord
    <3>1. adding[Slot(m)].replacement = m /\ NoRecord.replacement = None
      BY <2>4 DEF NoRecord
    <3> QED BY <3>1, Names
  <2>10. done[Slot(m)] = IF Applies(adding, Slot(m))
                         THEN [adding[Slot(m)] EXCEPT !.original = Own] ELSE adding[Slot(m)]
    BY <1>2, <2>3 DEF Answered
  <2>11. Applies(adding, Slot(m)) /\ Slot(m) \notin Absent
    BY <2>4, <2>8, <2>10 DEF Applies
  <2>12. done[Slot(m)] = [replacement |-> m, original |-> Own]
    BY <2>4, <2>10, <2>11
  <2>13. \A t \in Slots \ {Slot(m)} : ~Applies(adding, t)
    BY <1>1, <2>5, XhookSettled DEF Applies
  <2>14. Refreshed(adding) = [slot EXCEPT ![Slot(m)] = m]
    BY <1>2, <1>3, <2>4, <2>11, <2>13 DEF Refreshed
  <2>15. done = [records EXCEPT ![Slot(m)] = [replacement |-> m, original |-> Own]]
    <3>1. \A t \in Slots \ {Slot(m)} : done[t] = records[t]
      BY <2>5, <2>13 DEF Answered
    <3>2. done = [t \in Slots |-> done[t]]
      BY DEF Answered
    <3> HIDE DEF done
    <3> QED BY <1>2, <1>3, <2>12, <3>1, <3>2
  <2>16. \/ /\ slot' = Refreshed(adding) /\ records' = done
            /\ Succeed(m, done[Slot(m)].original)
         \/ Refuses(m)
    BY <2>6, <2>7 DEF Refuses
  <2> HIDE DEF done
  <2> QED BY <1>1, <1>6, <2>2, <2>11, <2>12, <2>14, <2>15, <2>16
          DEF AtOnce, HooksAtOnce, Settles
<1> QED BY <1>4, <1>5, <1>6

LEMMA BytehookUnhookAtOnce ==
  ASSUME IndInv, NEW m \in Modules, BytehookUnhook(m)
  PROVE  AtOnce(m)
<1>1. At(m, {"ready"}) /\ UNCHANGED <<engineVars, pending>> /\ engine # "lsplt"
  BY DEF BytehookUnhook, At
<1>2. CASE Refuses(m)
  BY <1>1, <1>2 DEF AtOnce
<1>3. CASE ~Refuses(m)
  <2>1. /\ Record(m) # NoRecord /\ Handler(m) = Record(m).original
        /\ slot' = [slot EXCEPT ![Slot(m)] = Record(m).original]
        /\ records' = [records EXCEPT ![Slot(m)] = NoRecord]
        /\ Succeed(m, Record(m).original)
    BY <1>3 DEF BytehookUnhook, Refuses
  <2>2. Held(Slot(m), m) /\ Record(m).original = Own
    BY <1>1, <2>1, UnhookTells
  <2> QED BY <1>1, <2>1, <2>2 DEF AtOnce, UnhooksAtOnce, Settles
<1> QED BY <1>2, <1>3

(***************************************************************************)
(* Type correctness.                                                       *)
(***************************************************************************)

LEMMA TypeInit == Init => TypeOK
<1> SUFFICES ASSUME Init PROVE TypeOK
  OBVIOUS
<1>1. engine \in PltEngines
  <2>1. PICK n \in PltNames : engine = resolvedPltEngine(n)
    BY DEF Init
  <2> QED
    BY <2>1 DEF resolvedPltEngine, parsePltEngine, setPltEngine, defaultPltEngine, PltEngines
<1> QED BY <1>1 DEF Init, TypeOK, Handlers

LEMMA GotoTyped ==
  ASSUME TypeOK, NEW m \in Modules, Busy(m), NEW at \in Places,
         call' = [call EXCEPT ![m].at = at]
  PROVE  call' \in [Modules -> Calls \cup {NoCall}]
<1>1. call[m] \in Calls
  BY CallTypes DEF Busy
<1>2. [call[m] EXCEPT !.at = at] \in Calls
  BY <1>1 DEF Calls
<1> QED BY <1>2 DEF TypeOK

LEMMA FailTyped ==
  ASSUME TypeOK, NEW m \in Modules, Fail(m)
  PROVE  call' \in [Modules -> Calls \cup {NoCall}] /\ mine' = mine
BY DEF TypeOK, Fail

LEMMA SucceedTyped ==
  ASSUME TypeOK, NEW m \in Modules, Busy(m), NEW h \in Handlers \cup {None}, Succeed(m, h)
  PROVE  /\ call' \in [Modules -> Calls \cup {NoCall}]
         /\ mine' \in [Modules -> [Slots -> Handlers \cup {None}]]
<1>1. Slot(m) \in Slots
  BY CallTypes DEF Busy
<1>2. call' \in [Modules -> Calls \cup {NoCall}]
  BY DEF TypeOK, Succeed
<1>3. mine' \in [Modules -> [Slots -> Handlers \cup {None}]]
  BY <1>1 DEF TypeOK, Succeed
<1> QED BY <1>2, <1>3

LEMMA TypeStepCall ==
  ASSUME TypeOK, NEW m \in Modules, NEW s \in Slots, Call(m, s)
  PROVE  TypeOK'
<1> DEFINE h == IF mine[m][s] = None THEN m ELSE mine[m][s]
           c == [at |-> "called", slot |-> s, previous |-> None, backup |-> None, handler |-> h]
<1>1. h \in Handlers
  <2>1. mine[m][s] \in Handlers \cup {None}
    BY DEF TypeOK
  <2> QED BY <2>1 DEF Handlers
<1>2. c \in Calls
  BY <1>1 DEF Calls, Places
<1>3. call' = [call EXCEPT ![m] = c]
  BY DEF Call
<1> HIDE DEF c
<1>4. call' \in [Modules -> Calls \cup {NoCall}]
  BY <1>2, <1>3 DEF TypeOK
<1> QED BY <1>4 DEF TypeOK, Call, engineVars

LEMMA TypeStepReady ==
  ASSUME TypeOK, NEW m \in Modules, EnsureReady(m) \/ Refuse(m)
  PROVE  TypeOK'
<1>1. Busy(m) /\ (Goto(m, "ready") \/ Fail(m))
  BY DEF EnsureReady, Refuse, Busy
<1>2. call' \in [Modules -> Calls \cup {NoCall}] /\ mine' = mine
  <2>1. CASE Goto(m, "ready")
    BY <1>1, <2>1, GotoTyped DEF Goto, Places
  <2>2. CASE Fail(m)
    BY <2>2, FailTyped
  <2> QED BY <1>1, <2>1, <2>2
<1>3. engine' \in PltEngines /\ started' \in Starts \cup {"not yet"}
  BY DEF TypeOK, EnsureReady, Refuse, engineVars, PltEngines
<1>4. UNCHANGED <<slot, records, pending>>
  BY DEF EnsureReady, Refuse
<1> QED BY <1>2, <1>3, <1>4 DEF TypeOK

LEMMA RecordTyped ==
  ASSUME TypeOK, NEW s \in Slots, records[s] # NoRecord
  PROVE  records[s].original \in Handlers
BY DEF TypeOK, Records

LEMMA TypeStepLsplt ==
  ASSUME IndInv, NEW m \in Modules, LspltLookUp(m) \/ LspltCommit(m) \/ LspltRecord(m)
  PROVE  TypeOK'
<1> USE DEF IndInv
<1>1. Busy(m)
  BY DEF LspltLookUp, LspltCommit, LspltRecord, Busy
<1>2. call[m] \in Calls /\ Slot(m) \in Slots /\ Handler(m) \in Handlers
  BY <1>1, CallTypes DEF Busy
<1>3. call[m].backup \in Handlers \cup {None} /\ call[m].previous \in Handlers \cup {None}
  BY <1>2 DEF Calls
<1>4. CASE LspltLookUp(m)
  <2>1. call' \in [Modules -> Calls \cup {NoCall}] /\ mine' = mine
    <3>1. CASE Goto(m, "commit")
      BY <1>1, <3>1, GotoTyped DEF Goto, Places
    <3>2. CASE Fail(m)
      BY <3>2, FailTyped
    <3>3. CASE /\ Record(m) # NoRecord /\ UNCHANGED mine
               /\ call' = [call EXCEPT ![m].at = "commit", ![m].previous = Record(m).original]
      <4>1. Record(m).original \in Handlers
        BY <1>2, <3>3, RecordTyped DEF Record
      <4>2. [call[m] EXCEPT !.at = "commit", !.previous = Record(m).original] \in Calls
        BY <1>2, <4>1 DEF Calls, Places
      <4> QED BY <3>3, <4>2 DEF TypeOK
    <3> QED BY <1>4, <3>1, <3>2, <3>3 DEF LspltLookUp
  <2>2. UNCHANGED <<engine, started, slot, records, pending>>
    BY <1>4 DEF LspltLookUp, engineVars
  <2> QED BY <2>1, <2>2 DEF TypeOK
<1>5. CASE LspltCommit(m)
  <2>1. /\ call' \in [Modules -> Calls \cup {NoCall}] /\ mine' = mine
        /\ slot' \in [Slots -> Handlers]
    <3>1. CASE /\ Put(m) /\ UNCHANGED mine
               /\ call' = [call EXCEPT ![m].at = "record", ![m].backup = slot[Slot(m)]]
      <4>1. slot[Slot(m)] \in Handlers
        BY <1>2 DEF TypeOK
      <4>2. [call[m] EXCEPT !.at = "record", !.backup = slot[Slot(m)]] \in Calls
        BY <1>2, <4>1 DEF Calls, Places
      <4>3. call' \in [Modules -> Calls \cup {NoCall}]
        BY <3>1, <4>2 DEF TypeOK
      <4> QED BY <1>2, <3>1, <4>3 DEF TypeOK, Put
    <3>2. CASE Fail(m) /\ UNCHANGED slot
      BY <3>2, FailTyped DEF TypeOK
    <3> QED BY <1>5, <3>1, <3>2 DEF LspltCommit
  <2>2. UNCHANGED <<engine, started, records, pending>>
    BY <1>5 DEF LspltCommit, engineVars
  <2> QED BY <2>1, <2>2 DEF TypeOK
<1>6. CASE LspltRecord(m)
  <2>1. PICK h \in Handlers \cup {None} : Succeed(m, h)
    BY <1>3, <1>6 DEF LspltRecord
  <2>2. /\ call' \in [Modules -> Calls \cup {NoCall}]
        /\ mine' \in [Modules -> [Slots -> Handlers \cup {None}]]
    BY <1>1, <2>1, SucceedTyped
  <2>3. records' \in [Slots -> Records \cup {NoRecord}]
    <3>1. CASE records' = [records EXCEPT ![Slot(m)] = NoRecord]
      BY <3>1 DEF TypeOK
    <3>2. CASE records' = [records EXCEPT ![Slot(m)] =
                 [replacement |-> Handler(m), original |-> call[m].backup]]
      <4>1. CASE call[m].previous # None
        BY <1>6, <4>1 DEF LspltRecord, TypeOK
      <4>2. CASE call[m].previous = None
        <5>1. call[m].backup = Own
          BY <1>6, <4>2, Names DEF LspltRecord, CallInv, CallOk, At
        <5>2. [replacement |-> Handler(m), original |-> call[m].backup] \in Records
          BY <1>2, <5>1 DEF Records, Handlers
        <5> QED BY <3>2, <5>2 DEF TypeOK
      <4> QED BY <4>1, <4>2
    <3> QED BY <1>6, <3>1, <3>2 DEF LspltRecord
  <2>4. UNCHANGED <<engine, started, slot, pending>>
    BY <1>6 DEF LspltRecord, engineVars
  <2> QED BY <2>2, <2>3, <2>4 DEF TypeOK
<1> QED BY <1>4, <1>5, <1>6
LEMMA TypeStepBytehook ==
  ASSUME IndInv, NEW m \in Modules,
         BytehookBegin(m) \/ BytehookInstall(m) \/ BytehookSettle(m)
  PROVE  TypeOK'
<1> USE DEF IndInv
<1>1. Busy(m)
  BY DEF BytehookBegin, BytehookInstall, BytehookSettle, Busy
<1>2. call[m] \in Calls /\ Slot(m) \in Slots /\ Handler(m) \in Handlers
  BY <1>1, CallTypes DEF Busy
<1>3. call[m].backup \in Handlers \cup {None}
  BY <1>2 DEF Calls
<1>5. CASE BytehookBegin(m)
  <2>1. CASE Fail(m) /\ UNCHANGED pending
    BY <1>5, <2>1, FailTyped DEF BytehookBegin, TypeOK, engineVars
  <2>2. CASE pending' = pending \cup {Slot(m)} /\ Goto(m, "install")
    <3>1. call' \in [Modules -> Calls \cup {NoCall}] /\ mine' = mine
      BY <1>1, <2>2, GotoTyped DEF Goto, Places
    <3> QED BY <1>2, <1>5, <2>2, <3>1 DEF BytehookBegin, TypeOK, engineVars
  <2> QED BY <1>5, <2>1, <2>2 DEF BytehookBegin
<1>6. CASE BytehookInstall(m)
  <2>1. CASE Goto(m, "settle") /\ UNCHANGED slot
    <3>1. call' \in [Modules -> Calls \cup {NoCall}] /\ mine' = mine
      BY <1>1, <2>1, GotoTyped DEF Goto, Places
    <3> QED BY <1>6, <2>1, <3>1 DEF BytehookInstall, TypeOK, engineVars
  <2>2. CASE /\ Put(m) /\ UNCHANGED mine
             /\ call' = [call EXCEPT ![m].at = "settle", ![m].backup = slot[Slot(m)]]
    <3>1. slot[Slot(m)] \in Handlers
      BY <1>2 DEF TypeOK
    <3>2. [call[m] EXCEPT !.at = "settle", !.backup = slot[Slot(m)]] \in Calls
      BY <1>2, <3>1 DEF Calls, Places
    <3>3. call' \in [Modules -> Calls \cup {NoCall}]
      BY <2>2, <3>2 DEF TypeOK
    <3>4. slot' \in [Slots -> Handlers]
      BY <1>2, <2>2 DEF TypeOK, Put
    <3> QED BY <1>6, <2>2, <3>3, <3>4 DEF BytehookInstall, TypeOK, engineVars
  <2> QED BY <1>6, <2>1, <2>2 DEF BytehookInstall
<1>7. CASE BytehookSettle(m)
  <2>1. pending' \subseteq Slots
    BY <1>7 DEF BytehookSettle, TypeOK
  <2>2. CASE Fail(m) /\ UNCHANGED records
    BY <1>7, <2>1, <2>2, FailTyped DEF BytehookSettle, TypeOK, engineVars
  <2>3. CASE /\ call[m].backup # None
             /\ records' = [records EXCEPT ![Slot(m)] =
                  [replacement |-> Handler(m), original |-> call[m].backup]]
             /\ Succeed(m, call[m].backup)
    <3>1. /\ call' \in [Modules -> Calls \cup {NoCall}]
          /\ mine' \in [Modules -> [Slots -> Handlers \cup {None}]]
      BY <1>1, <1>3, <2>3, SucceedTyped
    <3>2. [replacement |-> Handler(m), original |-> call[m].backup] \in Records
      BY <1>2, <1>3, <2>3 DEF Records
    <3>3. records' \in [Slots -> Records \cup {NoRecord}]
      BY <2>3, <3>2 DEF TypeOK
    <3> QED BY <1>7, <2>1, <3>1, <3>3 DEF BytehookSettle, TypeOK, engineVars
  <2> QED BY <1>7, <2>2, <2>3 DEF BytehookSettle
<1> QED BY <1>5, <1>6, <1>7

LEMMA TypeStepAtOnce ==
  ASSUME IndInv, NEW m \in Modules, AtOnce(m)
  PROVE  TypeOK'
<1> USE DEF IndInv
<1>1. Busy(m) /\ UNCHANGED <<engine, started, pending>>
  BY DEF AtOnce, At, Busy, engineVars
<1>2. Slot(m) \in Slots
  BY <1>1, CallTypes DEF Busy
<1>3. CASE Refuses(m)
  BY <1>1, <1>3, FailTyped DEF TypeOK, Refuses
<1>4. ASSUME NEW h \in Handlers, NEW r \in Records \cup {NoRecord}, Settles(m, h, r, Own)
      PROVE  TypeOK'
  <2>1. /\ call' \in [Modules -> Calls \cup {NoCall}]
        /\ mine' \in [Modules -> [Slots -> Handlers \cup {None}]]
    BY <1>1, <1>4, SucceedTyped DEF Settles, Handlers
  <2>2. slot' \in [Slots -> Handlers] /\ records' \in [Slots -> Records \cup {NoRecord}]
    BY <1>2, <1>4 DEF TypeOK, Settles
  <2> QED BY <1>1, <2>1, <2>2 DEF TypeOK
<1>5. [replacement |-> m, original |-> Own] \in Records /\ m \in Handlers /\ Own \in Handlers
  BY DEF Records, Handlers
<1> QED BY <1>3, <1>4, <1>5 DEF AtOnce, HooksAtOnce, UnhooksAtOnce

(***************************************************************************)
(* What a step leaves alone.                                                *)
(***************************************************************************)

\* Nothing of a slot has changed.
Same(t) ==
  slot'[t] = slot[t] /\ records'[t] = records[t] /\ \A k \in Modules : mine'[k][t] = mine[k][t]

LEMMA SameSlot ==
  ASSUME NEW t \in Slots, Same(t)
  PROVE  /\ Free(t)' <=> Free(t)
         /\ \A k \in Modules :
              /\ Held(t, k)' <=> Held(t, k)
              /\ HalfHooked(t, k)' <=> HalfHooked(t, k)
              /\ HalfUnhooked(t, k)' <=> HalfUnhooked(t, k)
<1>1. Nobody(t)' <=> Nobody(t)
  BY DEF Same, Nobody
<1>2. \A k \in Modules : OnlyOne(t, k)' <=> OnlyOne(t, k)
  BY DEF Same, OnlyOne
<1>3. slot'[t] = slot[t] /\ records'[t] = records[t]
  BY DEF Same
<1>4. Free(t)' <=> Free(t)
  BY <1>1, <1>3 DEF Free
<1>5. ASSUME NEW k \in Modules
      PROVE  /\ Held(t, k)' <=> Held(t, k)
             /\ HalfHooked(t, k)' <=> HalfHooked(t, k)
             /\ HalfUnhooked(t, k)' <=> HalfUnhooked(t, k)
  BY <1>1, <1>2, <1>3 DEF Held, HalfHooked, HalfUnhooked
<1> QED BY <1>4, <1>5

LEMMA OtherSlots ==
  ASSUME NEW m \in Modules, NEW s \in Slots, Touches(m, s)
  PROVE  /\ \A t \in Slots \ {s} : Same(t)
         /\ Leaves(m, s) => Same(s)
BY DEF Touches, Leaves, Same

\* The call of another module is as good as it was, if this one leaves the slot as it
\* was or the other has not begun to work on it.
LEMMA OtherCalls ==
  ASSUME IndInv, NEW m \in Modules, NEW s \in Slots, Touches(m, s),
         Leaves(m, s) \/ Alone(m, s), NEW n \in Modules \ {m}
  PROVE  CallOk(n)'
<1>1. CallOk(n)
  BY DEF IndInv, CallInv
<1>2. call'[n] = call[n] /\ mine'[n] = mine[n]
  BY DEF Touches
<1>3. CASE ~Busy(n)
  BY <1>2, <1>3 DEF CallOk, At, Busy
<1>4. CASE Busy(n) /\ Same(Slot(n))
  <2>1. Slot(n) \in Slots
    BY <1>4, CallTypes DEF IndInv, Busy
  <2>2. /\ Free(Slot(n))' <=> Free(Slot(n))
        /\ Held(Slot(n), n)' <=> Held(Slot(n), n)
        /\ HalfHooked(Slot(n), n)' <=> HalfHooked(Slot(n), n)
        /\ HalfUnhooked(Slot(n), n)' <=> HalfUnhooked(Slot(n), n)
    <3> DEFINE t == Slot(n)
    <3>1. /\ t' = t /\ t \in Slots
      BY <1>2, <2>1 DEF Slot
    <3>2. \A u \in Slots : Same(u) =>
             /\ Free(u)' <=> Free(u)
             /\ \A k \in Modules :
                  /\ Held(u, k)' <=> Held(u, k)
                  /\ HalfHooked(u, k)' <=> HalfHooked(u, k)
                  /\ HalfUnhooked(u, k)' <=> HalfUnhooked(u, k)
      BY SameSlot
    <3> QED BY <1>2, <1>4, <2>1, <3>2
            DEF Slot, Free, Held, HalfHooked, HalfUnhooked, Nobody, OnlyOne
  <2>3. Handler(n)' = Handler(n) /\ Wanted(n, Slot(n))' = Wanted(n, Slot(n))
    BY <1>2 DEF Handler, Wanted, Slot
  <2> QED BY <1>1, <1>2, <2>2, <2>3 DEF CallOk, At
<1>5. CASE Busy(n) /\ ~Works(n)
  <2>1. Handler(n)' = Handler(n) /\ Wanted(n, Slot(n))' = Wanted(n, Slot(n))
    BY <1>2 DEF Handler, Wanted, Slot
  <2> QED BY <1>1, <1>2, <1>5, <2>1 DEF CallOk, At, Works, Busy
<1>6. Busy(n) => Same(Slot(n)) \/ ~Works(n)
  <2> SUFFICES ASSUME Busy(n), Works(n)
               PROVE  Same(Slot(n))
    OBVIOUS
  <2>1. Slot(n) \in Slots
    BY CallTypes DEF IndInv, Busy
  <2> QED BY <2>1, OtherSlots DEF Alone
<1> QED BY <1>3, <1>4, <1>5, <1>6

LEMMA BetweenWorks ==
  ASSUME NEW m \in Modules
  PROVE  (Between(m) => Works(m)) /\ (Works(m) => Busy(m))
BY DEF Between, Works, At, Busy

\* The slot of a call that has not patched it.
LEMMA SlotStays ==
  ASSUME IndInv, NEW m \in Modules, NEW s \in Slots, Touches(m, s), Leaves(m, s), ~Between(m)
  PROVE  SlotOk(s)'
<1>1. SlotOk(s)
  BY DEF IndInv, SlotInv
<1>2. Same(s)
  BY OtherSlots
<1>3. ASSUME NEW n \in Modules, Between(n), Slot(n) = s
      PROVE  Between(n)' /\ Slot(n)' = s
  BY <1>3 DEF Touches, Between, At, Slot
<1>4. slot'[s] = slot[s]
  BY DEF Leaves
<1>5. /\ Free(s)' <=> Free(s)
      /\ \A k \in Modules : Held(s, k)' <=> Held(s, k)
  BY <1>2, SameSlot
<1> QED BY <1>1, <1>3, <1>4, <1>5 DEF SlotOk

LEMMA PendingStays ==
  ASSUME IndInv, NEW m \in Modules, NEW s \in Slots, Touches(m, s),
         s \in pending' <=> s \in pending,
         At(m, {"install", "settle"})' <=> At(m, {"install", "settle"})
  PROVE  PendingOk(s)'
<1>1. PendingOk(s)
  BY DEF IndInv, PendingInv
<1>2. ASSUME NEW n \in Modules
      PROVE  /\ At(n, {"install", "settle"}) /\ Slot(n) = s =>
                  At(n, {"install", "settle"})' /\ Slot(n)' = s
             /\ At(n, {"install", "settle"})' /\ Slot(n)' = s =>
                  At(n, {"install", "settle"}) /\ Slot(n) = s
  <2>1. CASE n = m
    BY <2>1 DEF Touches, At, Busy
  <2>2. CASE n # m
    BY <2>2 DEF Touches, At, Slot
  <2> QED BY <2>1, <2>2
<1> QED BY <1>1, <1>2 DEF PendingOk

LEMMA Keeps ==
  ASSUME IndInv, NEW m \in Modules, NEW s \in Slots, Touches(m, s),
         (Leaves(m, s) /\ (Works(m)' => Works(m))) \/ Alone(m, s),
         CallOk(m)', SlotOk(s)', PendingOk(s)'
  PROVE  SlotInv' /\ CallInv' /\ PendingInv' /\ OneWorks'
<1>1. CallInv'
  BY OtherCalls DEF CallInv
<1>2. ASSUME NEW n \in Modules \ {m}
      PROVE  /\ Slot(n)' = Slot(n) /\ (Between(n)' <=> Between(n)) /\ (Works(n)' <=> Works(n))
             /\ At(n, {"install", "settle"})' <=> At(n, {"install", "settle"})
  BY DEF Touches, Slot, Between, Works, At
<1>3. ASSUME NEW t \in Slots \ {s}
      PROVE  SlotOk(t)' /\ PendingOk(t)'
  <2>1. SlotOk(t) /\ PendingOk(t)
    BY DEF IndInv, SlotInv, PendingInv
  <2>2. /\ Free(t)' <=> Free(t)
        /\ \A k \in Modules : Held(t, k)' <=> Held(t, k)
    BY OtherSlots, SameSlot
  <2>3. slot'[t] = slot[t] /\ (t \in pending' <=> t \in pending)
    BY DEF Touches
  <2>4. (Busy(m) => Slot(m) # t) /\ (Busy(m)' => Slot(m)' # t)
    BY DEF Touches
  <2>5. ASSUME NEW n \in Modules, Between(n), Slot(n) = t
        PROVE  Between(n)' /\ Slot(n)' = t
    BY <1>2, <2>4, <2>5, BetweenWorks
  <2>6. SlotOk(t)'
    BY <2>1, <2>2, <2>3, <2>5 DEF SlotOk
  <2>7. ASSUME NEW n \in Modules
        PROVE  /\ At(n, {"install", "settle"}) /\ Slot(n) = t =>
                    At(n, {"install", "settle"})' /\ Slot(n)' = t
               /\ At(n, {"install", "settle"})' /\ Slot(n)' = t =>
                    At(n, {"install", "settle"}) /\ Slot(n) = t
    <3>1. CASE n = m
      BY <2>4, <3>1 DEF At, Busy
    <3>2. CASE n # m
      BY <1>2, <3>2
    <3> QED BY <3>1, <3>2
  <2>8. PendingOk(t)'
    BY <2>1, <2>3, <2>7 DEF PendingOk
  <2> QED BY <2>6, <2>8
<1>4. ASSUME NEW n \in Modules \ {m}, Works(m)', Works(n), Slot(n) = s
      PROVE  FALSE
  <2>1. Works(m) /\ Slot(m) = s
    BY <1>4, BetweenWorks DEF Alone, Touches
  <2> QED BY <1>4, <2>1 DEF IndInv, OneWorks
<1>5. Works(m)' => Slot(m)' = s
  BY DEF Touches, Works, At, Busy
<1>6. OneWorks'
  <2> SUFFICES ASSUME NEW k \in Modules, NEW l \in Modules,
                      Works(k)', Works(l)', Slot(k)' = Slot(l)'
               PROVE  k = l
    BY DEF OneWorks
  <2>1. CASE k # m /\ l # m
    BY <1>2, <2>1 DEF IndInv, OneWorks
  <2>2. CASE k = m /\ l # m
    BY <1>2, <1>4, <1>5, <2>2
  <2>3. CASE k # m /\ l = m
    BY <1>2, <1>4, <1>5, <2>3
  <2> QED BY <2>1, <2>2, <2>3
<1> QED BY <1>1, <1>3, <1>6 DEF SlotInv, PendingInv

LEMMA EngineKept ==
  ASSUME IndInv, NEW m \in Modules, NEW s \in Slots, Touches(m, s), UNCHANGED engineVars,
         EngineFits(m)', Busy(m)' => Busy(m)
  PROVE  EngineInv'
<1>1. engine' = engine /\ started' = started /\ (LspltMayCome' <=> LspltMayCome)
  BY DEF engineVars, LspltMayCome
<1>2. ASSUME NEW n \in Modules \ {m}
      PROVE  EngineFits(n)' /\ (Busy(n)' <=> Busy(n)) /\ Slot(n)' = Slot(n)
  BY <1>1 DEF IndInv, EngineInv, EngineFits, Touches, At, Busy, Slot
<1>3. Busy(m)' => Busy(m) /\ Slot(m)' = Slot(m)
  BY DEF Touches
<1>4. ASSUME LspltMayCome', NEW k \in Modules, NEW l \in Modules,
             Busy(k)', Busy(l)', Slot(k)' = Slot(l)'
      PROVE  k = l
  BY <1>1, <1>2, <1>3, <1>4 DEF IndInv, EngineInv, Busy
<1> QED BY <1>1, <1>2, <1>4 DEF IndInv, EngineInv, Busy

(***************************************************************************)
(* The steps.                                                              *)
(***************************************************************************)

LEMMA GotoEffect ==
  ASSUME TypeOK, NEW m \in Modules, Busy(m), NEW at, Goto(m, at)
  PROVE  /\ mine' = mine /\ \A n \in Modules \ {m} : call'[n] = call[n]
         /\ call'[m].at = at /\ Slot(m)' = Slot(m) /\ Handler(m)' = Handler(m)
         /\ call'[m].previous = call[m].previous /\ call'[m].backup = call[m].backup
<1>1. call[m] \in Calls
  BY CallTypes DEF Busy
<1>2. call'[m] = [call[m] EXCEPT !.at = at] /\ \A n \in Modules \ {m} : call'[n] = call[n]
  BY DEF Goto, TypeOK
<1> QED BY <1>1, <1>2 DEF Calls, Slot, Handler, Goto

LEMMA EndEffect ==
  ASSUME TypeOK, NEW m \in Modules, call' = [call EXCEPT ![m] = NoCall]
  PROVE  /\ \A n \in Modules \ {m} : call'[n] = call[n]
         /\ call'[m].at = "none" /\ ~Busy(m)' /\ ~Works(m)' /\ CallOk(m)' /\ EngineFits(m)'
         /\ ~At(m, {"install", "settle"})'
<1>1. call'[m].at = "none" /\ \A n \in Modules \ {m} : call'[n] = call[n]
  BY DEF TypeOK, NoCall
<1> QED BY <1>1 DEF Busy, Works, At, CallOk, EngineFits

\* The start and the end of a call, and a failure, leave the books alone.
LEMMA QuietStep ==
  ASSUME IndInv, TypeOK', NEW m \in Modules, NEW s \in Slots, Touches(m, s),
         UNCHANGED <<slot, records, pending, mine>>, ~Between(m),
         ~At(m, {"install", "settle"}), ~Works(m)', CallOk(m)', EngineInv'
  PROVE  IndInv'
<1>1. Leaves(m, s)
  BY DEF Leaves
<1>2. ~At(m, {"install", "settle"})'
  BY DEF Works, At
<1>3. SlotOk(s)'
  BY <1>1, SlotStays
<1>4. PendingOk(s)'
  BY <1>2, PendingStays
<1>5. SlotInv' /\ CallInv' /\ PendingInv' /\ OneWorks'
  BY <1>1, <1>3, <1>4, Keeps
<1> QED BY <1>5 DEF IndInv

LEMMA FailStep ==
  ASSUME IndInv, TypeOK', NEW m \in Modules, At(m, {"called", "ready", "commit"}), Fail(m),
         UNCHANGED <<slot, records, pending>>, UNCHANGED engineVars \/ EngineInv'
  PROVE  IndInv'
<1> DEFINE s == Slot(m)
<1>1. s \in Slots
  BY CallTypes DEF IndInv, At
<1>2. mine' = mine
  BY DEF Fail
<1>4. /\ ~Busy(m)' /\ ~Works(m)' /\ CallOk(m)' /\ EngineFits(m)'
      /\ \A n \in Modules \ {m} : call'[n] = call[n]
  BY EndEffect DEF IndInv, Fail
<1>3. Touches(m, s)
  BY <1>2, <1>4 DEF Touches
<1>5. EngineInv'
  BY <1>1, <1>3, <1>4, EngineKept
<1>6. ~Between(m) /\ ~At(m, {"install", "settle"})
  BY DEF Between, At
<1> QED BY <1>1, <1>2, <1>3, <1>4, <1>5, <1>6, QuietStep

LEMMA CallStep ==
  ASSUME IndInv, "lsplt" \in Serialised, NEW m \in Modules, NEW s \in Slots, Call(m, s)
  PROVE  IndInv'
<1>1. TypeOK'
  BY TypeStepCall DEF IndInv
<1>2. /\ call[m] = NoCall /\ NoCall.at = "none"
      /\ UNCHANGED <<slot, records, pending, mine>> /\ UNCHANGED engineVars
  BY DEF Call, NoCall
<1>3. /\ call'[m].at = "called" /\ call'[m].slot = s /\ call'[m].previous = None
      /\ call'[m].backup = None /\ call'[m].handler = Wanted(m, s)
      /\ \A n \in Modules \ {m} : call'[n] = call[n]
  BY DEF Call, Wanted, IndInv, TypeOK
<1>4. Touches(m, s)
  BY <1>2, <1>3 DEF Touches, Busy, Slot
<1>5. CallOk(m)'
  BY <1>2, <1>3 DEF CallOk, At, Handler, Wanted, Slot
<1>6. ~Works(m)' /\ ~Between(m) /\ ~At(m, {"install", "settle"})
  BY <1>2, <1>3 DEF Works, Between, At
<1>7. EngineInv'
  <2>1. engine' = engine /\ started' = started /\ (LspltMayCome' <=> LspltMayCome)
    BY <1>2 DEF engineVars, LspltMayCome
  <2>2. \A n \in Modules : EngineFits(n)'
    BY <1>3, <2>1 DEF IndInv, EngineInv, EngineFits, At
  <2>3. ASSUME LspltMayCome', NEW n \in Modules
        PROVE  Slot(n) # s
    <3>1. ToBeUsed \cap Serialised # {}
      BY <2>1, <2>3 DEF LspltMayCome, ToBeUsed
    <3> QED BY <3>1 DEF Call
  <2>4. ASSUME NEW n \in Modules \ {m}
        PROVE  Slot(n)' = Slot(n) /\ (Busy(n)' <=> Busy(n))
    BY <1>3 DEF Slot, Busy
  <2>5. Slot(m)' = s
    BY <1>3 DEF Slot
  <2>6. ASSUME LspltMayCome', NEW k \in Modules, NEW l \in Modules,
               Busy(k)', Busy(l)', Slot(k)' = Slot(l)'
        PROVE  k = l
    <3>1. CASE k # m /\ l # m
      BY <2>1, <2>4, <2>6, <3>1 DEF IndInv, EngineInv, Busy
    <3>2. CASE k = m /\ l # m
      BY <2>3, <2>4, <2>5, <2>6, <3>2
    <3>3. CASE k # m /\ l = m
      BY <2>3, <2>4, <2>5, <2>6, <3>3
    <3> QED BY <3>1, <3>2, <3>3
  <2> QED BY <2>1, <2>2, <2>6 DEF IndInv, EngineInv, Busy
<1> QED BY <1>1, <1>2, <1>4, <1>5, <1>6, <1>7, QuietStep

LEMMA EngineReady ==
  ASSUME IndInv, TypeOK', NEW m \in Modules, EnsureReady(m)
  PROVE  EngineInv'
<1>1. /\ call[m].at = "called" /\ Busy(m)
      /\ \A n \in Modules \ {m} : call'[n] = call[n]
      /\ (At(m, {"ready"})' /\ Slot(m)' = Slot(m)) \/ ~Busy(m)'
  <2>1. call[m].at = "called" /\ Busy(m) /\ (Goto(m, "ready") \/ Fail(m))
    BY DEF EnsureReady, Busy
  <2>2. CASE Goto(m, "ready")
    BY <2>1, <2>2, GotoEffect DEF IndInv, At
  <2>3. CASE Fail(m)
    BY <2>1, <2>3, EndEffect DEF IndInv, Fail
  <2> QED BY <2>1, <2>2, <2>3
<1>2. \A n \in Modules : Busy(n)' => Busy(n) /\ Slot(n)' = Slot(n)
  BY <1>1 DEF Busy, Slot
<1>3. CASE engine # "bytehook"
  <2>1. engine' = engine /\ started' = started
    BY <1>3 DEF EnsureReady, engineVars
  <2>2. ASSUME NEW n \in Modules
        PROVE  EngineFits(n)'
    <3>1. EngineFits(n)
      BY DEF IndInv, EngineInv
    <3>2. CASE n = m
      BY <1>1, <1>3, <2>1, <3>2 DEF EngineFits, At, Busy
    <3>3. CASE n # m
      BY <1>1, <2>1, <3>1, <3>3 DEF EngineFits, At
    <3> QED BY <3>2, <3>3
  <2>3. LspltMayCome' <=> LspltMayCome
    BY <2>1 DEF LspltMayCome
  <2> QED BY <1>2, <1>3, <2>1, <2>2, <2>3 DEF IndInv, EngineInv, Busy
<1>4. CASE engine = "bytehook"
  <2>1. PICK how \in Starts :
          /\ started \in {"not yet", how} /\ started' = how
          /\ engine' = IF how = "ready" THEN engine ELSE "lsplt"
    BY <1>4 DEF EnsureReady
  <2>2. how \in {"ready", "failed"}
    BY PltHookAssumption
  <2>3. started # "failed"
    BY <1>4 DEF IndInv, EngineInv
  <2>4. LspltMayCome' => LspltMayCome
    BY <1>4, <2>1, <2>2, <2>3 DEF LspltMayCome
  <2>5. engine' = "bytehook" => started' = "ready"
    BY <1>4, <2>1, <2>2
  <2>6. ASSUME NEW n \in Modules
        PROVE  EngineFits(n)'
    <3>1. EngineFits(n)
      BY DEF IndInv, EngineInv
    <3>2. CASE n = m
      BY <1>1, <2>5, <3>2 DEF EngineFits, At, Busy
    <3>3. CASE n # m
      BY <1>1, <1>4, <2>1, <2>2, <2>5, <3>1, <3>3 DEF EngineFits, At
    <3> QED BY <3>2, <3>3
  <2>7. engine' = "bytehook" => started' # "failed"
    BY <2>5
  <2> QED BY <1>2, <2>4, <2>6, <2>7 DEF IndInv, EngineInv, Busy
<1> QED BY <1>3, <1>4

LEMMA ReadyStep ==
  ASSUME IndInv, NEW m \in Modules, EnsureReady(m) \/ Refuse(m)
  PROVE  IndInv'
<1>1. TypeOK'
  BY TypeStepReady DEF IndInv
<1>2. UNCHANGED <<slot, records, pending>> /\ At(m, {"called", "ready", "commit"})
  BY DEF EnsureReady, Refuse, At
<1>3. EngineInv' \/ Refuse(m)
  BY <1>1, EngineReady
<1>4. CASE Fail(m)
  BY <1>1, <1>2, <1>3, <1>4, FailStep DEF Refuse
<1>5. CASE EnsureReady(m) /\ Goto(m, "ready")
  <2> DEFINE s == Slot(m)
  <2>1. s \in Slots
    BY <1>2, CallTypes DEF IndInv, At
  <2>2. call[m].at = "called" /\ Busy(m)
    BY <1>5 DEF EnsureReady, Busy
  <2>3. /\ mine' = mine /\ \A n \in Modules \ {m} : call'[n] = call[n]
        /\ call'[m].at = "ready" /\ Slot(m)' = s /\ Handler(m)' = Handler(m)
        /\ call'[m].previous = call[m].previous /\ call'[m].backup = call[m].backup
    BY <1>5, <2>2, GotoEffect DEF IndInv
  <2>4. Touches(m, s)
    BY <1>2, <2>3 DEF Touches
  <2>5. CallOk(m)
    BY DEF IndInv, CallInv
  <2>6. CallOk(m)'
    BY <2>2, <2>3, <2>5 DEF CallOk, At, Wanted
  <2>7. ~Works(m)' /\ ~Between(m) /\ ~At(m, {"install", "settle"})
    BY <2>2, <2>3 DEF Works, Between, At
  <2>8. EngineInv'
    BY <1>1, <1>5, EngineReady
  <2> QED BY <1>1, <1>2, <2>1, <2>3, <2>4, <2>6, <2>7, <2>8, QuietStep
<1> QED BY <1>4, <1>5 DEF EnsureReady, Refuse

\* A call that fails, whatever the backend.
LEMMA RefuseStep ==
  ASSUME IndInv, TypeOK', NEW m \in Modules, At(m, {"ready", "commit"}), Refuses(m),
         UNCHANGED <<engineVars, pending>>
  PROVE  IndInv'
BY FailStep DEF Refuses, At

\* While lsplt is in use one call at a time is for a slot.
LEMMA LspltAlone ==
  ASSUME IndInv, NEW m \in Modules, Busy(m), engine = "lsplt"
  PROVE  \A n \in Modules \ {m} : ~(Busy(n) /\ Slot(n) = Slot(m))
BY DEF IndInv, EngineInv, LspltMayCome, Busy

LEMMA LspltLookUpStep ==
  ASSUME IndInv, NEW m \in Modules, LspltLookUp(m), NEW s \in Slots, s = Slot(m)
  PROVE  IndInv'
<1>1. TypeOK'
  BY TypeStepLsplt
<1>2. /\ At(m, {"ready"}) /\ At(m, {"called", "ready"}) /\ Busy(m) /\ engine = "lsplt"
      /\ UNCHANGED <<engineVars, slot, records, pending>>
  BY DEF LspltLookUp, At, Busy
<1>3. s \in Slots /\ call[m] \in Calls
  BY <1>2, CallTypes DEF IndInv, Busy
<1>4. Alone(m, s) /\ \A n \in Modules : Between(n) => Slot(n) # s
  <2>1. ~Between(m)
    BY <1>2 DEF Between, At
  <2> QED BY <1>2, <2>1, LspltAlone, BetweenWorks DEF Alone
<1>5. CASE Fail(m)
  BY <1>1, <1>2, <1>5, RefuseStep DEF Refuses, At
<1>6. CASE ~Fail(m)
  <2>1. /\ mine' = mine /\ \A n \in Modules \ {m} : call'[n] = call[n]
        /\ call'[m].at = "commit" /\ Slot(m)' = s /\ Handler(m)' = Handler(m)
        /\ \/ Free(s) /\ call'[m].previous = None
           \/ Held(s, m) /\ call'[m].previous = Own
    <3>1. CASE Record(m) = NoRecord
      <4>1. Goto(m, "commit")
        BY <1>6, <3>1 DEF LspltLookUp
      <4>2. Free(s)
        BY <1>2, <1>3, <1>4, <3>1, RecordTells DEF Record
      <4>3. call[m].previous = None
        BY <1>2 DEF IndInv, CallInv, CallOk
      <4> QED BY <1>2, <4>1, <4>2, <4>3, GotoEffect DEF IndInv
    <3>2. CASE Record(m) # NoRecord
      <4>1. /\ Handler(m) = Record(m).original /\ mine' = mine
            /\ call' = [call EXCEPT ![m].at = "commit", ![m].previous = Record(m).original]
        BY <1>6, <3>2 DEF LspltLookUp
      <4>2. Held(s, m) /\ Record(m).original = Own
        BY <1>2, <1>3, <1>4, <3>2, <4>1, RecordTells DEF Record
      <4>3. /\ call'[m] = [call[m] EXCEPT !.at = "commit", !.previous = Own]
            /\ \A n \in Modules \ {m} : call'[n] = call[n]
        <5>1. call' = [call EXCEPT ![m].at = "commit", ![m].previous = Own]
          BY <4>1, <4>2
        <5>2. DOMAIN call = Modules
          BY DEF IndInv, TypeOK
        <5> QED BY <1>3, <5>1, <5>2
      <4>4. /\ call'[m].at = "commit" /\ call'[m].previous = Own
            /\ Slot(m)' = Slot(m) /\ Handler(m)' = Handler(m)
        BY <1>3, <4>3 DEF Calls, Slot, Handler
      <4> QED BY <4>1, <4>2, <4>3, <4>4
    <3> QED BY <3>1, <3>2
  <2>2. Touches(m, s) /\ Leaves(m, s)
    BY <1>2, <2>1 DEF Touches, Leaves
  <2>3. Handler(m) = Wanted(m, s)
    BY <1>2 DEF IndInv, CallInv, CallOk, Busy
  <2>4. (Free(s)' <=> Free(s)) /\ (Held(s, m)' <=> Held(s, m))
    BY <1>3, <2>2, OtherSlots, SameSlot
  <2>6. CallOk(m)'
    <3>1. Handler(m)' = Wanted(m, Slot(m))'
      BY <2>1, <2>3 DEF Wanted
    <3>2. call'[m].previous = None /\ Free(s) => Free(Slot(m))'
      BY <1>2, <2>1 DEF Free, Nobody
    <3>3. call'[m].previous = Own /\ Held(s, m) => Held(Slot(m), m)'
      BY <1>2, <2>1 DEF Held, OnlyOne
    <3> QED BY <2>1, <3>1, <3>2, <3>3 DEF CallOk, At
  <2>7. ~Between(m) /\ ~At(m, {"install", "settle"}) /\ ~At(m, {"install", "settle"})'
    BY <1>2, <2>1 DEF Between, At
  <2>8. SlotOk(s)' /\ PendingOk(s)'
    BY <1>2, <1>3, <2>2, <2>7, SlotStays, PendingStays
  <2>9. EngineFits(m)' /\ engine' = engine
    BY <1>2, <2>1 DEF EngineFits, At, engineVars
  <2>10. EngineInv'
    BY <1>2, <1>3, <2>2, <2>9, EngineKept
  <2> QED BY <1>1, <1>3, <1>4, <2>2, <2>6, <2>8, <2>10, Keeps DEF IndInv
<1> QED BY <1>5, <1>6

\* The calls that are one step.
LEMMA AtOnceStep ==
  ASSUME IndInv, NEW m \in Modules, AtOnce(m), NEW s \in Slots, s = Slot(m)
  PROVE  IndInv'
<1>1. TypeOK'
  BY TypeStepAtOnce
<1>2. At(m, {"ready"}) /\ Busy(m) /\ UNCHANGED <<engineVars, pending>>
  BY DEF AtOnce, At, Busy
<1>3. DOMAIN slot = Slots /\ DOMAIN records = Slots
  BY DEF IndInv, TypeOK
<1>4. CASE Refuses(m)
  BY <1>1, <1>2, <1>4, RefuseStep DEF At
<1>5. CASE HooksAtOnce(m) \/ UnhooksAtOnce(m)
  <2>1. Succeed(m, Own)
    BY <1>5 DEF HooksAtOnce, UnhooksAtOnce, Settles
  <2>2. /\ \A n \in Modules \ {m} : call'[n] = call[n]
        /\ ~Busy(m)' /\ ~Works(m)' /\ CallOk(m)' /\ EngineFits(m)'
        /\ ~At(m, {"install", "settle"})'
    BY <2>1, EndEffect DEF IndInv, Succeed
  <2>3. mine' = [mine EXCEPT ![m][s] = IF @ = None THEN Own ELSE None]
    BY <2>1 DEF Succeed
  <2>4. /\ \A n \in Modules \ {m} : mine'[n] = mine[n]
        /\ \A t \in Slots \ {s} : mine'[m][t] = mine[m][t]
        /\ mine'[m][s] = IF mine[m][s] = None THEN Own ELSE None
    BY <1>3, <2>3 DEF IndInv, TypeOK
  <2>5. \A t \in Slots \ {s} : slot'[t] = slot[t] /\ records'[t] = records[t]
    BY <1>3, <1>5 DEF HooksAtOnce, UnhooksAtOnce, Settles, IndInv, TypeOK
  <2>6. Touches(m, s)
    BY <1>2, <2>2, <2>4, <2>5 DEF Touches
  <2>7. (Free(s)' \/ (s \notin Absent /\ Held(s, m)')) /\ Alone(m, s)
    <3>1. CASE HooksAtOnce(m)
      <4>1. /\ Free(s) /\ s \notin Absent /\ slot'[s] = m
            /\ records'[s] = [replacement |-> m, original |-> Own]
        BY <1>3, <3>1 DEF HooksAtOnce, Settles, IndInv, TypeOK
      <4>2. mine'[m][s] = Own /\ \A n \in Modules \ {m} : mine'[n][s] = None
        BY <2>4, <4>1 DEF Free, Nobody
      <4>3. Held(s, m)'
        BY <2>1, <4>1, <4>2 DEF Held, OnlyOne, Succeed
      <4>4. \A n \in Modules : ~Works(n)
        BY <3>1 DEF HooksAtOnce, IndInv, EngineInv, EngineFits, Works, At
      <4> QED BY <4>1, <4>3, <4>4 DEF Alone
    <3>2. CASE UnhooksAtOnce(m)
      <4>1. Held(s, m) /\ slot'[s] = Own /\ records'[s] = NoRecord
        BY <1>3, <3>2 DEF UnhooksAtOnce, Settles, IndInv, TypeOK
      <4>2. \A n \in Modules : mine'[n][s] = None
        BY <2>4, <4>1, Names DEF Held, OnlyOne
      <4>3. Free(s)'
        BY <4>1, <4>2 DEF Free, Nobody
      <4>4. ASSUME NEW n \in Modules \ {m}, Works(n), Slot(n) = s
            PROVE  FALSE
        <5>1. CallOk(n)
          BY DEF IndInv, CallInv
        <5>2. mine[m][s] # None /\ mine[m][s] = Own /\ mine[n][s] = None
          BY <4>1, Names DEF Held, OnlyOne
        <5>3. Free(s) \/ Held(s, n) \/ HalfHooked(s, n) \/ HalfUnhooked(s, n)
          BY <4>4, <5>1 DEF CallOk, Works, At
        <5> QED BY <5>2, <5>3, Names
                DEF Free, Nobody, Held, OnlyOne, HalfHooked, HalfUnhooked
      <4> QED BY <4>3, <4>4 DEF Alone
    <3> QED BY <1>5, <3>1, <3>2
  <2>8. SlotOk(s)'
    <3>1. CASE Free(s)'
      <4>1. slot'[s] = Own
        BY <3>1 DEF Free
      <4> QED BY <3>1, <4>1 DEF SlotOk
    <3>2. CASE s \notin Absent /\ Held(s, m)'
      BY <3>2 DEF SlotOk
    <3> QED BY <2>7, <3>1, <3>2
  <2>9. PendingOk(s)'
    <3>1. ~At(m, {"install", "settle"})
      BY <1>2 DEF At
    <3> QED BY <1>2, <1>3, <2>2, <2>6, <3>1, PendingStays
  <2>10. EngineInv'
    BY <1>2, <1>3, <2>2, <2>6, EngineKept
  <2> QED BY <1>1, <1>3, <2>2, <2>6, <2>7, <2>8, <2>9, <2>10, Keeps DEF IndInv
<1> QED BY <1>4, <1>5 DEF AtOnce

\* What a call that works on a slot finds there.
LEMMA WorkFinds ==
  ASSUME IndInv, NEW m \in Modules, Works(m), NEW s \in Slots, s = Slot(m)
  PROVE  /\ Alone(m, s) /\ CallOk(m) /\ Handler(m) = Wanted(m, s) /\ call[m] \in Calls
         /\ Nobody(s) => Handler(m) = m
         /\ OnlyOne(s, m) => Handler(m) = Own
<1>1. CallOk(m) /\ Busy(m) /\ call[m] \in Calls
  BY BetweenWorks, CallTypes DEF IndInv, CallInv, Busy
<1>2. Handler(m) = Wanted(m, s)
  BY <1>1 DEF CallOk, Busy
<1>3. Alone(m, s)
  BY DEF IndInv, OneWorks, Alone
<1>4. OnlyOne(s, m) => Handler(m) = Own
  BY <1>2, Names DEF OnlyOne, Wanted
<1>5. Nobody(s) => Handler(m) = m
  BY <1>2 DEF Nobody, Wanted
<1> QED BY <1>1, <1>2, <1>3, <1>4, <1>5

\* The slot is patched: the call goes on with what it held for a backup.
Puts(m, at) ==
  /\ Put(m) /\ call' = [call EXCEPT ![m].at = at, ![m].backup = slot[Slot(m)]]

LEMMA PutEffect ==
  ASSUME IndInv, NEW m \in Modules, Works(m), NEW s \in Slots, s = Slot(m), NEW at,
         NEW b, b = slot[s], Puts(m, at)
  PROVE  /\ \A n \in Modules \ {m} : call'[n] = call[n]
         /\ call'[m].at = at /\ Slot(m)' = s /\ Handler(m)' = Handler(m)
         /\ call'[m].previous = call[m].previous /\ call'[m].backup = b
         /\ slot'[s] = Handler(m) /\ \A t \in Slots \ {s} : slot'[t] = slot[t]
<1>1. call[m] \in Calls /\ DOMAIN call = Modules /\ DOMAIN slot = Slots
  BY WorkFinds DEF IndInv, TypeOK
<1>2. call' = [call EXCEPT ![m].at = at, ![m].backup = b]
  BY DEF Puts
<1>3. /\ call'[m] = [call[m] EXCEPT !.at = at, !.backup = b]
      /\ \A n \in Modules \ {m} : call'[n] = call[n]
  BY <1>1, <1>2
<1>4. slot'[s] = Handler(m) /\ \A t \in Slots \ {s} : slot'[t] = slot[t]
  BY <1>1 DEF Put, Puts
<1> QED BY <1>1, <1>3, <1>4 DEF Calls, Slot, Handler

LEMMA LspltCommitStep ==
  ASSUME IndInv, NEW m \in Modules, LspltCommit(m), NEW s \in Slots, s = Slot(m)
  PROVE  IndInv'
<1>1. TypeOK'
  BY TypeStepLsplt
<1>2. At(m, {"commit"}) /\ Works(m) /\ Busy(m) /\ UNCHANGED <<engineVars, records, pending>>
  BY DEF LspltCommit, At, Works, Busy
<1>3. CASE Fail(m) /\ UNCHANGED slot
  BY <1>1, <1>2, <1>3, RefuseStep DEF Refuses, At
<1>4. CASE s \notin Absent /\ Puts(m, "record") /\ UNCHANGED mine
  <2>1. Alone(m, s) /\ CallOk(m) /\ Handler(m) = Wanted(m, s)
    BY <1>2, WorkFinds
  <2>2. \/ call[m].previous = None /\ Free(s) /\ Handler(m) = m
        \/ call[m].previous = Own /\ Held(s, m) /\ Handler(m) = Own
    BY <1>2, <2>1, WorkFinds DEF CallOk, Free, Held
  <2>3. UNCHANGED <<records, pending, mine>>
    BY <1>2, <1>4
  <2>4. PICK b : b = slot[s]
    OBVIOUS
  <2>5. /\ \A n \in Modules \ {m} : call'[n] = call[n]
        /\ call'[m].at = "record" /\ Slot(m)' = s /\ Handler(m)' = Handler(m)
        /\ call'[m].previous = call[m].previous /\ call'[m].backup = b
        /\ slot'[s] = Handler(m) /\ \A t \in Slots \ {s} : slot'[t] = slot[t]
    BY <1>2, <1>4, <2>4, PutEffect
  <2>6. Touches(m, s)
    BY <2>3, <2>5 DEF Touches
  <2>7. CallOk(m)'
    <3>1. Handler(m)' = Wanted(m, Slot(m))'
      BY <2>1, <2>3, <2>5 DEF Wanted
    <3>2. ASSUME call[m].previous = None, Free(s), Handler(m) = m
          PROVE  call'[m].backup = Own /\ HalfHooked(Slot(m), m)'
      BY <2>3, <2>4, <2>5, <3>2 DEF Free, Nobody, HalfHooked
    <3>3. ASSUME Held(s, m), Handler(m) = Own
          PROVE  HalfUnhooked(Slot(m), m)'
      BY <2>3, <2>5, <3>3 DEF Held, OnlyOne, HalfUnhooked
    <3> QED BY <2>2, <2>5, <3>1, <3>2, <3>3 DEF CallOk, At
  <2>8. SlotOk(s)'
    BY <1>4, <2>5 DEF SlotOk, Between, At
  <2>9. PendingOk(s)'
    <3>1. ~At(m, {"install", "settle"}) /\ ~At(m, {"install", "settle"})'
      BY <1>2, <2>5 DEF At
    <3> QED BY <2>3, <2>6, <3>1, PendingStays
  <2>10. EngineInv'
    <3>1. EngineFits(m)'
      BY <1>2, <2>5 DEF IndInv, EngineInv, EngineFits, At, engineVars
    <3> QED BY <1>2, <2>6, <3>1, EngineKept
  <2> QED BY <1>1, <2>1, <2>6, <2>7, <2>8, <2>9, <2>10, Keeps DEF IndInv
<1> QED BY <1>3, <1>4 DEF LspltCommit, Puts

\* The call has ended with an answer, and the slot is free or held.
LEMMA SucceedStep ==
  ASSUME IndInv, TypeOK', NEW m \in Modules, Works(m), NEW s \in Slots, s = Slot(m),
         NEW answer, Succeed(m, answer), UNCHANGED <<engineVars, slot>>,
         NEW r, records' = [records EXCEPT ![s] = r],
         \A t \in Slots \ {s} : t \in pending' <=> t \in pending, PendingOk(s)',
         \/ /\ HalfHooked(s, m) /\ answer = Own
            /\ r = [replacement |-> m, original |-> Own]
         \/ HalfUnhooked(s, m) /\ r = NoRecord
  PROVE  IndInv'
<1>1. /\ \A n \in Modules \ {m} : call'[n] = call[n]
      /\ ~Busy(m)' /\ ~Works(m)' /\ CallOk(m)' /\ EngineFits(m)'
  BY EndEffect DEF IndInv, Succeed
<1>2. /\ \A n \in Modules \ {m} : mine'[n] = mine[n]
      /\ \A t \in Slots \ {s} : mine'[m][t] = mine[m][t]
      /\ mine'[m][s] = IF mine[m][s] = None THEN answer ELSE None
  BY DEF IndInv, TypeOK, Succeed
<1>3. slot' = slot /\ records'[s] = r /\ \A t \in Slots \ {s} : records'[t] = records[t]
  BY DEF IndInv, TypeOK
<1>4. Touches(m, s)
  BY <1>1, <1>2, <1>3, BetweenWorks DEF Touches
<1>5. Alone(m, s)
  BY WorkFinds
<1>6. SlotOk(s)'
  <2>0. SlotOk(s)
    BY DEF IndInv, SlotInv
  <2>1. CASE HalfHooked(s, m) /\ answer = Own /\ r = [replacement |-> m, original |-> Own]
    <3>1. Held(s, m)'
      BY <1>2, <1>3, <2>1 DEF HalfHooked, Nobody, Held, OnlyOne
    <3>2. s \notin Absent
      BY <2>0, <2>1, Names DEF SlotOk, HalfHooked
    <3> QED BY <3>1, <3>2 DEF SlotOk
  <2>2. CASE HalfUnhooked(s, m) /\ r = NoRecord
    <3>1. Free(s)'
      BY <1>2, <1>3, <2>2, Names DEF HalfUnhooked, OnlyOne, Free, Nobody
    <3> QED BY <3>1 DEF SlotOk, Free
  <2> QED BY <2>1, <2>2
<1>7. EngineInv'
  BY <1>1, <1>4, EngineKept
<1> QED BY <1>1, <1>4, <1>5, <1>6, <1>7, Keeps DEF IndInv

LEMMA LspltRecordStep ==
  ASSUME IndInv, NEW m \in Modules, LspltRecord(m), NEW s \in Slots, s = Slot(m)
  PROVE  IndInv'
<1>1. TypeOK'
  BY TypeStepLsplt
<1>2. At(m, {"record"}) /\ Works(m) /\ UNCHANGED <<engineVars, slot>> /\ pending' = pending
  BY DEF LspltRecord, At, Works
<1>3. CallOk(m) /\ (Nobody(s) => Handler(m) = m)
  BY <1>2, WorkFinds
<1>4. PendingOk(s)'
  <2>1. call' = [call EXCEPT ![m] = NoCall]
    BY DEF LspltRecord, Succeed
  <2>2. ~At(m, {"install", "settle"})' /\ ~At(m, {"install", "settle"})
    BY <1>2, <2>1, EndEffect DEF IndInv, At
  <2>3. \A n \in Modules \ {m} : call'[n] = call[n]
    BY <2>1, EndEffect DEF IndInv
  <2>4. PendingOk(s)
    BY DEF IndInv, PendingInv
  <2>5. \A n \in Modules :
          At(n, {"install", "settle"})' /\ Slot(n)' = s
            <=> At(n, {"install", "settle"}) /\ Slot(n) = s
    BY <2>2, <2>3 DEF At, Slot
  <2> QED BY <1>2, <2>4, <2>5 DEF PendingOk
<1>5. CASE call[m].previous # None
  <2>1. /\ records' = [records EXCEPT ![s] = NoRecord] /\ Succeed(m, call[m].previous)
        /\ HalfUnhooked(s, m)
    BY <1>2, <1>3, <1>5 DEF LspltRecord, CallOk
  <2> QED BY <1>1, <1>2, <1>4, <2>1, SucceedStep
<1>6. CASE call[m].previous = None
  <2>1. call[m].backup = Own /\ HalfHooked(s, m)
    BY <1>2, <1>3, <1>6, Names DEF CallOk
  <2>2. Handler(m) = m
    BY <1>3, <2>1 DEF HalfHooked
  <2>3. /\ records' = [records EXCEPT ![s] = [replacement |-> m, original |-> Own]]
        /\ Succeed(m, Own)
    BY <1>6, <2>1, <2>2 DEF LspltRecord
  <2> QED BY <1>1, <1>2, <1>4, <2>1, <2>3, SucceedStep
<1> QED BY <1>5, <1>6

LEMMA BytehookBeginStep ==
  ASSUME IndInv, NEW m \in Modules, BytehookBegin(m), NEW s \in Slots, s = Slot(m)
  PROVE  IndInv'
<1>1. TypeOK'
  BY TypeStepBytehook
<1>2. /\ At(m, {"ready"}) /\ At(m, {"called", "ready"}) /\ Busy(m) /\ engine = "bytehook"
      /\ records[s] = NoRecord /\ UNCHANGED <<engineVars, slot, records>>
  BY DEF BytehookBegin, At, Busy, Record
<1>3. CASE Fail(m) /\ UNCHANGED pending
  BY <1>1, <1>2, <1>3, RefuseStep DEF Refuses, At
<1>4. CASE s \notin pending /\ pending' = pending \cup {s} /\ Goto(m, "install")
  <2>1. ASSUME NEW n \in Modules, Works(n), Slot(n) = s
        PROVE  FALSE
    <3>1. At(n, {"install", "settle"})
      BY <1>2, <2>1 DEF IndInv, EngineInv, EngineFits, Works, At
    <3>2. PendingOk(s)
      BY DEF IndInv, PendingInv
    <3> QED BY <1>4, <2>1, <3>1, <3>2 DEF PendingOk
  <2>2. Alone(m, s) /\ \A n \in Modules : Between(n) => Slot(n) # s
    BY <2>1, BetweenWorks DEF Alone
  <2>3. Free(s) /\ Handler(m) = m
    BY <1>2, <2>2, RecordTells
  <2>4. call[m].backup = None /\ Handler(m) = Wanted(m, s)
    BY <1>2 DEF IndInv, CallInv, CallOk, Busy
  <2>5. /\ mine' = mine /\ \A n \in Modules \ {m} : call'[n] = call[n]
        /\ call'[m].at = "install" /\ Slot(m)' = s /\ Handler(m)' = Handler(m)
        /\ call'[m].backup = None
    BY <1>2, <1>4, <2>4, GotoEffect DEF IndInv
  <2>6. Touches(m, s) /\ Leaves(m, s)
    BY <1>2, <1>4, <2>5 DEF Touches, Leaves
  <2>7. CallOk(m)'
    <3>1. Handler(m)' = Wanted(m, Slot(m))'
      BY <2>4, <2>5 DEF Wanted
    <3>2. Free(Slot(m))'
      BY <1>2, <2>3, <2>5 DEF Free, Nobody
    <3> QED BY <2>5, <3>1, <3>2 DEF CallOk, At
  <2>8. SlotOk(s)'
    <3>1. ~Between(m)
      BY <1>2 DEF Between, At
    <3> QED BY <2>6, <3>1, SlotStays
  <2>9. PendingOk(s)'
    BY <1>4, <2>5 DEF PendingOk, At
  <2>10. EngineInv'
    <3>1. EngineFits(m)'
      BY <1>2, <2>5 DEF IndInv, EngineInv, EngineFits, At, engineVars
    <3> QED BY <1>2, <2>6, <3>1, EngineKept
  <2> QED BY <1>1, <2>2, <2>6, <2>7, <2>8, <2>9, <2>10, Keeps DEF IndInv
<1> QED BY <1>3, <1>4 DEF BytehookBegin

LEMMA BytehookInstallStep ==
  ASSUME IndInv, NEW m \in Modules, BytehookInstall(m), NEW s \in Slots, s = Slot(m)
  PROVE  IndInv'
<1>1. TypeOK'
  BY TypeStepBytehook
<1>2. /\ At(m, {"install"}) /\ Works(m) /\ Busy(m)
      /\ UNCHANGED <<engineVars, records, pending, mine>>
  BY DEF BytehookInstall, At, Works, Busy, Goto
<1>3. /\ Alone(m, s) /\ CallOk(m) /\ Handler(m) = Wanted(m, s)
      /\ Free(s) /\ call[m].backup = None /\ Handler(m) = m
  BY <1>2, WorkFinds DEF CallOk, Free
<1>4. /\ \A n \in Modules \ {m} : call'[n] = call[n]
      /\ call'[m].at = "settle" /\ Slot(m)' = s /\ Handler(m)' = Handler(m)
      /\ \A t \in Slots \ {s} : slot'[t] = slot[t]
      /\ \/ s \notin Absent /\ call'[m].backup = Own /\ slot'[s] = m
         \/ call'[m].backup = None /\ slot'[s] = Own
  <2>1. CASE s \notin Absent /\ Puts(m, "settle")
    <3>1. Own = slot[s]
      BY <1>3 DEF Free
    <3> QED BY <1>2, <1>3, <2>1, <3>1, PutEffect
  <2>2. CASE Goto(m, "settle") /\ UNCHANGED slot
    BY <1>2, <1>3, <2>2, GotoEffect DEF IndInv, Free
  <2> QED BY <2>1, <2>2 DEF BytehookInstall, Puts
<1>5. Touches(m, s)
  BY <1>2, <1>4 DEF Touches
<1>6. Nobody(s)' /\ records'[s] = NoRecord
  BY <1>2, <1>3 DEF Free, Nobody
<1>7. CallOk(m)'
  <2>1. Handler(m)' = Wanted(m, Slot(m))'
    BY <1>2, <1>3, <1>4 DEF Wanted
  <2>2. \/ call'[m].backup = Own /\ HalfHooked(Slot(m), m)'
        \/ call'[m].backup = None /\ Free(Slot(m))'
    BY <1>2, <1>3, <1>4 DEF Free, Nobody, HalfHooked
  <2> QED BY <1>4, <2>1, <2>2 DEF CallOk, At
<1>8. SlotOk(s)'
  <2>1. CASE s \notin Absent /\ call'[m].backup = Own
    BY <1>4, <2>1, Names DEF SlotOk, Between, At
  <2>2. CASE slot'[s] = Own
    <3>1. Free(s)'
      BY <1>6, <2>2 DEF Free
    <3> QED BY <2>2, <3>1 DEF SlotOk
  <2> QED BY <1>4, <2>1, <2>2
<1>9. PendingOk(s)'
  <2>1. At(m, {"install", "settle"}) /\ At(m, {"install", "settle"})'
    BY <1>2, <1>4 DEF At
  <2> QED BY <1>2, <1>5, <2>1, PendingStays
<1>10. EngineInv'
  <2>1. EngineFits(m)'
    BY <1>2, <1>4 DEF IndInv, EngineInv, EngineFits, At, engineVars
  <2> QED BY <1>2, <1>5, <2>1, EngineKept
<1> QED BY <1>1, <1>3, <1>5, <1>7, <1>8, <1>9, <1>10, Keeps DEF IndInv

LEMMA BytehookSettleStep ==
  ASSUME IndInv, NEW m \in Modules, BytehookSettle(m), NEW s \in Slots, s = Slot(m)
  PROVE  IndInv'
<1>1. TypeOK'
  BY TypeStepBytehook
<1>2. /\ At(m, {"settle"}) /\ Works(m) /\ Busy(m) /\ UNCHANGED <<engineVars, slot>>
      /\ pending' = pending \ {s} /\ call' = [call EXCEPT ![m] = NoCall]
  BY DEF BytehookSettle, At, Works, Busy, Fail, Succeed
<1>3. Alone(m, s) /\ CallOk(m) /\ (Nobody(s) => Handler(m) = m)
  BY <1>2, WorkFinds
<1>4. /\ \A n \in Modules \ {m} : call'[n] = call[n]
      /\ ~Busy(m)' /\ ~Works(m)' /\ CallOk(m)' /\ EngineFits(m)'
      /\ ~At(m, {"install", "settle"})'
  BY <1>2, EndEffect DEF IndInv
<1>5. PendingOk(s)'
  <2>1. ASSUME NEW n \in Modules, At(n, {"install", "settle"})', Slot(n)' = s
        PROVE  FALSE
    <3>1. n # m /\ call'[n] = call[n]
      BY <1>4, <2>1
    <3>2. Works(n) /\ Slot(n) = s
      BY <2>1, <3>1 DEF Works, At, Slot
    <3> QED BY <1>3, <3>1, <3>2 DEF Alone
  <2> QED BY <1>2, <2>1 DEF PendingOk
<1>6. CASE call[m].backup # None
  <2>1. call[m].backup = Own /\ HalfHooked(s, m)
    BY <1>2, <1>3, <1>6 DEF CallOk
  <2>2. Handler(m) = m
    BY <1>3, <2>1 DEF HalfHooked
  <2>3. /\ records' = [records EXCEPT ![s] = [replacement |-> m, original |-> Own]]
        /\ Succeed(m, Own)
    BY <1>6, <2>1, <2>2 DEF BytehookSettle
  <2> QED BY <1>1, <1>2, <1>5, <2>1, <2>3, SucceedStep
<1>7. CASE call[m].backup = None
  <2>1. UNCHANGED <<records, mine>>
    BY <1>7 DEF BytehookSettle, Fail
  <2>2. Touches(m, s) /\ Leaves(m, s)
    BY <1>2, <1>4, <2>1 DEF Touches, Leaves
  <2>3. ~Between(m)
    BY <1>2, <1>7 DEF Between, At
  <2>4. SlotOk(s)'
    BY <2>2, <2>3, SlotStays
  <2>5. EngineInv'
    BY <1>2, <1>4, <2>2, EngineKept
  <2> QED BY <1>1, <1>3, <1>4, <1>5, <2>2, <2>4, <2>5, Keeps DEF IndInv
<1> QED BY <1>6, <1>7

(***************************************************************************)
(* The theorems.                                                           *)
(***************************************************************************)

LEMMA InitInv == Init => IndInv
<1> SUFFICES ASSUME Init PROVE IndInv
  OBVIOUS
<1>1. TypeOK
  BY TypeInit
<1>2. \A m \in Modules : call[m].at = "none" /\ ~Busy(m) /\ ~Works(m)
  BY DEF Init, NoCall, Busy, Works, At
<1>3. SlotInv
  BY DEF Init, SlotInv, SlotOk, Free, Nobody
<1>4. CallInv
  BY <1>2 DEF CallInv, CallOk, At
<1>5. PendingInv
  <2>1. pending = {}
    BY DEF Init
  <2> QED BY <1>2, <2>1 DEF PendingInv, PendingOk, At
<1>6. OneWorks
  BY <1>2 DEF OneWorks
<1>7. EngineInv
  <2>1. started = "not yet"
    BY DEF Init
  <2> QED BY <1>2, <2>1 DEF EngineInv, EngineFits, At
<1> QED BY <1>1, <1>3, <1>4, <1>5, <1>6, <1>7 DEF IndInv

LEMMA NextInv ==
  ASSUME "lsplt" \in Serialised, IndInv, [Next]_vars
  PROVE  IndInv'
<1>1. CASE UNCHANGED vars
  <2> USE <1>1 DEF vars
  <2>1. TypeOK'
    BY DEF IndInv, TypeOK
  <2>2. SlotInv'
    BY DEF IndInv, SlotInv, SlotOk, Free, Held, Nobody, OnlyOne, Between, At, Slot
  <2>3. CallInv'
    BY DEF IndInv, CallInv, CallOk, Free, Held, HalfHooked, HalfUnhooked, Nobody, OnlyOne,
       At, Slot, Handler, Wanted
  <2>4. PendingInv' /\ OneWorks'
    BY DEF IndInv, PendingInv, PendingOk, OneWorks, Works, At, Slot
  <2>5. EngineInv'
    BY DEF IndInv, EngineInv, EngineFits, LspltMayCome, At, Slot
  <2> QED BY <2>1, <2>2, <2>3, <2>4, <2>5 DEF IndInv
<1>2. ASSUME NEW m \in Modules, ModuleStep(m)
      PROVE  IndInv'
  <2>1. ASSUME NEW s \in Slots, Call(m, s)
        PROVE  IndInv'
    BY <2>1, CallStep
  <2>2. CASE EnsureReady(m) \/ Refuse(m)
    BY <2>2, ReadyStep
  <2>3. CASE Busy(m)
    <3>1. PICK s \in Slots : s = Slot(m)
      BY <2>3, CallTypes DEF IndInv, Busy
    <3>2. CASE LspltLookUp(m) \/ LspltCommit(m) \/ LspltRecord(m)
      BY <3>1, <3>2, LspltLookUpStep, LspltCommitStep, LspltRecordStep
    <3>3. CASE BytehookBegin(m) \/ BytehookInstall(m) \/ BytehookSettle(m)
      BY <3>1, <3>3, BytehookBeginStep, BytehookInstallStep, BytehookSettleStep
    <3>4. CASE \/ BytehookUnhook(m) \/ XhookUnhook(m) \/ XhookHook(m)
               \/ PltiUnhook(m) \/ PltiHook(m)
      BY <3>1, <3>4, BytehookUnhookAtOnce, XhookAtOnce, PltiAtOnce, AtOnceStep
    <3> QED BY <1>2, <2>1, <2>2, <3>2, <3>3, <3>4 DEF ModuleStep
  <2>4. CASE ~Busy(m)
    BY <1>2, <2>1, <2>2, <2>4 DEF ModuleStep, Busy, LspltLookUp, LspltCommit, LspltRecord,
       BytehookBegin, BytehookInstall, BytehookSettle, BytehookUnhook, XhookUnhook, XhookHook,
       PltiUnhook, PltiHook
  <2> QED BY <2>3, <2>4
<1> QED BY <1>1, <1>2 DEF Next

\* Whatever the engine and the threads that call it, the books are as IndInv says, if
\* the modules call lsplt one after the other for one slot.
THEOREM Invariance ==
  ASSUME "lsplt" \in Serialised
  PROVE  Spec => []IndInv
<1>1. Init => IndInv
  BY InitInv
<1>2. IndInv /\ [Next]_vars => IndInv'
  BY NextInv
<1> QED BY <1>1, <1>2, PTL DEF Spec

\* The engine, the slots, the records and the calls have their types.
THEOREM TypeCorrect ==
  ASSUME "lsplt" \in Serialised
  PROVE  Spec => []TypeOK
<1>1. IndInv => TypeOK
  BY DEF IndInv
<1> QED BY <1>1, Invariance, PTL

\* pltHook: whenever no call for a slot is under way, the slot, the record of the
\* backend and the answers the modules keep say the same.
THEOREM SlotsAndBooks ==
  ASSUME "lsplt" \in Serialised
  PROVE  Spec => []SlotsAgree
<1>1. ASSUME IndInv, NEW s \in Slots, \A m \in Modules : Slot(m) # s
      PROVE  /\ s \notin pending
             /\ \/ Hooking(s) = {} /\ slot[s] = Own /\ records[s] = NoRecord
                \/ \E m \in Modules :
                     /\ Hooking(s) = {m} /\ mine[m][s] = Own
                     /\ slot[s] = m /\ records[s] = [replacement |-> m, original |-> Own]
  <2>1. SlotOk(s) /\ PendingOk(s)
    BY <1>1 DEF IndInv, SlotInv, PendingInv
  <2>2. s \notin pending
    BY <1>1, <2>1 DEF PendingOk
  <2>3. Free(s) \/ \E m \in Modules : Held(s, m)
    BY <1>1, <2>1 DEF SlotOk
  <2>4. ASSUME Free(s)
        PROVE  Hooking(s) = {} /\ slot[s] = Own /\ records[s] = NoRecord
    BY <2>4 DEF Free, Nobody, Hooking
  <2>5. ASSUME NEW m \in Modules, Held(s, m)
        PROVE  /\ Hooking(s) = {m} /\ mine[m][s] = Own
               /\ slot[s] = m /\ records[s] = [replacement |-> m, original |-> Own]
    BY <2>5, Names DEF Held, OnlyOne, Hooking
  <2> QED BY <2>2, <2>3, <2>4, <2>5
<1>2. IndInv => SlotsAgree
  BY <1>1 DEF SlotsAgree
<1> QED BY <1>2, Invariance, PTL

\* zygisk_next_api.h: the call by which a module unhooks finds its own hook in the
\* record, so that the backend takes it for an unhooking.
THEOREM UnhooksAreRecognised ==
  ASSUME "lsplt" \in Serialised
  PROVE  Spec => []UnhookIsRecognised
<1>1. ASSUME IndInv, NEW m \in Modules, call[m].at = "ready", Unhooking(m)
      PROVE  Record(m) # NoRecord /\ Handler(m) = Record(m).original
  <2>1. PICK s \in Slots : s = Slot(m)
    BY <1>1, CallTypes DEF IndInv
  <2>2. mine[m][s] # None
    BY <1>1, <2>1 DEF Unhooking
  <2>3. ASSUME NEW n \in Modules, Between(n), Slot(n) = s
        PROVE  FALSE
    <3>1. CallOk(n)
      BY <1>1 DEF IndInv, CallInv
    <3>2. HalfHooked(s, n) \/ HalfUnhooked(s, n)
      BY <2>3, <3>1 DEF CallOk, Between, At
    <3>3. n # m
      BY <1>1, <2>3 DEF Between, At
    <3> QED BY <2>2, <3>2, <3>3 DEF HalfHooked, HalfUnhooked, Nobody, OnlyOne
  <2>4. Free(s) \/ \E n \in Modules : Held(s, n)
    BY <1>1, <2>3 DEF IndInv, SlotInv, SlotOk
  <2>5. Held(s, m)
    BY <2>2, <2>4 DEF Free, Nobody, Held, OnlyOne
  <2>6. Handler(m) = Wanted(m, s) /\ mine[m][s] = Own
    BY <1>1, <2>1, <2>5 DEF IndInv, CallInv, CallOk, Held, OnlyOne
  <2>7. records[s] = [replacement |-> m, original |-> Own]
    BY <2>5 DEF Held
  <2> QED BY <2>1, <2>2, <2>6, <2>7, Names DEF Wanted, Record
<1>2. IndInv => UnhookIsRecognised
  BY <1>1 DEF UnhookIsRecognised
<1> QED BY <1>2, Invariance, PTL
=============================================================================
