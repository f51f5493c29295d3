------------------------------ MODULE BootPlan ------------------------------
(***************************************************************************)
(* The boot plan: what the injector writes for one target                    *)
(* (injector/src/plan.rs) and how the loader in it reads it                   *)
(* (loader/src/module/plan.cpp, ipc/plan.h).  A name is a sequence of         *)
(* characters; the header and the records are TLA+ records, and the strings   *)
(* stand behind them in a blob, each with a NUL, as in the program.           *)
(***************************************************************************)
EXTENDS Naturals, Integers, Sequences, SequencesExt

CONSTANTS
  MaxModules,   \* kPlanMaxModules: modules of a plan, and what their indexes stay below
  MaxBytes      \* kPlanMaxBytes

ASSUME BootPlanAssumption == MaxModules \in Nat /\ MaxBytes \in Nat

PlanMagic == "ZNN1"
PlanVersion == 3
HeaderSize == 60
ModuleSize == 20
NUL == "NUL"
Rejected == [rejected |-> TRUE]

(***************************************************************************)
(* The injector.                                                           *)
(***************************************************************************)

\* A bug: a string is told from the next one by its length alone.
PushStringBare(value) == value

PushString(value) == value \o <<NUL>>

Strings(plan) ==
  <<plan.inline_engine, plan.plt_engine, plan.debugdata>>
    \o [i \in DOMAIN plan.modules |-> plan.modules[i].path]

Blob(strings) == FlattenSeq([i \in DOMAIN strings |-> PushString(strings[i])])

\* Where the i-th string of the blob is.
PlanString(strings, i) ==
  [offset |-> Len(Blob(SubSeq(strings, 1, i - 1))), length |-> Len(strings[i])]

\* Plan::encode, None being Rejected.
Encode(plan) ==
  LET strings == Strings(plan)
      count == Len(plan.modules)
      size == HeaderSize + ModuleSize * count + Len(Blob(strings))
      record(i) == [fd |-> plan.modules[i].fd, companion |-> plan.modules[i].companion,
                    index |-> plan.modules[i].index, path |-> PlanString(strings, 3 + i)]
  IN IF \/ count > MaxModules
        \/ \E i \in 1..count : plan.modules[i].index >= MaxModules
        \/ size > MaxBytes
     THEN Rejected
     ELSE [magic |-> PlanMagic, version |-> PlanVersion, size |-> size,
           module_count |-> count, nonce |-> plan.nonce,
           inline_engine |-> PlanString(strings, 1),
           plt_engine |-> PlanString(strings, 2),
           debugdata |-> PlanString(strings, 3),
           records |-> [i \in 1..count |-> record(i)],
           blob |-> Blob(strings)]

(***************************************************************************)
(* The loader.                                                             *)
(***************************************************************************)

\* A bug: the NUL of a string must not be the last byte of the blob.
InBlobShort(blob, size, ref) ==
  \/ ref.length = 0
  \/ /\ ref.offset =< size /\ ref.length =< size - ref.offset
     /\ ref.offset + ref.length < size - 1
     /\ blob[ref.offset + ref.length + 1] = NUL

\* blobString succeeds: the string and its NUL are in the blob.  (blob[k] of the
\* code is blob[k + 1] here.)
InBlob(blob, size, ref) ==
  \/ ref.length = 0
  \/ /\ ref.offset =< size /\ ref.length =< size - ref.offset
     /\ ref.offset + ref.length < size
     /\ blob[ref.offset + ref.length + 1] = NUL

\* What it yields.
BlobString(blob, ref) == SubSeq(blob, ref.offset + 1, ref.offset + ref.length)

Parse(raw) ==
  LET records == raw.module_count * ModuleSize
      size == raw.size - HeaderSize - records
      options == {raw.inline_engine, raw.plt_engine, raw.debugdata}
      mods == raw.records
  IN IF /\ raw.magic = PlanMagic /\ raw.version = PlanVersion
        /\ HeaderSize =< raw.size /\ raw.size =< MaxBytes
        /\ raw.module_count =< MaxModules
        /\ HeaderSize + records =< raw.size
        /\ \A ref \in options : InBlob(raw.blob, size, ref)
        /\ \A i \in 1..raw.module_count :
             /\ mods[i].fd >= 0 /\ mods[i].index < MaxModules
             /\ InBlob(raw.blob, size, mods[i].path)
     THEN [nonce |-> raw.nonce,
           inline_engine |-> BlobString(raw.blob, raw.inline_engine),
           plt_engine |-> BlobString(raw.blob, raw.plt_engine),
           debugdata |-> BlobString(raw.blob, raw.debugdata),
           modules |-> [i \in 1..raw.module_count |->
             [mods[i] EXCEPT !.path = BlobString(raw.blob, mods[i].path)]]]
     ELSE Rejected
=============================================================================
