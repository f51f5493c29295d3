-------------------------- MODULE InjectionProofs --------------------------
(***************************************************************************)
(* Proofs about Injection, for any set of processes, any number of modules *)
(* and any of the disturbances.                                            *)
(*                                                                         *)
(* IndInv (in Injection) is a conjunction over the processes, and every    *)
(* action but HandOverInit and DaemonExit touches one process, two if one  *)
(* is the child of the other.  So there is a lemma for each action, which  *)
(* shows TypeOK', that the action leaves the other processes alone         *)
(* (UnchangedAt), and the invariant of the process it is about; Frame      *)
(* keeps the invariant of the others.                                      *)
(***************************************************************************)
EXTENDS Injection, TLAPS

(* What the invariant of a process depends on.                             *)
UnchangedAt(q) ==
  /\ pc'[q] = pc[q] /\ regs'[q] = regs[q] /\ bp'[q] = bp[q]
  /\ stop'[q] = stop[q] /\ newborn'[q] = newborn[q]
  /\ tracer'[q] = tracer[q] /\ tracees'[q] = tracees[q] /\ task'[q] = task[q]
  /\ phase' = phase

(* A process that a step leaves alone keeps its invariant.                 *)
LEMMA Frame ==
  ASSUME NEW q \in Procs, ProcessInv(q), UnchangedAt(q)
  PROVE  ProcessInv(q)'
BY DEF ProcessInv, UnchangedAt, Intact, EntryArmed, CallUnderWay, Alive, Ours

(* A step that touches the process p alone.                                *)
LEMMA OnlyTouches ==
  ASSUME IndInv, NEW p \in Procs, TypeOK', ProcessInv(p)',
         \A q \in Procs : q # p => UnchangedAt(q)
  PROVE  IndInv'
<1>1. ASSUME NEW q \in Procs, q # p
      PROVE  ProcessInv(q)'
  BY <1>1, Frame DEF IndInv
<1>2. QED
  BY <1>1 DEF IndInv

(* The record of an armed breakpoint is a tracee.                          *)
LEMMA ArmedTyped ==
  ASSUME NEW p \in Procs, NEW t \in Tracee, NEW h \in Places
  PROVE  Armed(p, t, h) \in Tracee
BY DEF Armed, Tracee

(* So is a new one.                                                        *)
LEMMA NewTraceeTyped ==
  ASSUME NEW s \in States
  PROVE  NewTracee(s) \in Tracee
BY InjectionAssumption DEF NewTracee, Tracee, Places

(* release_tracee leaves a process in a state of its own type.             *)
LEMMA ReleaseTyped ==
  ASSUME TypeOK, NEW p \in Procs, ReleaseTracee(p)
  PROVE  /\ pc' \in [Procs -> Counters]
         /\ regs' \in [Procs -> {"own", "call"} \cup Results]
         /\ bp' \in [Procs -> SUBSET Places]
<1>1. RestoredText(p) \subseteq Places
  BY DEF TypeOK, RestoredText
<1>2. tracees[p].home \in Places /\ tracees[p].saved \in Places \cup {"linker"}
  BY DEF TypeOK, Tracee
<1>3. Unskipped(p) \in Counters
  BY <1>2 DEF TypeOK, Unskipped, Counters
<1>4. tracees[p].saved \in Counters
  BY <1>2 DEF Counters
<1>5. bp' \in [Procs -> SUBSET Places]
  BY <1>1 DEF TypeOK, ReleaseTracee, RestoreEntry
<1>6. CASE ~Alive(p)
  BY <1>5, <1>6 DEF TypeOK, ReleaseTracee
<1>7. CASE Alive(p) /\ tracees[p].state = "Entry"
  BY ZenonT(40), <1>3, <1>5, <1>7 DEF TypeOK, ReleaseTracee
<1>8. CASE Alive(p) /\ tracees[p].state # "Entry"
  BY <1>4, <1>5, <1>8 DEF TypeOK, ReleaseTracee
<1>9. QED
  BY <1>6, <1>7, <1>8

(* Undo preserves the invariant.                                           *)
LEMMA UndoStep ==
  ASSUME IndInv, NEW p \in Procs, task[p] = "trap",
         tracees[p].state \in Injecting, Undo(p),
         EndHandler(p), UNCHANGED done,
         outcome' \in [Procs -> {"none", "success", "failure"}]
  PROVE  IndInv'
<1>1. TypeOK'
  <2>1. Untracked \in Tracee
    BY NewTraceeTyped DEF Untracked, States
  <2>2. tracees' \in [Procs -> Tracee]
    BY <2>1 DEF IndInv, TypeOK, Undo, Forget
  <2>3. /\ tracer' \in [Procs -> Tracers]
        /\ stop' \in [Procs -> {"run", "held"} \cup Reports]
        /\ intr' \in [Procs -> BOOLEAN]
    BY DEF IndInv, TypeOK, Undo, Detach, Tracers
  <2>4. QED
    BY <2>2, <2>3, ReleaseTyped DEF IndInv, TypeOK, Undo, EndHandler
<1>2. ASSUME NEW q \in Procs, q # p
      PROVE  UnchangedAt(q)
  BY <1>2 DEF IndInv, TypeOK, UnchangedAt, Undo, ReleaseTracee, RestoreEntry, Detach,
              Forget, EndHandler
<1>3. ProcessInv(p)'
  <2>1. ProcessInv(p) /\ TypeOK
    BY DEF IndInv
  <2>2. tracees'[p].state = "none" /\ task'[p] = "none" /\ phase' = phase
    BY <2>1 DEF TypeOK, Undo, Forget, Untracked, NewTracee, EndHandler
  <2>3. CASE ~Alive(p)
    BY <2>1, <2>2, <2>3 DEF TypeOK, ProcessInv, Undo, ReleaseTracee, RestoreEntry,
                            Detach, Alive, Injecting
  <2>4. CASE Alive(p) /\ tracees[p].state = "Entry"
    <3>1. /\ pc'[p] = Unskipped(p) /\ regs'[p] = "own"
          /\ bp'[p] = RestoredText(p)
      BY <2>1, <2>4 DEF TypeOK, Undo, ReleaseTracee, RestoreEntry, ProcessInv, EntryArmed
    <3>2. Intact(p)'
      BY <2>1, <2>4, <3>1 DEF TypeOK, ProcessInv, EntryArmed, Unskipped, RestoredText,
                              Intact, Calls, Tracee, Places
    <3>3. Alive(p)' /\ stop'[p] \notin {"exec", "exit", "exiting"}
      BY <2>1, <2>4, <3>1 DEF TypeOK, Undo, Detach, Unskipped, Alive, ProcessInv,
                              EntryArmed, Reports
    <3>4. QED
      BY <2>2, <3>2, <3>3 DEF ProcessInv, Alive, Injecting, Reports
  <2>5. CASE Alive(p) /\ tracees[p].state # "Entry"
    <3>1. /\ pc'[p] = tracees[p].saved /\ regs'[p] = "own"
          /\ bp'[p] = RestoredText(p)
      BY <2>1, <2>5 DEF TypeOK, Undo, ReleaseTracee, RestoreEntry
    <3>2. CallUnderWay(p) /\ phase # "down"
      BY <2>1, <2>5 DEF ProcessInv, Injecting
    <3>3. tracees[p].saved \in Places /\ tracees[p].home \in Places
      BY <2>1, <3>2 DEF TypeOK, CallUnderWay, Tracee
    <3>4. Intact(p)'
      BY <2>1, <3>1, <3>2, <3>3 DEF CallUnderWay, RestoredText, Intact, Calls, Places
    <3>5. Alive(p)' /\ stop'[p] \notin {"exec", "exit", "exiting"}
      BY <2>1, <2>5, <3>1, <3>3 DEF TypeOK, Undo, Detach, Alive, ProcessInv, Places,
                                    Reports
    <3>6. QED
      BY <2>2, <3>4, <3>5 DEF ProcessInv, Alive, Injecting, Reports
  <2>6. QED
    BY <2>3, <2>4, <2>5
<1>4. QED
  BY <1>1, <1>2, <1>3, OnlyTouches

(* Call preserves the invariant.                                           *)
LEMMA CallStep ==
  ASSUME IndInv, NEW p \in Procs, Alive(p), task[p] = "trap",
         NEW f \in Calls, NEW t \in Tracee,
         t.state \in Injecting \ {"Entry"}, t.saved = t.home,
         "main" \in bp[p] => t.home = "main" /\ t.original = "code",
         t.home = "entry" /\ "entry" \in bp[p] => t.original = "code",
         t.state = "File" /\ t.purpose = "Module" => t.left # 0,
         Call(p, f, t), EndHandler(p), UNCHANGED done
  PROVE  IndInv'
<1>1. TypeOK'
  <2>1. pc' \in [Procs -> Counters] /\ regs' \in [Procs -> {"own", "call"} \cup Results]
    BY DEF IndInv, TypeOK, Call, Counters
  <2>2. stop' \in [Procs -> {"run", "held"} \cup Reports]
    BY DEF IndInv, TypeOK, Call, Cont, Reports
  <2>3. tracees' \in [Procs -> Tracee]
    BY DEF IndInv, TypeOK, Call
  <2>4. QED
    BY <2>1, <2>2, <2>3 DEF IndInv, TypeOK, Call, EndHandler
<1>2. ASSUME NEW q \in Procs, q # p
      PROVE  UnchangedAt(q)
  BY <1>2 DEF IndInv, TypeOK, UnchangedAt, Call, Cont, EndHandler
<1>3. ProcessInv(p)'
  <2>1. ProcessInv(p) /\ TypeOK
    BY DEF IndInv
  <2>2. /\ pc'[p] = f /\ regs'[p] = "call" /\ bp'[p] = bp[p] /\ tracees'[p] = t
        /\ stop'[p] = "run" /\ tracer'[p] = tracer[p] /\ task'[p] = "none" /\ phase' = phase
    BY <2>1 DEF TypeOK, Call, Cont, EndHandler
  <2>3. Ours(p) /\ phase # "down"
    BY <2>1 DEF ProcessInv
  <2>4. QED
    BY <2>1, <2>2, <2>3 DEF ProcessInv, CallUnderWay, Injecting, Calls, Ours, Alive,
                            Reports
<1>4. QED
  BY <1>1, <1>2, <1>3, OnlyTouches

(* After a call, whatever the next call is, the tracee keeps the place of  *)
(* its breakpoint and its saved registers.                                 *)
LEMMA NextCallStep ==
  ASSUME IndInv, NEW p \in Procs, Alive(p), task[p] = "trap",
         tracees[p].state \in Injecting \ {"Entry"},
         NEW f \in Calls, NEW t \in Tracee,
         t.state \in Injecting \ {"Entry"},
         t.home = tracees[p].home, t.saved = tracees[p].saved,
         t.original = tracees[p].original,
         t.state = "File" /\ t.purpose = "Module" => t.left # 0,
         Call(p, f, t), EndHandler(p), UNCHANGED done
  PROVE  IndInv'
<1>1. CallUnderWay(p)
  BY DEF IndInv, ProcessInv, Injecting
<1>2. QED
  BY <1>1, CallStep DEF CallUnderWay

(* GiveUp preserves the invariant.                                         *)
LEMMA GiveUpStep ==
  ASSUME IndInv, NEW p \in Procs, task[p] = "trap",
         tracees[p].state \in Injecting, GiveUp(p),
         EndHandler(p), UNCHANGED done
  PROVE  IndInv'
<1>1. outcome' \in [Procs -> {"none", "success", "failure"}]
  BY DEF IndInv, TypeOK, GiveUp, Record
<1>2. QED
  BY <1>1, UndoStep DEF GiveUp

(* PumpModules preserves the invariant.                                    *)
LEMMA PumpModulesStep ==
  ASSUME IndInv, NEW p \in Procs, task[p] = "trap",
         tracees[p].state \in Injecting \ {"Entry"},
         NEW n \in 0 .. MaxModules, PumpModules(p, n),
         EndHandler(p), UNCHANGED done
  PROVE  IndInv'
<1> DEFINE initCall == [tracees[p] EXCEPT !.state = "Init", !.left = 0]
           fileCall == [tracees[p] EXCEPT !.state = "File", !.purpose = "Module", !.left = n]
<1>1. tracees[p] \in Tracee
  BY DEF IndInv, TypeOK
<1>2. CASE GiveUp(p)
  BY <1>2, GiveUpStep
<1>3. CASE Alive(p) /\ Call(p, "init", initCall)
  <2>1. initCall \in Tracee
    <3>1. 0 \in 0 .. MaxModules /\ "Init" \in States
      BY InjectionAssumption DEF States, Injecting
    <3>2. QED
      BY <1>1, <3>1 DEF Tracee
  <2>2. QED
    BY <1>1, <1>3, <2>1, NextCallStep DEF Tracee, Calls, Injecting
<1>4. CASE Alive(p) /\ n # 0 /\ Call(p, "memfd", fileCall)
  <2>1. fileCall \in Tracee
    BY <1>1 DEF Tracee, States, Injecting
  <2>2. QED
    BY <1>1, <1>4, <2>1, NextCallStep DEF Tracee, Calls, Injecting
<1>5. QED
  BY <1>2, <1>3, <1>4 DEF PumpModules

(* TrapAtEntry preserves the invariant.                                    *)
LEMMA TrapAtEntryStep ==
  ASSUME IndInv, NEW p \in Procs, TrapAtEntry(p)
  PROVE  IndInv'
<1> DEFINE atEntry == pc[p] = IF X86 THEN "past" ELSE "entry"
<1>1. TypeOK /\ ProcessInv(p) /\ tracees[p] \in Tracee
  BY DEF IndInv, TypeOK
<1>2. task[p] = "trap" /\ tracees[p].state = "Entry" /\ EndHandler(p) /\ UNCHANGED done
  BY DEF TrapAtEntry
<1>3. CASE atEntry /\ Call(p, "memfd", LoaderFile(p))
  <2>1. Alive(p) /\ phase # "down"
    BY <1>1, <1>2, <1>3 DEF Alive, ProcessInv
  <2>2. EntryArmed(p)
    BY <1>1, <1>2, <2>1 DEF ProcessInv
  <2>3. LoaderFile(p) \in Tracee
    BY <1>1 DEF LoaderFile, Tracee, States, Injecting
  <2>4. /\ LoaderFile(p).state = "File" /\ LoaderFile(p).purpose = "Loader"
        /\ LoaderFile(p).saved = tracees[p].home /\ LoaderFile(p).home = tracees[p].home
        /\ LoaderFile(p).original = tracees[p].original
    BY <1>1 DEF LoaderFile, Tracee
  <2>5. "entry" \in bp[p] => tracees[p].original = "code"
    BY <1>1, <1>3, <2>2 DEF EntryArmed, Tracee
  <2>6. QED
    BY <1>2, <1>3, <2>1, <2>2, <2>3, <2>4, <2>5, CallStep DEF EntryArmed, Calls, Injecting
<1>4. CASE Undo(p) /\ UNCHANGED outcome
  BY <1>1, <1>2, <1>4, UndoStep DEF TypeOK, Injecting
<1>5. CASE /\ ~atEntry
           /\ RestoreEntry(p) /\ Detach(p) /\ Forget(p)
           /\ UNCHANGED <<pc, regs, outcome>>
  <2>1. TypeOK'
    <3>1. RestoredText(p) \subseteq Places
      BY <1>1 DEF TypeOK, RestoredText
    <3>2. bp' \in [Procs -> SUBSET Places]
      BY <1>1, <1>5, <3>1 DEF TypeOK, RestoreEntry
    <3>3. tracees' \in [Procs -> Tracee]
      BY <1>1, <1>5, NewTraceeTyped DEF TypeOK, Forget, Untracked, States
    <3>4. QED
      BY <1>1, <1>2, <1>5, <3>2, <3>3 DEF TypeOK, Detach, EndHandler, Tracers
  <2>2. ASSUME NEW q \in Procs, q # p
        PROVE  UnchangedAt(q)
    BY <1>1, <1>2, <1>5, <2>2 DEF TypeOK, UnchangedAt, RestoreEntry, Detach, Forget,
                                  EndHandler
  <2>3. ProcessInv(p)'
    <3>1. tracees'[p].state = "none" /\ task'[p] = "none" /\ phase' = phase
      BY <1>1, <1>2, <1>5 DEF TypeOK, Forget, Untracked, NewTracee, EndHandler
    <3>2. pc'[p] = pc[p] /\ regs'[p] = regs[p]
      BY <1>5
    <3>3. CASE ~Alive(p)
      BY <1>1, <1>2, <1>5, <3>1, <3>2, <3>3
         DEF TypeOK, ProcessInv, RestoreEntry, Detach, Alive, Injecting
    <3>4. CASE Alive(p)
      <4>1. EntryArmed(p) /\ phase # "down" /\ stop[p] = "held"
        BY <1>1, <1>2, <3>4 DEF ProcessInv, Reports
      <4>2. bp'[p] = RestoredText(p) /\ stop'[p] = "run"
        BY <1>1, <1>5, <3>4, <4>1 DEF TypeOK, RestoreEntry, Detach
      <4>3. Intact(p)'
        BY <1>1, <1>5, <3>2, <4>1, <4>2 DEF EntryArmed, RestoredText, Intact, Calls,
                                            Tracee, Places
      <4>4. QED
        BY <1>1, <3>1, <3>2, <3>4, <4>2, <4>3 DEF ProcessInv, Alive, Injecting, Reports
    <3>5. QED
      BY <3>3, <3>4
  <2>4. QED
    BY <2>1, <2>2, <2>3, OnlyTouches
<1>6. QED
  BY <1>3, <1>4, <1>5 DEF TrapAtEntry

(* TrapFile preserves the invariant.                                       *)
LEMMA TrapFileStep ==
  ASSUME IndInv, NEW p \in Procs, TrapFile(p)
  PROVE  IndInv'
<1> DEFINE dlopenCall == [tracees[p] EXCEPT !.state = "Dlopen"]
<1>1. tracees[p] \in Tracee
  BY DEF IndInv, TypeOK
<1>2. /\ task[p] = "trap" /\ tracees[p].state = "File"
      /\ EndHandler(p) /\ UNCHANGED done
  BY DEF TrapFile
<1>3. CASE GiveUp(p)
  BY <1>2, <1>3, GiveUpStep DEF Injecting
<1>4. CASE Alive(p) /\ Call(p, "dlopen", dlopenCall)
  <2>1. dlopenCall \in Tracee
    BY <1>1 DEF Tracee, States, Injecting
  <2>2. QED
    BY <1>1, <1>2, <1>4, <2>1, NextCallStep DEF Tracee, Calls, Injecting
<1>5. CASE /\ Alive(p) /\ tracees[p].purpose = "Module"
           /\ PumpModules(p, tracees[p].left - 1)
  <2>1. tracees[p].left \in 1 .. MaxModules
    <3>1. CallUnderWay(p)
      BY <1>2, <1>5 DEF IndInv, ProcessInv, Injecting
    <3>2. QED
      BY <1>1, <1>2, <1>5, <3>1, InjectionAssumption DEF CallUnderWay, Tracee
  <2>2. tracees[p].left - 1 \in 0 .. MaxModules
    BY <2>1, InjectionAssumption
  <2>3. QED
    BY <1>2, <1>5, <2>2, PumpModulesStep DEF Injecting
<1>6. QED
  BY <1>1, <1>3, <1>4, <1>5 DEF TrapFile, Tracee

(* TrapAfterDlopen preserves the invariant.                                *)
LEMMA TrapAfterDlopenStep ==
  ASSUME IndInv, NEW p \in Procs, TrapAfterDlopen(p)
  PROVE  IndInv'
<1> DEFINE dlsymCall == [tracees[p] EXCEPT !.state = "Dlsym"]
           dlerrorCall == [tracees[p] EXCEPT !.state = "Dlerror"]
<1>1. tracees[p] \in Tracee
  BY DEF IndInv, TypeOK
<1>2. /\ task[p] = "trap" /\ tracees[p].state = "Dlopen"
      /\ EndHandler(p) /\ UNCHANGED done
  BY DEF TrapAfterDlopen
<1>3. CASE Undo(p) /\ UNCHANGED outcome
  BY <1>2, <1>3, UndoStep DEF IndInv, TypeOK, Injecting
<1>4. CASE GiveUp(p)
  BY <1>2, <1>4, GiveUpStep DEF Injecting
<1>5. CASE Alive(p) /\ Call(p, "dlsym", dlsymCall)
  <2>1. dlsymCall \in Tracee
    BY <1>1 DEF Tracee, States, Injecting
  <2>2. QED
    BY <1>1, <1>2, <1>5, <2>1, NextCallStep DEF Tracee, Calls, Injecting
<1>6. CASE Alive(p) /\ Call(p, "dlerror", dlerrorCall)
  <2>1. dlerrorCall \in Tracee
    BY <1>1 DEF Tracee, States, Injecting
  <2>2. QED
    BY <1>1, <1>2, <1>6, <2>1, NextCallStep DEF Tracee, Calls, Injecting
<1>7. QED
  BY <1>3, <1>4, <1>5, <1>6 DEF TrapAfterDlopen

(* TrapAfterDlsym preserves the invariant.                                 *)
LEMMA TrapAfterDlsymStep ==
  ASSUME IndInv, NEW p \in Procs, TrapAfterDlsym(p)
  PROVE  IndInv'
<1>1. /\ task[p] = "trap" /\ tracees[p].state = "Dlsym"
      /\ EndHandler(p) /\ UNCHANGED done
  BY DEF TrapAfterDlsym
<1>2. CASE Undo(p) /\ UNCHANGED outcome
  BY <1>1, <1>2, UndoStep DEF IndInv, TypeOK, Injecting
<1>3. CASE GiveUp(p)
  BY <1>1, <1>3, GiveUpStep DEF Injecting
<1>4. ASSUME NEW n \in 1 .. MaxModules, PumpModules(p, n)
      PROVE  IndInv'
  <2>1. n \in 0 .. MaxModules
    BY InjectionAssumption
  <2>2. QED
    BY <1>1, <1>4, <2>1, PumpModulesStep DEF Injecting
<1>5. QED
  BY <1>2, <1>3, <1>4 DEF TrapAfterDlsym

(* TrapAfterDlerror preserves the invariant.                               *)
LEMMA TrapAfterDlerrorStep ==
  ASSUME IndInv, NEW p \in Procs, TrapAfterDlerror(p)
  PROVE  IndInv'
<1>1. /\ task[p] = "trap" /\ tracees[p].state = "Dlerror"
      /\ EndHandler(p) /\ UNCHANGED done
  BY DEF TrapAfterDlerror
<1>2. CASE Undo(p) /\ UNCHANGED outcome
  BY <1>1, <1>2, UndoStep DEF IndInv, TypeOK, Injecting
<1>3. CASE GiveUp(p)
  BY <1>1, <1>3, GiveUpStep DEF Injecting
<1>4. QED
  BY <1>2, <1>3 DEF TrapAfterDlerror

(* TrapAfterInit preserves the invariant.                                  *)
LEMMA TrapAfterInitStep ==
  ASSUME IndInv, NEW p \in Procs, TrapAfterInit(p)
  PROVE  IndInv'
<1>1. outcome' \in [Procs -> {"none", "success", "failure"}]
  BY DEF IndInv, TypeOK, TrapAfterInit, Record
<1>2. QED
  BY <1>1, UndoStep DEF TrapAfterInit, Injecting


(* A trap leaves a process at an instruction, with a stop to collect.      *)
LEMMA TrapTyped ==
  ASSUME TypeOK, NEW p \in Procs, NEW h \in Places, Trap(p, h)
  PROVE  /\ pc' \in [Procs -> Counters]
         /\ stop' \in [Procs -> {"run", "held"} \cup Reports]
<1>1. "past" \in Counters /\ "dead" \in Counters /\ h \in Counters
  BY DEF Counters
<1>2. "trap" \in {"run", "held"} \cup Reports
  BY DEF Reports
<1>3. CASE Ours(p)
  <2>1. (IF X86 THEN "past" ELSE h) \in Counters
    BY <1>1
  <2>2. QED
    BY <1>2, <1>3, <2>1 DEF TypeOK, Trap
<1>4. CASE ~Ours(p)
  BY <1>1, <1>4 DEF TypeOK, Trap
<1>5. QED
  BY <1>3, <1>4

(* HandleExec preserves the invariant.                                     *)
LEMMA HandleExecStep ==
  ASSUME IndInv, NEW p \in Procs, HandleExec(p)
  PROVE  IndInv'
<1> DEFINE armed == Armed(p, [tracees[p] EXCEPT !.state = "Entry", !.timed = FALSE], "entry")
<1>1. TypeOK /\ ProcessInv(p) /\ tracees[p] \in Tracee
  BY DEF IndInv, TypeOK
<1>2. /\ task[p] = "exec" /\ EndHandler(p) /\ UNCHANGED <<pc, regs, done, outcome>>
      /\ tracees' = [tracees EXCEPT ![p] = tracees'[p]]
  BY <1>1 DEF HandleExec, Forget, TypeOK
<1>3. CASE /\ Alive(p) /\ Arm(p, "entry")
           /\ tracees' = [tracees EXCEPT ![p] = armed]
           /\ tracees[p].state # "none"
           /\ Cont(p) /\ UNCHANGED <<tracer, intr>>
  <2>1. armed \in Tracee
    <3>1. [tracees[p] EXCEPT !.state = "Entry", !.timed = FALSE] \in Tracee
      BY <1>1 DEF Tracee, States, Injecting
    <3>2. QED
      BY <3>1, ArmedTyped DEF Places
  <2>2. TypeOK'
    <3>1. tracees' \in [Procs -> Tracee]
      BY <1>1, <1>3, <2>1 DEF TypeOK
    <3>2. bp' \in [Procs -> SUBSET Places]
      BY <1>1, <1>3 DEF TypeOK, Arm, Places
    <3>3. stop' \in [Procs -> {"run", "held"} \cup Reports]
      BY <1>1, <1>3 DEF TypeOK, Cont, Reports
    <3>4. QED
      BY <1>1, <1>2, <1>3, <3>1, <3>2, <3>3 DEF TypeOK, EndHandler
  <2>3. ASSUME NEW q \in Procs, q # p
        PROVE  UnchangedAt(q)
    BY <1>1, <1>2, <1>3, <2>3 DEF TypeOK, UnchangedAt, Arm, Cont, EndHandler
  <2>4. ProcessInv(p)'
    <3>1. phase # "down" /\ Ours(p)
      BY <1>1, <1>2, <1>3 DEF ProcessInv
    <3>2. pc[p] = "linker" /\ regs[p] = "own" /\ bp[p] = {}
      BY <1>1, <1>2, <1>3, <3>1 DEF ProcessInv
    <3>3. /\ tracees'[p].state = "Entry" /\ tracees'[p].home = "entry"
          /\ tracees'[p].original = "code"
      BY <1>1, <1>3, <3>2 DEF TypeOK, Armed, Tracee
    <3>4. bp'[p] = {"entry"} /\ stop'[p] = "run" /\ task'[p] = "none"
      BY <1>1, <1>2, <1>3, <3>2 DEF TypeOK, Arm, Cont, EndHandler
    <3>5. QED
      BY <1>1, <1>2, <1>3, <3>1, <3>2, <3>3, <3>4
         DEF ProcessInv, EntryArmed, Alive, Ours, Injecting, Calls, Reports, EndHandler
  <2>5. QED
    BY <2>2, <2>3, <2>4, OnlyTouches
<1>4. CASE Detach(p) /\ Forget(p) /\ UNCHANGED bp
  <2>1. TypeOK'
    <3>1. tracees' \in [Procs -> Tracee]
      BY <1>1, <1>4, NewTraceeTyped DEF TypeOK, Forget, Untracked, States
    <3>2. /\ tracer' \in [Procs -> Tracers]
          /\ stop' \in [Procs -> {"run", "held"} \cup Reports]
          /\ intr' \in [Procs -> BOOLEAN]
      BY <1>1, <1>4 DEF TypeOK, Detach, Tracers
    <3>3. QED
      BY <1>1, <1>2, <1>4, <3>1, <3>2 DEF TypeOK, EndHandler
  <2>2. ASSUME NEW q \in Procs, q # p
        PROVE  UnchangedAt(q)
    BY <1>1, <1>2, <1>4, <2>2 DEF TypeOK, UnchangedAt, Detach, Forget, EndHandler
  <2>3. ProcessInv(p)'
    <3>1. tracees'[p].state = "none" /\ task'[p] = "none" /\ phase' = phase
      BY <1>1, <1>2, <1>4 DEF TypeOK, Forget, Untracked, NewTracee, EndHandler
    <3>2. CASE ~Alive(p)
      BY <1>1, <1>2, <1>4, <3>1, <3>2 DEF TypeOK, ProcessInv, Detach, Alive, Injecting,
                                          Reports, EndHandler
    <3>3. CASE Alive(p)
      <4>1. pc[p] = "linker" /\ regs[p] = "own" /\ bp[p] = {} /\ stop[p] = "held"
        BY <1>1, <1>2, <3>1, <3>3 DEF ProcessInv, Reports
      <4>2. stop'[p] = "run"
        BY <1>1, <1>4, <3>3, <4>1 DEF TypeOK, Detach
      <4>3. QED
        BY <1>1, <1>2, <1>4, <3>1, <3>3, <4>1, <4>2
           DEF ProcessInv, Intact, Alive, Injecting, Reports, Calls
    <3>4. QED
      BY <3>2, <3>3
  <2>4. QED
    BY <2>1, <2>2, <2>3, OnlyTouches
<1>5. QED
  BY <1>1, <1>2, <1>3, <1>4 DEF HandleExec


(* SeizedStopped preserves the invariant.                                  *)
LEMMA SeizedStoppedStep ==
  ASSUME IndInv, NEW p \in Procs, SeizedStopped(p)
  PROVE  IndInv'
<1> DEFINE entryTracee == Armed(p, [NewTracee("Entry") EXCEPT !.timed = TRUE], "entry")
           lateTracee == Armed(p, [NewTracee("File") EXCEPT !.saved = pc[p]], pc[p])
<1>1. TypeOK /\ ProcessInv(p)
  BY DEF IndInv
<1>2. task[p] \in {"seize", "seizeLate"} /\ EndHandler(p) /\ done' \in SUBSET Procs
  BY <1>1 DEF SeizedStopped, Waited, TypeOK
<1>3. /\ task'[p] = "none" /\ phase' = phase /\ newborn' = newborn
      /\ tracees[p].state = "none" /\ phase # "down"
  BY <1>1, <1>2 DEF TypeOK, EndHandler, ProcessInv
<1>4. outcome' \in [Procs -> {"none", "success", "failure"}]
  BY <1>1 DEF TypeOK, SeizedStopped, Record, ArmEntry, InjectLate
<1>5. Alive(p) => /\ pc[p] \in {"linker", "entry", "main"} /\ Intact(p) /\ Ours(p)
  BY <1>1, <1>2, <1>3 DEF ProcessInv
<1>6. CASE RefuseSeized(p)
  <2>1. TypeOK'
    BY <1>1, <1>2, <1>4, <1>6 DEF TypeOK, RefuseSeized, EndHandler, Tracers
  <2>2. ASSUME NEW q \in Procs, q # p
        PROVE  UnchangedAt(q)
    BY <1>1, <1>2, <1>6, <2>2 DEF TypeOK, UnchangedAt, RefuseSeized, EndHandler
  <2>3. ProcessInv(p)'
    <3>1. stop'[p] = "run" /\ tracer'[p] = "none"
      BY <1>1, <1>6 DEF TypeOK, RefuseSeized
    <3>2. QED
      BY <1>1, <1>3, <1>5, <1>6, <3>1 DEF RefuseSeized, ProcessInv, Intact, Alive,
                                          Injecting, Reports
  <2>4. QED
    BY <2>1, <2>2, <2>3, OnlyTouches
<1>7. CASE Alive(p) /\ ArmEntry(p)
  <2>1. entryTracee \in Tracee
    <3>1. NewTracee("Entry") \in Tracee
      BY NewTraceeTyped DEF States, Injecting
    <3>2. [NewTracee("Entry") EXCEPT !.timed = TRUE] \in Tracee
      BY <3>1 DEF Tracee
    <3>3. QED
      BY <3>2, ArmedTyped DEF Places
  <2>2. TypeOK'
    <3>1. tracees' \in [Procs -> Tracee]
      BY <1>1, <1>7, <2>1 DEF TypeOK, ArmEntry
    <3>2. bp' \in [Procs -> SUBSET Places]
      BY <1>1, <1>7 DEF TypeOK, ArmEntry, Arm, Places
    <3>3. QED
      BY <1>1, <1>2, <1>4, <1>7, <3>1, <3>2 DEF TypeOK, ArmEntry, EndHandler
  <2>3. ASSUME NEW q \in Procs, q # p
        PROVE  UnchangedAt(q)
    BY <1>1, <1>2, <1>7, <2>3 DEF TypeOK, UnchangedAt, ArmEntry, Arm, EndHandler
  <2>4. ProcessInv(p)'
    <3>1. /\ tracees'[p].state = "Entry" /\ tracees'[p].home = "entry"
          /\ tracees'[p].original = IF "entry" \in bp[p] THEN "breakpoint" ELSE "code"
      BY <1>1, <1>7, <2>1 DEF TypeOK, ArmEntry, Armed, NewTracee
    <3>2. bp'[p] = bp[p] \cup {"entry"} /\ stop'[p] = "run"
      BY <1>1, <1>7 DEF TypeOK, ArmEntry, Arm
    <3>3. pc' = pc /\ regs' = regs /\ tracer' = tracer
      BY <1>7 DEF ArmEntry
    <3>4. EntryArmed(p)'
      BY <1>5, <1>7, <3>1, <3>2, <3>3 DEF EntryArmed, Intact, Calls
    <3>5. QED
      BY <1>3, <1>5, <1>7, <3>1, <3>2, <3>3, <3>4
         DEF ProcessInv, Alive, Ours, Injecting, Reports
  <2>5. QED
    BY <2>2, <2>3, <2>4, OnlyTouches
<1>8. CASE Alive(p) /\ InjectLate(p) /\ TRUE \in InExeText(p)
  <2>1. pc[p] \in Places
    BY <1>5, <1>8 DEF InExeText, Places
  <2>2. lateTracee \in Tracee
    <3>1. NewTracee("File") \in Tracee
      BY NewTraceeTyped DEF States, Injecting
    <3>2. [NewTracee("File") EXCEPT !.saved = pc[p]] \in Tracee
      BY <2>1, <3>1 DEF Tracee
    <3>3. QED
      BY <2>1, <3>2, ArmedTyped
  <2>3. TypeOK'
    <3>1. tracees' \in [Procs -> Tracee]
      BY <1>1, <1>8, <2>2 DEF TypeOK, InjectLate
    <3>2. bp' \in [Procs -> SUBSET Places]
      BY <1>1, <1>8, <2>1 DEF TypeOK, InjectLate, Arm
    <3>3. pc' \in [Procs -> Counters]
      BY <1>1, <1>8 DEF TypeOK, InjectLate, Counters, Calls
    <3>4. QED
      BY <1>1, <1>2, <1>4, <1>8, <3>1, <3>2, <3>3 DEF TypeOK, InjectLate, EndHandler
  <2>4. ASSUME NEW q \in Procs, q # p
        PROVE  UnchangedAt(q)
    BY <1>1, <1>2, <1>8, <2>4 DEF TypeOK, UnchangedAt, InjectLate, Arm, EndHandler
  <2>5. ProcessInv(p)'
    <3>1. /\ tracees'[p].state = "File" /\ tracees'[p].home = pc[p]
          /\ tracees'[p].saved = pc[p] /\ tracees'[p].purpose = "Loader"
          /\ tracees'[p].original = IF pc[p] \in bp[p] THEN "breakpoint" ELSE "code"
      BY <1>1, <1>8, <2>2 DEF TypeOK, InjectLate, Armed, NewTracee
    <3>2. /\ bp'[p] = bp[p] \cup {pc[p]} /\ stop'[p] = "run" /\ regs'[p] = "call"
          /\ pc'[p] = "memfd" /\ tracer'[p] = tracer[p]
      BY <1>1, <1>8 DEF TypeOK, InjectLate, Arm
    <3>3. CallUnderWay(p)'
      BY <1>5, <1>8, <2>1, <3>1, <3>2 DEF CallUnderWay, Intact, Places
    <3>4. QED
      BY <1>3, <1>5, <1>8, <3>1, <3>2, <3>3
         DEF ProcessInv, Alive, Ours, Injecting, Reports
  <2>6. QED
    BY <2>3, <2>4, <2>5, OnlyTouches
<1>9. QED
  BY <1>6, <1>7, <1>8 DEF SeizedStopped

(* ForkByInit preserves the invariant.                                     *)
LEMMA ForkByInitStep ==
  ASSUME IndInv, NEW p \in Procs, ForkByInit(p)
  PROVE  IndInv'
<1>1. TypeOK'
  <2>1. pc' \in [Procs -> Counters]
    BY DEF IndInv, TypeOK, ForkByInit, Counters
  <2>2. CASE initTraced /\ phase # "down"
    BY <2>1, <2>2 DEF IndInv, TypeOK, ForkByInit, daemonVars, Tracers, Reports
  <2>3. CASE ~(initTraced /\ phase # "down")
    BY <2>1, <2>3 DEF IndInv, TypeOK, ForkByInit, daemonVars
  <2>4. QED
    BY <2>2, <2>3
<1>2. ASSUME NEW q \in Procs, q # p
      PROVE  UnchangedAt(q)
  BY <1>2 DEF IndInv, TypeOK, UnchangedAt, ForkByInit, Trap, daemonVars
<1>3. ProcessInv(p)'
  BY InjectionAssumption DEF IndInv, TypeOK, Injecting, Calls, Reports, ProcessInv,
                             Intact, EntryArmed, CallUnderWay, Ours, ForkByInit,
                             daemonVars
<1>4. QED
  BY <1>1, <1>2, <1>3, OnlyTouches

(* Exec preserves the invariant.                                           *)
LEMMA ExecStep ==
  ASSUME IndInv, NEW p \in Procs, Exec(p)
  PROVE  IndInv'
<1>1. TypeOK'
  BY InjectionAssumption DEF IndInv, TypeOK, Counters, Reports, Exec, daemonVars
<1>2. ASSUME NEW q \in Procs, q # p
      PROVE  UnchangedAt(q)
  BY <1>2 DEF IndInv, TypeOK, UnchangedAt, Exec, daemonVars
<1>3. ProcessInv(p)'
  BY InjectionAssumption DEF IndInv, TypeOK, Calls, ProcessInv, Intact, EntryArmed,
                             CallUnderWay, Ours, Running, Exec, daemonVars
<1>4. QED
  BY <1>1, <1>2, <1>3, OnlyTouches

(* Link preserves the invariant.                                           *)
LEMMA LinkStep ==
  ASSUME IndInv, NEW p \in Procs, Link(p)
  PROVE  IndInv'
<1>1. TypeOK'
  BY InjectionAssumption DEF IndInv, TypeOK, Places, Counters, Link, daemonVars
<1>2. ASSUME NEW q \in Procs, q # p
      PROVE  UnchangedAt(q)
  BY <1>2 DEF IndInv, TypeOK, UnchangedAt, Link, daemonVars
<1>3. ProcessInv(p)'
  BY InjectionAssumption DEF IndInv, TypeOK, Calls, Waits, ProcessInv, Intact,
                             EntryArmed, CallUnderWay, Ours, Running, Link, daemonVars
<1>4. QED
  BY <1>1, <1>2, <1>3, OnlyTouches

(* EnterProgram preserves the invariant.                                   *)
LEMMA EnterProgramStep ==
  ASSUME IndInv, NEW p \in Procs, EnterProgram(p)
  PROVE  IndInv'
<1>1. TypeOK'
  <2>1. /\ pc' \in [Procs -> Counters]
        /\ stop' \in [Procs -> {"run", "held"} \cup Reports]
    <3>1. CASE "entry" \in bp[p]
      BY <3>1, TrapTyped DEF IndInv, EnterProgram, Places
    <3>2. CASE "entry" \notin bp[p]
      BY <3>2 DEF IndInv, TypeOK, EnterProgram, Counters, Places
    <3>3. QED
      BY <3>1, <3>2
  <2>2. QED
    BY <2>1 DEF IndInv, TypeOK, EnterProgram, daemonVars
<1>2. ASSUME NEW q \in Procs, q # p
      PROVE  UnchangedAt(q)
  BY <1>2 DEF IndInv, TypeOK, UnchangedAt, EnterProgram, Trap, daemonVars
<1>3. ProcessInv(p)'
  BY InjectionAssumption DEF IndInv, TypeOK, Calls, ProcessInv, Intact, EntryArmed,
                             CallUnderWay, Ours, Running, EnterProgram, Trap, daemonVars
<1>4. QED
  BY <1>1, <1>2, <1>3, OnlyTouches

(* ReturnFromCall preserves the invariant.                                 *)
LEMMA ReturnFromCallStep ==
  ASSUME IndInv, NEW p \in Procs, ReturnFromCall(p)
  PROVE  IndInv'
<1>1. TypeOK'
  <2>1. /\ pc' \in [Procs -> Counters]
        /\ stop' \in [Procs -> {"run", "held"} \cup Reports]
    <3>1. tracees[p].home \in Places
      BY DEF IndInv, TypeOK, Tracee
    <3>2. CASE tracees[p].home \in bp[p]
      BY <3>1, <3>2, TrapTyped DEF IndInv, ReturnFromCall
    <3>3. CASE tracees[p].home \notin bp[p]
      BY <3>1, <3>3 DEF IndInv, TypeOK, ReturnFromCall, Counters
    <3>4. QED
      BY <3>2, <3>3
  <2>2. PICK r \in Results : /\ regs' = [regs EXCEPT ![p] = r]
                             /\ image' = [image EXCEPT ![p] =
                                  CASE pc[p] = "dlopen" /\ r = "ok" -> "loaded"
                                    [] pc[p] = "init"               -> "inited"
                                    [] OTHER                        -> @]
    BY DEF ReturnFromCall
  <2>3. image' \in [Procs -> {"clean", "loaded", "inited", "inherited"}]
    BY <2>2 DEF IndInv, TypeOK
  <2>4. QED
    BY <2>1, <2>2, <2>3 DEF IndInv, TypeOK, ReturnFromCall, daemonVars
<1>2. ASSUME NEW q \in Procs, q # p
      PROVE  UnchangedAt(q)
  BY <1>2 DEF IndInv, TypeOK, UnchangedAt, ReturnFromCall, Trap, daemonVars
<1>3. ProcessInv(p)'
  BY InjectionAssumption DEF IndInv, TypeOK, Tracee, Places, Results, Waits, ProcessInv,
                             Intact, EntryArmed, CallUnderWay, Ours, Running,
                             ReturnFromCall, Trap, daemonVars
<1>4. QED
  BY <1>1, <1>2, <1>3, OnlyTouches

(* Signal preserves the invariant.                                         *)
LEMMA SignalStep ==
  ASSUME IndInv, NEW p \in Procs, Signal(p)
  PROVE  IndInv'
<1>1. TypeOK'
  BY InjectionAssumption DEF IndInv, TypeOK, Reports, Signal, daemonVars
<1>2. ASSUME NEW q \in Procs, q # p
      PROVE  UnchangedAt(q)
  BY <1>2 DEF IndInv, TypeOK, UnchangedAt, Signal, daemonVars
<1>3. ProcessInv(p)'
  BY InjectionAssumption DEF IndInv, TypeOK, ProcessInv, Intact, EntryArmed,
                             CallUnderWay, Ours, Running, Signal, daemonVars
<1>4. QED
  BY <1>1, <1>2, <1>3, OnlyTouches

(* StrayTrap preserves the invariant.                                      *)
LEMMA StrayTrapStep ==
  ASSUME IndInv, NEW p \in Procs, StrayTrap(p)
  PROVE  IndInv'
<1>1. TypeOK'
  BY InjectionAssumption DEF IndInv, TypeOK, Reports, StrayTrap, daemonVars
<1>2. ASSUME NEW q \in Procs, q # p
      PROVE  UnchangedAt(q)
  BY <1>2 DEF IndInv, TypeOK, UnchangedAt, StrayTrap, daemonVars
<1>3. ProcessInv(p)'
  BY InjectionAssumption DEF IndInv, TypeOK, ProcessInv, Intact, EntryArmed,
                             CallUnderWay, Ours, Running, StrayTrap, daemonVars
<1>4. QED
  BY <1>1, <1>2, <1>3, OnlyTouches

(* Interrupted preserves the invariant.                                    *)
LEMMA InterruptedStep ==
  ASSUME IndInv, NEW p \in Procs, Interrupted(p)
  PROVE  IndInv'
<1>1. TypeOK'
  BY InjectionAssumption DEF IndInv, TypeOK, Reports, Interrupted, daemonVars
<1>2. ASSUME NEW q \in Procs, q # p
      PROVE  UnchangedAt(q)
  BY <1>2 DEF IndInv, TypeOK, UnchangedAt, Interrupted, daemonVars
<1>3. ProcessInv(p)'
  BY InjectionAssumption DEF IndInv, TypeOK, Alive, ProcessInv, Intact, EntryArmed,
                             CallUnderWay, Ours, Running, Interrupted, daemonVars
<1>4. QED
  BY <1>1, <1>2, <1>3, OnlyTouches

(* Die preserves the invariant.                                            *)
LEMMA DieStep ==
  ASSUME IndInv, NEW p \in Procs, Die(p)
  PROVE  IndInv'
<1>1. TypeOK'
  BY InjectionAssumption DEF IndInv, TypeOK, Counters, Reports, Die, daemonVars
<1>2. ASSUME NEW q \in Procs, q # p
      PROVE  UnchangedAt(q)
  BY <1>2 DEF IndInv, TypeOK, UnchangedAt, Die, daemonVars
<1>3. ProcessInv(p)'
  BY InjectionAssumption DEF IndInv, TypeOK, Alive, ProcessInv, Intact, EntryArmed,
                             CallUnderWay, Ours, Die, daemonVars
<1>4. QED
  BY <1>1, <1>2, <1>3, OnlyTouches

(* Reap preserves the invariant.                                           *)
LEMMA ReapStep ==
  ASSUME IndInv, NEW p \in Procs, Reap(p)
  PROVE  IndInv'
<1>1. TypeOK'
  BY InjectionAssumption DEF IndInv, TypeOK, Tracers, Reap, Idle
<1>2. ASSUME NEW q \in Procs, q # p
      PROVE  UnchangedAt(q)
  BY <1>2 DEF IndInv, TypeOK, UnchangedAt, Reap, Idle
<1>3. ProcessInv(p)'
  BY InjectionAssumption DEF IndInv, TypeOK, Reports, Alive, ProcessInv, Intact,
                             EntryArmed, CallUnderWay, Ours, Reap, Idle
<1>4. QED
  BY <1>1, <1>2, <1>3, OnlyTouches

(* HandleFork preserves the invariant.                                     *)
LEMMA HandleForkStep ==
  ASSUME IndInv, NEW p \in Procs, HandleFork(p)
  PROVE  IndInv'
<1>1. TypeOK'
  BY InjectionAssumption DEF IndInv, TypeOK, Tracee, NewTracee, States, Places,
                             HandleFork, Idle
<1>2. ASSUME NEW q \in Procs, q # p
      PROVE  UnchangedAt(q)
  BY <1>2 DEF IndInv, TypeOK, UnchangedAt, HandleFork, Idle
<1>3. ProcessInv(p)'
  BY InjectionAssumption DEF IndInv, TypeOK, NewTracee, Injecting, Alive, ProcessInv,
                             Intact, EntryArmed, CallUnderWay, Ours, HandleFork, Idle
<1>4. QED
  BY <1>1, <1>2, <1>3, OnlyTouches

(* HandleExit preserves the invariant.                                     *)
LEMMA HandleExitStep ==
  ASSUME IndInv, NEW p \in Procs, HandleExit(p)
  PROVE  IndInv'
<1>1. TypeOK'
  BY InjectionAssumption DEF IndInv, TypeOK, Tracee, NewTracee, Untracked, States,
                             Places, HandleExit, Forget, EndHandler
<1>2. ASSUME NEW q \in Procs, q # p
      PROVE  UnchangedAt(q)
  BY <1>2 DEF IndInv, TypeOK, UnchangedAt, HandleExit, Forget, EndHandler
<1>3. ProcessInv(p)'
  BY InjectionAssumption DEF IndInv, TypeOK, Alive, ProcessInv, Intact, EntryArmed,
                             CallUnderWay, Ours, HandleExit, Forget, EndHandler
<1>4. QED
  BY <1>1, <1>2, <1>3, OnlyTouches

(* HandleExiting preserves the invariant.                                  *)
LEMMA HandleExitingStep ==
  ASSUME IndInv, NEW p \in Procs, HandleExiting(p)
  PROVE  IndInv'
<1>1. TypeOK'
  BY InjectionAssumption DEF IndInv, TypeOK, Tracee, NewTracee, Untracked, States,
                             Places, Reports, HandleExiting, Forget, Cont, EndHandler
<1>2. ASSUME NEW q \in Procs, q # p
      PROVE  UnchangedAt(q)
  BY <1>2 DEF IndInv, TypeOK, UnchangedAt, HandleExiting, Forget, Cont, EndHandler
<1>3. ProcessInv(p)'
  BY InjectionAssumption DEF IndInv, TypeOK, Alive, ProcessInv, Intact, EntryArmed,
                             CallUnderWay, Ours, HandleExiting, Forget, Cont, EndHandler
<1>4. QED
  BY <1>1, <1>2, <1>3, OnlyTouches

(* HandleSignal preserves the invariant.                                   *)
LEMMA HandleSignalStep ==
  ASSUME IndInv, NEW p \in Procs, HandleSignal(p)
  PROVE  IndInv'
<1>1. TypeOK'
  BY InjectionAssumption DEF IndInv, TypeOK, HandleSignal, Cont, EndHandler
<1>2. ASSUME NEW q \in Procs, q # p
      PROVE  UnchangedAt(q)
  BY <1>2 DEF IndInv, TypeOK, UnchangedAt, HandleSignal, Cont, EndHandler
<1>3. ProcessInv(p)'
  BY InjectionAssumption DEF IndInv, TypeOK, Reports, Alive, ProcessInv, Intact,
                             EntryArmed, CallUnderWay, Ours, HandleSignal, Cont,
                             EndHandler
<1>4. QED
  BY <1>1, <1>2, <1>3, OnlyTouches

(* HandleOtherTrap preserves the invariant.                                *)
LEMMA HandleOtherTrapStep ==
  ASSUME IndInv, NEW p \in Procs, HandleOtherTrap(p)
  PROVE  IndInv'
<1>1. TypeOK'
  BY InjectionAssumption DEF IndInv, TypeOK, HandleOtherTrap, Cont, EndHandler
<1>2. ASSUME NEW q \in Procs, q # p
      PROVE  UnchangedAt(q)
  BY <1>2 DEF IndInv, TypeOK, UnchangedAt, HandleOtherTrap, Cont, EndHandler
<1>3. ProcessInv(p)'
  BY InjectionAssumption DEF IndInv, TypeOK, Reports, Alive, ProcessInv, Intact,
                             EntryArmed, CallUnderWay, Ours, HandleOtherTrap, Cont,
                             EndHandler
<1>4. QED
  BY <1>1, <1>2, <1>3, OnlyTouches

(* SkipTarget preserves the invariant.                                     *)
LEMMA SkipTargetStep ==
  ASSUME IndInv, NEW p \in Procs, SkipTarget(p)
  PROVE  IndInv'
<1>1. TypeOK'
  BY InjectionAssumption DEF IndInv, TypeOK, SkipTarget, Idle, Observable, kernelVars
<1>2. ASSUME NEW q \in Procs, q # p
      PROVE  UnchangedAt(q)
  BY <1>2 DEF IndInv, TypeOK, UnchangedAt, SkipTarget, Idle, Observable, kernelVars
<1>3. ProcessInv(p)'
  BY InjectionAssumption DEF IndInv, TypeOK, Alive, ProcessInv, Intact, EntryArmed,
                             CallUnderWay, Ours, SkipTarget, Idle, Observable,
                             kernelVars
<1>4. QED
  BY <1>1, <1>2, <1>3, OnlyTouches

(* SeizeTimeout preserves the invariant.                                   *)
LEMMA SeizeTimeoutStep ==
  ASSUME IndInv, NEW p \in Procs, SeizeTimeout(p)
  PROVE  IndInv'
<1>1. TypeOK'
  <2>1. /\ tracer' \in [Procs -> Tracers]
        /\ stop' \in [Procs -> {"run", "held"} \cup Reports]
        /\ intr' \in [Procs -> BOOLEAN]
    BY DEF IndInv, TypeOK, Tracers, SeizeTimeout, Detach
  <2>2. QED
    BY <2>1 DEF IndInv, TypeOK, Waits, SeizeTimeout, EndHandler
<1>2. ASSUME NEW q \in Procs, q # p
      PROVE  UnchangedAt(q)
  BY <1>2 DEF IndInv, TypeOK, UnchangedAt, SeizeTimeout, Detach, EndHandler
<1>3. ProcessInv(p)'
  BY InjectionAssumption DEF IndInv, TypeOK, Reports, Alive, ProcessInv, Intact,
                             EntryArmed, CallUnderWay, Ours, SeizeTimeout, NoStop, Detach,
                             EndHandler
<1>4. QED
  BY <1>1, <1>2, <1>3, OnlyTouches

(* ForgetDone preserves the invariant.                                     *)
LEMMA ForgetDoneStep ==
  ASSUME IndInv, NEW p \in Procs, ForgetDone(p)
  PROVE  IndInv'
<1>1. TypeOK'
  BY InjectionAssumption DEF IndInv, TypeOK, ForgetDone, Idle, kernelVars
<1>2. ASSUME NEW q \in Procs, q # p
      PROVE  UnchangedAt(q)
  BY <1>2 DEF IndInv, TypeOK, UnchangedAt, ForgetDone, Idle, kernelVars
<1>3. ProcessInv(p)'
  BY InjectionAssumption DEF IndInv, TypeOK, Alive, ProcessInv, Intact, EntryArmed,
                             CallUnderWay, Ours, ForgetDone, Idle, kernelVars
<1>4. QED
  BY <1>1, <1>2, <1>3, OnlyTouches

(* Expire preserves the invariant.                                         *)
LEMMA ExpireStep ==
  ASSUME IndInv, NEW p \in Procs, Expire(p)
  PROVE  IndInv'
<1>1. TypeOK'
  BY InjectionAssumption DEF IndInv, TypeOK, Waits, Alive, Expire, Idle, StopTracee
<1>2. ASSUME NEW q \in Procs, q # p
      PROVE  UnchangedAt(q)
  BY <1>2 DEF IndInv, TypeOK, UnchangedAt, Expire, Idle, StopTracee
<1>3. ProcessInv(p)'
  BY InjectionAssumption DEF IndInv, TypeOK, Injecting, Reports, Alive, ProcessInv,
                             Intact, EntryArmed, CallUnderWay, Ours, Expire, Idle,
                             StopTracee
<1>4. QED
  BY <1>1, <1>2, <1>3, OnlyTouches

(* ExpireStopped preserves the invariant.                                  *)
LEMMA ExpireStoppedStep ==
  ASSUME IndInv, NEW p \in Procs, ExpireStopped(p)
  PROVE  IndInv'
<1>1. TypeOK'
  <2>1. tracees' \in [Procs -> Tracee]
    BY NewTraceeTyped DEF IndInv, TypeOK, ExpireStopped, LetGo, Forget, Untracked, States
  <2>2. /\ tracer' \in [Procs -> Tracers]
        /\ stop' \in [Procs -> {"run", "held"} \cup Reports]
        /\ intr' \in [Procs -> BOOLEAN]
    BY DEF IndInv, TypeOK, ExpireStopped, LetGo, Tracers
  <2>3. QED
    BY <2>1, <2>2, ReleaseTyped DEF IndInv, TypeOK, ExpireStopped, LetGo, EndHandler
<1>2. ASSUME NEW q \in Procs, q # p
      PROVE  UnchangedAt(q)
  BY <1>2 DEF IndInv, TypeOK, UnchangedAt, ExpireStopped, Waited, LetGo, ReleaseTracee,
              RestoreEntry, RestoredText, Unskipped, Forget, EndHandler
<1>3. ProcessInv(p)'
  BY InjectionAssumption DEF IndInv, TypeOK, Tracee, NewTracee, Untracked, Injecting,
                             Places, Calls, Reports, Alive, ProcessInv, Intact,
                             EntryArmed, CallUnderWay, Ours, ExpireStopped, Waited,
                             LetGo, ReleaseTracee, RestoreEntry, RestoredText,
                             Unskipped, Forget, EndHandler
<1>4. QED
  BY <1>1, <1>2, <1>3, OnlyTouches

(* ExpireTimeout preserves the invariant.                                  *)
LEMMA ExpireTimeoutStep ==
  ASSUME IndInv, NEW p \in Procs, ExpireTimeout(p)
  PROVE  IndInv'
<1>1. TypeOK'
  BY InjectionAssumption DEF IndInv, TypeOK, ExpireTimeout, EndHandler
<1>2. ASSUME NEW q \in Procs, q # p
      PROVE  UnchangedAt(q)
  BY <1>2 DEF IndInv, TypeOK, UnchangedAt, ExpireTimeout, EndHandler
<1>3. ProcessInv(p)'
  BY InjectionAssumption DEF IndInv, TypeOK, Reports, Alive, ProcessInv, Intact,
                             EntryArmed, CallUnderWay, Ours, ExpireTimeout, EndHandler
<1>4. QED
  BY <1>1, <1>2, <1>3, OnlyTouches

(* ReleaseBegin preserves the invariant.                                   *)
LEMMA ReleaseBeginStep ==
  ASSUME IndInv, NEW p \in Procs, ReleaseBegin(p)
  PROVE  IndInv'
<1>1. TypeOK'
  BY InjectionAssumption DEF IndInv, TypeOK, Waits, Alive, ReleaseBegin, Idle, StopTracee
<1>2. ASSUME NEW q \in Procs, q # p
      PROVE  UnchangedAt(q)
  BY <1>2 DEF IndInv, TypeOK, UnchangedAt, ReleaseBegin, Idle, StopTracee
<1>3. ProcessInv(p)'
  BY InjectionAssumption DEF IndInv, TypeOK, Injecting, Reports, Alive, ProcessInv,
                             Intact, EntryArmed, CallUnderWay, Ours, ReleaseBegin, Idle,
                             StopTracee
<1>4. QED
  BY <1>1, <1>2, <1>3, OnlyTouches

(* ReleaseStopped preserves the invariant.                                 *)
LEMMA ReleaseStoppedStep ==
  ASSUME IndInv, NEW p \in Procs, ReleaseStopped(p)
  PROVE  IndInv'
<1>1. TypeOK'
  BY InjectionAssumption DEF IndInv, TypeOK, Tracee, NewTracee, Untracked, States,
                             Injecting, Places, Counters, Tracers, Reports, Alive,
                             ReleaseStopped, Waited, LetGo, ReleaseTracee, RestoreEntry,
                             RestoredText, Unskipped, Forget, EndHandler
<1>2. ASSUME NEW q \in Procs, q # p
      PROVE  UnchangedAt(q)
  BY <1>2 DEF IndInv, TypeOK, UnchangedAt, ReleaseStopped, Waited, LetGo, ReleaseTracee,
              RestoreEntry, RestoredText, Unskipped, Forget, EndHandler
<1>3. ProcessInv(p)'
  BY InjectionAssumption DEF IndInv, TypeOK, Tracee, NewTracee, Untracked, Injecting,
                             Places, Calls, Reports, Alive, ProcessInv, Intact,
                             EntryArmed, CallUnderWay, Ours, ReleaseStopped, Waited,
                             LetGo, ReleaseTracee, RestoreEntry, RestoredText,
                             Unskipped, Forget, EndHandler
<1>4. QED
  BY <1>1, <1>2, <1>3, OnlyTouches

(* ReleaseTimeout preserves the invariant.                                 *)
LEMMA ReleaseTimeoutStep ==
  ASSUME IndInv, NEW p \in Procs, ReleaseTimeout(p)
  PROVE  IndInv'
<1>1. TypeOK'
  BY InjectionAssumption DEF IndInv, TypeOK, ReleaseTimeout, EndHandler
<1>2. ASSUME NEW q \in Procs, q # p
      PROVE  UnchangedAt(q)
  BY <1>2 DEF IndInv, TypeOK, UnchangedAt, ReleaseTimeout, EndHandler
<1>3. ProcessInv(p)'
  BY InjectionAssumption DEF IndInv, TypeOK, Reports, Alive, ProcessInv, Intact,
                             EntryArmed, CallUnderWay, Ours, ReleaseTimeout, EndHandler
<1>4. QED
  BY <1>1, <1>2, <1>3, OnlyTouches


(* Fork preserves the invariant.                                           *)
LEMMA ForkStep ==
  ASSUME IndInv, NEW p \in Procs, NEW q \in Procs, Fork(p, q)
  PROVE  IndInv'
<1>1. TypeOK /\ ProcessInv(p) /\ ProcessInv(q)
  BY DEF IndInv
<1>2. TypeOK'
  BY <1>1 DEF TypeOK, Fork, daemonVars, Counters, Places
<1>3. ASSUME NEW r \in Procs, r # q
      PROVE  UnchangedAt(r)
  BY <1>1, <1>3 DEF TypeOK, UnchangedAt, Fork, daemonVars
<1>4. ProcessInv(q)'
  <2>1. /\ pc'[q] = "main" /\ bp'[q] = bp[p]
        /\ regs'[q] = "own" /\ tracer'[q] = "none" /\ stop'[q] = "run"
        /\ tracees'[q].state = "none" /\ task'[q] = "none" /\ phase' = phase
    BY <1>1 DEF TypeOK, Fork, daemonVars, ProcessInv
  <2>2. phase # "down" => "main" \notin bp[p]
    BY <1>1 DEF Fork, Running, Alive, TypeOK, Tracee, States, ProcessInv, Intact,
                EntryArmed, CallUnderWay, Injecting
  <2>3. QED
    BY <2>1, <2>2 DEF ProcessInv, Intact, Alive, Injecting, Calls, Reports
<1>5. QED
  BY <1>2, <1>3, <1>4, OnlyTouches

(* Seize preserves the invariant.                                          *)
LEMMA SeizeStep ==
  ASSUME IndInv, NEW p \in Procs, NEW late \in BOOLEAN, Seize(p, late)
  PROVE  IndInv'
<1>1. TypeOK /\ ProcessInv(p)
  BY DEF IndInv
<1>2. TypeOK'
  BY <1>1 DEF TypeOK, Seize, Tracers, Waits
<1>3. ASSUME NEW q \in Procs, q # p
      PROVE  UnchangedAt(q)
  BY <1>1, <1>3 DEF TypeOK, UnchangedAt, Seize
<1>4. ProcessInv(p)'
  BY <1>1 DEF TypeOK, Seize, Observable, Idle, ProcessInv, Intact, Alive, Ours,
              Injecting, Reports
<1>5. QED
  BY <1>2, <1>3, <1>4, OnlyTouches

(* The steps of the daemon about itself.                                   *)
LEMMA HandOverInitStep ==
  ASSUME IndInv, HandOverInit
  PROVE  IndInv'
<1>1. TypeOK'
  BY DEF IndInv, TypeOK, HandOverInit
<1>2. ASSUME NEW q \in Procs
      PROVE  ProcessInv(q)'
  BY <1>2 DEF IndInv, TypeOK, HandOverInit, ProcessInv, Intact, EntryArmed,
              CallUnderWay, Alive, Ours
<1>3. QED
  BY <1>1, <1>2 DEF IndInv

(* Sigterm preserves the invariant.                                        *)
LEMMA SigtermStep ==
  ASSUME IndInv, Sigterm
  PROVE  IndInv'
<1>1. TypeOK'
  BY DEF IndInv, TypeOK, Sigterm, kernelVars
<1>2. ASSUME NEW q \in Procs
      PROVE  ProcessInv(q)'
  BY <1>2 DEF IndInv, TypeOK, Sigterm, kernelVars, ProcessInv, Intact, EntryArmed,
              CallUnderWay, Alive, Ours
<1>3. QED
  BY <1>1, <1>2 DEF IndInv

(* DaemonExit preserves the invariant.                                     *)
LEMMA DaemonExitStep ==
  ASSUME IndInv, DaemonExit
  PROVE  IndInv'
<1>1. Untracked \in Tracee /\ Untracked.state = "none"
  BY NewTraceeTyped DEF Untracked, NewTracee, States
<1>2. TypeOK'
  BY <1>1 DEF IndInv, TypeOK, DaemonExit, Tracers
<1>3. ASSUME NEW q \in Procs
      PROVE  ProcessInv(q)'
  <2>1. /\ stop'[q] = "run" /\ tracer'[q] = "none" /\ ~newborn'[q]
        /\ tracees'[q].state = "none" /\ task'[q] = "none" /\ phase' = "down"
    BY <1>1 DEF IndInv, TypeOK, DaemonExit, Idle
  <2>2. QED
    BY <2>1 DEF IndInv, DaemonExit, ProcessInv, Injecting, Reports
<1>4. QED
  BY <1>2, <1>3 DEF IndInv

-----------------------------------------------------------------------------
(* The invariant holds initially.                                          *)
LEMMA InitIndInv == Init => IndInv
<1> SUFFICES ASSUME Init
             PROVE  IndInv
  OBVIOUS
<1>1. Untracked \in Tracee /\ Untracked.state = "none"
  BY NewTraceeTyped DEF Untracked, NewTracee, States
<1>2. TypeOK
  BY <1>1 DEF Init, TypeOK, Counters, Tracers
<1>3. ASSUME NEW p \in Procs
      PROVE  ProcessInv(p)
  BY <1>1 DEF Init, ProcessInv, Alive, Injecting, Reports
<1>4. QED
  BY <1>2, <1>3 DEF IndInv

(* It is about nothing but the variables.                                  *)
LEMMA StutterStep ==
  ASSUME IndInv, UNCHANGED vars
  PROVE  IndInv'
<1>1. TypeOK'
  BY DEF IndInv, TypeOK, vars
<1>2. ASSUME NEW q \in Procs
      PROVE  ProcessInv(q)'
  BY Frame, <1>2 DEF IndInv, UnchangedAt, vars
<1>3. QED
  BY <1>1, <1>2 DEF IndInv

(* Every step preserves it.                                                *)
LEMMA NextIndInv ==
  ASSUME IndInv, [Next]_vars
  PROVE  IndInv'
<1>1. ASSUME NEW p \in Procs, ProcessStep(p)
      PROVE  IndInv'
  BY <1>1, LinkStep, EnterProgramStep, ReturnFromCallStep DEF ProcessStep
<1>2. ASSUME NEW p \in Procs, Environment(p)
      PROVE  IndInv'
  BY <1>2, ForkByInitStep, ForkStep, ExecStep, SignalStep, StrayTrapStep, InterruptedStep, DieStep
     DEF Environment
<1>3. ASSUME NEW p \in Procs, HandleEvent(p)
      PROVE  IndInv'
  BY <1>3, HandleExitStep, HandleExitingStep, HandleSignalStep, HandleExecStep, HandleOtherTrapStep, TrapAtEntryStep, TrapFileStep, TrapAfterDlopenStep, TrapAfterDlsymStep, TrapAfterDlerrorStep, TrapAfterInitStep
     DEF HandleEvent
<1>4. ASSUME NEW p \in Procs, EndWait(p)
      PROVE  IndInv'
  BY <1>4, SeizedStoppedStep, SeizeTimeoutStep, ExpireStoppedStep, ExpireTimeoutStep, ReleaseStoppedStep, ReleaseTimeoutStep
     DEF EndWait
<1>5. ASSUME NEW p \in Procs, DaemonStep(p)
      PROVE  IndInv'
  BY <1>3, <1>4, <1>5, ReapStep, HandleForkStep, SeizeStep, SkipTargetStep, ForgetDoneStep, ExpireStep, ReleaseBeginStep
     DEF DaemonStep
<1>6. QED
  BY <1>1, <1>2, <1>5, HandOverInitStep, SigtermStep, DaemonExitStep, StutterStep DEF Next

(* IndInv holds in every reachable state, for every set of processes, every *)
(* number of modules and whatever disturbs the injection.                   *)
THEOREM Invariance == Spec => []IndInv
<1>1. Init => IndInv
  BY InitIndInv
<1>2. IndInv /\ [Next]_vars => IndInv'
  BY NextIndInv
<1>3. QED
  BY <1>1, <1>2, PTL DEF Spec

(* The records of the daemon and the state of the processes have the types  *)
(* trace.rs gives them; among others no file is counted below zero.         *)
THEOREM TypeCorrect == Spec => []TypeOK
<1>1. IndInv => TypeOK
  BY DEF IndInv
<1>2. QED
  BY <1>1, Invariance, PTL

(* Whatever the interleaving, the deaths, the timeouts and the signals, a   *)
(* process the daemon detached from has its own text and registers back.    *)
THEOREM DetachedIntact == Spec => []UntracedIntact
<1>1. IndInv => UntracedIntact
  <2> SUFFICES ASSUME IndInv, phase # "down", NEW p \in Procs, Alive(p), ~Ours(p)
               PROVE  Intact(p)
    BY DEF UntracedIntact
  <2>1. tracees[p].state \in {"none", "Traced"}
    BY DEF IndInv, TypeOK, Tracee, States, ProcessInv
  <2>2. QED
    BY <2>1 DEF IndInv, ProcessInv
<1>2. QED
  BY <1>1, Invariance, PTL

(* The map of tracees holds no injection into a live process that the       *)
(* daemon does not trace.                                                   *)
THEOREM TrackedIsTraced == Spec => []OwnedIsTraced
<1>1. IndInv => OwnedIsTraced
  BY DEF IndInv, ProcessInv, OwnedIsTraced, Injecting
<1>2. QED
  BY <1>1, Invariance, PTL

(***************************************************************************)
(* The injected calls: what is loaded into a process, what is recorded of  *)
(* it and what is left behind when the daemon exits.                       *)
(*                                                                         *)
(* IndInv says that a released process is as it was; it knows neither which *)
(* call a tracee is in nor what the call has done to its image.  AttemptInv *)
(* adds that, and is inductive together with IndInv.                        *)
(***************************************************************************)

(* The call a tracee in a state is in.                                     *)
CallOf(state) ==
  CASE state = "File"    -> "memfd"
    [] state = "Dlopen"  -> "dlopen"
    [] state = "Dlsym"   -> "dlsym"
    [] state = "Dlerror" -> "dlerror"
    [] state = "Init"    -> "init"

LEMMA CallOfIsCall ==
  ASSUME NEW state \in Injecting \ {"Entry"}
  PROVE  CallOf(state) \in Calls
BY DEF Injecting, CallOf, Calls

TrapAt(p) == stop[p] = "trap" \/ task[p] = "trap"

(* A call returns to a breakpoint that is there; the image is clean until  *)
(* dlopen is called and initialised only once the last call is back.       *)
InCall(p) ==
  /\ tracees[p].home \in bp[p]
  /\ IF regs[p] = "call" THEN pc[p] = CallOf(tracees[p].state) ELSE pc[p] \notin Calls
  /\ tracees[p].state = "File" /\ tracees[p].purpose = "Loader" => image[p] = "clean"
  /\ image[p] = "inited" <=> tracees[p].state = "Init" /\ regs[p] # "call"

(* What a process under way relies on.                                     *)
UnderWay(p) ==
  /\ tracees[p].state = "Entry" => image[p] = "clean"
  /\ task[p] \in {"seize", "seizeLate", "exec"} \/ stop[p] = "exec" => image[p] = "clean"
  /\ tracees[p].state = "Entry" /\ TrapAt(p) /\ pc[p] \in {"entry", "past"} => "entry" \in bp[p]
  /\ tracees[p].state \in Injecting \ {"Entry"} => InCall(p)

AttemptOk(p) ==
  /\ pc[p] = "absent" => image[p] = "clean"
  /\ stop[p] \in {"trap", "exec"} => Alive(p)
  /\ task[p] = "expire" => tracees[p].state = "Entry"
  /\ task[p] = "release" => phase = "stopping"
  /\ task[p] = "trap" /\ tracees[p].state = "Init" => image[p] = "inited" \/ regs[p] = "call"
  /\ phase = "up" /\ Alive(p) /\ image[p] = "inited" =>
       tracees[p].state = "Init" \/ outcome[p] = "success"
  /\ phase # "down" /\ Alive(p) => UnderWay(p)
  /\ phase = "down" /\ Alive(p) /\ "timeout" \notin Disturbances => Intact(p)

AttemptInv == \A p \in Procs : AttemptOk(p)

(***************************************************************************)
(* Frames.                                                                 *)
(***************************************************************************)

(* A process a step leaves alone.                                          *)
Apart(q) == UnchangedAt(q) /\ image'[q] = image[q] /\ outcome'[q] = outcome[q]

LEMMA ApartKeeps ==
  ASSUME NEW q \in Procs, AttemptOk(q), Apart(q)
  PROVE  AttemptOk(q)'
<1>1. UnderWay(q) => UnderWay(q)'
  BY DEF Apart, UnchangedAt, UnderWay, TrapAt, InCall
<1>2. QED
  BY <1>1 DEF AttemptOk, Apart, UnchangedAt, Alive, Intact

LEMMA Alone ==
  ASSUME AttemptInv, NEW p \in Procs, AttemptOk(p)',
         \A q \in Procs : q # p => Apart(q)
  PROVE  AttemptInv'
<1>1. ASSUME NEW q \in Procs, q # p
      PROVE  AttemptOk(q)'
  BY <1>1, ApartKeeps DEF AttemptInv
<1>2. QED
  BY <1>1 DEF AttemptInv

(* A process that is out of the map and runs.                              *)
LEMMA LetLoose ==
  ASSUME NEW p \in Procs, AttemptOk(p), phase # "down", UNCHANGED phase, image'[p] = image[p],
         tracees'[p].state = "none", task'[p] = "none",
         stop'[p] \notin {"trap", "exec"}, Alive(p)' => Alive(p), pc'[p] # "absent",
         Alive(p)' /\ image[p] = "inited" => outcome'[p] = "success" \/ phase # "up"
  PROVE  AttemptOk(p)'
<1>1. UnderWay(p)'
  BY DEF UnderWay, TrapAt, Injecting
<1>2. QED
  BY <1>1 DEF AttemptOk

(***************************************************************************)
(* The traps.                                                              *)
(***************************************************************************)

(* The end of an attempt: an initialised process has its success recorded. *)
LEMMA UndoAttempt ==
  ASSUME IndInv, AttemptInv, NEW p \in Procs, task[p] = "trap",
         tracees[p].state \in Injecting, Undo(p), EndHandler(p),
         \A q \in Procs : q # p => outcome'[q] = outcome[q],
         Alive(p) /\ image[p] = "inited" => outcome'[p] = "success"
  PROVE  AttemptInv'
<1>1. TypeOK /\ ProcessInv(p) /\ AttemptOk(p)
  BY DEF IndInv, AttemptInv
<1>2. ASSUME NEW q \in Procs, q # p
      PROVE  Apart(q)
  BY <1>2 DEF IndInv, TypeOK, Apart, UnchangedAt, Undo, ReleaseTracee, RestoreEntry, Detach,
              Forget, EndHandler
<1>3. /\ tracees'[p].state = "none" /\ task'[p] = "none" /\ UNCHANGED <<phase, image>>
      /\ phase # "down" /\ pc[p] # "absent"
  BY <1>1 DEF TypeOK, Undo, Forget, Untracked, NewTracee, EndHandler, ProcessInv, Injecting
<1>4. ~Alive(p) => pc'[p] = pc[p] /\ stop'[p] = stop[p]
  BY DEF Undo, ReleaseTracee, Detach
<1>5. stop'[p] \notin {"trap", "exec"}
  <2>1. CASE Alive(p)
    <3>1. stop[p] = "held"
      BY <1>1, <1>3, <2>1 DEF ProcessInv, Reports
    <3>2. stop'[p] = "run"
      BY <1>1, <2>1, <3>1 DEF TypeOK, Undo, Detach
    <3>3. QED
      BY <3>2
  <2>2. CASE ~Alive(p)
    <3>1. stop[p] # "exec"
      BY <1>1, <2>2 DEF AttemptOk
    <3>2. QED
      BY <1>1, <1>4, <2>2, <3>1 DEF AttemptOk
  <2>3. QED
    BY <2>1, <2>2
<1>6. pc'[p] # "absent"
  BY <1>1, <1>3, <1>4 DEF TypeOK, Undo, ReleaseTracee, Unskipped, Tracee, Places
<1>7. AttemptOk(p)'
  BY <1>1, <1>3, <1>4, <1>5, <1>6, LetLoose DEF Alive
<1>8. QED
  BY <1>2, <1>7, Alone

(* Before the last call nothing is initialised.                            *)
LEMMA NotYetInited ==
  ASSUME NEW p \in Procs, ProcessInv(p), AttemptOk(p), Alive(p),
         tracees[p].state \in Injecting \ {"Init"}
  PROVE  phase # "down" /\ image[p] # "inited"
<1>1. phase # "down"
  BY DEF ProcessInv, Injecting
<1>2. UnderWay(p)
  BY <1>1 DEF AttemptOk
<1>3. CASE tracees[p].state = "Entry"
  BY <1>1, <1>2, <1>3 DEF UnderWay
<1>4. CASE tracees[p].state # "Entry"
  BY <1>1, <1>2, <1>4 DEF UnderWay, InCall
<1>5. QED
  BY <1>1, <1>3, <1>4

(* A process whose image is not initialised may end as a failure or with   *)
(* no record.                                                              *)
LEMMA GiveUpAttempt ==
  ASSUME IndInv, AttemptInv, NEW p \in Procs, task[p] = "trap",
         tracees[p].state \in Injecting \ {"Init"}, Undo(p), EndHandler(p),
         UNCHANGED outcome \/ Record(p, "failure")
  PROVE  AttemptInv'
<1>1. TypeOK /\ ProcessInv(p) /\ AttemptOk(p)
  BY DEF IndInv, AttemptInv
<1>2. Alive(p) => image[p] # "inited"
  BY <1>1, NotYetInited
<1>3. \A q \in Procs : q # p => outcome'[q] = outcome[q]
  BY <1>1 DEF TypeOK, Record
<1>4. QED
  BY <1>2, <1>3, UndoAttempt

(* A call is started after a trap.                                         *)
LEMMA CallAttempt ==
  ASSUME IndInv, AttemptInv, NEW p \in Procs, Alive(p), task[p] = "trap",
         tracees[p].state \in Injecting \ {"Init"},
         NEW t \in Tracee, t.state \in Injecting \ {"Entry"}, t.home \in bp[p],
         t.state = "File" /\ t.purpose = "Loader" => image[p] = "clean",
         Call(p, CallOf(t.state), t), EndHandler(p)
  PROVE  AttemptInv'
<1>1. TypeOK /\ ProcessInv(p) /\ AttemptOk(p)
  BY DEF IndInv, AttemptInv
<1>2. ASSUME NEW q \in Procs, q # p
      PROVE  Apart(q)
  BY <1>2 DEF IndInv, TypeOK, Apart, UnchangedAt, Call, Cont, EndHandler
<1>3. phase # "down" /\ image[p] # "inited"
  BY <1>1, NotYetInited
<1>4. /\ pc'[p] = CallOf(t.state) /\ regs'[p] = "call" /\ tracees'[p] = t /\ stop'[p] = "run"
      /\ task'[p] = "none" /\ UNCHANGED <<bp, image, phase, outcome>>
  BY <1>1 DEF TypeOK, Call, Cont, EndHandler
<1>5. pc'[p] \in Calls
  BY <1>4 DEF CallOf, Calls, Injecting
<1>6. UnderWay(p)'
  BY <1>3, <1>4 DEF UnderWay, InCall, TrapAt
<1>7. AttemptOk(p)'
  BY <1>3, <1>4, <1>5, <1>6 DEF AttemptOk, Calls
<1>8. QED
  BY <1>2, <1>7, Alone

(* The next call of a tracee that keeps the place of its breakpoint.       *)
LEMMA NextCallAttempt ==
  ASSUME IndInv, AttemptInv, NEW p \in Procs, Alive(p), task[p] = "trap",
         tracees[p].state \in Injecting \ {"Entry", "Init"},
         NEW t \in Tracee, t.state \in Injecting \ {"Entry"}, t.home = tracees[p].home,
         t.state = "File" => t.purpose # "Loader",
         Call(p, CallOf(t.state), t), EndHandler(p)
  PROVE  AttemptInv'
<1>1. tracees[p].home \in bp[p]
  BY DEF IndInv, ProcessInv, AttemptInv, AttemptOk, UnderWay, InCall, Injecting
<1>2. QED
  BY <1>1, CallAttempt

LEMMA PumpModulesAttempt ==
  ASSUME IndInv, AttemptInv, NEW p \in Procs, task[p] = "trap",
         tracees[p].state \in Injecting \ {"Entry", "Init"},
         NEW n \in 0 .. MaxModules, PumpModules(p, n), EndHandler(p)
  PROVE  AttemptInv'
<1> DEFINE initCall == [tracees[p] EXCEPT !.state = "Init", !.left = 0]
           fileCall == [tracees[p] EXCEPT !.state = "File", !.purpose = "Module", !.left = n]
<1>1. tracees[p] \in Tracee
  BY DEF IndInv, TypeOK
<1>2. CASE GiveUp(p)
  BY <1>2, GiveUpAttempt DEF GiveUp
<1>3. CASE Alive(p) /\ Call(p, "init", initCall)
  <2>1. initCall \in Tracee /\ initCall.state = "Init" /\ initCall.home = tracees[p].home
    <3>1. 0 \in 0 .. MaxModules /\ "Init" \in States
      BY InjectionAssumption DEF States, Injecting
    <3>2. QED
      BY <1>1, <3>1 DEF Tracee
  <2>2. QED
    BY <1>3, <2>1, NextCallAttempt DEF CallOf, Injecting
<1>4. CASE Alive(p) /\ Call(p, "memfd", fileCall)
  <2>1. /\ fileCall \in Tracee /\ fileCall.state = "File" /\ fileCall.home = tracees[p].home
        /\ fileCall.purpose = "Module"
    BY <1>1 DEF Tracee, States, Injecting
  <2>2. QED
    BY <1>4, <2>1, NextCallAttempt DEF CallOf, Injecting
<1>5. QED
  BY <1>2, <1>3, <1>4 DEF PumpModules

LEMMA TrapAtEntryAttempt ==
  ASSUME IndInv, AttemptInv, NEW p \in Procs, TrapAtEntry(p)
  PROVE  AttemptInv'
<1> DEFINE atEntry == pc[p] = IF X86 THEN "past" ELSE "entry"
<1>1. TypeOK /\ ProcessInv(p) /\ AttemptOk(p) /\ tracees[p] \in Tracee
  BY DEF IndInv, TypeOK, AttemptInv
<1>2. task[p] = "trap" /\ tracees[p].state = "Entry" /\ EndHandler(p)
  BY DEF TrapAtEntry
<1>3. CASE atEntry /\ Call(p, "memfd", LoaderFile(p))
  <2>1. Alive(p) /\ phase # "down"
    BY <1>1, <1>2, <1>3 DEF Alive, ProcessInv
  <2>2. tracees[p].home \in bp[p] /\ image[p] = "clean"
    <3>1. EntryArmed(p) /\ UnderWay(p)
      BY <1>1, <1>2, <2>1 DEF ProcessInv, AttemptOk
    <3>2. pc[p] \in {"entry", "past"}
      BY <1>3
    <3>3. QED
      BY <1>2, <3>1, <3>2 DEF EntryArmed, UnderWay, TrapAt, Injecting
  <2>3. /\ LoaderFile(p) \in Tracee /\ LoaderFile(p).state = "File"
        /\ LoaderFile(p).home = tracees[p].home
    BY <1>1 DEF LoaderFile, Tracee, States, Injecting
  <2>4. QED
    BY <1>2, <1>3, <2>1, <2>2, <2>3, CallAttempt DEF CallOf, Injecting
<1>4. CASE Undo(p) /\ UNCHANGED outcome
  BY <1>2, <1>4, GiveUpAttempt DEF Injecting
<1>5. CASE RestoreEntry(p) /\ Detach(p) /\ Forget(p) /\ UNCHANGED <<pc, regs, outcome>>
  <2>1. ASSUME NEW q \in Procs, q # p
        PROVE  Apart(q)
    BY <1>1, <1>2, <1>5, <2>1 DEF TypeOK, Apart, UnchangedAt, RestoreEntry, Detach, Forget,
                                  EndHandler
  <2>2. /\ tracees'[p].state = "none" /\ task'[p] = "none" /\ UNCHANGED <<phase, image>>
        /\ phase # "down" /\ pc[p] # "absent"
    BY <1>1, <1>2, <1>5 DEF TypeOK, Forget, Untracked, NewTracee, EndHandler, ProcessInv
  <2>3. Alive(p) => image[p] # "inited"
    BY <1>1, <1>2, NotYetInited DEF Injecting
  <2>4. stop'[p] \notin {"trap", "exec"}
    <3>1. CASE Alive(p)
      BY <1>1, <1>2, <1>5, <2>2, <3>1 DEF TypeOK, Detach, ProcessInv, Reports
    <3>2. CASE ~Alive(p)
      BY <1>1, <1>5, <3>2 DEF Detach, AttemptOk
    <3>3. QED
      BY <3>1, <3>2
  <2>5. AttemptOk(p)'
    BY <1>1, <1>5, <2>2, <2>3, <2>4, LetLoose DEF Alive
  <2>6. QED
    BY <2>1, <2>5, Alone
<1>6. QED
  BY <1>3, <1>4, <1>5 DEF TrapAtEntry

LEMMA TrapFileAttempt ==
  ASSUME IndInv, AttemptInv, NEW p \in Procs, TrapFile(p)
  PROVE  AttemptInv'
<1> DEFINE dlopenCall == [tracees[p] EXCEPT !.state = "Dlopen"]
<1>1. tracees[p] \in Tracee
  BY DEF IndInv, TypeOK
<1>2. task[p] = "trap" /\ tracees[p].state = "File" /\ EndHandler(p)
  BY DEF TrapFile
<1>3. CASE GiveUp(p)
  BY <1>2, <1>3, GiveUpAttempt DEF GiveUp, Injecting
<1>4. CASE Alive(p) /\ Call(p, "dlopen", dlopenCall)
  <2>1. dlopenCall \in Tracee /\ dlopenCall.state = "Dlopen" /\ dlopenCall.home = tracees[p].home
    BY <1>1 DEF Tracee, States, Injecting
  <2>2. QED
    BY <1>2, <1>4, <2>1, NextCallAttempt DEF CallOf, Injecting
<1>5. CASE /\ Alive(p) /\ tracees[p].purpose = "Module"
           /\ PumpModules(p, tracees[p].left - 1)
  <2>1. tracees[p].left \in 1 .. MaxModules
    <3>1. CallUnderWay(p)
      BY <1>2, <1>5 DEF IndInv, ProcessInv, Injecting
    <3>2. QED
      BY <1>1, <1>2, <1>5, <3>1, InjectionAssumption DEF CallUnderWay, Tracee
  <2>2. tracees[p].left - 1 \in 0 .. MaxModules
    BY <2>1, InjectionAssumption
  <2>3. QED
    BY <1>2, <1>5, <2>2, PumpModulesAttempt DEF Injecting
<1>6. QED
  BY <1>1, <1>3, <1>4, <1>5 DEF TrapFile, Tracee

LEMMA TrapAfterDlopenAttempt ==
  ASSUME IndInv, AttemptInv, NEW p \in Procs, TrapAfterDlopen(p)
  PROVE  AttemptInv'
<1> DEFINE dlsymCall == [tracees[p] EXCEPT !.state = "Dlsym"]
           dlerrorCall == [tracees[p] EXCEPT !.state = "Dlerror"]
<1>1. tracees[p] \in Tracee
  BY DEF IndInv, TypeOK
<1>2. task[p] = "trap" /\ tracees[p].state = "Dlopen" /\ EndHandler(p)
  BY DEF TrapAfterDlopen
<1>3. CASE GiveUp(p) \/ (Undo(p) /\ UNCHANGED outcome)
  BY <1>2, <1>3, GiveUpAttempt DEF GiveUp, Injecting
<1>4. CASE Alive(p) /\ Call(p, "dlsym", dlsymCall)
  <2>1. dlsymCall \in Tracee /\ dlsymCall.state = "Dlsym" /\ dlsymCall.home = tracees[p].home
    BY <1>1 DEF Tracee, States, Injecting
  <2>2. QED
    BY <1>2, <1>4, <2>1, NextCallAttempt DEF CallOf, Injecting
<1>5. CASE Alive(p) /\ Call(p, "dlerror", dlerrorCall)
  <2>1. dlerrorCall \in Tracee /\ dlerrorCall.state = "Dlerror" /\ dlerrorCall.home = tracees[p].home
    BY <1>1 DEF Tracee, States, Injecting
  <2>2. QED
    BY <1>2, <1>5, <2>1, NextCallAttempt DEF CallOf, Injecting
<1>6. QED
  BY <1>3, <1>4, <1>5 DEF TrapAfterDlopen

LEMMA TrapAfterDlsymAttempt ==
  ASSUME IndInv, AttemptInv, NEW p \in Procs, TrapAfterDlsym(p)
  PROVE  AttemptInv'
<1>1. task[p] = "trap" /\ tracees[p].state = "Dlsym" /\ EndHandler(p)
  BY DEF TrapAfterDlsym
<1>2. CASE GiveUp(p) \/ (Undo(p) /\ UNCHANGED outcome)
  BY <1>1, <1>2, GiveUpAttempt DEF GiveUp, Injecting
<1>3. ASSUME NEW n \in 1 .. MaxModules, PumpModules(p, n)
      PROVE  AttemptInv'
  <2>1. n \in 0 .. MaxModules
    BY InjectionAssumption
  <2>2. QED
    BY <1>1, <1>3, <2>1, PumpModulesAttempt DEF Injecting
<1>4. QED
  BY <1>2, <1>3 DEF TrapAfterDlsym

LEMMA TrapAfterDlerrorAttempt ==
  ASSUME IndInv, AttemptInv, NEW p \in Procs, TrapAfterDlerror(p)
  PROVE  AttemptInv'
BY GiveUpAttempt DEF TrapAfterDlerror, GiveUp, Injecting

(* The record is made for a process whose initialisation has returned.     *)
LEMMA TrapAfterInitAttempt ==
  ASSUME IndInv, AttemptInv, NEW p \in Procs, TrapAfterInit(p)
  PROVE  AttemptInv'
<1>1. outcome'[p] = "success" /\ \A q \in Procs : q # p => outcome'[q] = outcome[q]
  BY DEF IndInv, TypeOK, TrapAfterInit, Record
<1>2. QED
  BY <1>1, UndoAttempt DEF TrapAfterInit, Injecting

(***************************************************************************)
(* The steps of the processes, and those that leave the injection as it is. *)
(***************************************************************************)

LEMMA ForkByInitAttempt ==
  ASSUME IndInv, AttemptInv, NEW p \in Procs, ForkByInit(p)
  PROVE  AttemptInv'
<1>1. TypeOK /\ ProcessInv(p) /\ AttemptOk(p)
  BY DEF IndInv, AttemptInv
<1>2. ASSUME NEW q \in Procs, q # p
      PROVE  Apart(q)
  BY <1>1, <1>2 DEF TypeOK, Apart, UnchangedAt, ForkByInit, daemonVars
<1>3. AttemptOk(p)'
  BY <1>1 DEF TypeOK, ProcessInv, AttemptOk, UnderWay, InCall, TrapAt, Alive, Ours, Intact,
              EntryArmed, CallUnderWay, Injecting, Calls, Reports, ForkByInit, daemonVars
<1>4. QED
  BY <1>2, <1>3, Alone

LEMMA ExecAttempt ==
  ASSUME IndInv, AttemptInv, NEW p \in Procs, Exec(p)
  PROVE  AttemptInv'
<1>1. TypeOK /\ ProcessInv(p) /\ AttemptOk(p)
  BY DEF IndInv, AttemptInv
<1>2. ASSUME NEW q \in Procs, q # p
      PROVE  Apart(q)
  BY <1>1, <1>2 DEF TypeOK, Apart, UnchangedAt, Exec, Running, daemonVars
<1>3. AttemptOk(p)'
  BY <1>1 DEF TypeOK, ProcessInv, AttemptOk, UnderWay, InCall, TrapAt, Alive, Ours, Intact,
              EntryArmed, CallUnderWay, Injecting, Calls, Reports, Exec, Running, daemonVars
<1>4. QED
  BY <1>2, <1>3, Alone

LEMMA LinkAttempt ==
  ASSUME IndInv, AttemptInv, NEW p \in Procs, Link(p)
  PROVE  AttemptInv'
<1>1. TypeOK /\ ProcessInv(p) /\ AttemptOk(p)
  BY DEF IndInv, AttemptInv
<1>2. ASSUME NEW q \in Procs, q # p
      PROVE  Apart(q)
  BY <1>1, <1>2 DEF TypeOK, Apart, UnchangedAt, Link, Running, daemonVars
<1>3. AttemptOk(p)'
  BY <1>1, CallOfIsCall DEF TypeOK, ProcessInv, AttemptOk, UnderWay, InCall, TrapAt, Alive, Ours, Intact,
              EntryArmed, CallUnderWay, Injecting, Calls, Reports, Link, Running, daemonVars
<1>4. QED
  BY <1>2, <1>3, Alone

LEMMA EnterProgramAttempt ==
  ASSUME IndInv, AttemptInv, NEW p \in Procs, EnterProgram(p)
  PROVE  AttemptInv'
<1>1. TypeOK /\ ProcessInv(p) /\ AttemptOk(p)
  BY DEF IndInv, AttemptInv
<1>2. ASSUME NEW q \in Procs, q # p
      PROVE  Apart(q)
  BY <1>1, <1>2 DEF TypeOK, Apart, UnchangedAt, EnterProgram, Running, Trap, daemonVars
<1>3. AttemptOk(p)'
  BY <1>1 DEF TypeOK, ProcessInv, AttemptOk, UnderWay, InCall, TrapAt, Alive, Ours, Intact,
              EntryArmed, CallUnderWay, Injecting, Calls, Reports, EnterProgram, Running, Trap, daemonVars
<1>4. QED
  BY <1>2, <1>3, Alone

LEMMA ReturnFromCallAttempt ==
  ASSUME IndInv, AttemptInv, NEW p \in Procs, ReturnFromCall(p)
  PROVE  AttemptInv'
<1>1. TypeOK /\ ProcessInv(p) /\ AttemptOk(p)
  BY DEF IndInv, AttemptInv
<1>2. ASSUME NEW q \in Procs, q # p
      PROVE  Apart(q)
  BY <1>1, <1>2 DEF TypeOK, Apart, UnchangedAt, ReturnFromCall, Running, Trap, daemonVars
<1>3. PICK r \in Results :
        /\ pc[p] \in {"dlerror", "init"} => r = "ok"
        /\ regs' = [regs EXCEPT ![p] = r]
        /\ image' = [image EXCEPT ![p] = CASE pc[p] = "dlopen" /\ r = "ok" -> "loaded"
                                           [] pc[p] = "init"               -> "inited"
                                           [] OTHER                        -> @]
  BY DEF ReturnFromCall
<1>4. pc[p] \in Calls /\ Alive(p) /\ stop[p] = "run" /\ UNCHANGED <<bp, tracees, task, phase, outcome, tracer>>
  BY DEF ReturnFromCall, Running, daemonVars
<1>5. regs'[p] = r /\ r # "call"
  BY <1>1, <1>3 DEF TypeOK, Results
<1>6. phase # "down" => tracees[p].state \in Injecting \ {"Entry"} /\ InCall(p) /\ Ours(p)
  BY <1>1, <1>4 DEF ProcessInv, Intact, EntryArmed, AttemptOk, UnderWay, TypeOK, Tracee, States
<1>7. phase # "down" => /\ image[p] # "inited" /\ (tracees[p].state = "Init" <=> pc[p] = "init")
                        /\ (tracees[p].state = "Dlopen" <=> pc[p] = "dlopen")
  <2>1. CASE phase # "down" /\ regs[p] = "call"
    BY <1>6, <2>1 DEF InCall, CallOf, Injecting
  <2>2. CASE phase # "down" /\ regs[p] # "call"
    BY <1>4, <1>6, <2>2 DEF InCall
  <2>3. QED
    BY <2>1, <2>2
<1>8. image'[p] = CASE pc[p] = "dlopen" /\ r = "ok" -> "loaded"
                    [] pc[p] = "init"               -> "inited"
                    [] OTHER                        -> image[p]
  BY <1>1, <1>3 DEF TypeOK
<1>9. pc'[p] \in Places \cup {"past", "dead"} /\ (phase # "down" => stop'[p] = "trap" /\ Alive(p)')
  BY <1>1, <1>4, <1>6 DEF ReturnFromCall, Trap, TypeOK, InCall, Alive, Tracee, Places, Ours
<1>10. CASE phase # "down"
  <2>1. InCall(p)'
    BY <1>4, <1>5, <1>6, <1>7, <1>8, <1>9, <1>10 DEF InCall, Calls, Places
  <2>2. UnderWay(p)'
    BY <1>1, <1>4, <1>6, <1>9, <1>10, <2>1 DEF UnderWay, Injecting, Calls, Places, ProcessInv, Alive,
                                               Reports
  <2>3. AttemptOk(p)'
    BY <1>1, <1>4, <1>6, <1>7, <1>8, <1>9, <1>10, <2>2
       DEF AttemptOk, ProcessInv, Places, Alive, Injecting, Reports
  <2>4. QED
    BY <1>2, <2>3, Alone
<1>11. CASE phase = "down"
  <2>1. "timeout" \in Disturbances
    BY <1>1, <1>4, <1>11 DEF AttemptOk, Intact
  <2>2. AttemptOk(p)'
    BY <1>1, <1>4, <1>9, <1>11, <2>1 DEF AttemptOk, ReturnFromCall, Trap, ProcessInv, Places, Alive, TypeOK
  <2>3. QED
    BY <1>2, <2>2, Alone
<1>12. QED
  BY <1>10, <1>11

LEMMA SignalAttempt ==
  ASSUME IndInv, AttemptInv, NEW p \in Procs, Signal(p)
  PROVE  AttemptInv'
<1>1. TypeOK /\ ProcessInv(p) /\ AttemptOk(p)
  BY DEF IndInv, AttemptInv
<1>2. ASSUME NEW q \in Procs, q # p
      PROVE  Apart(q)
  BY <1>1, <1>2 DEF TypeOK, Apart, UnchangedAt, Signal, Running, daemonVars
<1>3. AttemptOk(p)'
  BY <1>1 DEF TypeOK, ProcessInv, AttemptOk, UnderWay, InCall, TrapAt, Alive, Ours, Intact,
              EntryArmed, CallUnderWay, Injecting, Calls, Reports, Signal, Running, daemonVars
<1>4. QED
  BY <1>2, <1>3, Alone

LEMMA StrayTrapAttempt ==
  ASSUME IndInv, AttemptInv, NEW p \in Procs, StrayTrap(p)
  PROVE  AttemptInv'
<1>1. TypeOK /\ ProcessInv(p) /\ AttemptOk(p)
  BY DEF IndInv, AttemptInv
<1>2. ASSUME NEW q \in Procs, q # p
      PROVE  Apart(q)
  BY <1>1, <1>2 DEF TypeOK, Apart, UnchangedAt, StrayTrap, Running, daemonVars
<1>3. /\ Alive(p) /\ Ours(p) /\ stop'[p] = "trap"
      /\ UNCHANGED <<pc, regs, bp, tracer, intr, tracees, task, phase, outcome>>
      /\ stop[p] = "run"
  BY <1>1 DEF TypeOK, StrayTrap, Running, daemonVars
<1>4. CASE UNCHANGED image
  <2>1. AttemptOk(p)'
    BY <1>1, <1>3, <1>4 DEF TypeOK, ProcessInv, AttemptOk, UnderWay, InCall, TrapAt, Alive, Ours,
              Intact, EntryArmed, CallUnderWay, Injecting, Calls, Reports, StrayTrap
  <2>2. QED
    BY <1>2, <2>1, Alone
<1>5. CASE regs[p] = "call" /\ pc[p] = "dlopen" /\ image' = [image EXCEPT ![p] = "loaded"]
  <2>1. image'[p] = "loaded"
    BY <1>1, <1>5 DEF TypeOK
  <2>2. CASE phase = "down"
    BY <1>1, <1>2, <1>3, <1>5, <2>1, <2>2, Alone DEF AttemptOk, ProcessInv, Alive, Intact, Calls
  <2>3. CASE phase # "down"
    <3>1. tracees[p].state = "Dlopen" /\ InCall(p)
      BY <1>1, <1>3, <1>5, <2>3 DEF ProcessInv, AttemptOk, UnderWay, Intact, EntryArmed, InCall, CallOf,
                                    Injecting, Calls, TypeOK, Tracee, States
    <3>2. task[p] \notin {"seize", "seizeLate", "exec"}
      BY <1>1, <1>3, <1>5, <2>3 DEF ProcessInv
    <3>3. UnderWay(p)'
      BY <1>3, <1>5, <2>1, <3>1, <3>2 DEF UnderWay, InCall, TrapAt, Injecting
    <3>4. AttemptOk(p)'
      BY <1>1, <1>3, <2>1, <2>3, <3>1, <3>3 DEF AttemptOk, Alive
    <3>5. QED
      BY <1>2, <3>4, Alone
  <2>4. QED
    BY <2>2, <2>3
<1>6. QED
  BY <1>4, <1>5 DEF StrayTrap

LEMMA InterruptedAttempt ==
  ASSUME IndInv, AttemptInv, NEW p \in Procs, Interrupted(p)
  PROVE  AttemptInv'
<1>1. TypeOK /\ ProcessInv(p) /\ AttemptOk(p)
  BY DEF IndInv, AttemptInv
<1>2. ASSUME NEW q \in Procs, q # p
      PROVE  Apart(q)
  BY <1>1, <1>2 DEF TypeOK, Apart, UnchangedAt, Interrupted, Running, daemonVars
<1>3. AttemptOk(p)'
  BY <1>1 DEF TypeOK, ProcessInv, AttemptOk, UnderWay, InCall, TrapAt, Alive, Ours, Intact,
              EntryArmed, CallUnderWay, Injecting, Calls, Reports, Interrupted, Running, daemonVars
<1>4. QED
  BY <1>2, <1>3, Alone

LEMMA DieAttempt ==
  ASSUME IndInv, AttemptInv, NEW p \in Procs, Die(p)
  PROVE  AttemptInv'
<1>1. TypeOK /\ ProcessInv(p) /\ AttemptOk(p)
  BY DEF IndInv, AttemptInv
<1>2. ASSUME NEW q \in Procs, q # p
      PROVE  Apart(q)
  BY <1>1, <1>2 DEF TypeOK, Apart, UnchangedAt, Die, daemonVars
<1>3. AttemptOk(p)'
  BY <1>1 DEF TypeOK, ProcessInv, AttemptOk, UnderWay, InCall, TrapAt, Alive, Ours, Intact,
              EntryArmed, CallUnderWay, Injecting, Calls, Reports, Die, daemonVars
<1>4. QED
  BY <1>2, <1>3, Alone

LEMMA ReapAttempt ==
  ASSUME IndInv, AttemptInv, NEW p \in Procs, Reap(p)
  PROVE  AttemptInv'
<1>1. TypeOK /\ ProcessInv(p) /\ AttemptOk(p)
  BY DEF IndInv, AttemptInv
<1>2. ASSUME NEW q \in Procs, q # p
      PROVE  Apart(q)
  BY <1>1, <1>2 DEF TypeOK, Apart, UnchangedAt, Reap, Idle
<1>3. AttemptOk(p)'
  BY <1>1, CallOfIsCall DEF TypeOK, ProcessInv, AttemptOk, UnderWay, InCall, TrapAt, Alive, Ours, Intact,
              EntryArmed, CallUnderWay, Injecting, Calls, Reports, Reap, Idle
<1>4. QED
  BY <1>2, <1>3, Alone

LEMMA HandleForkAttempt ==
  ASSUME IndInv, AttemptInv, NEW p \in Procs, HandleFork(p)
  PROVE  AttemptInv'
<1>1. TypeOK /\ ProcessInv(p) /\ AttemptOk(p)
  BY DEF IndInv, AttemptInv
<1>2. ASSUME NEW q \in Procs, q # p
      PROVE  Apart(q)
  BY <1>1, <1>2 DEF TypeOK, Apart, UnchangedAt, HandleFork, Idle, NewTracee
<1>3. AttemptOk(p)'
  BY <1>1 DEF TypeOK, ProcessInv, AttemptOk, UnderWay, InCall, TrapAt, Alive, Ours, Intact,
              EntryArmed, CallUnderWay, Injecting, Calls, Reports, HandleFork, Idle, NewTracee
<1>4. QED
  BY <1>2, <1>3, Alone

LEMMA HandleExitAttempt ==
  ASSUME IndInv, AttemptInv, NEW p \in Procs, HandleExit(p)
  PROVE  AttemptInv'
<1>1. TypeOK /\ ProcessInv(p) /\ AttemptOk(p)
  BY DEF IndInv, AttemptInv
<1>2. ASSUME NEW q \in Procs, q # p
      PROVE  Apart(q)
  BY <1>1, <1>2 DEF TypeOK, Apart, UnchangedAt, HandleExit, Forget, Untracked, NewTracee, EndHandler
<1>3. AttemptOk(p)'
  BY <1>1 DEF TypeOK, ProcessInv, AttemptOk, UnderWay, InCall, TrapAt, Alive, Ours, Intact,
              EntryArmed, CallUnderWay, Injecting, Calls, Reports, HandleExit, Forget, Untracked, NewTracee, EndHandler
<1>4. QED
  BY <1>2, <1>3, Alone

LEMMA HandleExitingAttempt ==
  ASSUME IndInv, AttemptInv, NEW p \in Procs, HandleExiting(p)
  PROVE  AttemptInv'
<1>1. TypeOK /\ ProcessInv(p) /\ AttemptOk(p)
  BY DEF IndInv, AttemptInv
<1>2. ASSUME NEW q \in Procs, q # p
      PROVE  Apart(q)
  BY <1>1, <1>2 DEF TypeOK, Apart, UnchangedAt, HandleExiting, Forget, Untracked, NewTracee, Cont, EndHandler
<1>3. AttemptOk(p)'
  BY <1>1 DEF TypeOK, ProcessInv, AttemptOk, UnderWay, InCall, TrapAt, Alive, Ours, Intact,
              EntryArmed, CallUnderWay, Injecting, Calls, Reports, HandleExiting, Forget, Untracked, NewTracee, Cont, EndHandler
<1>4. QED
  BY <1>2, <1>3, Alone

LEMMA HandleSignalAttempt ==
  ASSUME IndInv, AttemptInv, NEW p \in Procs, HandleSignal(p)
  PROVE  AttemptInv'
<1>1. TypeOK /\ ProcessInv(p) /\ AttemptOk(p)
  BY DEF IndInv, AttemptInv
<1>2. ASSUME NEW q \in Procs, q # p
      PROVE  Apart(q)
  BY <1>1, <1>2 DEF TypeOK, Apart, UnchangedAt, HandleSignal, Cont, EndHandler
<1>3. AttemptOk(p)'
  BY <1>1 DEF TypeOK, ProcessInv, AttemptOk, UnderWay, InCall, TrapAt, Alive, Ours, Intact,
              EntryArmed, CallUnderWay, Injecting, Calls, Reports, HandleSignal, Cont, EndHandler
<1>4. QED
  BY <1>2, <1>3, Alone

LEMMA HandleOtherTrapAttempt ==
  ASSUME IndInv, AttemptInv, NEW p \in Procs, HandleOtherTrap(p)
  PROVE  AttemptInv'
<1>1. TypeOK /\ ProcessInv(p) /\ AttemptOk(p)
  BY DEF IndInv, AttemptInv
<1>2. ASSUME NEW q \in Procs, q # p
      PROVE  Apart(q)
  BY <1>1, <1>2 DEF TypeOK, Apart, UnchangedAt, HandleOtherTrap, Cont, EndHandler
<1>3. AttemptOk(p)'
  BY <1>1 DEF TypeOK, ProcessInv, AttemptOk, UnderWay, InCall, TrapAt, Alive, Ours, Intact,
              EntryArmed, CallUnderWay, Injecting, Calls, Reports, HandleOtherTrap, Cont, EndHandler
<1>4. QED
  BY <1>2, <1>3, Alone

LEMMA SkipTargetAttempt ==
  ASSUME IndInv, AttemptInv, NEW p \in Procs, SkipTarget(p)
  PROVE  AttemptInv'
<1>1. TypeOK /\ ProcessInv(p) /\ AttemptOk(p)
  BY DEF IndInv, AttemptInv
<1>2. ASSUME NEW q \in Procs, q # p
      PROVE  Apart(q)
  BY <1>1, <1>2 DEF TypeOK, Apart, UnchangedAt, SkipTarget, Observable, Idle, kernelVars
<1>3. AttemptOk(p)'
  BY <1>1 DEF TypeOK, ProcessInv, AttemptOk, UnderWay, InCall, TrapAt, Alive, Ours, Intact,
              EntryArmed, CallUnderWay, Injecting, Calls, Reports, SkipTarget, Observable, Idle, kernelVars
<1>4. QED
  BY <1>2, <1>3, Alone

LEMMA SeizeTimeoutAttempt ==
  ASSUME IndInv, AttemptInv, NEW p \in Procs, SeizeTimeout(p)
  PROVE  AttemptInv'
<1>1. TypeOK /\ ProcessInv(p) /\ AttemptOk(p)
  BY DEF IndInv, AttemptInv
<1>2. ASSUME NEW q \in Procs, q # p
      PROVE  Apart(q)
  BY <1>1, <1>2 DEF TypeOK, Apart, UnchangedAt, SeizeTimeout, NoStop, Detach, EndHandler
<1>3. AttemptOk(p)'
  BY <1>1 DEF TypeOK, ProcessInv, AttemptOk, UnderWay, InCall, TrapAt, Alive, Ours, Intact,
              EntryArmed, CallUnderWay, Injecting, Calls, Reports, SeizeTimeout, NoStop, Detach, EndHandler
<1>4. QED
  BY <1>2, <1>3, Alone

LEMMA ForgetDoneAttempt ==
  ASSUME IndInv, AttemptInv, NEW p \in Procs, ForgetDone(p)
  PROVE  AttemptInv'
<1>1. TypeOK /\ ProcessInv(p) /\ AttemptOk(p)
  BY DEF IndInv, AttemptInv
<1>2. ASSUME NEW q \in Procs, q # p
      PROVE  Apart(q)
  BY <1>1, <1>2 DEF TypeOK, Apart, UnchangedAt, ForgetDone, Idle, kernelVars
<1>3. AttemptOk(p)'
  BY <1>1 DEF TypeOK, ProcessInv, AttemptOk, UnderWay, InCall, TrapAt, Alive, Ours, Intact,
              EntryArmed, CallUnderWay, Injecting, Calls, Reports, ForgetDone, Idle, kernelVars
<1>4. QED
  BY <1>2, <1>3, Alone

LEMMA ExpireAttempt ==
  ASSUME IndInv, AttemptInv, NEW p \in Procs, Expire(p)
  PROVE  AttemptInv'
<1>1. TypeOK /\ ProcessInv(p) /\ AttemptOk(p)
  BY DEF IndInv, AttemptInv
<1>2. ASSUME NEW q \in Procs, q # p
      PROVE  Apart(q)
  BY <1>1, <1>2 DEF TypeOK, Apart, UnchangedAt, Expire, Idle, StopTracee
<1>3. AttemptOk(p)'
  BY <1>1 DEF TypeOK, ProcessInv, AttemptOk, UnderWay, InCall, TrapAt, Alive, Ours, Intact,
              EntryArmed, CallUnderWay, Injecting, Calls, Reports, Expire, Idle, StopTracee
<1>4. QED
  BY <1>2, <1>3, Alone

LEMMA ExpireTimeoutAttempt ==
  ASSUME IndInv, AttemptInv, NEW p \in Procs, ExpireTimeout(p)
  PROVE  AttemptInv'
<1>1. TypeOK /\ ProcessInv(p) /\ AttemptOk(p)
  BY DEF IndInv, AttemptInv
<1>2. ASSUME NEW q \in Procs, q # p
      PROVE  Apart(q)
  BY <1>1, <1>2 DEF TypeOK, Apart, UnchangedAt, ExpireTimeout, EndHandler
<1>3. AttemptOk(p)'
  BY <1>1 DEF TypeOK, ProcessInv, AttemptOk, UnderWay, InCall, TrapAt, Alive, Ours, Intact,
              EntryArmed, CallUnderWay, Injecting, Calls, Reports, ExpireTimeout, EndHandler
<1>4. QED
  BY <1>2, <1>3, Alone

LEMMA ReleaseBeginAttempt ==
  ASSUME IndInv, AttemptInv, NEW p \in Procs, ReleaseBegin(p)
  PROVE  AttemptInv'
<1>1. TypeOK /\ ProcessInv(p) /\ AttemptOk(p)
  BY DEF IndInv, AttemptInv
<1>2. ASSUME NEW q \in Procs, q # p
      PROVE  Apart(q)
  BY <1>1, <1>2 DEF TypeOK, Apart, UnchangedAt, ReleaseBegin, Idle, StopTracee
<1>3. AttemptOk(p)'
  BY <1>1 DEF TypeOK, ProcessInv, AttemptOk, UnderWay, InCall, TrapAt, Alive, Ours, Intact,
              EntryArmed, CallUnderWay, Injecting, Calls, Reports, ReleaseBegin, Idle, StopTracee
<1>4. QED
  BY <1>2, <1>3, Alone

LEMMA ReleaseTimeoutAttempt ==
  ASSUME IndInv, AttemptInv, NEW p \in Procs, ReleaseTimeout(p)
  PROVE  AttemptInv'
<1>1. TypeOK /\ ProcessInv(p) /\ AttemptOk(p)
  BY DEF IndInv, AttemptInv
<1>2. ASSUME NEW q \in Procs, q # p
      PROVE  Apart(q)
  BY <1>1, <1>2 DEF TypeOK, Apart, UnchangedAt, ReleaseTimeout, EndHandler
<1>3. AttemptOk(p)'
  BY <1>1 DEF TypeOK, ProcessInv, AttemptOk, UnderWay, InCall, TrapAt, Alive, Ours, Intact,
              EntryArmed, CallUnderWay, Injecting, Calls, Reports, ReleaseTimeout, EndHandler
<1>4. QED
  BY <1>2, <1>3, Alone

LEMMA ForkAttempt ==
  ASSUME IndInv, AttemptInv, NEW p \in Procs, NEW q \in Procs, Fork(p, q)
  PROVE  AttemptInv'
<1>1. TypeOK /\ ProcessInv(p) /\ AttemptOk(p) /\ ProcessInv(q) /\ AttemptOk(q)
  BY DEF IndInv, AttemptInv
<1>2. ASSUME NEW r \in Procs, r # q
      PROVE  Apart(r)
  BY <1>1, <1>2 DEF TypeOK, Apart, UnchangedAt, Fork, daemonVars
<1>3. /\ pc'[q] = "main" /\ bp'[q] = bp[p] /\ image'[q] \in {"clean", "inherited"}
      /\ regs'[q] = "own" /\ stop'[q] = "run"
      /\ tracees'[q].state = "none" /\ task'[q] = "none" /\ UNCHANGED <<phase, outcome>>
  BY <1>1 DEF TypeOK, Fork, daemonVars, ProcessInv
<1>4. phase = "down" /\ "timeout" \notin Disturbances => Intact(q)'
  BY <1>1, <1>3 DEF AttemptOk, Fork, Running, Intact, Calls
<1>5. UnderWay(q)'
  BY <1>3 DEF UnderWay, TrapAt, Injecting
<1>6. AttemptOk(q)'
  BY <1>3, <1>4, <1>5 DEF AttemptOk
<1>7. QED
  BY <1>2, <1>6, Alone

(***************************************************************************)
(* Taking a process and letting it go.                                     *)
(***************************************************************************)

LEMMA SeizeAttempt ==
  ASSUME IndInv, AttemptInv, NEW p \in Procs, NEW late \in BOOLEAN, Seize(p, late)
  PROVE  AttemptInv'
<1>1. TypeOK /\ ProcessInv(p) /\ AttemptOk(p)
  BY DEF IndInv, AttemptInv
<1>2. ASSUME NEW q \in Procs, q # p
      PROVE  Apart(q)
  BY <1>1, <1>2 DEF TypeOK, Apart, UnchangedAt, Seize
<1>3. AttemptOk(p)'
  BY <1>1 DEF TypeOK, Seize, Observable, Idle, AttemptOk, UnderWay, InCall, TrapAt, Alive,
              Injecting, Intact
<1>4. QED
  BY <1>2, <1>3, Alone

LEMMA HandleExecAttempt ==
  ASSUME IndInv, AttemptInv, NEW p \in Procs, HandleExec(p)
  PROVE  AttemptInv'
<1>1. TypeOK /\ ProcessInv(p) /\ AttemptOk(p)
  BY DEF IndInv, AttemptInv
<1>2. task[p] = "exec" /\ EndHandler(p) /\ UNCHANGED <<pc, regs, done, outcome>>
  BY DEF HandleExec
<1>3. /\ task'[p] = "none" /\ UNCHANGED <<phase, image>> /\ phase # "down" /\ pc[p] # "absent"
      /\ Alive(p) => image[p] = "clean" /\ stop[p] = "held"
  BY <1>1, <1>2 DEF TypeOK, EndHandler, ProcessInv, AttemptOk, UnderWay, Reports
<1>4. CASE /\ Alive(p) /\ Arm(p, "entry") /\ Cont(p) /\ UNCHANGED tracer
           /\ tracees' = [tracees EXCEPT ![p] =
                Armed(p, [@ EXCEPT !.state = "Entry", !.timed = FALSE], "entry")]
  <2>1. ASSUME NEW q \in Procs, q # p
        PROVE  Apart(q)
    BY <1>1, <1>2, <1>4, <2>1 DEF TypeOK, Apart, UnchangedAt, Arm, Cont, EndHandler
  <2>2. tracees'[p].state = "Entry" /\ stop'[p] = "run"
    BY <1>1, <1>4 DEF TypeOK, Armed, Tracee, Cont
  <2>3. UnderWay(p)'
    BY <1>1, <1>2, <1>3, <1>4, <2>2 DEF UnderWay, TrapAt, Injecting
  <2>4. AttemptOk(p)'
    BY <1>1, <1>2, <1>3, <1>4, <2>2, <2>3 DEF AttemptOk
  <2>5. QED
    BY <2>1, <2>4, Alone
<1>5. CASE Detach(p) /\ Forget(p) /\ UNCHANGED bp
  <2>1. ASSUME NEW q \in Procs, q # p
        PROVE  Apart(q)
    BY <1>1, <1>2, <1>5, <2>1 DEF TypeOK, Apart, UnchangedAt, Detach, Forget, EndHandler
  <2>2. tracees'[p].state = "none"
    BY <1>1, <1>5 DEF TypeOK, Forget, Untracked, NewTracee
  <2>3. stop'[p] \notin {"trap", "exec"}
    BY <1>1, <1>3, <1>5 DEF TypeOK, Detach, AttemptOk
  <2>4. AttemptOk(p)'
    BY <1>1, <1>2, <1>3, <2>2, <2>3, LetLoose DEF Alive
  <2>5. QED
    BY <2>1, <2>4, Alone
<1>6. QED
  BY <1>2, <1>4, <1>5 DEF HandleExec

LEMMA SeizedStoppedAttempt ==
  ASSUME IndInv, AttemptInv, NEW p \in Procs, SeizedStopped(p)
  PROVE  AttemptInv'
<1>1. TypeOK /\ ProcessInv(p) /\ AttemptOk(p)
  BY DEF IndInv, AttemptInv
<1>2. task[p] \in {"seize", "seizeLate"} /\ EndHandler(p)
  BY DEF SeizedStopped, Waited
<1>3. /\ task'[p] = "none" /\ UNCHANGED <<phase, image>> /\ phase # "down" /\ pc[p] # "absent"
      /\ tracees[p].state = "none"
      /\ Alive(p) => image[p] = "clean" /\ pc[p] \in {"linker", "entry", "main"}
  BY <1>1, <1>2 DEF TypeOK, EndHandler, ProcessInv, AttemptOk, UnderWay
<1>4. \A q \in Procs : q # p => outcome'[q] = outcome[q]
  BY <1>1 DEF TypeOK, SeizedStopped, Record, ArmEntry, InjectLate
<1>5. CASE RefuseSeized(p)
  <2>1. ASSUME NEW q \in Procs, q # p
        PROVE  Apart(q)
    BY <1>1, <1>2, <1>4, <1>5, <2>1 DEF TypeOK, Apart, UnchangedAt, RefuseSeized, EndHandler
  <2>2. stop'[p] = "run" /\ UNCHANGED <<pc, tracees>>
    BY <1>1, <1>5 DEF TypeOK, RefuseSeized
  <2>3. AttemptOk(p)'
    BY <1>1, <1>3, <2>2, LetLoose DEF Alive
  <2>4. QED
    BY <2>1, <2>3, Alone
<1>6. CASE Alive(p) /\ ArmEntry(p)
  <2>1. ASSUME NEW q \in Procs, q # p
        PROVE  Apart(q)
    BY <1>1, <1>2, <1>4, <1>6, <2>1 DEF TypeOK, Apart, UnchangedAt, ArmEntry, Arm, EndHandler
  <2>2. tracees'[p].state = "Entry" /\ stop'[p] = "run" /\ UNCHANGED <<pc, outcome>>
    BY <1>1, <1>6 DEF TypeOK, ArmEntry, Armed, NewTracee
  <2>3. UnderWay(p)'
    BY <1>3, <1>6, <2>2 DEF UnderWay, TrapAt, Injecting
  <2>4. AttemptOk(p)'
    BY <1>1, <1>3, <1>6, <2>2, <2>3 DEF AttemptOk
  <2>5. QED
    BY <2>1, <2>4, Alone
<1>7. CASE Alive(p) /\ InjectLate(p)
  <2>1. ASSUME NEW q \in Procs, q # p
        PROVE  Apart(q)
    BY <1>1, <1>2, <1>4, <1>7, <2>1 DEF TypeOK, Apart, UnchangedAt, InjectLate, Arm, EndHandler
  <2>2. tracees'[p].state = "File" /\ tracees'[p].home = pc[p] /\ bp'[p] = bp[p] \cup {pc[p]}
    BY <1>1, <1>7 DEF TypeOK, InjectLate, Arm, Armed, NewTracee
  <2>3. pc'[p] = "memfd" /\ regs'[p] = "call" /\ stop'[p] = "run" /\ UNCHANGED outcome
    BY <1>1, <1>7 DEF TypeOK, InjectLate
  <2>4. InCall(p)'
    BY <1>3, <1>7, <2>2, <2>3 DEF InCall, CallOf
  <2>5. UnderWay(p)'
    BY <1>3, <2>2, <2>3, <2>4 DEF UnderWay, TrapAt
  <2>6. AttemptOk(p)'
    BY <1>1, <1>3, <1>7, <2>2, <2>3, <2>5 DEF AttemptOk
  <2>7. QED
    BY <2>1, <2>6, Alone
<1>8. QED
  BY <1>5, <1>6, <1>7 DEF SeizedStopped

(* A tracee that is let go: it has expired at its entry, or the daemon is   *)
(* stopping.                                                               *)
LEMMA LetGoAttempt ==
  ASSUME IndInv, AttemptInv, NEW p \in Procs, LetGo(p), EndHandler(p), UNCHANGED outcome,
         task[p] \in {"expire", "release"}
  PROVE  AttemptInv'
<1>1. TypeOK /\ ProcessInv(p) /\ AttemptOk(p)
  BY DEF IndInv, AttemptInv
<1>2. ASSUME NEW q \in Procs, q # p
      PROVE  Apart(q)
  BY <1>1, <1>2 DEF TypeOK, Apart, UnchangedAt, LetGo, ReleaseTracee, RestoreEntry, Forget, EndHandler
<1>3. /\ task'[p] = "none" /\ UNCHANGED <<phase, image>> /\ phase # "down" /\ pc[p] # "absent"
      /\ tracees'[p].state = "none" /\ stop'[p] = "run"
  BY <1>1 DEF TypeOK, EndHandler, ProcessInv, LetGo, Forget, Untracked, NewTracee
<1>4. ~Alive(p) => pc'[p] = pc[p]
  BY DEF LetGo, ReleaseTracee
<1>5. pc'[p] # "absent"
  BY <1>1, <1>3, <1>4 DEF TypeOK, LetGo, ReleaseTracee, Unskipped, Tracee, Places
<1>6. Alive(p) /\ phase = "up" => image[p] = "clean"
  BY <1>1 DEF AttemptOk, UnderWay
<1>7. AttemptOk(p)'
  BY <1>1, <1>3, <1>4, <1>5, <1>6, LetLoose DEF Alive
<1>8. QED
  BY <1>2, <1>7, Alone

LEMMA ExpireStoppedAttempt ==
  ASSUME IndInv, AttemptInv, NEW p \in Procs, ExpireStopped(p)
  PROVE  AttemptInv'
BY LetGoAttempt DEF ExpireStopped, Waited

LEMMA ReleaseStoppedAttempt ==
  ASSUME IndInv, AttemptInv, NEW p \in Procs, ReleaseStopped(p)
  PROVE  AttemptInv'
BY LetGoAttempt DEF ReleaseStopped, Waited

(***************************************************************************)
(* The daemon.                                                             *)
(***************************************************************************)

LEMMA HandOverInitAttempt ==
  ASSUME AttemptInv, HandOverInit
  PROVE  AttemptInv'
BY DEF AttemptInv, AttemptOk, UnderWay, InCall, TrapAt, Alive, Intact, HandOverInit

LEMMA SigtermAttempt ==
  ASSUME IndInv, AttemptInv, Sigterm
  PROVE  AttemptInv'
BY DEF AttemptInv, AttemptOk, UnderWay, InCall, TrapAt, Alive, Intact, Sigterm, Idle, kernelVars

(* The daemon exits when no live process is in the map; what it leaves     *)
(* behind was released.                                                    *)
LEMMA DaemonExitAttempt ==
  ASSUME IndInv, AttemptInv, DaemonExit
  PROVE  AttemptInv'
<1>1. ASSUME NEW p \in Procs
      PROVE  AttemptOk(p)'
  <2>1. TypeOK /\ ProcessInv(p) /\ AttemptOk(p)
    BY DEF IndInv, AttemptInv
  <2>2. /\ phase = "stopping" /\ phase' = "down" /\ stop'[p] = "run" /\ task'[p] = "none"
        /\ UNCHANGED <<pc, bp, regs, image>>
    BY <2>1 DEF DaemonExit, Idle
  <2>3. "timeout" \notin Disturbances /\ Alive(p) => Intact(p)
    <3>1. "timeout" \notin Disturbances /\ Alive(p) => tracees[p].state \notin Injecting
      BY DEF DaemonExit
    <3>2. QED
      BY <2>1, <2>2, <3>1 DEF TypeOK, Tracee, States, ProcessInv
  <2>4. QED
    BY <2>1, <2>2, <2>3 DEF AttemptOk, Alive, Intact
<1>2. QED
  BY <1>1 DEF AttemptInv

LEMMA InitAttempt == Init => AttemptInv
BY DEF Init, Untracked, NewTracee, AttemptInv, AttemptOk, Alive

LEMMA NextAttempt ==
  ASSUME IndInv, AttemptInv, [Next]_vars
  PROVE  AttemptInv'
<1>1. ASSUME NEW p \in Procs, ProcessStep(p)
      PROVE  AttemptInv'
  BY <1>1, LinkAttempt, EnterProgramAttempt, ReturnFromCallAttempt DEF ProcessStep
<1>2. ASSUME NEW p \in Procs, Environment(p)
      PROVE  AttemptInv'
  BY <1>2, ForkByInitAttempt, ForkAttempt, ExecAttempt, SignalAttempt, StrayTrapAttempt,
     InterruptedAttempt, DieAttempt DEF Environment
<1>3. ASSUME NEW p \in Procs, HandleEvent(p)
      PROVE  AttemptInv'
  BY <1>3, HandleExitAttempt, HandleExitingAttempt, HandleSignalAttempt, HandleExecAttempt,
     HandleOtherTrapAttempt, TrapAtEntryAttempt, TrapFileAttempt, TrapAfterDlopenAttempt,
     TrapAfterDlsymAttempt, TrapAfterDlerrorAttempt, TrapAfterInitAttempt DEF HandleEvent
<1>4. ASSUME NEW p \in Procs, EndWait(p)
      PROVE  AttemptInv'
  BY <1>4, SeizedStoppedAttempt, SeizeTimeoutAttempt, ExpireStoppedAttempt, ExpireTimeoutAttempt,
     ReleaseStoppedAttempt, ReleaseTimeoutAttempt DEF EndWait
<1>5. ASSUME NEW p \in Procs, DaemonStep(p)
      PROVE  AttemptInv'
  BY <1>3, <1>4, <1>5, ReapAttempt, HandleForkAttempt, SeizeAttempt, SkipTargetAttempt,
     ForgetDoneAttempt, ExpireAttempt, ReleaseBeginAttempt DEF DaemonStep
<1>6. CASE UNCHANGED vars
  BY <1>6, ApartKeeps DEF vars, AttemptInv, Apart, UnchangedAt
<1>7. QED
  BY <1>1, <1>2, <1>5, <1>6, HandOverInitAttempt, SigtermAttempt, DaemonExitAttempt DEF Next

(***************************************************************************)
(* The theorems.                                                           *)
(***************************************************************************)

(* In every reachable state the calls of a tracee, its image and what is    *)
(* recorded of it belong together.                                          *)
THEOREM CallsInvariance == Spec => []AttemptInv
<1>1. IndInv /\ AttemptInv /\ [Next]_vars => AttemptInv'
  BY NextAttempt
<1>2. QED
  BY <1>1, InitAttempt, Invariance, PTL DEF Spec

(* A process that was let go with the loader initialised is recorded as a   *)
(* success.                                                                 *)
THEOREM InitRecorded == Spec => []InitIsRecorded
<1>1. IndInv /\ AttemptInv => InitIsRecorded
  BY DEF IndInv, ProcessInv, AttemptInv, AttemptOk, InitIsRecorded, Injecting
<1>2. QED
  BY <1>1, Invariance, CallsInvariance, PTL

(* A daemon whose interrupts take effect leaves every process as it was     *)
(* when it exits, however many there are and whatever they did meanwhile.   *)
THEOREM ExitLeavesNobody ==
  ASSUME "timeout" \notin Disturbances
  PROVE  Spec => []NobodyLeftParked
<1>1. AttemptInv => NobodyLeftParked
  BY DEF AttemptInv, AttemptOk, Intact, NobodyLeftParked
<1>2. QED
  BY <1>1, CallsInvariance, PTL

(***************************************************************************)
(* What a step may never do.                                               *)
(***************************************************************************)

(* A step that moves a process: it dies or comes back from a call, it is    *)
(* not in a call or stopped by a SIGTRAP, or it is released because the     *)
(* daemon is stopping.                                                      *)
Moved(p) ==
  \/ pc'[p] \in {pc[p], "dead"}
  \/ ReturnFromCall(p)
  \/ /\ pc[p] \notin Calls \/ task[p] = "trap"
     /\ pc'[p] = "dlopen" => image[p] = "clean"
  \/ phase = "stopping" /\ pc'[p] # "dlopen"

LEMMA ReleaseMoves ==
  ASSUME TypeOK, NEW p \in Procs, ReleaseTracee(p)
  PROVE  /\ pc'[p] = pc[p] \/ pc'[p] # "dlopen"
         /\ \A q \in Procs : q # p => pc'[q] = pc[q]
BY DEF TypeOK, ReleaseTracee, Unskipped, Tracee, Places

LEMMA CallMoves ==
  ASSUME TypeOK, NEW p \in Procs, NEW f \in Calls, NEW t, Call(p, f, t)
  PROVE  pc'[p] = f /\ \A q \in Procs : q # p => pc'[q] = pc[q]
BY DEF TypeOK, Call

LEMMA PumpModulesMoves ==
  ASSUME TypeOK, NEW p \in Procs, NEW n, PumpModules(p, n)
  PROVE  /\ pc'[p] = pc[p] \/ pc'[p] # "dlopen"
         /\ \A q \in Procs : q # p => pc'[q] = pc[q]
<1>1. CASE GiveUp(p)
  BY <1>1, ReleaseMoves DEF GiveUp, Undo
<1>2. CASE ~GiveUp(p)
  BY <1>2, CallMoves DEF PumpModules, Calls
<1>3. QED
  BY <1>1, <1>2

LEMMA HandlersMove ==
  ASSUME IndInv, AttemptInv, NEW q \in Procs, HandleEvent(q), NEW p \in Procs
  PROVE  Moved(p)
<1>1. TypeOK /\ ProcessInv(q) /\ AttemptOk(q)
  BY DEF IndInv, AttemptInv
<1>2. CASE HandleExit(q) \/ HandleExiting(q) \/ HandleSignal(q) \/ HandleExec(q) \/ HandleOtherTrap(q)
  BY <1>2 DEF HandleExit, HandleExiting, HandleSignal, HandleExec, HandleOtherTrap, Moved
<1>3. ASSUME task[q] = "trap", pc'[q] = "dlopen" /\ pc[q] # "dlopen" => image[q] = "clean",
             \A r \in Procs : r # q => pc'[r] = pc[r]
      PROVE  Moved(p)
  BY <1>3 DEF Moved
<1>4. CASE TrapAtEntry(q)
  <2>1. CASE Call(q, "memfd", LoaderFile(q))
    BY <1>1, <1>3, <1>4, <2>1, CallMoves DEF TrapAtEntry, Calls
  <2>2. CASE Undo(q)
    BY <1>1, <1>3, <1>4, <2>2, ReleaseMoves DEF TrapAtEntry, Undo
  <2>3. CASE UNCHANGED pc
    BY <2>3 DEF Moved
  <2>4. QED
    BY <1>4, <2>1, <2>2, <2>3 DEF TrapAtEntry
<1>5. CASE TrapFile(q)
  <2>1. CASE GiveUp(q)
    BY <1>1, <1>3, <1>5, <2>1, ReleaseMoves DEF TrapFile, GiveUp, Undo
  <2>2. CASE /\ Alive(q) /\ tracees[q].purpose = "Loader"
             /\ Call(q, "dlopen", [tracees[q] EXCEPT !.state = "Dlopen"])
    <3>1. phase # "down" /\ tracees[q].state = "File" /\ task[q] = "trap"
      BY <1>1, <1>5 DEF TrapFile, ProcessInv
    <3>2. image[q] = "clean"
      BY <1>1, <2>2, <3>1 DEF AttemptOk, UnderWay, InCall, Injecting
    <3>3. QED
      BY <1>1, <1>3, <2>2, <3>1, <3>2, CallMoves DEF Calls
  <2>3. CASE PumpModules(q, tracees[q].left - 1)
    BY <1>1, <1>3, <1>5, <2>3, PumpModulesMoves DEF TrapFile
  <2>4. QED
    BY <1>5, <2>1, <2>2, <2>3 DEF TrapFile
<1>6. CASE TrapAfterDlopen(q)
  <2>1. CASE Undo(q) \/ GiveUp(q)
    BY <1>1, <1>3, <1>6, <2>1, ReleaseMoves DEF TrapAfterDlopen, GiveUp, Undo
  <2>2. ASSUME NEW f \in {"dlsym", "dlerror"}, NEW t, Call(q, f, t)
        PROVE  Moved(p)
    BY <1>1, <1>3, <1>6, <2>2, CallMoves DEF TrapAfterDlopen, Calls
  <2>3. QED
    BY <1>6, <2>1, <2>2 DEF TrapAfterDlopen
<1>7. CASE TrapAfterDlsym(q)
  <2>1. CASE Undo(q) \/ GiveUp(q)
    BY <1>1, <1>3, <1>7, <2>1, ReleaseMoves DEF TrapAfterDlsym, GiveUp, Undo
  <2>2. ASSUME NEW n, PumpModules(q, n)
        PROVE  Moved(p)
    BY <1>1, <1>3, <1>7, <2>2, PumpModulesMoves DEF TrapAfterDlsym
  <2>3. QED
    BY <1>7, <2>1, <2>2 DEF TrapAfterDlsym
<1>8. CASE TrapAfterDlerror(q)
  BY <1>1, <1>3, <1>8, ReleaseMoves DEF TrapAfterDlerror, GiveUp, Undo
<1>9. CASE TrapAfterInit(q)
  BY <1>1, <1>3, <1>9, ReleaseMoves DEF TrapAfterInit, Undo
<1>10. QED
  BY <1>2, <1>4, <1>5, <1>6, <1>7, <1>8, <1>9 DEF HandleEvent

LEMMA WaitsMove ==
  ASSUME IndInv, AttemptInv, NEW q \in Procs, EndWait(q), NEW p \in Procs
  PROVE  Moved(p)
<1>1. TypeOK /\ ProcessInv(q) /\ AttemptOk(q)
  BY DEF IndInv, AttemptInv
<1>2. CASE SeizeTimeout(q) \/ ExpireTimeout(q) \/ ReleaseTimeout(q)
  BY <1>2 DEF SeizeTimeout, ExpireTimeout, ReleaseTimeout, Moved
<1>3. CASE SeizedStopped(q)
  <2>1. CASE UNCHANGED pc
    BY <2>1 DEF Moved
  <2>2. CASE Alive(q) /\ InjectLate(q)
    <3>1. pc[q] \notin Calls
      BY <1>1, <1>3, <2>2 DEF SeizedStopped, Waited, ProcessInv, Calls
    <3>2. QED
      BY <1>1, <2>2, <3>1 DEF TypeOK, InjectLate, Moved
  <2>3. QED
    BY <1>3, <2>1, <2>2 DEF SeizedStopped, RefuseSeized, ArmEntry
<1>4. CASE ExpireStopped(q)
  <2>1. ReleaseTracee(q) /\ task[q] = "expire" /\ tracees[q].state = "Entry" /\ phase # "down"
    BY <1>1, <1>4 DEF ExpireStopped, LetGo, Waited, AttemptOk, ProcessInv
  <2>2. pc[q] \notin Calls
    <3>1. CASE Alive(q)
      BY <1>1, <2>1, <3>1 DEF ProcessInv, EntryArmed
    <3>2. CASE ~Alive(q)
      BY <3>2 DEF Alive, Calls
    <3>3. QED
      BY <3>1, <3>2
  <2>3. QED
    BY <1>1, <2>1, <2>2, ReleaseMoves DEF Moved, Calls
<1>5. CASE ReleaseStopped(q)
  <2>1. ReleaseTracee(q) /\ phase = "stopping"
    BY <1>1, <1>5 DEF ReleaseStopped, LetGo, Waited, AttemptOk
  <2>2. QED
    BY <1>1, <2>1, ReleaseMoves DEF Moved
<1>6. QED
  BY <1>2, <1>3, <1>4, <1>5 DEF EndWait

LEMMA StepsMove ==
  ASSUME IndInv, AttemptInv, [Next]_vars, NEW p \in Procs
  PROVE  Moved(p)
<1>1. TypeOK
  BY DEF IndInv
<1>2. ASSUME NEW q \in Procs, ProcessStep(q)
      PROVE  Moved(p)
  <2>1. CASE Link(q)
    BY <1>1, <2>1 DEF TypeOK, Link, Moved, Calls
  <2>2. CASE EnterProgram(q)
    BY <1>1, <2>2 DEF TypeOK, EnterProgram, Trap, Moved, Calls
  <2>3. CASE ReturnFromCall(q)
    <3>1. CASE p = q
      BY <2>3, <3>1 DEF Moved
    <3>2. CASE p # q
      <4>1. pc'[p] = pc[p]
        BY <1>1, <2>3, <3>2 DEF TypeOK, ReturnFromCall, Trap
      <4>2. QED
        BY <4>1 DEF Moved
    <3>3. QED
      BY <3>1, <3>2
  <2>4. QED
    BY <1>2, <2>1, <2>2, <2>3 DEF ProcessStep
<1>3. ASSUME NEW q \in Procs, Environment(q)
      PROVE  Moved(p)
  <2>1. CASE ForkByInit(q)
    BY <1>1, <2>1 DEF TypeOK, ForkByInit, Moved, Calls
  <2>2. ASSUME NEW r \in Procs, Fork(q, r)
        PROVE  Moved(p)
    BY <1>1, <2>2 DEF TypeOK, Fork, Moved, Calls
  <2>3. CASE Exec(q)
    BY <1>1, <2>3 DEF TypeOK, Exec, Moved, Calls
  <2>4. CASE Signal(q) \/ StrayTrap(q) \/ Interrupted(q)
    BY <2>4 DEF Signal, StrayTrap, Interrupted, Moved
  <2>5. CASE Die(q)
    BY <1>1, <2>5 DEF TypeOK, Die, Moved
  <2>6. QED
    BY <1>3, <2>1, <2>2, <2>3, <2>4, <2>5 DEF Environment
<1>4. ASSUME NEW q \in Procs, DaemonStep(q)
      PROVE  Moved(p)
  <2>1. CASE \/ Reap(q) \/ HandleFork(q) \/ SkipTarget(q) \/ ForgetDone(q) \/ Expire(q)
             \/ ReleaseBegin(q) \/ \E late \in BOOLEAN : Seize(q, late)
    BY <2>1 DEF Reap, HandleFork, SkipTarget, ForgetDone, Expire, ReleaseBegin, Seize, kernelVars,
                Moved
  <2>2. QED
    BY <1>4, <2>1, HandlersMove, WaitsMove DEF DaemonStep
<1>5. CASE HandOverInit \/ Sigterm \/ DaemonExit \/ UNCHANGED vars
  BY <1>5 DEF HandOverInit, Sigterm, DaemonExit, vars, kernelVars, Moved
<1>6. QED
  BY <1>2, <1>3, <1>4, <1>5 DEF Next

(* The loader is loaded into a clean image only: not twice, not after a     *)
(* failure halfway and not into the fork of an injected process.            *)
THEOREM LoadsOnce == Spec => LoadedOnce
<1>1. IndInv /\ AttemptInv /\ [Next]_vars =>
        [\A p \in Procs : pc'[p] = "dlopen" /\ pc[p] # "dlopen" => image[p] = "clean"]_vars
  <2> SUFFICES ASSUME IndInv, AttemptInv, [Next]_vars,
                      NEW p \in Procs, pc'[p] = "dlopen", pc[p] # "dlopen"
               PROVE  image[p] = "clean"
    OBVIOUS
  <2>1. Moved(p) /\ tracees[p].home # "dlopen"
    BY StepsMove DEF IndInv, TypeOK, Tracee, Places
  <2>2. ~ReturnFromCall(p)
    BY <2>1 DEF ReturnFromCall, Trap, IndInv, TypeOK
  <2>3. QED
    BY <2>1, <2>2 DEF Moved
<1>2. QED
  BY <1>1, Invariance, CallsInvariance, PTL DEF Spec, LoadedOnce

(* While the daemon is up a call it has injected ends by returning to the   *)
(* breakpoint, with the process, or because a SIGTRAP that something else   *)
(* has raised in it is taken for its return.                                *)
THEOREM CallsAreNotCutShort == Spec => CallsComplete
<1>1. IndInv /\ AttemptInv /\ [Next]_vars =>
        [phase = "up" =>
           \A p \in Procs : pc[p] \in Calls /\ pc'[p] # pc[p]
                              => \/ stop'[p] = "trap"
                                 \/ task[p] = "trap" /\ regs[p] = "call"
                                 \/ pc'[p] = "dead"]_vars
  <2> SUFFICES ASSUME IndInv, AttemptInv, [Next]_vars, phase = "up",
                      NEW p \in Procs, pc[p] \in Calls, pc'[p] # pc[p], pc'[p] # "dead"
               PROVE  stop'[p] = "trap" \/ (task[p] = "trap" /\ regs[p] = "call")
    OBVIOUS
  <2>1. ReturnFromCall(p) \/ task[p] = "trap"
    BY StepsMove DEF Moved
  <2>2. TypeOK /\ ProcessInv(p) /\ AttemptOk(p) /\ Alive(p)
    BY DEF IndInv, AttemptInv, Alive, Calls
  <2>3. tracees[p].state \in Injecting \ {"Entry"} /\ Ours(p)
    BY <2>2 DEF ProcessInv, Intact, EntryArmed, TypeOK, Tracee, States
  <2>4. tracees[p].home \in bp[p] /\ regs[p] = "call"
    BY <2>2, <2>3 DEF AttemptOk, UnderWay, InCall
  <2>5. CASE ReturnFromCall(p)
    BY <2>2, <2>3, <2>4, <2>5 DEF ReturnFromCall, Trap, TypeOK
  <2>6. QED
    BY <2>1, <2>4, <2>5
<1>2. QED
  BY <1>1, Invariance, CallsInvariance, PTL DEF Spec, CallsComplete

(* A success is recorded by the handler of the last trap only.              *)
LEMMA SuccessAfterInit ==
  ASSUME IndInv, AttemptInv, [Next]_vars, NEW p \in Procs,
         outcome'[p] = "success", outcome[p] # "success"
  PROVE  image[p] = "inited" \/ (regs[p] = "call" /\ tracees[p].state = "Init")
<1>1. TypeOK
  BY DEF IndInv
<1>2. ASSUME NEW q \in Procs, UNCHANGED outcome \/ Record(q, "failure")
      PROVE  FALSE
  BY <1>1, <1>2 DEF TypeOK, Record
<1>3. ASSUME NEW q \in Procs, ProcessStep(q) \/ Environment(q)
      PROVE  FALSE
  BY <1>3 DEF ProcessStep, Environment, Link, EnterProgram, ReturnFromCall, ForkByInit, Fork, Exec,
              Signal, StrayTrap, Interrupted, Die, daemonVars
<1>4. ASSUME NEW q \in Procs, EndWait(q)
      PROVE  FALSE
  BY <1>2, <1>4 DEF EndWait, SeizedStopped, ArmEntry, InjectLate, SeizeTimeout, ExpireStopped,
                    ExpireTimeout, ReleaseStopped, ReleaseTimeout
<1>5. ASSUME NEW q \in Procs, HandleEvent(q), ~TrapAfterInit(q)
      PROVE  FALSE
  <2>1. UNCHANGED outcome \/ Record(q, "failure")
    BY <1>5 DEF HandleEvent, HandleExit, HandleExiting, HandleSignal, HandleExec, HandleOtherTrap,
                TrapAtEntry, TrapFile, TrapAfterDlopen, TrapAfterDlsym, TrapAfterDlerror,
                PumpModules, GiveUp, Call
  <2>2. QED
    BY <1>2, <2>1
<1>6. ASSUME NEW q \in Procs, TrapAfterInit(q)
      PROVE  image[p] = "inited" \/ (regs[p] = "call" /\ tracees[p].state = "Init")
  <2>1. p = q
    BY <1>1, <1>6 DEF TypeOK, TrapAfterInit, Record
  <2>2. QED
    BY <1>6, <2>1 DEF AttemptInv, AttemptOk, TrapAfterInit
<1>7. ASSUME NEW q \in Procs, DaemonStep(q)
      PROVE  image[p] = "inited" \/ (regs[p] = "call" /\ tracees[p].state = "Init")
  <2>1. CASE \/ Reap(q) \/ HandleFork(q) \/ SkipTarget(q) \/ ForgetDone(q) \/ Expire(q)
             \/ ReleaseBegin(q) \/ \E late \in BOOLEAN : Seize(q, late)
    BY <2>1 DEF Reap, HandleFork, SkipTarget, ForgetDone, Expire, ReleaseBegin, Seize
  <2>2. QED
    BY <1>4, <1>5, <1>6, <1>7, <2>1 DEF DaemonStep
<1>8. CASE HandOverInit \/ Sigterm \/ DaemonExit \/ UNCHANGED vars
  BY <1>8 DEF HandOverInit, Sigterm, DaemonExit, vars, kernelVars
<1>9. QED
  BY <1>3, <1>7, <1>8 DEF Next

(* A success is recorded when the call of the initialisation has come back  *)
(* or a SIGTRAP has stopped the process in it, and at no other time, also    *)
(* when the process dies while the trap is handled.                          *)
THEOREM SuccessIsInit == Spec => SuccessMeansInit
<1>1. IndInv /\ AttemptInv /\ [Next]_vars =>
        [\A p \in Procs :
           outcome'[p] = "success" /\ outcome[p] # "success"
             => \/ image[p] = "inited"
                \/ (regs[p] = "call" /\ tracees[p].state = "Init")]_vars
  BY SuccessAfterInit
<1>2. QED
  BY <1>1, Invariance, CallsInvariance, PTL DEF Spec, SuccessMeansInit

=============================================================================
