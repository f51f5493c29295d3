----------------------------- MODULE Injection -----------------------------
(***************************************************************************)
(* The injection of the loader image into target processes with ptrace:   *)
(* injector/src/trace.rs (the state machine of a tracee) and the part of  *)
(* injector/src/mode.rs that seizes, expires and releases tracees.         *)
(*                                                                         *)
(* The daemon is one thread.  It collects one stop of one tracee with      *)
(* waitpid and handles it before it looks at the next; between the         *)
(* collection and the handler, and in every bounded wait for a stop, the   *)
(* other processes run and any process can be killed.  A handler is one    *)
(* step: what the death of its tracee in the middle of it does is what the *)
(* death before its first read of the registers, or after its last ptrace  *)
(* request, does.                                                          *)
(*                                                                         *)
(* The kernel's side (what a process executes, its text at the place of    *)
(* the breakpoint, who traces it, its pending stop) is external.  A        *)
(* process has one place where a breakpoint can be: the entry point of its *)
(* image ("entry"), or, when it is injected late, the instruction it was   *)
(* stopped at ("main").                                                    *)
(***************************************************************************)
EXTENDS Naturals

CONSTANTS
  Procs,       \* the process ids of the processes a module may target
  Services,    \* the ones init starts; the others are forks of a program
  MaxModules,  \* the most module libraries handed to one process
  X86,         \* a breakpoint reports the instruction after it (x86, x86_64)
  Disturbances \* what may disturb the injection in this instance

ASSUME InjectionAssumption ==
  /\ Services \subseteq Procs
  /\ MaxModules \in Nat
  /\ X86 \in BOOLEAN
  /\ Disturbances \subseteq {"signal", "trap", "timeout", "sigterm", "forget"}

VARIABLES
  pc,          \* what the process executes
  regs,        \* its "own" registers, those of a "call", or the call's result
  bp,          \* the places of the process's text that hold a breakpoint
  tracer,      \* "seized" with no options, or "followed" because init is
  stop,        \* "run", "held" (stopped and collected) or a stop to collect
  intr,        \* a PTRACE_INTERRUPT that has not stopped the process yet
  image,       \* the loader in the process; "inited" when the call of what dlsym
               \* gave for znn_loader_init has come back
  target,      \* a module targets the executable of the process
  newborn,     \* the fork event of init for this child is not collected yet
  initTraced,  \* init is seized: tracking mode ptrace
  tracees,     \* Daemon::tracees
  done,        \* Daemon::done
  outcome,     \* what record_success or record_failure said last
  task,        \* what the daemon does about the process at the moment
  phase        \* the life of the daemon

kernelVars == <<pc, regs, bp, tracer, stop, intr, image, target, newborn>>
daemonVars == <<initTraced, tracees, done, outcome, task, phase>>
vars == <<pc, regs, bp, tracer, stop, intr, image, target, newborn,
          initTraced, tracees, done, outcome, task, phase>>

Places   == {"entry", "main"}
Calls    == {"memfd", "dlopen", "dlsym", "dlerror", "init"}
Results  == {"ok", "fail"}
Counters == {"absent", "forked", "linker", "past", "dead"} \cup Places \cup Calls
Tracers  == {"none", "seized", "followed"}
Reports  == {"trap", "exec", "interrupt", "signal", "exiting", "exit"}
Waits    == {"seize", "seizeLate", "expire", "release"}
Injecting == {"Entry", "File", "Dlopen", "Dlsym", "Init", "Dlerror"}
States   == {"none", "Traced"} \cup Injecting

(* The fields of a Tracee that the control depends on: `saved` is the      *)
(* program counter of the saved registers, `original` what the place of    *)
(* the breakpoint held when it was armed ("unset": breakpoint_size is 0),  *)
(* `timed` is deadline_ms # 0, `left` counts the modules not handed over.  *)
Tracee == [state : States, home : Places, original : {"unset", "code", "breakpoint"},
           saved : Places \cup {"linker"}, purpose : {"Loader", "Module"},
           left : 0 .. MaxModules, timed : BOOLEAN]

NewTracee(s) == [state |-> s, home |-> "entry", original |-> "unset", saved |-> "entry",
                 purpose |-> "Loader", left |-> 0, timed |-> FALSE]

Untracked == NewTracee("none")

TypeOK ==
  /\ pc \in [Procs -> Counters]
  /\ regs \in [Procs -> {"own", "call"} \cup Results]
  /\ bp \in [Procs -> SUBSET Places]
  /\ tracer \in [Procs -> Tracers]
  /\ stop \in [Procs -> {"run", "held"} \cup Reports]
  /\ intr \in [Procs -> BOOLEAN]
  /\ image \in [Procs -> {"clean", "loaded", "inited", "inherited"}]
  /\ target \in [Procs -> BOOLEAN]
  /\ newborn \in [Procs -> BOOLEAN]
  /\ initTraced \in BOOLEAN
  /\ tracees \in [Procs -> Tracee]
  /\ done \subseteq Procs
  /\ outcome \in [Procs -> {"none", "success", "failure"}]
  /\ task \in [Procs -> {"none"} \cup Reports \cup Waits]
  /\ phase \in {"up", "stopping", "down"}

Init ==
  /\ pc = [p \in Procs |-> "absent"]
  /\ regs = [p \in Procs |-> "own"]
  /\ bp = [p \in Procs |-> {}]
  /\ tracer = [p \in Procs |-> "none"]
  /\ stop = [p \in Procs |-> "run"]
  /\ intr = [p \in Procs |-> FALSE]
  /\ image = [p \in Procs |-> "clean"]
  /\ target = [p \in Procs |-> FALSE]
  /\ newborn = [p \in Procs |-> FALSE]
  /\ initTraced \in BOOLEAN
  /\ tracees = [p \in Procs |-> Untracked]
  /\ done = {}
  /\ outcome = [p \in Procs |-> "none"]
  /\ task = [p \in Procs |-> "none"]
  /\ phase = "up"

Alive(p)   == pc[p] \notin {"absent", "dead"}
Ours(p)    == tracer[p] # "none"
Running(p) == Alive(p) /\ stop[p] = "run"
Idle       == \A p \in Procs : task[p] = "none"

-----------------------------------------------------------------------------
(***************************************************************************)
(* The processes and the kernel (external).                                *)
(***************************************************************************)

(* init forks a service.  While init is traced, TRACEFORK attaches the     *)
(* child, which stops once before it runs, and reports the fork event of   *)
(* init, which stays stopped until that event is handled.                  *)
ForkByInit(p) ==
  /\ p \in Services
  /\ pc[p] = "absent"
  /\ \A q \in Procs : ~newborn[q]
  /\ pc' = [pc EXCEPT ![p] = "forked"]
  /\ IF initTraced /\ phase # "down"
       THEN /\ tracer' = [tracer EXCEPT ![p] = "followed"]
            /\ stop' = [stop EXCEPT ![p] = "interrupt"]
            /\ newborn' = [newborn EXCEPT ![p] = TRUE]
       ELSE UNCHANGED <<tracer, stop, newborn>>
  /\ UNCHANGED <<regs, bp, intr, image, target, daemonVars>>

(* A running program forks: the child starts with a copy of the memory,    *)
(* the loader image and the breakpoints in it, and is not traced, because  *)
(* seize_and_stop asks for no options.                                     *)
Fork(p, q) ==
  /\ pc[p] = "main" /\ Running(p) /\ regs[p] = "own" /\ tracer[p] # "followed"
  /\ pc[q] = "absent"
  /\ pc' = [pc EXCEPT ![q] = "main"]
  /\ bp' = [bp EXCEPT ![q] = bp[p]]
  /\ target' = [target EXCEPT ![q] = target[p]]
  /\ image' = [image EXCEPT ![q] = IF image[p] = "clean" THEN "clean" ELSE "inherited"]
  /\ UNCHANGED <<regs, tracer, stop, intr, newborn, daemonVars>>

(* execve: a new image without breakpoints and without the loader; only a  *)
(* followed process reports it (TRACEEXEC).                                *)
Exec(p) ==
  /\ pc[p] \in {"forked", "main"} /\ Running(p) /\ regs[p] = "own"
  /\ pc' = [pc EXCEPT ![p] = "linker"]
  /\ bp' = [bp EXCEPT ![p] = {}]
  /\ image' = [image EXCEPT ![p] = "clean"]
  /\ target' \in {[target EXCEPT ![p] = b] : b \in BOOLEAN}
  /\ stop' = [stop EXCEPT ![p] = IF tracer[p] = "followed" THEN "exec" ELSE @]
  /\ UNCHANGED <<regs, tracer, intr, newborn, daemonVars>>

(* The dynamic linker is done and jumps to the entry point.                *)
Link(p) ==
  /\ pc[p] = "linker" /\ Running(p)
  /\ pc' = [pc EXCEPT ![p] = "entry"]
  /\ UNCHANGED <<regs, bp, tracer, stop, intr, image, target, newborn, daemonVars>>

(* A process executes the breakpoint at place h: a traced process stops    *)
(* and reports it, an untraced one is killed by SIGTRAP.                   *)
Trap(p, h) ==
  IF Ours(p)
    THEN /\ pc' = [pc EXCEPT ![p] = IF X86 THEN "past" ELSE h]
         /\ stop' = [stop EXCEPT ![p] = "trap"]
    ELSE /\ pc' = [pc EXCEPT ![p] = "dead"]
         /\ UNCHANGED stop

(* The process executes its entry point.                                   *)
EnterProgram(p) ==
  /\ pc[p] = "entry" /\ Running(p) /\ regs[p] = "own"
  /\ IF "entry" \in bp[p]
       THEN Trap(p, "entry")
       ELSE pc' = [pc EXCEPT ![p] = "main"] /\ UNCHANGED stop
  /\ UNCHANGED <<regs, bp, tracer, intr, image, target, newborn, daemonVars>>

(* An injected call returns, to the breakpoint the tracee was given as the *)
(* return address.  dlopen may refuse the image and dlsym may find nothing.*)
ReturnFromCall(p) ==
  /\ pc[p] \in Calls /\ Running(p)
  /\ \E r \in Results :
       /\ pc[p] \in {"dlerror", "init"} => r = "ok"
       /\ regs' = [regs EXCEPT ![p] = r]
       /\ image' = [image EXCEPT ![p] =
                      CASE pc[p] = "dlopen" /\ r = "ok" -> "loaded"
                        [] pc[p] = "init"               -> "inited"
                        [] OTHER                        -> @]
  /\ IF tracees[p].home \in bp[p]
       THEN Trap(p, tracees[p].home)
       ELSE pc' = [pc EXCEPT ![p] = tracees[p].home] /\ UNCHANGED stop
  /\ UNCHANGED <<bp, tracer, intr, target, newborn, daemonVars>>

(* A signal for a traced process, in an injected call as well; not a        *)
(* real-time signal, whose stop waitpid of nix reports as an error.         *)
Signal(p) ==
  /\ "signal" \in Disturbances
  /\ Running(p) /\ Ours(p)
  /\ stop' = [stop EXCEPT ![p] = "signal"]
  /\ UNCHANGED <<pc, regs, bp, tracer, intr, image, target, newborn, daemonVars>>

(* A SIGTRAP that the breakpoint has not raised, in the code of the process *)
(* or in an injected call; dlopen may have mapped the loader by then.  At   *)
(* the entry point itself there is none.                                    *)
StrayTrap(p) ==
  /\ "trap" \in Disturbances
  /\ Running(p) /\ Ours(p)
  /\ \/ regs[p] = "own" /\ pc[p] \in {"forked", "linker", "main"} /\ UNCHANGED image
     \/ regs[p] = "call" /\ pc[p] \in Calls /\ UNCHANGED image
     \/ regs[p] = "call" /\ pc[p] = "dlopen" /\ image' = [image EXCEPT ![p] = "loaded"]
  /\ stop' = [stop EXCEPT ![p] = "trap"]
  /\ UNCHANGED <<pc, regs, bp, tracer, intr, target, newborn, daemonVars>>

(* PTRACE_INTERRUPT takes effect.                                          *)
Interrupted(p) ==
  /\ Running(p) /\ intr[p]
  /\ intr' = [intr EXCEPT ![p] = FALSE]
  /\ stop' = [stop EXCEPT ![p] = "interrupt"]
  /\ UNCHANGED <<pc, regs, bp, tracer, image, target, newborn, daemonVars>>

(* The process is killed, or exits.  A followed one may report that it is  *)
(* exiting first (TRACEEXIT); a stop not collected yet is lost.            *)
Die(p) ==
  /\ Alive(p)
  /\ pc' = [pc EXCEPT ![p] = "dead"]
  /\ \E r \in {"exiting", "exit"} :
       /\ r = "exiting" => tracer[p] = "followed"
       /\ stop' = [stop EXCEPT ![p] = IF Ours(p) THEN r ELSE "run"]
  /\ bp' = [bp EXCEPT ![p] = {}]
  /\ intr' = [intr EXCEPT ![p] = FALSE]
  /\ UNCHANGED <<regs, tracer, image, target, newborn, daemonVars>>

-----------------------------------------------------------------------------
(***************************************************************************)
(* The requests of the daemon.  On a dead process each of them fails and   *)
(* leaves everything as it is.                                             *)
(***************************************************************************)

Cont(p) ==
  stop' = [stop EXCEPT ![p] = CASE Alive(p)                        -> "run"
                                [] ~Alive(p) /\ task[p] = "exiting" -> "exit"
                                [] OTHER                            -> @]

(* A process that is not stopped cannot be detached from.                  *)
Detach(p) ==
  IF Alive(p) /\ stop[p] = "held"
    THEN /\ tracer' = [tracer EXCEPT ![p] = "none"]
         /\ stop' = [stop EXCEPT ![p] = "run"]
         /\ intr' = [intr EXCEPT ![p] = FALSE]
    ELSE UNCHANGED <<tracer, stop, intr>>

(* Mutant: the saved bytes are never written back.                         *)
RestoredTextUnwritten(p) == bp[p]

(* restore_entry: only a tracee with an armed breakpoint has bytes to put  *)
(* back, and it puts back what was there.  That it writes to an image which *)
(* an unreported exec has brought since is left out.                        *)
RestoredText(p) ==
  IF tracees[p].original = "code" THEN bp[p] \ {tracees[p].home} ELSE bp[p]

RestoreEntry(p) == bp' = [bp EXCEPT ![p] = IF Alive(p) THEN RestoredText(p) ELSE @]

(* Mutant: the program counter stays after the breakpoint.                 *)
UnskippedNot(p) == pc[p]

(* unskip_entry_instruction: x86 reports the instruction after.            *)
Unskipped(p) ==
  IF X86 /\ pc[p] = "past" THEN tracees[p].home ELSE pc[p]

(* release_tracee *)
ReleaseTracee(p) ==
  /\ RestoreEntry(p)
  /\ CASE ~Alive(p)                    -> UNCHANGED <<pc, regs>>
       [] Alive(p) /\ tracees[p].state = "Entry" ->
            pc' = [pc EXCEPT ![p] = Unskipped(p)] /\ UNCHANGED regs
       [] OTHER ->
            /\ pc' = [pc EXCEPT ![p] = tracees[p].saved]
            /\ regs' = [regs EXCEPT ![p] = "own"]

Forget(p) == tracees' = [tracees EXCEPT ![p] = Untracked]

Record(p, what) == outcome' = [outcome EXCEPT ![p] = what]

(* undo: release the tracee and detach from it.                            *)
Undo(p) == ReleaseTracee(p) /\ Detach(p) /\ Forget(p)

GiveUp(p) == Undo(p) /\ Record(p, "failure")

(* setup_call, write_registers and cont: the process runs f and comes back *)
(* to the breakpoint.                                                      *)
Call(p, f, tracee) ==
  /\ pc' = [pc EXCEPT ![p] = f]
  /\ regs' = [regs EXCEPT ![p] = "call"]
  /\ tracees' = [tracees EXCEPT ![p] = tracee]
  /\ Cont(p)
  /\ UNCHANGED <<bp, tracer, intr, outcome>>

(* set_entry_breakpoint at place h, into the record of the tracee.         *)
Armed(p, tracee, h) ==
  [tracee EXCEPT !.home = h,
                 !.original = IF h \in bp[p] THEN "breakpoint" ELSE "code"]

Arm(p, h) == bp' = [bp EXCEPT ![p] = @ \cup {h}]

(* What no handler of a stop changes, and the return to the main loop.     *)
EndHandler(p) ==
  /\ task' = [task EXCEPT ![p] = "none"]
  /\ UNCHANGED <<image, target, newborn, initTraced, phase>>

-----------------------------------------------------------------------------
(***************************************************************************)
(* reap_traces and handle_event.                                           *)
(***************************************************************************)

Reap(p) ==
  /\ phase = "up" /\ Idle
  /\ Ours(p) /\ stop[p] \in Reports
  /\ task' = [task EXCEPT ![p] = stop[p]]
  /\ stop' = [stop EXCEPT ![p] = IF @ = "exit" THEN "run" ELSE "held"]
  /\ tracer' = [tracer EXCEPT ![p] = IF stop[p] = "exit" THEN "none" ELSE @]
  /\ UNCHANGED <<pc, regs, bp, intr, image, target, newborn,
                 initTraced, tracees, done, outcome, phase>>

(* The fork event of init: attach_child keeps an entry that exists.        *)
HandleFork(p) ==
  /\ phase = "up" /\ Idle /\ newborn[p]
  /\ newborn' = [newborn EXCEPT ![p] = FALSE]
  /\ tracees' = [tracees EXCEPT ![p] = IF @.state = "none" THEN NewTracee("Traced") ELSE @]
  /\ UNCHANGED <<pc, regs, bp, tracer, stop, intr, image, target,
                 initTraced, done, outcome, task, phase>>

HandleExit(p) ==
  /\ task[p] = "exit"
  /\ Forget(p)
  /\ EndHandler(p)
  /\ UNCHANGED <<pc, regs, bp, tracer, stop, intr, done, outcome>>

HandleExiting(p) ==
  /\ task[p] = "exiting"
  /\ Forget(p) /\ Cont(p)
  /\ EndHandler(p)
  /\ UNCHANGED <<pc, regs, bp, tracer, intr, done, outcome>>

(* An interrupt stop and any other signal let the process continue.        *)
HandleSignal(p) ==
  /\ task[p] \in {"interrupt", "signal"}
  /\ Cont(p)
  /\ EndHandler(p)
  /\ UNCHANGED <<pc, regs, bp, tracer, intr, tracees, done, outcome>>

(* handle_exec and arm_entry_breakpoint: a process that is not in the map, *)
(* is no target, or cannot be armed is detached from.                      *)
HandleExec(p) ==
  /\ task[p] = "exec"
  /\ \/ /\ tracees[p].state # "none" /\ target[p] /\ Alive(p)
        /\ Arm(p, "entry")
        /\ tracees' = [tracees EXCEPT ![p] =
                         Armed(p, [@ EXCEPT !.state = "Entry", !.timed = FALSE], "entry")]
        /\ Cont(p)
        /\ UNCHANGED <<tracer, intr>>
     \/ Detach(p) /\ Forget(p) /\ UNCHANGED bp
  /\ EndHandler(p)
  /\ UNCHANGED <<pc, regs, done, outcome>>

(* A SIGTRAP of a process that is not in the map, or that is only Traced.  *)
HandleOtherTrap(p) ==
  /\ task[p] = "trap" /\ tracees[p].state \in {"none", "Traced"}
  /\ Cont(p)
  /\ EndHandler(p)
  /\ UNCHANGED <<pc, regs, bp, tracer, intr, tracees, done, outcome>>

(* start_file(Loader) from the registers of the entry trap.                *)
LoaderFile(p) ==
  [tracees[p] EXCEPT !.state = "File", !.purpose = "Loader", !.saved = tracees[p].home]

(* trap_at_entry: a trap that is not the breakpoint ends the injection     *)
(* without touching the registers.                                         *)
TrapAtEntry(p) ==
  /\ task[p] = "trap" /\ tracees[p].state = "Entry"
  /\ LET atEntry == pc[p] = IF X86 THEN "past" ELSE "entry" IN
     \/ atEntry /\ Call(p, "memfd", LoaderFile(p))
     \/ atEntry /\ Undo(p) /\ UNCHANGED outcome
     \/ /\ ~atEntry
        /\ RestoreEntry(p) /\ Detach(p) /\ Forget(p)
        /\ UNCHANGED <<pc, regs, outcome>>
  /\ EndHandler(p)
  /\ UNCHANGED done

(* Mutant: a success once the last module is there, before the loader ran. *)
PumpModulesWithoutInit(p, n) ==
  \/ GiveUp(p)
  \/ /\ Alive(p)
     /\ IF n = 0
          THEN Undo(p) /\ Record(p, "success")
          ELSE Call(p, "memfd", [tracees[p] EXCEPT !.state = "File", !.purpose = "Module",
                                                   !.left = n])

(* pump_modules with n module files left; finish_injection after the last. *)
PumpModules(p, n) ==
  \/ GiveUp(p)
  \/ /\ Alive(p)
     /\ IF n = 0
          THEN Call(p, "init", [tracees[p] EXCEPT !.state = "Init", !.left = 0])
          ELSE Call(p, "memfd", [tracees[p] EXCEPT !.state = "File", !.purpose = "Module",
                                                   !.left = n])

(* trap_file, file_ready and start_dlopen.  Like the handlers below it takes *)
(* any SIGTRAP for the return of the call: what the registers of a process  *)
(* still in the call say may be either result.                              *)
TrapFile(p) ==
  /\ task[p] = "trap" /\ tracees[p].state = "File"
  /\ \/ GiveUp(p)
     \/ /\ Alive(p) /\ regs[p] # "fail"
        /\ IF tracees[p].purpose = "Loader"
             THEN Call(p, "dlopen", [tracees[p] EXCEPT !.state = "Dlopen"])
             ELSE PumpModules(p, tracees[p].left - 1)
  /\ EndHandler(p)
  /\ UNCHANGED done

(* trap_after_dlopen: a dead process, and a dlsym call that cannot be set  *)
(* up, leave no record.                                                    *)
TrapAfterDlopen(p) ==
  /\ task[p] = "trap" /\ tracees[p].state = "Dlopen"
  /\ \/ ~Alive(p) /\ Undo(p) /\ UNCHANGED outcome
     \/ Alive(p) /\ GiveUp(p)
     \/ Alive(p) /\ regs[p] # "fail" /\ Undo(p) /\ UNCHANGED outcome
     \/ /\ Alive(p) /\ regs[p] # "fail"
        /\ Call(p, "dlsym", [tracees[p] EXCEPT !.state = "Dlsym"])
     \/ /\ Alive(p) /\ regs[p] # "ok"
        /\ Call(p, "dlerror", [tracees[p] EXCEPT !.state = "Dlerror"])
  /\ EndHandler(p)
  /\ UNCHANGED done

(* trap_after_dlsym: libraries_for gives the libraries to hand over.       *)
TrapAfterDlsym(p) ==
  /\ task[p] = "trap" /\ tracees[p].state = "Dlsym"
  /\ \/ ~Alive(p) /\ Undo(p) /\ UNCHANGED outcome
     \/ Alive(p) /\ GiveUp(p)
     \/ /\ Alive(p) /\ regs[p] # "fail"
        /\ \E n \in 1 .. MaxModules : PumpModules(p, n)
  /\ EndHandler(p)
  /\ UNCHANGED done

TrapAfterDlerror(p) ==
  /\ task[p] = "trap" /\ tracees[p].state = "Dlerror"
  /\ \/ ~Alive(p) /\ Undo(p) /\ UNCHANGED outcome
     \/ Alive(p) /\ GiveUp(p)
  /\ EndHandler(p)
  /\ UNCHANGED done

(* Mutant: the result of the initialisation is not recorded.               *)
TrapAfterInitUnrecorded(p) ==
  /\ task[p] = "trap" /\ tracees[p].state = "Init"
  /\ Undo(p)
  /\ EndHandler(p)
  /\ UNCHANGED <<done, outcome>>

TrapAfterInit(p) ==
  /\ task[p] = "trap" /\ tracees[p].state = "Init"
  /\ Record(p, "success")
  /\ Undo(p)
  /\ EndHandler(p)
  /\ UNCHANGED done

-----------------------------------------------------------------------------
(***************************************************************************)
(* observe_target: taking a process that already runs.                     *)
(***************************************************************************)

Observable(p) ==
  /\ phase = "up" /\ Idle /\ ~initTraced
  /\ pc[p] \in {"linker", "entry", "main"} /\ target[p]
  /\ tracees[p].state = "none" /\ p \notin done

(* Mutant: the maps are not searched for the loader.                       *)
SeizeBlindly(p, late) ==
  /\ Observable(p)
  /\ ~Ours(p)
  /\ tracer' = [tracer EXCEPT ![p] = "seized"]
  /\ intr' = [intr EXCEPT ![p] = TRUE]
  /\ task' = [task EXCEPT ![p] = IF late THEN "seizeLate" ELSE "seize"]
  /\ UNCHANGED <<pc, regs, bp, stop, image, target, newborn,
                 initTraced, tracees, done, outcome, phase>>

(* seize_and_stop: PTRACE_SEIZE with no options, then PTRACE_INTERRUPT.    *)
(* A process that is already traced answers EPERM, and is left for later.  *)
Seize(p, late) ==
  /\ Observable(p)
  /\ image[p] = "clean" /\ ~Ours(p)
  /\ tracer' = [tracer EXCEPT ![p] = "seized"]
  /\ intr' = [intr EXCEPT ![p] = TRUE]
  /\ task' = [task EXCEPT ![p] = IF late THEN "seizeLate" ELSE "seize"]
  /\ UNCHANGED <<pc, regs, bp, stop, image, target, newborn,
                 initTraced, tracees, done, outcome, phase>>

(* The maps show the loader (the fork of an injected process), or the      *)
(* executable cannot be used.                                              *)
SkipTarget(p) ==
  /\ Observable(p)
  /\ done' = done \cup {p}
  /\ UNCHANGED <<kernelVars, initTraced, tracees, outcome, task, phase>>

(* wait_for_stop returned: any stop ends the wait, and is consumed.        *)
(* A dead process has been reaped by this very wait.                       *)
Waited(p, wait) == task[p] = wait /\ stop[p] \in Reports

(* The process is stopped; give it up, with or without a record.           *)
RefuseSeized(p) ==
  /\ tracer' = [tracer EXCEPT ![p] = "none"]
  /\ stop' = [stop EXCEPT ![p] = "run"]
  /\ intr' = [intr EXCEPT ![p] = FALSE]
  /\ UNCHANGED <<pc, regs, bp, tracees>>

(* Mutant: no deadline for the breakpoint.                                 *)
ArmEntryForever(p) ==
  /\ Arm(p, "entry")
  /\ tracees' = [tracees EXCEPT ![p] = Armed(p, NewTracee("Entry"), "entry")]
  /\ stop' = [stop EXCEPT ![p] = "run"]
  /\ UNCHANGED <<pc, regs, tracer, intr, outcome>>

(* arm_entry_injection: the breakpoint at the entry point, with a deadline. *)
(* The entry point is taken to be that of the image the process still has.  *)
ArmEntry(p) ==
  /\ Arm(p, "entry")
  /\ tracees' = [tracees EXCEPT ![p] =
                   Armed(p, [NewTracee("Entry") EXCEPT !.timed = TRUE], "entry")]
  /\ stop' = [stop EXCEPT ![p] = "run"]
  /\ UNCHANGED <<pc, regs, tracer, intr, outcome>>

(* seize_late_target past the entry point: a breakpoint where the process  *)
(* is, and trap_at_late at once.  If the call cannot be set up the process *)
(* is released as it was.                                                  *)
InjectLate(p) ==
  /\ Arm(p, pc[p])
  /\ tracees' = [tracees EXCEPT ![p] =
                   Armed(p, [NewTracee("File") EXCEPT !.saved = pc[p]], pc[p])]
  /\ pc' = [pc EXCEPT ![p] = "memfd"]
  /\ regs' = [regs EXCEPT ![p] = "call"]
  /\ stop' = [stop EXCEPT ![p] = "run"]
  /\ UNCHANGED <<tracer, intr, outcome>>

(* pc_in_exe_text: the linker is another mapping, the entry point is in    *)
(* the text, and a running program is there or in one of its libraries.    *)
InExeText(p) == {b \in BOOLEAN : /\ pc[p] = "linker" => ~b
                                 /\ pc[p] = "entry" => b}

(* seize_target and seize_late_target after the wait.                      *)
SeizedStopped(p) ==
  /\ \/ Waited(p, "seize")
     \/ Waited(p, "seizeLate")
  /\ done' = done \cup {p}
  /\ \/ /\ ~Alive(p)
        /\ RefuseSeized(p) /\ UNCHANGED outcome
     \/ /\ Alive(p)
        /\ RefuseSeized(p) /\ UNCHANGED outcome
     \/ /\ Alive(p) /\ TRUE \in InExeText(p)
        /\ RefuseSeized(p) /\ Record(p, "failure")
     \/ /\ Alive(p) /\ FALSE \in InExeText(p)
        /\ ArmEntry(p)
     \/ /\ Alive(p) /\ TRUE \in InExeText(p) /\ task[p] = "seizeLate"
        /\ InjectLate(p)
  /\ EndHandler(p)

(* wait_for_stop timed out, or the process was dead before it could be     *)
(* interrupted.                                                            *)
NoStop(p) ==
  \/ "timeout" \in Disturbances /\ stop[p] = "run"
  \/ stop[p] = "exit"

(* The detach fails, because the process runs, and the process stays       *)
(* seized without an entry in the map.                                     *)
SeizeTimeout(p) ==
  /\ task[p] \in {"seize", "seizeLate"} /\ NoStop(p)
  /\ done' = done \cup {p}
  /\ Detach(p)
  /\ EndHandler(p)
  /\ UNCHANGED <<pc, regs, bp, tracees, outcome>>

(* A bookkeeping event, such as the exit of the first thread, takes the    *)
(* process out of `done` while it lives.                                   *)
ForgetDone(p) ==
  /\ "forget" \in Disturbances
  /\ phase = "up" /\ Idle /\ p \in done
  /\ done' = done \ {p}
  /\ UNCHANGED <<kernelVars, initTraced, tracees, outcome, task, phase>>

-----------------------------------------------------------------------------
(***************************************************************************)
(* expire_pending, hand_over_init and the shutdown.                        *)
(***************************************************************************)

(* stop_tracee: interrupt the process and wait for a stop.                 *)
StopTracee(p, wait) ==
  /\ task' = [task EXCEPT ![p] = wait]
  /\ intr' = [intr EXCEPT ![p] = Alive(p)]

(* Mutant: the deadline also ends an injection that is under way.          *)
ExpireAny(p) ==
  /\ phase = "up" /\ Idle
  /\ tracees[p].state \in Injecting /\ tracees[p].timed
  /\ StopTracee(p, "expire")
  /\ UNCHANGED <<pc, regs, bp, tracer, stop, image, target, newborn,
                 initTraced, tracees, done, outcome, phase>>

Expire(p) ==
  /\ phase = "up" /\ Idle
  /\ tracees[p].state = "Entry" /\ tracees[p].timed
  /\ StopTracee(p, "expire")
  /\ UNCHANGED <<pc, regs, bp, tracer, stop, image, target, newborn,
                 initTraced, tracees, done, outcome, phase>>

(* The process is let go as it was and detached from: release_tracee, then *)
(* detach, of a process whose stop this wait has consumed.                 *)
LetGo(p) ==
  /\ ReleaseTracee(p)
  /\ tracer' = [tracer EXCEPT ![p] = "none"]
  /\ stop' = [stop EXCEPT ![p] = "run"]
  /\ intr' = [intr EXCEPT ![p] = FALSE]
  /\ Forget(p)

(* Mutant: the tracee is put back into the map, as after a timeout.        *)
ExpireStoppedKept(p) ==
  /\ Waited(p, "expire")
  /\ ReleaseTracee(p)
  /\ tracer' = [tracer EXCEPT ![p] = "none"]
  /\ stop' = [stop EXCEPT ![p] = "run"]
  /\ intr' = [intr EXCEPT ![p] = FALSE]
  /\ done' = done \cup {p}
  /\ EndHandler(p)
  /\ UNCHANGED <<tracees, outcome>>

ExpireStopped(p) ==
  /\ Waited(p, "expire")
  /\ LetGo(p)
  /\ done' = done \cup {p}
  /\ EndHandler(p)
  /\ UNCHANGED outcome

(* The tracee goes back into the map with a later deadline.                *)
ExpireTimeout(p) ==
  /\ task[p] = "expire" /\ NoStop(p)
  /\ EndHandler(p)
  /\ UNCHANGED <<pc, regs, bp, tracer, stop, intr, tracees, done, outcome>>

(* hand_over_init: the stop that ends the wait may be the fork event of    *)
(* init, which nobody handles then.                                        *)
HandOverInit ==
  /\ phase = "up" /\ Idle /\ initTraced
  /\ initTraced' = FALSE
  /\ newborn' = [p \in Procs |-> FALSE]
  /\ UNCHANGED <<pc, regs, bp, tracer, stop, intr, image, target,
                 tracees, done, outcome, task, phase>>

(* SIGTERM: the main loop stops handling events and releases the tracees.  *)
Sigterm ==
  /\ "sigterm" \in Disturbances
  /\ phase = "up" /\ Idle
  /\ phase' = "stopping"
  /\ UNCHANGED <<kernelVars, initTraced, tracees, done, outcome, task>>

ReleaseBegin(p) ==
  /\ phase = "stopping" /\ Idle
  /\ tracees[p].state \in Injecting
  /\ StopTracee(p, "release")
  /\ UNCHANGED <<pc, regs, bp, tracer, stop, image, target, newborn,
                 initTraced, tracees, done, outcome, phase>>

(* Mutant: detached from without being released.                           *)
ReleaseStoppedDetached(p) ==
  /\ Waited(p, "release")
  /\ tracer' = [tracer EXCEPT ![p] = "none"]
  /\ stop' = [stop EXCEPT ![p] = "run"]
  /\ intr' = [intr EXCEPT ![p] = FALSE]
  /\ Forget(p)
  /\ EndHandler(p)
  /\ UNCHANGED <<pc, regs, bp, done, outcome>>

ReleaseStopped(p) ==
  /\ Waited(p, "release")
  /\ LetGo(p)
  /\ EndHandler(p)
  /\ UNCHANGED <<done, outcome>>

ReleaseTimeout(p) ==
  /\ task[p] = "release" /\ NoStop(p)
  /\ EndHandler(p)
  /\ UNCHANGED <<pc, regs, bp, tracer, stop, intr, tracees, done, outcome>>

(* The daemon exits, when everything is released or its budget is spent on *)
(* processes that do not stop; the kernel detaches from what it traces.    *)
DaemonExit ==
  /\ phase = "stopping" /\ Idle
  /\ \A p \in Procs :
       tracees[p].state \in Injecting => ~Alive(p) \/ "timeout" \in Disturbances
  /\ phase' = "down"
  /\ initTraced' = FALSE
  /\ tracer' = [p \in Procs |-> "none"]
  /\ stop' = [p \in Procs |-> "run"]
  /\ intr' = [p \in Procs |-> FALSE]
  /\ newborn' = [p \in Procs |-> FALSE]
  /\ tracees' = [p \in Procs |-> Untracked]
  /\ done' = {}
  /\ outcome' = [p \in Procs |-> "none"]
  /\ UNCHANGED <<pc, regs, bp, image, target, task>>

-----------------------------------------------------------------------------
ProcessStep(p) ==
  \/ Link(p)
  \/ EnterProgram(p)
  \/ ReturnFromCall(p)

Environment(p) ==
  \/ ForkByInit(p)
  \/ \E q \in Procs : Fork(p, q)
  \/ Exec(p)
  \/ Signal(p)
  \/ StrayTrap(p)
  \/ Interrupted(p)
  \/ Die(p)

HandleEvent(p) ==
  \/ HandleExit(p)
  \/ HandleExiting(p)
  \/ HandleSignal(p)
  \/ HandleExec(p)
  \/ HandleOtherTrap(p)
  \/ TrapAtEntry(p)
  \/ TrapFile(p)
  \/ TrapAfterDlopen(p)
  \/ TrapAfterDlsym(p)
  \/ TrapAfterDlerror(p)
  \/ TrapAfterInit(p)

EndWait(p) ==
  \/ SeizedStopped(p)
  \/ SeizeTimeout(p)
  \/ ExpireStopped(p)
  \/ ExpireTimeout(p)
  \/ ReleaseStopped(p)
  \/ ReleaseTimeout(p)

DaemonStep(p) ==
  \/ Reap(p)
  \/ HandleFork(p)
  \/ HandleEvent(p)
  \/ \E late \in BOOLEAN : Seize(p, late)
  \/ SkipTarget(p)
  \/ ForgetDone(p)
  \/ Expire(p)
  \/ ReleaseBegin(p)
  \/ EndWait(p)

Next ==
  \/ \E p \in Procs : ProcessStep(p) \/ Environment(p) \/ DaemonStep(p)
  \/ HandOverInit
  \/ Sigterm
  \/ DaemonExit

Spec == Init /\ [][Next]_vars

(* The kernel schedules the processes, between their signals, and the      *)
(* daemon's loop collects, expires and releases again and again; what it   *)
(* spends on releasing has a deadline.                                     *)
FairSpec ==
  /\ Spec
  /\ \A p \in Procs :
       /\ SF_vars(ProcessStep(p))
       /\ SF_vars(Interrupted(p))
       /\ SF_vars(Reap(p))
       /\ WF_vars(HandleEvent(p))
       /\ WF_vars(EndWait(p))
       /\ SF_vars(Expire(p))
       /\ SF_vars(ReleaseBegin(p))
  /\ SF_vars(DaemonExit)

-----------------------------------------------------------------------------
(***************************************************************************)
(* Properties.                                                             *)
(***************************************************************************)

(* While the daemon lives, a process it does not trace runs as if it had   *)
(* never been touched: with its own registers, at an instruction of its    *)
(* own, and with no breakpoint on the way.  Every path out of trace.rs and *)
(* mode.rs that detaches has to put the text and the registers back.       *)
Intact(p) ==
  /\ regs[p] = "own"
  /\ pc[p] \notin Calls \cup {"past"}
  /\ "main" \notin bp[p]
  /\ pc[p] \in {"linker", "entry"} => "entry" \notin bp[p]

UntracedIntact ==
  phase # "down" => \A p \in Procs : Alive(p) /\ ~Ours(p) => Intact(p)

(* The map of tracees never claims an injection into a live process that   *)
(* the daemon does not trace: the exit, the expiry, the release and the    *)
(* two forms of detaching all take the entry out.                          *)
OwnedIsTraced ==
  \A p \in Procs : tracees[p].state \in Injecting => Ours(p) \/ ~Alive(p)

(* The loader is never loaded a second time into one image: not after an   *)
(* attempt that failed halfway, not into the fork of an injected process,  *)
(* whatever `done` has forgotten (seize_and_stop looks at the maps).       *)
LoadedOnce ==
  [][\A p \in Procs : pc'[p] = "dlopen" /\ pc[p] # "dlopen" => image[p] = "clean"]_vars

(* A success is recorded only when the call of the loader's initialisation  *)
(* has come back, or when a SIGTRAP has stopped the process in that call,   *)
(* which the daemon takes for the return (trace.rs:293).  No shorter way    *)
(* through the states of a tracee leads to record_success.                  *)
SuccessMeansInit ==
  [][\A p \in Procs :
       outcome'[p] = "success" /\ outcome[p] # "success"
         => \/ image[p] = "inited"
            \/ regs[p] = "call" /\ tracees[p].state = "Init"]_vars

(* A process that was let go with the loader initialised is reported as a  *)
(* success, and not as anything else.                                      *)
InitIsRecorded ==
  phase = "up" =>
    \A p \in Procs : Alive(p) /\ ~Ours(p) /\ image[p] = "inited" => outcome[p] = "success"

(* Until the daemon is told to stop, a call injected into a live process   *)
(* is cut short by one thing alone, a SIGTRAP in the call, which the daemon *)
(* takes for the return (trace.rs:164): no deadline, no other signal and no *)
(* stop that arrives late takes the process out of dlopen or of the        *)
(* loader's initialisation.                                                 *)
CallsComplete ==
  [][phase = "up" =>
       \A p \in Procs : pc[p] \in Calls /\ pc'[p] # pc[p]
                          => \/ stop'[p] = "trap"
                             \/ task[p] = "trap" /\ regs[p] = "call"
                             \/ pc'[p] = "dead"]_vars

(* A daemon whose processes stop when they are interrupted leaves no        *)
(* breakpoint on the way of a process when it exits (the comment on SIGTERM *)
(* in daemon.rs): no wait of the main loop, no stop that is collected       *)
(* meanwhile and no fork between them makes release_tracees miss one.       *)
NobodyLeftParked ==
  phase = "down" =>
    \A p \in Procs : Alive(p) => /\ pc[p] \in {"linker", "entry"} => "entry" \notin bp[p]
                                  /\ pc[p] \notin Calls \cup {"past"}
                                  /\ regs[p] = "own"

(* Every injection comes to an end if the processes run and, from some time *)
(* on, stop for an expiry in time: it succeeds, it is given up, it expires, *)
(* it is released, or its process dies.                                    *)
InjectionEnds ==
  <>[][\A p \in Procs : ExpireTimeout(p) => stop[p] = "exit"]_vars =>
    \A p \in Procs : tracees[p].state \in Injecting ~> tracees[p].state \notin Injecting

-----------------------------------------------------------------------------
(***************************************************************************)
(* The inductive invariant behind UntracedIntact and OwnedIsTraced.        *)
(***************************************************************************)

(* A tracee that waits for its entry breakpoint.  Where the text already   *)
(* held a breakpoint, copied by a fork, the process is past its entry.     *)
EntryArmed(p) ==
  /\ tracees[p].home = "entry"
  /\ tracees[p].original # "unset"
  /\ regs[p] = "own"
  /\ pc[p] \notin Calls
  /\ pc[p] = "past" => X86
  /\ "main" \notin bp[p]
  /\ tracees[p].original = "breakpoint" /\ "entry" \in bp[p]
       => pc[p] \notin {"linker", "entry", "past"}

(* A tracee in a call, or stopped after one: what release_tracee puts back *)
(* is the text and the registers at the place of the breakpoint.           *)
CallUnderWay(p) ==
  /\ regs[p] # "own"
  /\ tracees[p].saved = tracees[p].home
  /\ "main" \in bp[p] => tracees[p].home = "main" /\ tracees[p].original = "code"
  /\ tracees[p].home = "entry" /\ "entry" \in bp[p] => tracees[p].original = "code"
  /\ tracees[p].state = "File" /\ tracees[p].purpose = "Module" => tracees[p].left # 0

ProcessInv(p) ==
  /\ pc[p] = "absent" =>
       /\ regs[p] = "own" /\ bp[p] = {} /\ tracer[p] = "none" /\ ~newborn[p]
       /\ stop[p] = "run"
       /\ tracees[p].state = "none" /\ task[p] = "none"
  /\ phase = "down" => tracees[p].state = "none" /\ task[p] = "none"
  /\ phase # "down" /\ Alive(p) =>
       /\ tracees[p].state \in {"none", "Traced"} => Intact(p)
       /\ tracees[p].state = "Entry" => EntryArmed(p)
       /\ tracees[p].state \in Injecting \ {"Entry"} => CallUnderWay(p)
       /\ tracees[p].state \in Injecting => Ours(p)
       /\ task[p] # "none" => Ours(p)
       /\ task[p] \in {"seize", "seizeLate"} => pc[p] \in {"linker", "entry", "main"}
       /\ task[p] \in Reports => stop[p] = "held"
       /\ stop[p] = "exec" \/ task[p] = "exec" => pc[p] = "linker" /\ regs[p] = "own" /\ bp[p] = {}
  /\ stop[p] \in {"exit", "exiting"} \/ task[p] \in {"exit", "exiting"} => ~Alive(p)
  /\ task[p] \in {"seize", "seizeLate"} => tracees[p].state = "none"
  /\ task[p] \in {"expire", "release"} => tracees[p].state \in Injecting

IndInv == TypeOK /\ \A p \in Procs : ProcessInv(p)

=============================================================================
