------------------------------ MODULE Tracking ------------------------------
(***************************************************************************)
(* How the daemon finds the processes to inject: the bookkeeping of        *)
(* injector/src/kernel.rs (kernel events) and injector/src/mode.rs         *)
(* (polling /proc, late mode).  What happens to a process once it is       *)
(* seized is the subject of Injection; here a target is taken, skipped,    *)
(* reported or left for another attempt.                                   *)
(*                                                                         *)
(* The daemon is one thread; processes fork, execute and exit between any  *)
(* two of its steps, also in the middle of a pass over /proc or of a batch *)
(* of events.  A process is held if another loader traces it, and a target *)
(* that is held cannot be taken.  Process ids are not used twice.          *)
(***************************************************************************)
EXTENDS Naturals, Sequences

CONSTANTS
  Pids,      \* the processes that init forks
  Settings   \* the modes and surroundings the daemon may find itself in

(* "tracefs" reports an exec after it happened and an exit, as the proc     *)
(* connector does; "bpf" reports the exec alone; "fanotify" reports an exec *)
(* before it is complete, as the KPM does.                                  *)
EventSources == {"tracefs", "bpf", "fanotify"}

(* The mode the daemon tracks processes in, the event sources it could      *)
(* start, the processes that a foreign tracer holds when they are forked,   *)
(* and those of them that it lets go of.                                    *)
IsSetting(s) ==
  /\ s.mode \in {"kernel", "late", "proc"}
  /\ s.sources \subseteq EventSources
  /\ s.mode = "kernel" => s.sources # {}
  /\ s.mode = "proc" => s.sources = {}
  /\ s.released \subseteq s.held
  /\ s.held \subseteq Pids

ASSUME TrackingAssumption == \A s \in Settings : IsSetting(s)

VARIABLES
  setting,     \* one of Settings, for good
  exe,         \* the executable of a process
  inflight,    \* the executable of an exec that has begun
  held,        \* the processes a foreign tracer holds
  events,      \* the events of each source not considered yet
  forked,      \* a process was forked since last_allocated_pid was read
  done, ignored, candidates, deferred, recheck,    \* of the Daemon
  pass,        \* where poll_processes is: "none", "begun", "scan"
  seen, left,  \* the processes its pass lists, and has not looked at
  outcome      \* what became of a target

envVars == <<exe, inflight, held, events, forked>>
bookkeeping == <<done, ignored, candidates, deferred, recheck>>
passVars == <<pass, seen, left>>
vars == <<exe, inflight, held, events, forked, done, ignored, candidates, deferred,
          recheck, pass, seen, left, outcome>>

Mode == setting.mode
Sources == setting.sources
Held == setting.held
Released == setting.released

Programs == {"init", "target", "other"}

Init ==
  /\ setting \in Settings
  /\ exe = [p \in Pids |-> "none"]
  /\ inflight = [p \in Pids |-> "none"]
  /\ held = {}
  /\ events = [s \in Sources |-> <<>>]
  /\ forked = TRUE
  /\ done = {} /\ ignored = {} /\ deferred = {} /\ recheck = {}
  /\ candidates = [p \in Pids |-> "none"]
  /\ pass = "none" /\ seen = {} /\ left = {}
  /\ outcome = [p \in Pids |-> "none"]

Alive(p) == exe[p] \in Programs
Living == {p \in Pids : Alive(p)}
PollsKernel == Sources # {}

-----------------------------------------------------------------------------
(***************************************************************************)
(* The processes, the foreign tracer and the event sources (external).     *)
(***************************************************************************)
Report(sources, kind, p, e) ==
  events' = [s \in Sources |->
               IF s \in sources THEN Append(events[s], [kind |-> kind, pid |-> p, exe |-> e])
                                ELSE events[s]]

Fork(p) ==
  /\ exe[p] = "none"
  /\ exe' = [exe EXCEPT ![p] = "init"]
  /\ held' = IF p \in Held THEN held \cup {p} ELSE held
  /\ forked' = TRUE
  /\ UNCHANGED <<inflight, events, bookkeeping, passVars, outcome>>

(* A service execs once, from the fork of init.                            *)
BeginExec(p) ==
  /\ exe[p] = "init" /\ inflight[p] = "none"
  /\ \E e \in {"target", "other"} :
       /\ inflight' = [inflight EXCEPT ![p] = e]
       /\ Report({"fanotify"}, "preexec", p, e)
  /\ UNCHANGED <<exe, held, forked, bookkeeping, passVars, outcome>>

EndExec(p) ==
  /\ Alive(p) /\ inflight[p] # "none"
  /\ exe' = [exe EXCEPT ![p] = inflight[p]]
  /\ inflight' = [inflight EXCEPT ![p] = "none"]
  /\ Report({"tracefs", "bpf"}, "exec", p, inflight[p])
  /\ UNCHANGED <<held, forked, bookkeeping, passVars, outcome>>

Exit(p) ==
  /\ Alive(p)
  /\ exe' = [exe EXCEPT ![p] = "gone"]
  /\ inflight' = [inflight EXCEPT ![p] = "none"]
  /\ held' = held \ {p}
  /\ Report({"tracefs"}, "exit", p, exe[p])
  /\ UNCHANGED <<forked, bookkeeping, passVars, outcome>>

LetGo(p) ==
  /\ p \in held \cap Released
  /\ held' = held \ {p}
  /\ UNCHANGED <<exe, inflight, events, forked, bookkeeping, passVars, outcome>>

-----------------------------------------------------------------------------
(***************************************************************************)
(* observe_target                                                          *)
(***************************************************************************)
Settle(p, what) ==
  /\ done' = done \cup {p}
  /\ outcome' = [outcome EXCEPT ![p] = what]

Drop(p) == candidates' = [candidates EXCEPT ![p] = "none"]

(* seize_target: taken, given up with a record, or skipped without one.    *)
SeizeTarget(p) ==
  /\ \E what \in {"taken", "reported", "skipped"} : Settle(p, what)
  /\ Drop(p)

(* Seizure::Retry: a process that is held is left as it is, with what the  *)
(* candidates say of it.                                                   *)
Retry(p, candidate) ==
  /\ candidates' = [candidates EXCEPT ![p] = candidate]
  /\ UNCHANGED <<done, outcome>>

ObserveTarget(p, candidate) ==
  /\ IF p \in held THEN Retry(p, candidate) ELSE SeizeTarget(p)
  /\ deferred' = CASE Mode # "late"                 -> deferred
                   [] Mode = "late" /\ p \in held    -> deferred \cup {p}
                   [] Mode = "late" /\ p \notin held -> deferred \ {p}

-----------------------------------------------------------------------------
(***************************************************************************)
(* poll_kernel: consider_kernel_event and recheck_pending.                 *)
(***************************************************************************)
ForgetProcess(p) ==
  /\ Drop(p)
  /\ done' = done \ {p}
  /\ ignored' = ignored \ {p}
  /\ deferred' = deferred \ {p}
  /\ recheck' = recheck \ {p}
  /\ UNCHANGED outcome

Ignore(p) ==
  /\ ignored' = ignored \cup {p}
  /\ UNCHANGED <<done, candidates, deferred, recheck, outcome>>

(* Mutant: a process is ruled out without a look at the path.              *)
DeferRecheckNever(p, path) == Ignore(p)

(* defer_recheck: a source that knows the path rules out what is no target.*)
DeferRecheck(p, path) ==
  \/ /\ path # "target"
     /\ Ignore(p)
  \/ /\ recheck' = recheck \cup {p}
     /\ UNCHANGED <<done, ignored, candidates, deferred, outcome>>

ConsiderExec(e) ==
  LET p == e.pid IN
    CASE p \in done \cup ignored ->
           UNCHANGED <<bookkeeping, outcome>>
      [] p \notin done \cup ignored /\ e.kind = "preexec" ->
           IF p \in held THEN UNCHANGED <<bookkeeping, outcome>> ELSE DeferRecheck(p, e.exe)
      [] p \notin done \cup ignored /\ e.kind = "exec" /\ ~Alive(p) ->
           Ignore(p)
      [] p \notin done \cup ignored /\ e.kind = "exec" /\ Alive(p) ->
           IF "target" \in {exe[p], e.exe}
             THEN ObserveTarget(p, candidates[p]) /\ UNCHANGED <<ignored, recheck>>
             ELSE Ignore(p)

(* KernelTracker::poll drains one source after the other: an event of one   *)
(* may be considered before an earlier event of another.                    *)
ConsiderKernelEvent(source) ==
  /\ events[source] # <<>>
  /\ events' = [events EXCEPT ![source] = Tail(@)]
  /\ LET event == Head(events[source]) IN
       IF event.kind = "exit" THEN ForgetProcess(event.pid) ELSE ConsiderExec(event)
  /\ UNCHANGED <<exe, inflight, held, forked, passVars>>

(* An entry of recheck_pending is dropped when it is 150 ms old, or when   *)
(* the process is settled by other means.                                  *)
RecheckPending(p) ==
  /\ p \in recheck
  /\ \/ /\ p \notin done \cup ignored /\ exe[p] = "target"
        /\ recheck' = recheck \ {p}
        /\ ObserveTarget(p, candidates[p])
        /\ UNCHANGED ignored
     \/ /\ recheck' = recheck \ {p}
        /\ UNCHANGED <<done, ignored, candidates, deferred, outcome>>
  /\ UNCHANGED <<envVars, passVars>>

(* What prune_kernel_bookkeeping keeps of a set.                           *)
Kept(S) == IF PollsKernel THEN S \cap Living ELSE S

(* Mutants: `done` is cleared; `ignored` is kept.                          *)
PruneAll ==
  /\ done' = {}
  /\ ignored' = Kept(ignored)
  /\ candidates' = [p \in Pids |-> IF PollsKernel => Alive(p) THEN candidates[p] ELSE "none"]
  /\ recheck' = recheck \cap Living
  /\ deferred' = IF Mode = "late" THEN deferred \cap Living ELSE deferred
  /\ UNCHANGED <<envVars, passVars, outcome>>

PruneNotIgnored ==
  /\ done' = Kept(done)
  /\ ignored' = ignored
  /\ candidates' = [p \in Pids |-> IF PollsKernel => Alive(p) THEN candidates[p] ELSE "none"]
  /\ recheck' = recheck \cap Living
  /\ deferred' = IF Mode = "late" THEN deferred \cap Living ELSE deferred
  /\ UNCHANGED <<envVars, passVars, outcome>>

(* prune_kernel_bookkeeping, prune_deferred and the pruning of `recheck`.  *)
Prune ==
  /\ done' = Kept(done)
  /\ ignored' = Kept(ignored)
  /\ candidates' = [p \in Pids |-> IF PollsKernel => Alive(p) THEN candidates[p] ELSE "none"]
  /\ recheck' = recheck \cap Living
  /\ deferred' = IF Mode = "late" THEN deferred \cap Living ELSE deferred
  /\ UNCHANGED <<envVars, passVars, outcome>>

-----------------------------------------------------------------------------
(***************************************************************************)
(* retry_deferred, in late mode.                                           *)
(***************************************************************************)
(* Mutants: not remembered as done; without a record; not retried.         *)
RetryDeferredUndone(p) ==
  /\ Mode = "late" /\ p \in deferred
  /\ IF p \in held
       THEN /\ outcome' = [outcome EXCEPT ![p] = "reported"]
            /\ deferred' = deferred \ {p}
            /\ UNCHANGED <<done, candidates>>
       ELSE IF exe[p] = "target" /\ p \notin done \cup ignored
              THEN ObserveTarget(p, candidates[p])
              ELSE deferred' = deferred \ {p} /\ UNCHANGED <<done, candidates, outcome>>
  /\ UNCHANGED <<envVars, passVars, ignored, recheck>>

RetryDeferredSilent(p) ==
  /\ Mode = "late" /\ p \in deferred
  /\ IF p \in held
       THEN /\ Settle(p, "skipped")
            /\ deferred' = deferred \ {p}
            /\ UNCHANGED candidates
       ELSE IF exe[p] = "target" /\ p \notin done \cup ignored
              THEN ObserveTarget(p, candidates[p])
              ELSE deferred' = deferred \ {p} /\ UNCHANGED <<done, candidates, outcome>>
  /\ UNCHANGED <<envVars, passVars, ignored, recheck>>

RetryDeferredDropped(p) ==
  /\ Mode = "late" /\ p \in deferred \ held
  /\ deferred' = deferred \ {p}
  /\ UNCHANGED <<envVars, passVars, ignored, recheck, done, candidates, outcome>>

RetryDeferred(p) ==
  /\ Mode = "late" /\ p \in deferred
  /\ IF p \in held
       THEN /\ Settle(p, "reported")        \* the deadline has passed
            /\ deferred' = deferred \ {p}
            /\ UNCHANGED candidates
       ELSE IF exe[p] = "target" /\ p \notin done \cup ignored
              THEN ObserveTarget(p, candidates[p])
              ELSE deferred' = deferred \ {p} /\ UNCHANGED <<done, candidates, outcome>>
  /\ UNCHANGED <<envVars, passVars, ignored, recheck>>

-----------------------------------------------------------------------------
(***************************************************************************)
(* poll_processes, in the modes without kernel events.                     *)
(***************************************************************************)

(* A pass is skipped when no process was forked since the last one and     *)
(* none is waited for.  The last process id is read before /proc is listed.*)
BeginPass ==
  /\ ~PollsKernel /\ pass = "none"
  /\ forked \/ \E p \in Pids : candidates[p] # "none"
  /\ forked' = FALSE
  /\ pass' = "begun"
  /\ UNCHANGED <<exe, inflight, held, events, bookkeeping, seen, left, outcome>>

(* Mutant: what is listed is not remembered as seen.                       *)
ListProcUnseen ==
  /\ pass = "begun"
  /\ pass' = "scan"
  /\ left' = Living
  /\ UNCHANGED <<envVars, bookkeeping, seen, outcome>>

ListProc ==
  /\ pass = "begun"
  /\ pass' = "scan"
  /\ seen' = Living /\ left' = Living
  /\ UNCHANGED <<envVars, bookkeeping, outcome>>

(* One process of the pass: a target is observed, a fork of init that has  *)
(* not executed anything yet is waited for, anything else is ignored.      *)
ScanProcess(p) ==
  /\ pass = "scan" /\ p \in left
  /\ left' = left \ {p}
  /\ \/ /\ p \in done \cup ignored \/ ~Alive(p)
        /\ UNCHANGED <<bookkeeping, outcome>>
     \/ /\ p \notin done \cup ignored /\ exe[p] = "target"
        /\ ObserveTarget(p, "target")
        /\ UNCHANGED <<ignored, recheck>>
     \/ /\ p \notin done \cup ignored /\ exe[p] = "init"
        /\ candidates' = [candidates EXCEPT ![p] = "init"]
        /\ UNCHANGED <<done, ignored, deferred, recheck, outcome>>
     \/ /\ p \notin done \cup ignored /\ exe[p] = "other"
        /\ ignored' = ignored \cup {p}
        /\ Drop(p)
        /\ UNCHANGED <<done, deferred, recheck, outcome>>
  /\ UNCHANGED <<envVars, pass, seen>>

(* Mutant: dropped without a record.                                       *)
AbandonSilently(p) ==
  /\ pass = "scan" /\ p \in left
  /\ left' = left \ {p}
  /\ Mode # "late"
  /\ p \notin done \cup ignored /\ exe[p] = "target" /\ candidates[p] = "target"
  /\ Settle(p, "skipped")
  /\ Drop(p)
  /\ UNCHANGED <<envVars, pass, seen, ignored, deferred, recheck>>

(* abandon: a target that has been a candidate for HOLD_TIMEOUT_MS.  Late  *)
(* mode has a deadline of its own for it.                                  *)
Abandon(p) ==
  /\ pass = "scan" /\ p \in left
  /\ left' = left \ {p}
  /\ Mode # "late"
  /\ p \notin done \cup ignored /\ exe[p] = "target" /\ candidates[p] = "target"
  /\ Settle(p, "reported")
  /\ Drop(p)
  /\ UNCHANGED <<envVars, pass, seen, ignored, deferred, recheck>>

(* Mutants: `done` is cleared; the last process id is read after the pass. *)
EndPassForgetting ==
  /\ pass = "scan" /\ left = {}
  /\ pass' = "none"
  /\ seen' = {}
  /\ candidates' = [p \in Pids |-> IF p \in seen THEN candidates[p] ELSE "none"]
  /\ done' = done \cap left
  /\ ignored' \in {ignored \cap seen, {}}
  /\ UNCHANGED <<envVars, deferred, recheck, left, outcome>>

EndPassReread ==
  /\ pass = "scan" /\ left = {}
  /\ pass' = "none" /\ forked' = FALSE
  /\ seen' = {}
  /\ candidates' = [p \in Pids |-> IF p \in seen THEN candidates[p] ELSE "none"]
  /\ done' = done \cap seen
  /\ ignored' \in {ignored \cap seen, {}}
  /\ UNCHANGED <<exe, inflight, held, events, deferred, recheck, left, outcome>>

(* What the pass did not see is gone; now and then `ignored` is cleared.   *)
EndPass ==
  /\ pass = "scan" /\ left = {}
  /\ pass' = "none"
  /\ seen' = {}
  /\ candidates' = [p \in Pids |-> IF p \in seen THEN candidates[p] ELSE "none"]
  /\ done' = done \cap seen
  /\ ignored' \in {ignored \cap seen, {}}
  /\ UNCHANGED <<envVars, deferred, recheck, left, outcome>>

-----------------------------------------------------------------------------
Environment(p) ==
  \/ Fork(p)
  \/ BeginExec(p)
  \/ EndExec(p)
  \/ Exit(p)
  \/ LetGo(p)

DaemonStep ==
  \/ \E s \in Sources : ConsiderKernelEvent(s)
  \/ \E p \in Pids : RecheckPending(p)
  \/ \E p \in Pids : RetryDeferred(p)
  \/ Prune
  \/ BeginPass
  \/ ListProc
  \/ \E p \in Pids : ScanProcess(p)
  \/ \E p \in Pids : Abandon(p)
  \/ EndPass

Next ==
  /\ (\E p \in Pids : Environment(p)) \/ DaemonStep
  /\ UNCHANGED setting

Spec == Init /\ [][Next]_<<vars, setting>>

(* The main loop does each of its parts again and again, every deadline    *)
(* passes, an exec that has begun ends, and a tracer that releases does it.*)
FairSpec ==
  /\ Spec
  /\ \A s \in EventSources : WF_vars(s \in Sources /\ ConsiderKernelEvent(s))
  /\ WF_vars(Prune)
  /\ WF_vars(BeginPass) /\ WF_vars(ListProc) /\ WF_vars(EndPass)
  /\ \A p \in Pids :
       /\ WF_vars(EndExec(p)) /\ WF_vars(LetGo(p))
       /\ WF_vars(RecheckPending(p)) /\ WF_vars(RetryDeferred(p))
       /\ WF_vars(ScanProcess(p) \/ Abandon(p))
       /\ SF_vars(Abandon(p))

-----------------------------------------------------------------------------
(***************************************************************************)
(* Properties.                                                             *)
(***************************************************************************)

EventType == [kind : {"preexec", "exec", "exit"}, pid : Pids, exe : Programs]

TypeOK ==
  /\ setting \in Settings
  /\ exe \in [Pids -> Programs \cup {"none", "gone"}]
  /\ inflight \in [Pids -> {"none", "target", "other"}]
  /\ held \subseteq Pids
  /\ events \in [Sources -> Seq(EventType)]
  /\ forked \in BOOLEAN
  /\ done \subseteq Pids /\ ignored \subseteq Pids /\ deferred \subseteq Pids
  /\ recheck \subseteq Pids
  /\ candidates \in [Pids -> {"none", "init", "target"}]
  /\ pass \in {"none", "begun", "scan"} /\ seen \subseteq Pids /\ left \subseteq Pids
  /\ outcome \in [Pids -> {"none", "taken", "reported", "skipped"}]

(* The first answer about a process is the last: what was given up as held *)
(* is not injected later by a set that still remembers it, and what was    *)
(* taken is not observed again.                                            *)
SettledOnce ==
  [][\A p \in Pids : outcome[p] # "none" => outcome'[p] = outcome[p]]_vars

(* No target is missed: while it lives, it is taken, skipped or reported,  *)
(* whenever it was forked, executed or let go of between two looks.        *)
TargetsSettled ==
  \A p \in Pids : exe[p] = "target" ~> outcome[p] # "none" \/ exe[p] = "gone"

Forgotten(p) ==
  /\ p \notin done \cup ignored \cup deferred \cup recheck
  /\ candidates[p] = "none"

(* A daemon with kernel events does not remember processes that are gone,  *)
(* although an exec may be reported after the exit of its process.         *)
GoneAreForgotten ==
  \A p \in Pids : [](PollsKernel /\ exe[p] = "gone" => <>[]Forgotten(p))

(* "A foreign tracer that never lets go is the reason we cannot inject into *)
(* a process at all [...] so it is reported instead of being dropped in     *)
(* silence" (injector/src/mode.rs:431).                                     *)
HeldAreReported ==
  \A p \in Pids :
    p \in Held \ Released /\ exe[p] = "target" ~> outcome[p] = "reported" \/ exe[p] = "gone"

=============================================================================
