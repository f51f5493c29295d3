----------------------------- MODULE HyosSpawn -----------------------------
(***************************************************************************)
(* Modules of the HyperOS spawner (loader/src/hyos).  The spawner forks and  *)
(* the child becomes an app by selinux_android_setcontext; a module that     *)
(* registered in the spawner is told of that in the child.  The loader       *)
(* hooks fork, selinux_android_setcontext and pthread_setname_np for it, and *)
(* its state is copied with the memory of a process that forks.             *)
(*                                                                         *)
(* Modules register in the spawner before it has other threads, or in a      *)
(* process that has forked from it.  Any process may fork again.            *)
(***************************************************************************)
EXTENDS Naturals, Sequences, FiniteSets

CONSTANTS
  Spawner,      \* the process the loader was injected into
  Processes,    \* the spawner and the processes there can be
  Main, Worker, \* two threads of every process
  Modules,      \* modules that register
  Missing,      \* functions that are in libraries not loaded at first
  HooksFail,    \* whether a function that is found may not be hooked
  MaxModules    \* kMaxModules

ASSUME HyosAssumption == Spawner \in Processes /\ MaxModules \in Nat /\ HooksFail \in BOOLEAN /\ Missing \subseteq {"fork", "setcontext", "setname"}

Threads == {Main, Worker}
Hooks == {"fork", "setcontext", "setname"}

VARIABLES
  alive,      \* the processes there are
  library,    \* the functions that can be found and hooked by now
  st,         \* per process: State and g_reinstall, and its atfork handlers
  thread,     \* per process and thread: what it is doing
  became,     \* the processes that selinux_android_setcontext succeeded in
  told,       \* per process: what the modules were told, in order (history)
  todo        \* per process and thread that is in forkHook: the functions that were
              \* there to be hooked when it forked and no one has tried since (history)

vars == <<alive, library, st, thread, became, told, todo>>

\* modules, module_count; in_child; fired; orig_fork, orig_setcontext, orig_setname
\* (a function is hooked exactly when its original is known); name_state;
\* captured_name, the process and thread it is the name of; g_reinstall.
NoName == <<>>
Torn == <<"half">>
Fresh == [modules |-> <<>>, in_child |-> FALSE, fired |-> FALSE, hooks |-> {},
          name_state |-> "empty", captured_name |-> NoName, reinstall |-> FALSE,
          atfork |-> FALSE]
Nothing == [t \in Threads |-> {}]

Init ==
  /\ alive = {Spawner}
  /\ library = Hooks \ Missing
  /\ st = [p \in Processes |-> Fresh]
  /\ thread = [p \in Processes |-> [t \in Threads |-> "runs"]]
  /\ became = {}
  /\ told = [p \in Processes |-> <<>>]
  /\ todo = [p \in Processes |-> Nothing]

\* A library is loaded into the spawner.
LibraryLoaded ==
  /\ \E h \in Hooks \ library : library' = library \cup {h}
  /\ UNCHANGED <<alive, st, thread, became, told, todo>>

(***************************************************************************)
(* hooks.cpp, runtime.cpp: registering and hooking.                         *)
(***************************************************************************)

Runs(p, t) == p \in alive /\ thread[p][t] = "runs"

\* installHooks tries what is not hooked yet; any of it may fail.
InstalledHooks(s) ==
  {[s EXCEPT !.hooks = @ \cup new] :
     new \in IF HooksFail THEN SUBSET (library \ s.hooks) ELSE {library \ s.hooks}}

\* registerModule.  Handlers of atfork are not added in a child, which has them.
RegisterModule(p, m) ==
  /\ Runs(p, Main)
  /\ p = Spawner => alive = {Spawner}
  /\ \A i \in 1..Len(st[p].modules) : st[p].modules[i] # m
  /\ Len(st[p].modules) < MaxModules
  /\ \E s \in InstalledHooks([st[p] EXCEPT !.modules = Append(@, m),
                                           !.atfork = @ \/ ~st[p].in_child]) :
       st' = [st EXCEPT ![p] = s]
  /\ todo' = [todo EXCEPT ![p] = Nothing]
  /\ UNCHANGED <<alive, library, thread, became, told>>

(***************************************************************************)
(* Forking.                                                                *)
(***************************************************************************)

AtForkPrepare(s) ==
  IF s.atfork /\ ~s.in_child /\ s.modules # <<>> /\ ~({"setcontext", "setname"} \subseteq s.hooks)
  THEN [s EXCEPT !.reinstall = TRUE] ELSE s

\* A bug: what the child has of the name is left as it was copied.
AtForkChildKeepsName(s) ==
  [s EXCEPT !.in_child = TRUE, !.fired = FALSE, !.reinstall = FALSE]

\* A bug: the child is not told apart from the process it was forked from.
AtForkChildKeepsFired(s) ==
  [s EXCEPT !.in_child = TRUE, !.captured_name = NoName, !.name_state = "empty",
            !.reinstall = FALSE]

AtForkChild(s) ==
  [s EXCEPT !.in_child = TRUE, !.fired = FALSE, !.captured_name = NoName,
            !.name_state = "empty", !.reinstall = FALSE]

\* What a module needs and could be hooked now.
Wanted(p) == (library \cap {"setcontext", "setname"}) \ st[p].hooks

\* forkHook runs when fork is called by the spawner's image, and the handlers of
\* atfork for any fork.  Only the thread that forks exists in the child.
Fork(p, t, c) ==
  /\ Runs(p, t) /\ c \notin alive
  /\ \E hooked \in {"fork" \in st[p].hooks, FALSE} :
       LET s == AtForkPrepare(st[p])
       IN  /\ st' = [st EXCEPT ![p] = s,
                               ![c] = IF s.atfork \/ hooked THEN AtForkChild(s) ELSE s]
           /\ thread' = [thread EXCEPT ![p][t] = IF hooked THEN "forked" ELSE "runs",
                                       ![c] = [u \in Threads |-> "runs"]]
           /\ todo' = [todo EXCEPT ![p][t] = IF hooked THEN Wanted(p) ELSE {}]
  /\ alive' = alive \cup {c}
  /\ UNCHANGED <<library, became, told>>

\* forkHook in the parent reads g_reinstall, which the threads of a process share.
ForkReturns(p, t) ==
  /\ p \in alive /\ thread[p][t] = "forked"
  /\ thread' = [thread EXCEPT ![p][t] = IF st[p].reinstall THEN "retry" ELSE "runs"]
  /\ todo' = [todo EXCEPT ![p][t] = IF st[p].reinstall THEN @ ELSE {}]
  /\ UNCHANGED <<alive, library, st, became, told>>

\* A bug: the flag is reset after the hooks are tried.
InstallAgainFirst(p, t) ==
  /\ p \in alive
  /\ \/ /\ thread[p][t] = "retry"
        /\ \E s \in InstalledHooks(st[p]) : st' = [st EXCEPT ![p] = s]
        /\ todo' = [todo EXCEPT ![p] = Nothing]
        /\ thread' = [thread EXCEPT ![p][t] = "hooks"]
     \/ /\ thread[p][t] = "hooks"
        /\ st' = [st EXCEPT ![p].reinstall = FALSE]
        /\ thread' = [thread EXCEPT ![p][t] = "runs"]
        /\ UNCHANGED todo
  /\ UNCHANGED <<alive, library, became, told>>

\* The rest of forkHook: the flag is reset and what is not hooked is tried again.
InstallAgain(p, t) ==
  /\ p \in alive
  /\ \/ /\ thread[p][t] = "retry"
        /\ st' = [st EXCEPT ![p].reinstall = FALSE]
        /\ thread' = [thread EXCEPT ![p][t] = IF st[p].in_child THEN "runs" ELSE "hooks"]
        /\ UNCHANGED todo
     \/ /\ thread[p][t] = "hooks"
        /\ \E s \in InstalledHooks(st[p]) : st' = [st EXCEPT ![p] = s]
        /\ todo' = [todo EXCEPT ![p] = Nothing]
        /\ thread' = [thread EXCEPT ![p][t] = "runs"]
  /\ UNCHANGED <<alive, library, became, told>>

(***************************************************************************)
(* pthread_setname_np.                                                     *)
(***************************************************************************)

NameOf(p, t) == <<p, t>>

\* setnameHook, for a thread that names itself.
SetName(p, t) ==
  /\ Runs(p, t) /\ "setname" \in st[p].hooks
  /\ st[p].in_child /\ ~st[p].fired /\ st[p].name_state = "empty"
  /\ st' = [st EXCEPT ![p].name_state = "writing", ![p].captured_name = Torn]
  /\ thread' = [thread EXCEPT ![p][t] = "writes"]
  /\ UNCHANGED <<alive, library, became, told, todo>>

NameWritten(p, t) ==
  /\ p \in alive /\ thread[p][t] = "writes"
  /\ st' = [st EXCEPT ![p].name_state = "ready", ![p].captured_name = NameOf(p, t)]
  /\ thread' = [thread EXCEPT ![p][t] = "runs"]
  /\ UNCHANGED <<alive, library, became, told, todo>>

(***************************************************************************)
(* selinux_android_setcontext.                                             *)
(***************************************************************************)

\* setcontextHook; nothing is delivered when the call fails.
SetContext(p, t) ==
  /\ Runs(p, t)
  /\ became' = became \cup {p}
  /\ thread' = [thread EXCEPT ![p][t] = IF "setcontext" \in st[p].hooks THEN "deliver" ELSE "runs"]
  /\ UNCHANGED <<alive, library, st, told, todo>>

\* A bug: whether it was delivered is read and written apart.
DeliverUnlocked(p, t) ==
  /\ p \in alive /\ thread[p][t] = "deliver"
  /\ thread' = [thread EXCEPT ![p][t] =
       IF st[p].in_child /\ st[p].modules # <<>> /\ ~st[p].fired THEN "tell" ELSE "runs"]
  /\ UNCHANGED <<alive, library, st, became, told, todo>>

\* deliverAppSpecialized: the first to set fired goes on.
Deliver(p, t) ==
  /\ p \in alive /\ thread[p][t] = "deliver"
  /\ LET first == st[p].in_child /\ st[p].modules # <<>> /\ ~st[p].fired
     IN  /\ thread' = [thread EXCEPT ![p][t] = IF first THEN "tell" ELSE "runs"]
         /\ st' = [st EXCEPT ![p].fired = @ \/ first]
  /\ UNCHANGED <<alive, library, became, told, todo>>

\* A bug: a name that is being written is taken.
TellAnyName(p, t) ==
  /\ p \in alive /\ thread[p][t] = "tell"
  /\ told' = [told EXCEPT ![p] = Append(@,
       [modules |-> st[p].modules,
        name |-> IF st[p].name_state = "empty" THEN NameOf(p, t) ELSE st[p].captured_name])]
  /\ st' = [st EXCEPT ![p].fired = TRUE]
  /\ thread' = [thread EXCEPT ![p][t] = "runs"]
  /\ UNCHANGED <<alive, library, became, todo>>

\* The captured name, or that of the thread.
Tell(p, t) ==
  /\ p \in alive /\ thread[p][t] = "tell"
  /\ told' = [told EXCEPT ![p] = Append(@,
       [modules |-> st[p].modules,
        name |-> IF st[p].name_state = "ready" THEN st[p].captured_name ELSE NameOf(p, t)])]
  /\ thread' = [thread EXCEPT ![p][t] = "runs"]
  /\ UNCHANGED <<alive, library, st, became, todo>>

Proceed(p, t) == ForkReturns(p, t) \/ InstallAgain(p, t) \/ NameWritten(p, t) \/ Deliver(p, t) \/ Tell(p, t)

Next ==
  \/ LibraryLoaded
  \/ \E p \in Processes :
       \/ \E m \in Modules : RegisterModule(p, m)
       \/ \E t \in Threads : \/ \E c \in Processes : Fork(p, t, c)
                             \/ SetName(p, t) \/ SetContext(p, t) \/ Proceed(p, t)

Spec == Init /\ [][Next]_vars

(***************************************************************************)
(* Properties.                                                             *)
(***************************************************************************)

Names == {NameOf(p, t) : p \in Processes, t \in Threads}

State ==
  [modules : Seq(Modules), in_child : BOOLEAN, fired : BOOLEAN, hooks : SUBSET Hooks,
   name_state : {"empty", "writing", "ready"}, captured_name : Names \cup {NoName, Torn},
   reinstall : BOOLEAN, atfork : BOOLEAN]
Places == {"runs", "forked", "retry", "hooks", "writes", "deliver", "tell"}

TypeOK ==
  /\ alive \subseteq Processes /\ library \subseteq Hooks /\ became \subseteq alive
  /\ st \in [Processes -> State]
  /\ thread \in [Processes -> [Threads -> Places]]
  /\ told \in [Processes -> Seq([modules : Seq(Modules), name : Names \cup {NoName, Torn}])]
  /\ todo \in [Processes -> [Threads -> SUBSET Hooks]]
  /\ \A p \in Processes :
       Len(st[p].modules) <= MaxModules /\ st[p].hooks \subseteq library

\* The modules are told once in a process, in one that was forked from the spawner
\* and only after it became an app; whichever of its threads call setcontext
\* (runtime.cpp, deliverAppSpecialized).
ToldOnce ==
  \A p \in Processes : told[p] # <<>> =>
    Len(told[p]) = 1 /\ p # Spawner /\ p \in became

\* The name they are told is complete and that of a thread of their own process; not
\* one that the process it was forked from had captured, and not half of one.
NameIsOwn ==
  \A p \in Processes : \A i \in 1..Len(told[p]) :
    told[p][i].name \in {NameOf(p, t) : t \in Threads}

\* A thread of a forked process that comes back from setcontext leaves the modules
\* told, or another thread telling them: the process it was forked from may have been
\* told before, and no thread relies on another that does nothing.
AppIsTold ==
  [][\A p \in Processes, t \in Threads :
       thread[p][t] = "deliver" /\ thread'[p][t] = "runs" /\ st[p].in_child /\ st[p].modules # <<>>
         => told[p] # <<>> \/ \E u \in Threads : thread[p][u] = "tell"]_vars

\* What an app needs and was there to be hooked when a thread called forkHook has been
\* tried since when the thread returns, by it or by another, or another thread is about
\* to try it: no fork in between loses the retry by the flag that all threads share
\* (hooks.cpp, forkHook and atForkPrepare).
HooksRetried ==
  [][\A p \in Processes, t \in Threads :
       thread[p][t] = "forked" /\ thread'[p][t] = "runs" /\ ~st[p].in_child
         => todo[p][t] = {} \/ \E u \in Threads : thread[p][u] \in {"retry", "hooks"}]_vars
=============================================================================
