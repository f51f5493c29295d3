-------------------------- MODULE HyosSpawnProofs --------------------------
(***************************************************************************)
(* Proofs about HyosSpawn: for any processes, modules and libraries that     *)
(* come late, the modules of an app are told once, of a name of its own, and *)
(* by one of its threads; what could not be hooked is tried again, however    *)
(* many threads fork.                                                      *)
(***************************************************************************)
EXTENDS HyosSpawn, TLAPS

OwnNames(p) == {NameOf(p, t) : t \in Threads}
Telling(p) == \E u \in Threads : thread[p][u] = "tell"
Retrying(p) == \E u \in Threads : thread[p][u] \in {"retry", "hooks"}

\* A process that is not there yet has nothing to be copied over.
NotYet(p) ==
  /\ st[p] = Fresh /\ told[p] = <<>> /\ p \notin became
  /\ \A t \in Threads : thread[p][t] = "runs"

\* What is of a child only: the delivery and the name.  Whoever is a child, hooked or
\* has a module has the handlers of atfork, so that no child keeps what was copied.
ChildOk(p) ==
  /\ p = Spawner => ~st[p].in_child
  /\ st[p].in_child \/ st[p].hooks # {} \/ st[p].modules # <<>> => st[p].atfork
  /\ st[p].hooks # {} => st[p].modules # <<>>
  /\ st[p].reinstall => st[p].atfork
  /\ st[p].fired \/ st[p].name_state # "empty" => st[p].in_child
  /\ st[p].name_state = "ready" => st[p].captured_name \in OwnNames(p)

\* What a thread in the middle of a hook relies on.
ThreadOk(p, t) ==
  /\ thread[p][t] \in {"forked", "retry", "hooks"} => st[p].modules # <<>>
  /\ thread[p][t] = "writes" => st[p].in_child
  /\ thread[p][t] \in {"deliver", "tell"} => p \in became
  /\ thread[p][t] = "tell" =>
       st[p].fired /\ told[p] = <<>> /\ \A u \in Threads : thread[p][u] = "tell" => u = t

\* `fired` says that the modules were told or a thread is about to.
ToldOk(p) ==
  /\ told[p] # <<>> =>
       /\ Len(told[p]) = 1 /\ st[p].fired /\ p \in became
       /\ told[p][1].name \in OwnNames(p)
  /\ st[p].fired => told[p] # <<>> \/ Telling(p)

\* A thread with something to be hooked again finds the flag set, or the thread that
\* found it set is not done.
RetryOk(p) ==
  \A t \in Threads : thread[p][t] = "forked" /\ ~st[p].in_child /\ todo[p][t] # {}
    => st[p].reinstall \/ Retrying(p)

ProcessOk(p) ==
  /\ p \notin alive => NotYet(p)
  /\ ChildOk(p)
  /\ \A t \in Threads : ThreadOk(p, t)
  /\ ToldOk(p)
  /\ RetryOk(p)

IndInv == TypeOK /\ Spawner \in alive /\ \A p \in Processes : ProcessOk(p)

(***************************************************************************)
(* Facts about one process.                                                *)
(***************************************************************************)

\* A process a step does not touch.
Untouched(q) ==
  /\ st'[q] = st[q] /\ thread'[q] = thread[q] /\ told'[q] = told[q] /\ todo'[q] = todo[q]
  /\ q \in became' <=> q \in became
  /\ q \in alive' <=> q \in alive

LEMMA Frame ==
  ASSUME NEW q \in Processes, ProcessOk(q), Untouched(q)
  PROVE  ProcessOk(q)'
<1>1. (NotYet(q)' <=> NotYet(q)) /\ (Telling(q)' <=> Telling(q))
  BY DEF Untouched, NotYet, Telling
<1>2. ChildOk(q)'
  BY DEF ProcessOk, Untouched, ChildOk
<1>3. \A t \in Threads : ThreadOk(q, t)'
  BY DEF ProcessOk, Untouched, ThreadOk
<1>4. ToldOk(q)'
  BY <1>1 DEF ProcessOk, Untouched, ToldOk
<1>5. RetryOk(q)'
  BY DEF ProcessOk, Untouched, RetryOk, Retrying
<1> QED BY <1>1, <1>2, <1>3, <1>4, <1>5 DEF ProcessOk, Untouched

\* The invariant holds after a step if it holds of the processes it touches.
LEMMA OthersKeep ==
  ASSUME IndInv, TypeOK', alive \subseteq alive',
         \A q \in Processes : Untouched(q) \/ ProcessOk(q)'
  PROVE  IndInv'
<1>1. \A q \in Processes : ProcessOk(q)'
  BY Frame DEF IndInv
<1> QED BY <1>1 DEF IndInv

\* What may follow from hooking: the same state with more hooks.
LEMMA Installed ==
  ASSUME NEW s \in State, library \subseteq Hooks, s.hooks \subseteq library,
         NEW i \in InstalledHooks(s)
  PROVE  /\ i \in State /\ i.hooks \subseteq library /\ s.hooks \subseteq i.hooks
         /\ i.modules = s.modules /\ i.in_child = s.in_child /\ i.fired = s.fired
         /\ i.name_state = s.name_state /\ i.captured_name = s.captured_name
         /\ i.atfork = s.atfork /\ i.reinstall = s.reinstall
<1>1. PICK new \in SUBSET library : i = [s EXCEPT !.hooks = @ \cup new]
  BY DEF InstalledHooks
<1> QED BY <1>1 DEF State

\* The state of a process a thread runs in.
LEMMA Types ==
  ASSUME TypeOK, NEW p \in Processes
  PROVE  /\ st[p] \in State /\ st[p].hooks \subseteq library
         /\ DOMAIN st = Processes /\ DOMAIN thread = Processes /\ DOMAIN told = Processes
         /\ DOMAIN thread[p] = Threads
         /\ st[p].modules \in Seq(Modules) /\ Len(st[p].modules) <= MaxModules
BY DEF TypeOK, State

(***************************************************************************)
(* The start.                                                              *)
(***************************************************************************)

LEMMA InitInv == Init => IndInv
<1> SUFFICES ASSUME Init PROVE IndInv
  OBVIOUS
<1>1. Fresh \in State /\ Len(Fresh.modules) <= MaxModules /\ Fresh.hooks = {}
  BY HyosAssumption DEF Fresh, State
<1>2. TypeOK
  BY <1>1, HyosAssumption DEF Init, TypeOK, Places, Nothing
<1>3. ASSUME NEW p \in Processes
      PROVE  ProcessOk(p)
  <2>1. st[p] = Fresh /\ told[p] = <<>> /\ became = {} /\ \A t \in Threads : thread[p][t] = "runs"
    BY <1>3 DEF Init
  <2>2. NotYet(p)
    BY <2>1 DEF NotYet
  <2>3. ChildOk(p)
    BY <2>1 DEF ChildOk, Fresh
  <2>4. \A t \in Threads : ThreadOk(p, t)
    BY <2>1 DEF ThreadOk
  <2>5. ToldOk(p) /\ RetryOk(p)
    BY <2>1 DEF ToldOk, RetryOk, Fresh
  <2> QED BY <2>2, <2>3, <2>4, <2>5 DEF ProcessOk
<1> QED BY <1>2, <1>3 DEF IndInv, Init

(***************************************************************************)
(* The steps.                                                              *)
(***************************************************************************)

LEMMA LibraryStep ==
  ASSUME IndInv, LibraryLoaded
  PROVE  IndInv'
<1>1. TypeOK'
  BY DEF IndInv, LibraryLoaded, TypeOK
<1>2. \A q \in Processes : Untouched(q)
  BY DEF LibraryLoaded, Untouched
<1> QED BY <1>1, <1>2, OthersKeep DEF LibraryLoaded

\* A step that leaves alone what was delivered and told keeps ToldOk.
LEMMA ToldKept ==
  ASSUME NEW p \in Processes, ToldOk(p), told'[p] = told[p], became \subseteq became',
         st'[p].fired = st[p].fired, Telling(p) => Telling(p)'
  PROVE  ToldOk(p)'
BY DEF ToldOk

\* A step that forgets no flag and lets no thread that tries again go keeps RetryOk.
LEMMA RetryKept ==
  ASSUME NEW p \in Processes, RetryOk(p), todo'[p] = todo[p],
         st'[p].in_child = st[p].in_child, st[p].reinstall => st'[p].reinstall,
         Retrying(p) => Retrying(p)',
         \A u \in Threads : thread'[p][u] = "forked" => thread[p][u] = "forked"
  PROVE  RetryOk(p)'
BY DEF RetryOk

LEMMA RegisterStep ==
  ASSUME IndInv, NEW p \in Processes, NEW m \in Modules, RegisterModule(p, m)
  PROVE  IndInv'
<1> DEFINE r == [st[p] EXCEPT !.modules = Append(@, m), !.atfork = @ \/ ~st[p].in_child]
<1>1. PICK i \in InstalledHooks(r) : st' = [st EXCEPT ![p] = i]
  BY DEF RegisterModule
<1>2. st[p] \in State /\ st[p].hooks \subseteq library /\ library \subseteq Hooks
  BY Types DEF IndInv, TypeOK
<1>3. /\ r \in State /\ r.hooks = st[p].hooks /\ r.modules = Append(st[p].modules, m)
      /\ r.in_child = st[p].in_child /\ r.fired = st[p].fired
      /\ r.name_state = st[p].name_state /\ r.captured_name = st[p].captured_name
      /\ r.atfork = (st[p].atfork \/ ~st[p].in_child) /\ r.reinstall = st[p].reinstall
  <2> DEFINE ms == Append(st[p].modules, m)
             a == st[p].atfork \/ ~st[p].in_child
  <2>1. ms \in Seq(Modules)
    BY <1>2 DEF State
  <2>2. a \in BOOLEAN
    OBVIOUS
  <2>3. r = [st[p] EXCEPT !.modules = ms, !.atfork = a]
    BY <1>2 DEF State
  <2> HIDE DEF ms, a, r
  <2>4. /\ r \in State /\ r.hooks = st[p].hooks /\ r.modules = ms /\ r.atfork = a
        /\ r.in_child = st[p].in_child /\ r.fired = st[p].fired
        /\ r.name_state = st[p].name_state /\ r.captured_name = st[p].captured_name
        /\ r.reinstall = st[p].reinstall
    BY <1>2, <2>1, <2>2, <2>3 DEF State
  <2> QED BY <2>4 DEF ms, a
<1> HIDE DEF r
<1>4. /\ i \in State /\ i.hooks \subseteq library
      /\ i.modules = Append(st[p].modules, m)
      /\ i.in_child = st[p].in_child /\ i.fired = st[p].fired
      /\ i.name_state = st[p].name_state /\ i.captured_name = st[p].captured_name
      /\ i.atfork = (st[p].atfork \/ ~st[p].in_child) /\ i.reinstall = st[p].reinstall
  BY <1>2, <1>3, Installed
<1>5. st'[p] = i /\ \A q \in Processes \ {p} : st'[q] = st[q]
  BY <1>1 DEF IndInv, TypeOK
<1>6. /\ UNCHANGED <<alive, library, thread, became, told>> /\ p \in alive
      /\ todo' = [todo EXCEPT ![p] = Nothing]
  BY DEF RegisterModule, Runs
<1>7. TypeOK'
  <2>1. Len(i.modules) <= MaxModules
    BY <1>2, <1>4, HyosAssumption DEF RegisterModule, State
  <2>2. \A q \in Processes : Len(st'[q].modules) <= MaxModules /\ st'[q].hooks \subseteq library'
    BY <1>4, <1>5, <1>6, <2>1 DEF IndInv, TypeOK
  <2>3. todo' \in [Processes -> [Threads -> SUBSET Hooks]]
    BY <1>6 DEF IndInv, TypeOK, Nothing
  <2> QED BY <1>1, <1>4, <1>6, <2>2, <2>3 DEF IndInv, TypeOK
<1>8. ProcessOk(p)'
  <2>1. ProcessOk(p)
    BY DEF IndInv
  <2>0. i.modules # <<>>
    BY <1>2, <1>4 DEF State
  <2>2. ChildOk(p)'
    BY <1>4, <1>5, <2>0, <2>1 DEF ProcessOk, ChildOk
  <2>3. \A t \in Threads : ThreadOk(p, t)'
    BY <1>4, <1>5, <1>6, <2>0, <2>1 DEF ProcessOk, ThreadOk
  <2>4. ToldOk(p)'
    BY <1>4, <1>5, <1>6, <2>1, ToldKept DEF ProcessOk, Telling
  <2>5. RetryOk(p)'
    BY <1>6 DEF RetryOk, Nothing, IndInv, TypeOK
  <2> QED BY <1>6, <2>2, <2>3, <2>4, <2>5 DEF ProcessOk
<1>9. \A q \in Processes \ {p} : Untouched(q)
  BY <1>5, <1>6 DEF Untouched, IndInv, TypeOK
<1> QED BY <1>6, <1>7, <1>8, <1>9, OthersKeep

\* A thread goes on to another place.
Moves(p, t, at) == thread' = [thread EXCEPT ![p][t] = at]

LEMMA Moved ==
  ASSUME TypeOK, NEW p \in Processes, NEW t \in Threads, NEW at \in Places, Moves(p, t, at)
  PROVE  /\ thread' \in [Processes -> [Threads -> Places]]
         /\ thread'[p][t] = at /\ \A u \in Threads \ {t} : thread'[p][u] = thread[p][u]
         /\ \A q \in Processes \ {p} : thread'[q] = thread[q]
BY DEF TypeOK, Moves

\* The state of a process becomes s.
Becomes(p, s) == st' = [st EXCEPT ![p] = s]

LEMMA Became ==
  ASSUME TypeOK, NEW p \in Processes, NEW s \in State, Becomes(p, s),
         s.hooks \subseteq library, Len(s.modules) <= MaxModules,
         UNCHANGED <<alive, library>>, became' \subseteq alive,
         thread' \in [Processes -> [Threads -> Places]],
         told' \in [Processes -> Seq([modules : Seq(Modules), name : Names \cup {NoName, Torn}])],
         todo' \in [Processes -> [Threads -> SUBSET Hooks]]
  PROVE  /\ TypeOK' /\ st'[p] = s
         /\ \A q \in Processes \ {p} : st'[q] = st[q]
<1>1. st'[p] = s /\ \A q \in Processes \ {p} : st'[q] = st[q]
  BY DEF TypeOK, Becomes
<1>2. st' \in [Processes -> State]
  BY DEF TypeOK, Becomes
<1>3. \A q \in Processes : Len(st'[q].modules) <= MaxModules /\ st'[q].hooks \subseteq library
  BY <1>1 DEF TypeOK
<1> QED BY <1>1, <1>2, <1>3 DEF TypeOK

(***************************************************************************)
(* Forking.                                                                *)
(***************************************************************************)

LEMMA Prepared ==
  ASSUME NEW s \in State
  PROVE  /\ AtForkPrepare(s) \in State /\ AtForkPrepare(s).modules = s.modules
         /\ AtForkPrepare(s).in_child = s.in_child /\ AtForkPrepare(s).fired = s.fired
         /\ AtForkPrepare(s).hooks = s.hooks /\ AtForkPrepare(s).name_state = s.name_state
         /\ AtForkPrepare(s).captured_name = s.captured_name
         /\ AtForkPrepare(s).atfork = s.atfork
         /\ AtForkPrepare(s).reinstall => s.reinstall \/ s.atfork
         /\ s.reinstall => AtForkPrepare(s).reinstall
         /\ s.atfork /\ ~s.in_child /\ s.modules # <<>> /\ ~({"setcontext", "setname"} \subseteq s.hooks)
              => AtForkPrepare(s).reinstall
BY DEF AtForkPrepare, State

LEMMA ChildState ==
  ASSUME NEW s \in State
  PROVE  /\ AtForkChild(s) \in State /\ AtForkChild(s).modules = s.modules
         /\ AtForkChild(s).in_child = TRUE /\ AtForkChild(s).fired = FALSE
         /\ AtForkChild(s).hooks = s.hooks /\ AtForkChild(s).name_state = "empty"
         /\ AtForkChild(s).atfork = s.atfork /\ AtForkChild(s).reinstall = FALSE
BY DEF AtForkChild, State

\* The process that is forked is there and the new one has been told nothing.
LEMMA ForkStep ==
  ASSUME IndInv, NEW p \in Processes, NEW t \in Threads, NEW c \in Processes, Fork(p, t, c)
  PROVE  IndInv'
<1>1. /\ p \in alive /\ c \notin alive /\ p # c /\ thread[p][t] = "runs"
      /\ alive' = alive \cup {c} /\ UNCHANGED <<library, became, told>>
  BY DEF Fork, Runs
<1> DEFINE s == AtForkPrepare(st[p])
<1>2. PICK hooked \in {"fork" \in st[p].hooks, FALSE} :
        /\ st' = [st EXCEPT ![p] = s,
                            ![c] = IF s.atfork \/ hooked THEN AtForkChild(s) ELSE s]
        /\ thread' = [thread EXCEPT ![p][t] = IF hooked THEN "forked" ELSE "runs",
                                    ![c] = [u \in Threads |-> "runs"]]
        /\ todo' = [todo EXCEPT ![p][t] = IF hooked THEN Wanted(p) ELSE {}]
  BY DEF Fork
<1>3. /\ st[p] \in State /\ st[p].hooks \subseteq library /\ Len(st[p].modules) <= MaxModules
      /\ DOMAIN st = Processes
  BY Types DEF IndInv
<1>4. /\ s \in State /\ s.modules = st[p].modules /\ s.in_child = st[p].in_child
      /\ s.fired = st[p].fired /\ s.hooks = st[p].hooks /\ s.name_state = st[p].name_state
      /\ s.captured_name = st[p].captured_name /\ s.atfork = st[p].atfork
      /\ s.reinstall => st[p].reinstall \/ st[p].atfork
      /\ st[p].reinstall => s.reinstall
      /\ s.atfork /\ ~s.in_child /\ s.modules # <<>> /\ Wanted(p) # {} => s.reinstall
  <2>1. Wanted(p) # {} => ~({"setcontext", "setname"} \subseteq st[p].hooks)
    BY DEF Wanted
  <2> QED BY <1>3, <2>1, Prepared
<1> DEFINE k == IF s.atfork \/ hooked THEN AtForkChild(s) ELSE s
<1> HIDE DEF s
<1>5. /\ k \in State /\ k.modules = s.modules /\ k.hooks = s.hooks /\ k.atfork = s.atfork
      /\ \/ k.in_child /\ ~k.fired /\ k.name_state = "empty" /\ ~k.reinstall
         \/ ~s.atfork /\ ~hooked /\ k = s
  BY <1>4, ChildState
<1> HIDE DEF k
<1>6. st'[p] = s /\ st'[c] = k /\ \A q \in Processes \ {p, c} : st'[q] = st[q]
  BY <1>1, <1>2, <1>3 DEF k
<1>7. /\ \A u \in Threads : thread'[c][u] = "runs"
      /\ thread'[p][t] \in {"forked", "runs"}
      /\ \A u \in Threads \ {t} : thread'[p][u] = thread[p][u]
      /\ \A q \in Processes \ {p, c} : thread'[q] = thread[q]
      /\ thread' \in [Processes -> [Threads -> Places]]
      /\ thread'[p][t] = "forked" => hooked
  BY <1>1, <1>2 DEF IndInv, TypeOK, Places
<1>13. /\ todo'[p][t] \subseteq Wanted(p)
       /\ \A u \in Threads \ {t} : todo'[p][u] = todo[p][u]
       /\ \A q \in Processes \ {p} : todo'[q] = todo[q]
       /\ todo' \in [Processes -> [Threads -> SUBSET Hooks]]
  BY <1>2 DEF IndInv, TypeOK, Wanted
<1>14. hooked => st[p].modules # <<>> /\ st[p].atfork
  BY <1>2 DEF IndInv, ProcessOk, ChildOk
<1>8. TypeOK'
  <2>1. st' \in [Processes -> State]
    BY <1>2, <1>4, <1>5 DEF IndInv, TypeOK, k
  <2>2. \A q \in Processes : Len(st'[q].modules) <= MaxModules /\ st'[q].hooks \subseteq library'
    BY <1>1, <1>3, <1>4, <1>5, <1>6 DEF IndInv, TypeOK
  <2> QED BY <1>1, <1>7, <1>13, <2>1, <2>2 DEF IndInv, TypeOK
<1>9. ProcessOk(p) /\ ProcessOk(c)
  BY DEF IndInv
<1>10. ProcessOk(p)'
  <2>1. ChildOk(p)'
    BY <1>4, <1>6, <1>9 DEF ProcessOk, ChildOk
  <2>2. \A u \in Threads : ThreadOk(p, u)'
    BY <1>1, <1>4, <1>6, <1>7, <1>9, <1>14 DEF ProcessOk, ThreadOk
  <2>3. (Telling(p) => Telling(p)') /\ (Retrying(p) => Retrying(p)')
    BY <1>1, <1>7 DEF Telling, Retrying
  <2>4. ToldOk(p)'
    BY <1>1, <1>4, <1>6, <1>9, <2>3, ToldKept DEF ProcessOk
  <2>5. RetryOk(p)'
    <3>1. ASSUME thread'[p][t] = "forked", ~s.in_child, todo'[p][t] # {}
          PROVE  s.reinstall
      BY <1>4, <1>7, <1>13, <1>14, <3>1
    <3>2. ASSUME NEW u \in Threads \ {t},
                 thread'[p][u] = "forked", ~s.in_child, todo'[p][u] # {}
          PROVE  s.reinstall \/ Retrying(p)'
      BY <1>4, <1>7, <1>9, <1>13, <2>3, <3>2 DEF ProcessOk, RetryOk
    <3> QED BY <1>6, <3>1, <3>2 DEF RetryOk
  <2> QED BY <1>1, <2>1, <2>2, <2>4, <2>5 DEF ProcessOk
<1>11. ProcessOk(c)'
  <2>1. NotYet(c) /\ told'[c] = <<>> /\ c # Spawner
    BY <1>1, <1>9 DEF ProcessOk, NotYet, IndInv
  <2>2. ~k.fired /\ k.name_state = "empty"
    <3>1. s.fired \/ s.name_state # "empty" => s.atfork
      BY <1>4, <1>9 DEF ProcessOk, ChildOk
    <3> QED BY <1>5, <3>1 DEF State
  <2>3. /\ k.in_child \/ k.hooks # {} \/ k.modules # <<>> \/ k.reinstall => k.atfork
        /\ k.hooks # {} => k.modules # <<>>
    <3>1. /\ s.in_child \/ s.hooks # {} \/ s.modules # <<>> \/ s.reinstall => s.atfork
          /\ s.hooks # {} => s.modules # <<>>
      BY <1>4, <1>9 DEF ProcessOk, ChildOk
    <3>2. hooked => s.atfork
      BY <1>2, <1>4, <3>1
    <3> QED BY <1>5, <3>1, <3>2 DEF k
  <2>4. ChildOk(c)'
    BY <1>6, <2>1, <2>2, <2>3 DEF ChildOk
  <2>5. \A u \in Threads : ThreadOk(c, u)'
    BY <1>7 DEF ThreadOk
  <2>6. ToldOk(c)' /\ RetryOk(c)'
    BY <1>6, <1>7, <2>1, <2>2 DEF ToldOk, RetryOk
  <2> QED BY <1>1, <2>4, <2>5, <2>6 DEF ProcessOk
<1>12. \A q \in Processes \ {p, c} : Untouched(q)
  BY <1>1, <1>6, <1>7, <1>13 DEF Untouched
<1> QED BY <1>1, <1>8, <1>10, <1>11, <1>12, OthersKeep

\* Only a thread that finds no flag goes on, and a thread that has the retry to do then
\* is another one.
LEMMA ForkReturnsStep ==
  ASSUME IndInv, NEW p \in Processes, NEW t \in Threads, ForkReturns(p, t)
  PROVE  IndInv'
<1>1. /\ p \in alive /\ thread[p][t] = "forked"
      /\ UNCHANGED <<alive, library, st, became, told>>
      /\ todo' = [todo EXCEPT ![p][t] = IF st[p].reinstall THEN @ ELSE {}]
  BY DEF ForkReturns
<1>2. PICK at \in {"retry", "runs"} : Moves(p, t, at) /\ (at = "runs" => ~st[p].reinstall)
  BY DEF ForkReturns, Moves
<1>3. ProcessOk(p)
  BY DEF IndInv
<1>4. /\ \A u \in Threads \ {t} : thread'[p][u] = thread[p][u]
      /\ thread'[p][t] = at /\ thread' \in [Processes -> [Threads -> Places]]
      /\ \A q \in Processes \ {p} : thread'[q] = thread[q]
  BY <1>2, Moved DEF IndInv, Places
<1>5. /\ todo' \in [Processes -> [Threads -> SUBSET Hooks]]
      /\ \A u \in Threads \ {t} : todo'[p][u] = todo[p][u]
      /\ \A q \in Processes \ {p} : todo'[q] = todo[q]
  BY <1>1 DEF IndInv, TypeOK
<1>6. TypeOK'
  BY <1>1, <1>4, <1>5 DEF IndInv, TypeOK
<1>7. ProcessOk(p)'
  <2>1. ChildOk(p)'
    BY <1>1, <1>3 DEF ProcessOk, ChildOk
  <2>2. \A u \in Threads : ThreadOk(p, u)'
    BY <1>1, <1>3, <1>4 DEF ProcessOk, ThreadOk
  <2>3. (Telling(p) => Telling(p)') /\ (Retrying(p) => Retrying(p)')
    BY <1>1, <1>4 DEF Telling, Retrying
  <2>4. ToldOk(p)'
    BY <1>1, <1>3, <2>3, ToldKept DEF ProcessOk
  <2>5. RetryOk(p)'
    BY <1>1, <1>3, <1>4, <1>5, <2>3 DEF ProcessOk, RetryOk
  <2> QED BY <1>1, <2>1, <2>2, <2>4, <2>5 DEF ProcessOk
<1>8. \A q \in Processes \ {p} : Untouched(q)
  BY <1>1, <1>4, <1>5 DEF Untouched
<1> QED BY <1>1, <1>6, <1>7, <1>8, OthersKeep

\* The flag is reset by a thread that goes on to try, and nothing is left once it did.
LEMMA InstallAgainStep ==
  ASSUME IndInv, NEW p \in Processes, NEW t \in Threads, InstallAgain(p, t)
  PROVE  IndInv'
<1> DEFINE s == [st[p] EXCEPT !.reinstall = FALSE]
<1>1. /\ p \in alive /\ thread[p][t] \in {"retry", "hooks"}
      /\ UNCHANGED <<alive, library, became, told>>
  BY DEF InstallAgain
<1>2. /\ st[p] \in State /\ st[p].hooks \subseteq library /\ library \subseteq Hooks
      /\ Len(st[p].modules) <= MaxModules /\ DOMAIN st = Processes
  BY Types DEF IndInv, TypeOK
<1>3. ProcessOk(p) /\ st[p].modules # <<>>
  BY <1>1 DEF IndInv, ProcessOk, ThreadOk
<1>4. /\ s \in State /\ s.modules = st[p].modules /\ s.in_child = st[p].in_child
      /\ s.fired = st[p].fired /\ s.hooks = st[p].hooks /\ s.name_state = st[p].name_state
      /\ s.captured_name = st[p].captured_name /\ s.atfork = st[p].atfork
      /\ s.reinstall = FALSE
  BY <1>2 DEF State
<1>5. PICK i \in State, at \in Places :
        /\ Becomes(p, i) /\ Moves(p, t, at) /\ i.hooks \subseteq library
        /\ i.modules = st[p].modules /\ i.in_child = st[p].in_child
        /\ i.fired = st[p].fired /\ i.name_state = st[p].name_state
        /\ i.captured_name = st[p].captured_name /\ i.atfork = st[p].atfork
        /\ i.reinstall => st[p].reinstall
        /\ at \in {"runs", "hooks"}
        /\ \/ todo' = todo /\ (at = "hooks" \/ st[p].in_child)
           \/ todo' = [todo EXCEPT ![p] = Nothing]
  <2>1. CASE thread[p][t] = "retry"
    <3>1. /\ Becomes(p, s) /\ todo' = todo
          /\ Moves(p, t, IF st[p].in_child THEN "runs" ELSE "hooks")
      BY <1>2, <2>1 DEF InstallAgain, Becomes, Moves
    <3> HIDE DEF s
    <3> QED BY <1>2, <1>4, <3>1 DEF Places
  <2>2. CASE thread[p][t] = "hooks"
    <3>1. PICK n \in InstalledHooks(st[p]) :
            Becomes(p, n) /\ Moves(p, t, "runs") /\ todo' = [todo EXCEPT ![p] = Nothing]
      BY <2>2 DEF InstallAgain, Becomes, Moves
    <3>2. /\ n \in State /\ n.hooks \subseteq library
          /\ n.modules = st[p].modules /\ n.in_child = st[p].in_child /\ n.fired = st[p].fired
          /\ n.name_state = st[p].name_state /\ n.captured_name = st[p].captured_name
          /\ n.atfork = st[p].atfork /\ n.reinstall = st[p].reinstall
      BY <1>2, Installed
    <3> QED BY <3>1, <3>2 DEF Places
  <2> QED BY <1>1, <2>1, <2>2
<1> HIDE DEF s
<1>6. /\ \A u \in Threads \ {t} : thread'[p][u] = thread[p][u]
      /\ thread'[p][t] = at /\ thread' \in [Processes -> [Threads -> Places]]
      /\ \A q \in Processes \ {p} : thread'[q] = thread[q]
  BY <1>5, Moved DEF IndInv
<1>7. /\ todo' \in [Processes -> [Threads -> SUBSET Hooks]]
      /\ \A q \in Processes \ {p} : todo'[q] = todo[q]
  BY <1>5 DEF IndInv, TypeOK, Nothing
<1>8. TypeOK' /\ st'[p] = i /\ \A q \in Processes \ {p} : st'[q] = st[q]
  BY <1>1, <1>2, <1>5, <1>6, <1>7, Became DEF IndInv, TypeOK
<1>9. ProcessOk(p)'
  <2>1. ChildOk(p)'
    BY <1>3, <1>5, <1>8 DEF ProcessOk, ChildOk
  <2>2. \A u \in Threads : ThreadOk(p, u)'
    BY <1>1, <1>3, <1>5, <1>6, <1>8 DEF ProcessOk, ThreadOk
  <2>3. Telling(p) => Telling(p)'
    BY <1>1, <1>6 DEF Telling
  <2>4. ToldOk(p)'
    BY <1>1, <1>3, <1>5, <1>8, <2>3, ToldKept DEF ProcessOk
  <2>5. RetryOk(p)'
    <3>1. CASE todo' = [todo EXCEPT ![p] = Nothing]
      BY <3>1 DEF RetryOk, Nothing, IndInv, TypeOK
    <3>2. CASE at = "hooks" \/ st[p].in_child
      BY <1>5, <1>6, <1>8, <3>2 DEF RetryOk, Retrying
    <3> QED BY <1>5, <3>1, <3>2
  <2> QED BY <1>1, <2>1, <2>2, <2>4, <2>5 DEF ProcessOk
<1>10. \A q \in Processes \ {p} : Untouched(q)
  BY <1>1, <1>6, <1>7, <1>8 DEF Untouched
<1> QED BY <1>1, <1>8, <1>9, <1>10, OthersKeep

(***************************************************************************)
(* The name.                                                               *)
(***************************************************************************)

LEMMA SetNameStep ==
  ASSUME IndInv, NEW p \in Processes, NEW t \in Threads, SetName(p, t)
  PROVE  IndInv'
<1> DEFINE s == [st[p] EXCEPT !.name_state = "writing", !.captured_name = Torn]
<1>1. /\ p \in alive /\ thread[p][t] = "runs" /\ Moves(p, t, "writes") /\ st[p].in_child
      /\ UNCHANGED <<alive, library, became, told, todo>>
  BY DEF SetName, Moves, Runs
<1>3. /\ st[p] \in State /\ st[p].hooks \subseteq library /\ Len(st[p].modules) <= MaxModules
      /\ DOMAIN st = Processes
  BY Types DEF IndInv, TypeOK
<1>2. Becomes(p, s)
  BY <1>3 DEF SetName, Becomes
<1>4. ProcessOk(p)
  BY DEF IndInv
<1>5. /\ s \in State /\ s.modules = st[p].modules /\ s.in_child = st[p].in_child
      /\ s.fired = st[p].fired /\ s.hooks = st[p].hooks /\ s.name_state = "writing"
      /\ s.atfork = st[p].atfork /\ s.reinstall = st[p].reinstall
  BY <1>3 DEF State
<1> HIDE DEF s
<1>7. /\ \A u \in Threads \ {t} : thread'[p][u] = thread[p][u]
      /\ thread'[p][t] = "writes" /\ thread' \in [Processes -> [Threads -> Places]]
      /\ \A q \in Processes \ {p} : thread'[q] = thread[q]
  BY <1>1, Moved DEF IndInv, Places
<1>8. TypeOK' /\ st'[p] = s /\ \A q \in Processes \ {p} : st'[q] = st[q]
  BY <1>1, <1>2, <1>3, <1>5, <1>7, Became DEF IndInv, TypeOK
<1>9. ProcessOk(p)'
  <2>1. ChildOk(p)'
    BY <1>1, <1>4, <1>5, <1>8 DEF ProcessOk, ChildOk
  <2>2. \A u \in Threads : ThreadOk(p, u)'
    BY ZenonT(40), <1>1, <1>4, <1>5, <1>7, <1>8 DEF ProcessOk, ThreadOk
  <2>3. (Telling(p) => Telling(p)') /\ (Retrying(p) => Retrying(p)')
    BY <1>1, <1>7 DEF Telling, Retrying
  <2>4. ToldOk(p)'
    BY <1>1, <1>4, <1>5, <1>8, <2>3, ToldKept DEF ProcessOk
  <2>5. RetryOk(p)'
    BY <1>1, <1>4, <1>5, <1>7, <1>8, <2>3, RetryKept DEF ProcessOk
  <2> QED BY <1>1, <2>1, <2>2, <2>4, <2>5 DEF ProcessOk
<1>10. \A q \in Processes \ {p} : Untouched(q)
  BY <1>1, <1>7, <1>8 DEF Untouched
<1> QED BY <1>1, <1>8, <1>9, <1>10, OthersKeep

LEMMA NameWrittenStep ==
  ASSUME IndInv, NEW p \in Processes, NEW t \in Threads, NameWritten(p, t)
  PROVE  IndInv'
<1> DEFINE s == [st[p] EXCEPT !.name_state = "ready", !.captured_name = NameOf(p, t)]
<1>1. /\ p \in alive /\ thread[p][t] = "writes" /\ Moves(p, t, "runs")
      /\ UNCHANGED <<alive, library, became, told, todo>>
  BY DEF NameWritten, Moves
<1>3. /\ st[p] \in State /\ st[p].hooks \subseteq library /\ Len(st[p].modules) <= MaxModules
      /\ DOMAIN st = Processes
  BY Types DEF IndInv, TypeOK
<1>2. Becomes(p, s)
  BY <1>3 DEF NameWritten, Becomes
<1>4. ProcessOk(p) /\ st[p].in_child
  BY <1>1 DEF IndInv, ProcessOk, ThreadOk
<1>5. /\ s \in State /\ s.modules = st[p].modules /\ s.in_child = st[p].in_child
      /\ s.fired = st[p].fired /\ s.hooks = st[p].hooks /\ s.captured_name \in OwnNames(p)
      /\ s.atfork = st[p].atfork /\ s.reinstall = st[p].reinstall
  <2>1. NameOf(p, t) \in Names /\ NameOf(p, t) \in OwnNames(p)
    BY DEF Names, OwnNames
  <2> QED BY <1>3, <2>1 DEF State
<1> HIDE DEF s
<1>7. /\ \A u \in Threads \ {t} : thread'[p][u] = thread[p][u]
      /\ thread'[p][t] = "runs" /\ thread' \in [Processes -> [Threads -> Places]]
      /\ \A q \in Processes \ {p} : thread'[q] = thread[q]
  BY <1>1, Moved DEF IndInv, Places
<1>8. TypeOK' /\ st'[p] = s /\ \A q \in Processes \ {p} : st'[q] = st[q]
  BY <1>1, <1>2, <1>3, <1>5, <1>7, Became DEF IndInv, TypeOK
<1>9. ProcessOk(p)'
  <2>1. ChildOk(p)'
    BY <1>4, <1>5, <1>8 DEF ProcessOk, ChildOk, OwnNames, NameOf
  <2>2. \A u \in Threads : ThreadOk(p, u)'
    BY <1>1, <1>4, <1>5, <1>7, <1>8 DEF ProcessOk, ThreadOk
  <2>3. (Telling(p) => Telling(p)') /\ (Retrying(p) => Retrying(p)')
    BY <1>1, <1>7 DEF Telling, Retrying
  <2>4. ToldOk(p)'
    BY <1>1, <1>4, <1>5, <1>8, <2>3, ToldKept DEF ProcessOk
  <2>5. RetryOk(p)'
    BY <1>1, <1>4, <1>5, <1>7, <1>8, <2>3, RetryKept DEF ProcessOk
  <2> QED BY <1>1, <2>1, <2>2, <2>4, <2>5 DEF ProcessOk
<1>10. \A q \in Processes \ {p} : Untouched(q)
  BY <1>1, <1>7, <1>8 DEF Untouched
<1> QED BY <1>1, <1>8, <1>9, <1>10, OthersKeep

(***************************************************************************)
(* The delivery.                                                           *)
(***************************************************************************)

LEMMA SetContextStep ==
  ASSUME IndInv, NEW p \in Processes, NEW t \in Threads, SetContext(p, t)
  PROVE  IndInv'
<1>1. /\ p \in alive /\ thread[p][t] = "runs" /\ became' = became \cup {p}
      /\ UNCHANGED <<alive, library, st, told, todo>>
  BY DEF SetContext, Runs
<1>2. PICK at \in {"deliver", "runs"} : Moves(p, t, at)
  BY DEF SetContext, Moves
<1>3. ProcessOk(p)
  BY DEF IndInv
<1>4. /\ \A u \in Threads \ {t} : thread'[p][u] = thread[p][u]
      /\ thread'[p][t] = at /\ thread' \in [Processes -> [Threads -> Places]]
      /\ \A q \in Processes \ {p} : thread'[q] = thread[q]
  BY <1>2, Moved DEF IndInv, Places
<1>5. TypeOK'
  BY <1>1, <1>4 DEF IndInv, TypeOK
<1>6. ProcessOk(p)'
  <2>1. ChildOk(p)'
    BY <1>1, <1>3 DEF ProcessOk, ChildOk
  <2>2. \A u \in Threads : ThreadOk(p, u)'
    BY <1>1, <1>3, <1>4 DEF ProcessOk, ThreadOk
  <2>3. (Telling(p) => Telling(p)') /\ (Retrying(p) => Retrying(p)')
    BY <1>1, <1>4 DEF Telling, Retrying
  <2>4. ToldOk(p)'
    BY <1>1, <1>3, <2>3, ToldKept DEF ProcessOk
  <2>5. RetryOk(p)'
    BY <1>1, <1>2, <1>3, <1>4, <2>3, RetryKept DEF ProcessOk
  <2> QED BY <1>1, <2>1, <2>2, <2>4, <2>5 DEF ProcessOk
<1>7. \A q \in Processes \ {p} : Untouched(q)
  BY <1>1, <1>4 DEF Untouched
<1> QED BY <1>1, <1>5, <1>6, <1>7, OthersKeep

\* Only the first thread to set `fired` goes on to tell.
LEMMA DeliverStep ==
  ASSUME IndInv, NEW p \in Processes, NEW t \in Threads, Deliver(p, t)
  PROVE  IndInv'
<1> DEFINE first == st[p].in_child /\ st[p].modules # <<>> /\ ~st[p].fired
<1>1. /\ p \in alive /\ thread[p][t] = "deliver"
      /\ UNCHANGED <<alive, library, became, told, todo>>
      /\ st' = [st EXCEPT ![p].fired = @ \/ first]
      /\ Moves(p, t, IF first THEN "tell" ELSE "runs")
  BY DEF Deliver, Moves
<1>2. /\ st[p] \in State /\ st[p].hooks \subseteq library /\ Len(st[p].modules) <= MaxModules
      /\ DOMAIN st = Processes
  BY Types DEF IndInv, TypeOK
<1>3. ProcessOk(p)
  BY DEF IndInv
<1>4. PICK s : /\ Becomes(p, s) /\ s \in State
               /\ s.modules = st[p].modules /\ s.in_child = st[p].in_child
               /\ s.fired = (st[p].fired \/ first) /\ s.hooks = st[p].hooks
               /\ s.name_state = st[p].name_state /\ s.captured_name = st[p].captured_name
               /\ s.atfork = st[p].atfork /\ s.reinstall = st[p].reinstall
  <2> DEFINE f == st[p].fired \/ first
             s == [st[p] EXCEPT !.fired = f]
  <2>1. f \in BOOLEAN
    OBVIOUS
  <2>2. st' = [st EXCEPT ![p].fired = f]
    BY <1>1, <1>2
  <2> HIDE DEF first, f
  <2>3. st' = [st EXCEPT ![p] = [st[p] EXCEPT !.fired = f]]
    BY <1>2, <2>2
  <2>4. /\ s \in State /\ s.modules = st[p].modules /\ s.in_child = st[p].in_child
        /\ s.fired = f /\ s.hooks = st[p].hooks
        /\ s.name_state = st[p].name_state /\ s.captured_name = st[p].captured_name
        /\ s.atfork = st[p].atfork /\ s.reinstall = st[p].reinstall
    BY <1>2, <2>1 DEF State
  <2>5. Becomes(p, s)
    BY <2>3 DEF Becomes
  <2> HIDE DEF s
  <2> QED BY <2>4, <2>5 DEF f
<1>5. PICK at \in Places : at = IF first THEN "tell" ELSE "runs"
  BY DEF Places
<1>6. /\ \A u \in Threads \ {t} : thread'[p][u] = thread[p][u]
      /\ thread'[p][t] = at /\ thread' \in [Processes -> [Threads -> Places]]
      /\ \A q \in Processes \ {p} : thread'[q] = thread[q]
  BY <1>1, <1>5, Moved DEF IndInv
<1>7. TypeOK' /\ st'[p] = s /\ \A q \in Processes \ {p} : st'[q] = st[q]
  BY <1>1, <1>2, <1>4, <1>6, Became DEF IndInv, TypeOK
<1>8. ProcessOk(p)'
  <2>1. ChildOk(p)'
    BY <1>3, <1>4, <1>7 DEF ProcessOk, ChildOk
  <2>4. RetryOk(p)'
    <3>1. Retrying(p) => Retrying(p)'
      BY <1>1, <1>6 DEF Retrying
    <3>2. at # "forked"
      BY <1>5
    <3> QED BY <1>1, <1>3, <1>4, <1>6, <1>7, <3>1, <3>2, RetryKept DEF ProcessOk
  <2>2. CASE first
    <3>1. s.fired /\ ~st[p].fired /\ thread'[p][t] = "tell"
      BY <1>4, <1>5, <1>6, <2>2
    <3>2. told'[p] = <<>> /\ p \in became'
      BY <1>1, <1>3, <3>1 DEF ProcessOk, ToldOk, ThreadOk
    <3>3. \A u \in Threads \ {t} : thread'[p][u] # "tell"
      BY <1>3, <1>6, <3>1 DEF ProcessOk, ThreadOk
    <3>4. \A u \in Threads : ThreadOk(p, u)'
      BY <1>1, <1>3, <1>4, <1>6, <1>7, <3>1, <3>2, <3>3 DEF ProcessOk, ThreadOk
    <3>5. ToldOk(p)'
      BY <1>7, <3>1, <3>2 DEF ToldOk, Telling
    <3> QED BY <1>1, <2>1, <2>4, <3>4, <3>5 DEF ProcessOk
  <2>3. CASE ~first
    <3>1. s.fired = st[p].fired /\ thread'[p][t] = "runs"
      BY <1>2, <1>4, <1>5, <1>6, <2>3 DEF State
    <3>2. \A u \in Threads : ThreadOk(p, u)'
      BY <1>1, <1>3, <1>4, <1>6, <1>7, <3>1 DEF ProcessOk, ThreadOk
    <3>3. Telling(p) => Telling(p)'
      BY <1>1, <1>6 DEF Telling
    <3>4. ToldOk(p)'
      BY <1>1, <1>3, <1>7, <3>1, <3>3, ToldKept DEF ProcessOk
    <3> QED BY <1>1, <2>1, <2>4, <3>2, <3>4 DEF ProcessOk
  <2> QED BY <2>2, <2>3
<1>9. \A q \in Processes \ {p} : Untouched(q)
  BY <1>1, <1>6, <1>7 DEF Untouched
<1> QED BY <1>1, <1>7, <1>8, <1>9, OthersKeep

LEMMA TellStep ==
  ASSUME IndInv, NEW p \in Processes, NEW t \in Threads, Tell(p, t)
  PROVE  IndInv'
<1> DEFINE n == IF st[p].name_state = "ready" THEN st[p].captured_name ELSE NameOf(p, t)
           r == [modules |-> st[p].modules, name |-> n]
<1>1. /\ p \in alive /\ thread[p][t] = "tell" /\ Moves(p, t, "runs")
      /\ UNCHANGED <<alive, library, became, st, todo>>
      /\ told' = [told EXCEPT ![p] = Append(@, r)]
  BY DEF Tell, Moves
<1>2. /\ st[p] \in State /\ DOMAIN told = Processes
  BY Types DEF IndInv, TypeOK
<1>3. ProcessOk(p)
  BY DEF IndInv
<1>4. st[p].fired /\ told[p] = <<>> /\ p \in became
  BY <1>1, <1>3 DEF ProcessOk, ThreadOk
<1>5. n \in OwnNames(p) /\ n \in Names
  BY <1>3 DEF ProcessOk, ChildOk, OwnNames, Names
<1>6. r \in [modules : Seq(Modules), name : Names \cup {NoName, Torn}] /\ r.name = n
  BY <1>2, <1>5 DEF State
<1> HIDE DEF n, r
<1>7. told'[p] = <<r>> /\ \A q \in Processes \ {p} : told'[q] = told[q]
  BY <1>1, <1>2, <1>4
<1>8. told' \in [Processes -> Seq([modules : Seq(Modules), name : Names \cup {NoName, Torn}])]
  <2> DEFINE R == [modules : Seq(Modules), name : Names \cup {NoName, Torn}]
  <2>1. r \in R /\ told \in [Processes -> Seq(R)]
    BY <1>6 DEF IndInv, TypeOK
  <2> HIDE DEF R
  <2>2. told[p] \in Seq(R)
    BY <2>1
  <2>3. Append(told[p], r) \in Seq(R)
    BY <2>1, <2>2
  <2>4. told' = [told EXCEPT ![p] = Append(told[p], r)]
    BY <1>1
  <2>5. told' \in [Processes -> Seq(R)]
    BY <2>1, <2>3, <2>4
  <2> QED BY <2>5 DEF R
<1>9. /\ \A u \in Threads \ {t} : thread'[p][u] = thread[p][u]
      /\ thread'[p][t] = "runs" /\ thread' \in [Processes -> [Threads -> Places]]
      /\ \A q \in Processes \ {p} : thread'[q] = thread[q]
  BY <1>1, Moved DEF IndInv, Places
<1>10. TypeOK'
  BY <1>1, <1>8, <1>9 DEF IndInv, TypeOK
<1>11. ProcessOk(p)'
  <2>1. ChildOk(p)'
    BY <1>1, <1>3 DEF ProcessOk, ChildOk
  <2>2. \A u \in Threads : thread'[p][u] # "tell"
    BY <1>1, <1>3, <1>9 DEF ProcessOk, ThreadOk
  <2>3. \A u \in Threads : ThreadOk(p, u)'
    BY <1>1, <1>3, <1>9, <2>2 DEF ProcessOk, ThreadOk
  <2>4. Len(told'[p]) = 1 /\ told'[p][1] = r
    BY <1>7
  <2>5. ToldOk(p)'
    <3>1. told'[p] # <<>>
      BY <2>4
    <3>2. told'[p][1].name \in OwnNames(p)
      BY <1>5, <1>6, <2>4
    <3> QED BY <1>1, <1>4, <2>4, <3>1, <3>2 DEF ToldOk
  <2>6. RetryOk(p)'
    <3>1. Retrying(p) => Retrying(p)'
      BY <1>1, <1>9 DEF Retrying
    <3> QED BY <1>1, <1>3, <1>9, <3>1, RetryKept DEF ProcessOk
  <2> QED BY <1>1, <2>1, <2>3, <2>5, <2>6 DEF ProcessOk
<1>12. \A q \in Processes \ {p} : Untouched(q)
  BY <1>1, <1>7, <1>9 DEF Untouched
<1> QED BY <1>1, <1>10, <1>11, <1>12, OthersKeep

(***************************************************************************)
(* The theorems.                                                           *)
(***************************************************************************)

LEMMA NextInv ==
  ASSUME IndInv, [Next]_vars
  PROVE  IndInv'
<1>1. CASE UNCHANGED vars
  <2>1. TypeOK' /\ \A q \in Processes : Untouched(q)
    BY <1>1 DEF vars, IndInv, TypeOK, Untouched
  <2> QED BY <1>1, <2>1, OthersKeep DEF vars
<1>2. CASE Next
  BY <1>2, LibraryStep, RegisterStep, ForkStep, ForkReturnsStep, InstallAgainStep, SetNameStep,
     NameWrittenStep, SetContextStep, DeliverStep, TellStep DEF Next, Proceed
<1> QED BY <1>1, <1>2

\* The state of a spawner and of all that fork from it is as IndInv says.
THEOREM Invariance == Spec => []IndInv
<1> QED BY InitInv, NextInv, PTL DEF Spec

\* Every process has a state, threads and a history of the types of the loader.
THEOREM TypeCorrect == Spec => []TypeOK
<1>1. IndInv => TypeOK
  BY DEF IndInv
<1> QED BY <1>1, Invariance, PTL

\* runtime.cpp: however many threads of an app come back from setcontext, and whatever
\* it was forked from, its modules are told once, and only in an app.
THEOREM OneDelivery == Spec => []ToldOnce
<1>1. IndInv => ToldOnce
  BY DEF IndInv, ProcessOk, ToldOk, ChildOk, ToldOnce
<1> QED BY <1>1, Invariance, PTL

\* The name the modules are told is whole and of a thread of their own process.
THEOREM OwnName == Spec => []NameIsOwn
<1>1. ASSUME IndInv, NEW p \in Processes, NEW i \in 1..Len(told[p])
      PROVE  told[p][i].name \in {NameOf(p, t) : t \in Threads}
  <2>1. ToldOk(p) /\ told[p] # <<>>
    BY <1>1 DEF IndInv, ProcessOk
  <2>2. Len(told[p]) = 1 /\ told[p][1].name \in OwnNames(p)
    BY <2>1 DEF ToldOk
  <2>3. i = 1
    BY <1>1, <2>2
  <2> QED BY <2>2, <2>3 DEF OwnNames
<1>2. IndInv => NameIsOwn
  BY <1>1 DEF NameIsOwn
<1> QED BY <1>2, Invariance, PTL

(***************************************************************************)
(* What a step may never do.                                               *)
(***************************************************************************)

\* A thread that returns with something left to be hooked found the flag reset, so
\* that the one that reset it is about to try.
LEMMA ReturnsDone ==
  ASSUME IndInv, [Next]_vars, NEW p \in Processes, NEW t \in Threads,
         thread[p][t] = "forked", thread'[p][t] = "runs", ~st[p].in_child
  PROVE  todo[p][t] = {} \/ Retrying(p)
<1>0. p \in alive /\ RetryOk(p) /\ thread \in [Processes -> [Threads -> Places]]
  BY DEF IndInv, ProcessOk, NotYet, TypeOK
<1>1. ASSUME NEW q \in Processes, NEW u \in Threads, ForkReturns(q, u)
      PROVE  ~st[p].reinstall
  <2>1. p = q /\ t = u
    BY <1>0, <1>1 DEF ForkReturns
  <2> QED BY <1>0, <1>1, <2>1 DEF ForkReturns
<1>2. ASSUME NEW q \in Processes, NEW u \in Threads, NEW c \in Processes, Fork(q, u, c)
      PROVE  FALSE
  BY <1>0, <1>2 DEF Fork, Runs
<1>3. ASSUME NEW q \in Processes, NEW u \in Threads,
             \/ InstallAgain(q, u) \/ SetName(q, u) \/ NameWritten(q, u)
             \/ SetContext(q, u) \/ Deliver(q, u) \/ Tell(q, u)
      PROVE  FALSE
  <2>1. CASE InstallAgain(q, u)
    BY <1>0, <2>1 DEF InstallAgain
  <2>2. CASE SetName(q, u)
    BY <1>0, <2>2 DEF SetName, Runs
  <2>3. CASE NameWritten(q, u)
    BY <1>0, <2>3 DEF NameWritten
  <2>4. CASE SetContext(q, u)
    BY <1>0, <2>4 DEF SetContext, Runs
  <2>5. CASE Deliver(q, u)
    BY <1>0, <2>5 DEF Deliver
  <2>6. CASE Tell(q, u)
    BY <1>0, <2>6 DEF Tell
  <2> QED BY <1>3, <2>1, <2>2, <2>3, <2>4, <2>5, <2>6
<1>4. UNCHANGED vars \/ LibraryLoaded \/ (\E q \in Processes, m \in Modules : RegisterModule(q, m))
      => FALSE
  BY DEF vars, LibraryLoaded, RegisterModule
<1>5. ~st[p].reinstall
  <2>1. CASE UNCHANGED vars
    BY <1>4, <2>1
  <2>2. CASE Next
    BY <1>1, <1>2, <1>3, <1>4, <2>2 DEF Next, Proceed
  <2> QED BY <2>1, <2>2
<1> QED BY <1>0, <1>5 DEF RetryOk

\* hooks.cpp, forkHook: what an app needs and could be hooked when a thread forked has
\* been tried since when it returns, or a thread that took the flag is about to.
THEOREM HooksAreRetried == Spec => HooksRetried
<1>1. IndInv /\ [Next]_vars =>
        [\A p \in Processes, t \in Threads :
           thread[p][t] = "forked" /\ thread'[p][t] = "runs" /\ ~st[p].in_child
             => todo[p][t] = {} \/ \E u \in Threads : thread[p][u] \in {"retry", "hooks"}]_vars
  BY ReturnsDone DEF Retrying
<1> QED BY <1>1, Invariance, PTL DEF Spec, HooksRetried

\* A thread that is to deliver and goes back to what it ran found `fired` set, which
\* says that another one has told the modules or is about to.
LEMMA GoesBack ==
  ASSUME IndInv, [Next]_vars, NEW p \in Processes, NEW t \in Threads,
         thread[p][t] = "deliver", thread'[p][t] = "runs",
         st[p].in_child, st[p].modules # <<>>
  PROVE  told[p] # <<>> \/ Telling(p)
<1>0. p \in alive /\ ToldOk(p) /\ thread \in [Processes -> [Threads -> Places]]
  BY DEF IndInv, ProcessOk, NotYet, TypeOK
<1>1. ASSUME NEW q \in Processes, NEW u \in Threads, Deliver(q, u)
      PROVE  st[p].fired
  <2>1. p = q /\ t = u
    BY <1>0, <1>1 DEF Deliver
  <2> QED BY <1>0, <1>1, <2>1 DEF Deliver
<1>2. ASSUME NEW q \in Processes, NEW u \in Threads, NEW c \in Processes, Fork(q, u, c)
      PROVE  FALSE
  BY <1>0, <1>2 DEF Fork, Runs
<1>3. ASSUME NEW q \in Processes, NEW u \in Threads,
             \/ ForkReturns(q, u) \/ InstallAgain(q, u) \/ SetName(q, u)
             \/ NameWritten(q, u) \/ SetContext(q, u) \/ Tell(q, u)
      PROVE  FALSE
  <2>1. CASE ForkReturns(q, u)
    BY <1>0, <2>1 DEF ForkReturns
  <2>2. CASE SetName(q, u)
    BY <1>0, <2>2 DEF SetName, Runs
  <2>3. CASE NameWritten(q, u)
    BY <1>0, <2>3 DEF NameWritten
  <2>4. CASE SetContext(q, u)
    BY <1>0, <2>4 DEF SetContext, Runs
  <2>5. CASE Tell(q, u)
    BY <1>0, <2>5 DEF Tell
  <2>6. CASE InstallAgain(q, u)
    BY <1>0, <2>6 DEF InstallAgain
  <2> QED BY <1>3, <2>1, <2>2, <2>3, <2>4, <2>5, <2>6
<1>4. UNCHANGED vars \/ LibraryLoaded \/ (\E q \in Processes, m \in Modules : RegisterModule(q, m))
      => FALSE
  BY DEF vars, LibraryLoaded, RegisterModule
<1>5. st[p].fired
  <2>1. CASE UNCHANGED vars
    BY <1>4, <2>1
  <2>2. CASE Next
    BY <1>1, <1>2, <1>3, <1>4, <2>2 DEF Next, Proceed
  <2> QED BY <2>1, <2>2
<1> QED BY <1>0, <1>5 DEF ToldOk

\* A thread of an app comes back from setcontext with the modules told, or with another
\* thread that is telling them; none is left out because its parent was told before.
THEOREM NoAppIsLeftOut == Spec => AppIsTold
<1>1. IndInv /\ [Next]_vars =>
        [\A p \in Processes, t \in Threads :
           thread[p][t] = "deliver" /\ thread'[p][t] = "runs" /\ st[p].in_child /\ st[p].modules # <<>>
             => told[p] # <<>> \/ \E u \in Threads : thread[p][u] = "tell"]_vars
  BY GoesBack DEF Telling
<1> QED BY <1>1, Invariance, PTL DEF Spec, AppIsTold
=============================================================================
