----------------------------- MODULE DaemonProofs ----------------------------
(***************************************************************************)
(* Proofs about the daemon: what it does with each process (Tracking), and   *)
(* that it is the only one (DaemonInstance).                                 *)
(*                                                                         *)
(* Of Tracking: for any processes, in every mode and with any of the event   *)
(* sources, the first answer about a process is the last.                    *)
(*                                                                         *)
(* Three sets of the daemon forget processes at different times, from events *)
(* that come late or from lists of /proc that are old.  What has to be shown *)
(* is that none of them forgets a settled process that still lives.          *)
(***************************************************************************)
EXTENDS Tracking, DaemonInstance, TLAPS

\* A process that was settled is remembered while it lives, one that is deferred is not
\* settled, and the daemon knows nothing of a process before it is forked.
Settled(p) ==
  /\ outcome[p] # "none" /\ Alive(p) => p \in done
  /\ p \in deferred => outcome[p] = "none"
  /\ exe[p] = "none" => outcome[p] = "none" /\ p \notin done \cup deferred \cup held
  /\ p \in held => Alive(p)

\* A pass over /proc has seen what the daemon remembers of living processes.
Seen(p) ==
  pass = "scan" => /\ p \in done \cup deferred /\ Alive(p) => p \in seen
                   /\ p \in left => p \in seen

\* An exit is reported of a process that is gone.
ExitsAreOver ==
  \A s \in Sources : \A i \in DOMAIN events[s] :
    events[s][i].kind = "exit" => exe[events[s][i].pid] = "gone"

\* A pass over /proc is made, or events are read; only late mode defers.
Modes ==
  /\ pass # "none" => ~PollsKernel
  /\ recheck # {} => PollsKernel
  /\ Mode # "late" => deferred = {}

IndInv ==
  /\ TypeOK /\ ExitsAreOver /\ Modes
  /\ \A p \in Pids : Settled(p) /\ Seen(p)

\* What a step may not do.
FirstIsLast == \A p \in Pids : outcome[p] # "none" => outcome'[p] = outcome[p]

(***************************************************************************)
(* The processes.                                                          *)
(***************************************************************************)

LEMMA Appended ==
  ASSUME NEW S, NEW s \in Seq(S), NEW x \in S
  PROVE  /\ Append(s, x) \in Seq(S)
         /\ \A i \in DOMAIN Append(s, x) : Append(s, x)[i] = x \/ (i \in DOMAIN s /\ Append(s, x)[i] = s[i])
OBVIOUS

LEMMA Shortened ==
  ASSUME NEW S, NEW s \in Seq(S), s # <<>>
  PROVE  /\ Tail(s) \in Seq(S) /\ Head(s) \in S /\ 1 \in DOMAIN s /\ Head(s) = s[1]
         /\ \A i \in DOMAIN Tail(s) : i + 1 \in DOMAIN s /\ Tail(s)[i] = s[i + 1]
OBVIOUS

\* An event is added to some of the sources.
LEMMA Reported ==
  ASSUME IndInv, UNCHANGED setting, NEW sources, NEW kind \in {"preexec", "exec", "exit"},
         NEW p \in Pids, NEW e \in Programs, Report(sources, kind, p, e),
         kind = "exit" => exe'[p] = "gone",
         \A q \in Pids : exe[q] = "gone" => exe'[q] = "gone"
  PROVE  events' \in [Sources' -> Seq(EventType)] /\ ExitsAreOver'
<1> DEFINE new == [kind |-> kind, pid |-> p, exe |-> e]
<1>1. new \in EventType /\ new.kind = kind /\ new.pid = p
  BY DEF EventType
<1> HIDE DEF new
<1>2. Sources' = Sources /\ events \in [Sources -> Seq(EventType)]
  BY DEF IndInv, TypeOK, Sources
<1>3. events' = [s \in Sources |-> IF s \in sources THEN Append(events[s], new) ELSE events[s]]
  BY DEF Report, new
<1>4. \A s \in Sources : events[s] \in Seq(EventType) /\ Append(events[s], new) \in Seq(EventType)
  BY <1>1, <1>2, Appended
<1>5. events' \in [Sources -> Seq(EventType)]
  BY <1>3, <1>4
<1>6. ASSUME NEW s \in Sources, NEW i \in DOMAIN events'[s], events'[s][i].kind = "exit"
      PROVE  exe'[events'[s][i].pid] = "gone"
  <2>1. events'[s][i] = new \/ (i \in DOMAIN events[s] /\ events'[s][i] = events[s][i])
    BY <1>1, <1>3, <1>4, <1>6, Appended
  <2>2. CASE events'[s][i] = new
    BY <1>1, <1>6, <2>2
  <2>3. CASE i \in DOMAIN events[s] /\ events'[s][i] = events[s][i]
    <3>1. exe[events[s][i].pid] = "gone"
      BY <1>6, <2>3 DEF IndInv, ExitsAreOver
    <3>2. events[s][i] \in EventType
      BY <1>4, <2>3
    <3>3. QED
      BY <2>3, <3>1, <3>2 DEF EventType
  <2>4. QED
    BY <2>1, <2>2, <2>3
<1>7. QED
  BY <1>2, <1>5, <1>6 DEF ExitsAreOver

\* A step of the processes: the daemon's own state stays, and no process comes back.
LEMMA ProcessStep ==
  ASSUME IndInv, UNCHANGED <<setting, bookkeeping, passVars, outcome>>,
         exe' \in [Pids -> Programs \cup {"none", "gone"}],
         inflight' \in [Pids -> {"none", "target", "other"}],
         held' \subseteq Pids, forked' \in BOOLEAN,
         events' \in [Sources' -> Seq(EventType)], ExitsAreOver',
         \A q \in Pids : /\ exe'[q] = "none" => exe[q] = "none" /\ q \notin held'
                         /\ Alive(q)' => Alive(q) \/ exe[q] = "none"
                         /\ q \in held' => Alive(q)'
  PROVE  IndInv' /\ FirstIsLast
<1>1. UNCHANGED <<setting, done, ignored, candidates, deferred, recheck, pass, seen, left, outcome>>
  BY DEF bookkeeping, passVars
<1>2. TypeOK'
  BY <1>1 DEF IndInv, TypeOK, Sources
<1>3. Modes'
  BY <1>1 DEF IndInv, Modes, PollsKernel, Sources, Mode
<1>4. ASSUME NEW q \in Pids
      PROVE  Settled(q)' /\ Seen(q)'
  <2>1. Settled(q) /\ Seen(q)
    BY DEF IndInv
  <2>2. Settled(q)'
    BY <1>1, <2>1 DEF Settled
  <2>3. Seen(q)'
    BY <1>1, <2>1 DEF Seen, Settled
  <2>4. QED
    BY <2>2, <2>3
<1>5. QED
  BY <1>1, <1>2, <1>3, <1>4 DEF IndInv, FirstIsLast

LEMMA EnvironmentStep ==
  ASSUME IndInv, NEW p \in Pids, Environment(p), UNCHANGED setting
  PROVE  IndInv' /\ FirstIsLast
<1>1. /\ setting \in Settings /\ exe \in [Pids -> Programs \cup {"none", "gone"}]
      /\ inflight \in [Pids -> {"none", "target", "other"}] /\ held \subseteq Pids
      /\ events \in [Sources -> Seq(EventType)] /\ forked \in BOOLEAN
  BY DEF IndInv, TypeOK
<1>2. \A q \in Pids : /\ exe[q] = "none" => q \notin held
                      /\ q \in held => Alive(q)
  BY DEF IndInv, Settled
<1>3. UNCHANGED events => events' \in [Sources' -> Seq(EventType)]
  BY <1>1 DEF Sources
<1>4. ASSUME UNCHANGED events, \A q \in Pids : exe[q] = "gone" => exe'[q] = "gone"
      PROVE  ExitsAreOver'
  <2>1. \A s \in Sources : \A i \in DOMAIN events[s] : events[s][i].pid \in Pids
    <3>1. TAKE s \in Sources
    <3>2. TAKE i \in DOMAIN events[s]
    <3>3. events[s] \in Seq(EventType)
      BY <1>1
    <3>4. events[s][i] \in EventType
      BY <3>3
    <3>5. QED
      BY <3>4 DEF EventType
  <2>2. QED
    BY <1>4, <2>1 DEF IndInv, ExitsAreOver, Sources
<1>5. CASE Fork(p)
  <2>1. /\ exe[p] = "none" /\ exe' = [exe EXCEPT ![p] = "init"]
        /\ held' = (IF p \in Held THEN held \cup {p} ELSE held) /\ forked' = TRUE
        /\ UNCHANGED <<inflight, events, bookkeeping, passVars, outcome>>
    BY <1>5 DEF Fork
  <2>2. exe'[p] = "init" /\ \A q \in Pids : q # p => exe'[q] = exe[q]
    BY <1>1, <2>1
  <2>3. exe' \in [Pids -> Programs \cup {"none", "gone"}]
    BY <1>1, <2>1 DEF Programs
  <2>4. \A q \in Pids : /\ exe'[q] = "none" => exe[q] = "none" /\ q \notin held'
                        /\ Alive(q)' => Alive(q) \/ exe[q] = "none"
                        /\ q \in held' => Alive(q)'
    BY <1>2, <2>1, <2>2 DEF Alive, Programs
  <2>5. held' \subseteq Pids /\ \A q \in Pids : exe[q] = "gone" => exe'[q] = "gone"
    BY <1>1, <2>1, <2>2
  <2>6. ExitsAreOver'
    BY <1>4, <2>1, <2>5
  <2>7. QED
    BY <1>1, <1>3, <2>1, <2>3, <2>4, <2>5, <2>6, ProcessStep
<1>6. CASE BeginExec(p)
  <2>1. UNCHANGED <<exe, held, forked, bookkeeping, passVars, outcome>>
    BY <1>6 DEF BeginExec
  <2>2. PICK e \in {"target", "other"} : /\ inflight' = [inflight EXCEPT ![p] = e]
                                         /\ Report({"fanotify"}, "preexec", p, e)
    BY <1>6 DEF BeginExec
  <2>3. e \in Programs
    BY DEF Programs
  <2>4. events' \in [Sources' -> Seq(EventType)] /\ ExitsAreOver'
    BY <2>1, <2>2, <2>3, Reported
  <2>5. inflight' \in [Pids -> {"none", "target", "other"}]
    BY <1>1, <2>2
  <2>6. \A q \in Pids : /\ exe'[q] = "none" => exe[q] = "none" /\ q \notin held'
                        /\ Alive(q)' => Alive(q) \/ exe[q] = "none"
                        /\ q \in held' => Alive(q)'
    BY <1>2, <2>1 DEF Alive
  <2>7. QED
    BY <1>1, <2>1, <2>4, <2>5, <2>6, ProcessStep
<1>7. CASE EndExec(p)
  <2>1. /\ Alive(p) /\ inflight[p] # "none" /\ exe' = [exe EXCEPT ![p] = inflight[p]]
        /\ inflight' = [inflight EXCEPT ![p] = "none"]
        /\ Report({"tracefs", "bpf"}, "exec", p, inflight[p])
        /\ UNCHANGED <<held, forked, bookkeeping, passVars, outcome>>
    BY <1>7 DEF EndExec
  <2>2. /\ inflight[p] \in Programs /\ exe'[p] = inflight[p]
        /\ \A q \in Pids : q # p => exe'[q] = exe[q]
    BY <1>1, <2>1 DEF Programs
  <2>3. exe' \in [Pids -> Programs \cup {"none", "gone"}]
    BY <1>1, <2>1, <2>2
  <2>4. exe[p] # "gone" /\ exe[p] # "none" /\ "none" \notin Programs
    BY <2>1 DEF Alive, Programs
  <2>5. \A q \in Pids : exe[q] = "gone" => exe'[q] = "gone"
    BY <2>2, <2>4
  <2>6. events' \in [Sources' -> Seq(EventType)] /\ ExitsAreOver'
    BY <2>1, <2>2, <2>5, Reported
  <2>7. inflight' \in [Pids -> {"none", "target", "other"}]
    BY <1>1, <2>1
  <2>8. \A q \in Pids : /\ exe'[q] = "none" => exe[q] = "none" /\ q \notin held'
                        /\ Alive(q)' => Alive(q) \/ exe[q] = "none"
                        /\ q \in held' => Alive(q)'
    BY <1>2, <2>1, <2>2, <2>4 DEF Alive
  <2>9. QED
    BY <1>1, <2>1, <2>3, <2>6, <2>7, <2>8, ProcessStep
<1>8. CASE Exit(p)
  <2>1. /\ Alive(p) /\ exe' = [exe EXCEPT ![p] = "gone"]
        /\ inflight' = [inflight EXCEPT ![p] = "none"] /\ held' = held \ {p}
        /\ Report({"tracefs"}, "exit", p, exe[p])
        /\ UNCHANGED <<forked, bookkeeping, passVars, outcome>>
    BY <1>8 DEF Exit
  <2>2. exe[p] \in Programs /\ exe'[p] = "gone" /\ \A q \in Pids : q # p => exe'[q] = exe[q]
    BY <1>1, <2>1 DEF Alive
  <2>3. exe' \in [Pids -> Programs \cup {"none", "gone"}]
    BY <1>1, <2>1
  <2>4. \A q \in Pids : exe[q] = "gone" => exe'[q] = "gone"
    BY <2>2
  <2>5. events' \in [Sources' -> Seq(EventType)] /\ ExitsAreOver'
    BY <2>1, <2>2, <2>4, Reported
  <2>6. inflight' \in [Pids -> {"none", "target", "other"}] /\ held' \subseteq Pids
    BY <1>1, <2>1
  <2>7. \A q \in Pids : /\ exe'[q] = "none" => exe[q] = "none" /\ q \notin held'
                        /\ Alive(q)' => Alive(q) \/ exe[q] = "none"
                        /\ q \in held' => Alive(q)'
    BY <1>2, <2>1, <2>2 DEF Alive, Programs
  <2>8. QED
    BY <1>1, <2>1, <2>3, <2>5, <2>6, <2>7, ProcessStep
<1>9. CASE LetGo(p)
  <2>1. held' = held \ {p} /\ UNCHANGED <<exe, inflight, events, forked, bookkeeping, passVars, outcome>>
    BY <1>9 DEF LetGo
  <2>2. held' \subseteq Pids
    BY <1>1, <2>1
  <2>3. \A q \in Pids : /\ exe'[q] = "none" => exe[q] = "none" /\ q \notin held'
                        /\ Alive(q)' => Alive(q) \/ exe[q] = "none"
                        /\ q \in held' => Alive(q)'
    BY <1>2, <2>1 DEF Alive
  <2>4. ExitsAreOver'
    BY <1>4, <2>1
  <2>5. QED
    BY <1>1, <1>3, <2>1, <2>2, <2>3, <2>4, ProcessStep
<1>10. QED
  BY <1>5, <1>6, <1>7, <1>8, <1>9 DEF Environment

(***************************************************************************)
(* The daemon.                                                             *)
(***************************************************************************)

Candidate == {"none", "init", "target"}

\* A step that changes only what the daemon remembers.
LEMMA BooksStep ==
  ASSUME IndInv, UNCHANGED <<setting, exe, inflight, held, forked, pass, seen>>, left' \subseteq left,
         events' \in [Sources -> Seq(EventType)], ExitsAreOver',
         done' \subseteq Pids, ignored' \subseteq Pids, deferred' \subseteq Pids, recheck' \subseteq Pids,
         candidates' \in [Pids -> Candidate],
         outcome' \in [Pids -> {"none", "taken", "reported", "skipped"}],
         recheck' # {} => PollsKernel, Mode # "late" => deferred' = {},
         \A q \in Pids : Settled(q)',
         pass = "scan" => \A q \in done' \cup deferred' : Alive(q) => q \in seen
  PROVE  IndInv'
<1>1. TypeOK'
  BY DEF IndInv, TypeOK, Sources, Candidate
<1>2. Modes'
  BY DEF IndInv, Modes, PollsKernel, Sources, Mode
<1>3. \A q \in Pids : Seen(q)'
  BY DEF IndInv, Seen, Alive
<1>4. QED
  BY <1>1, <1>2, <1>3 DEF IndInv

\* A living process that was not settled is settled, or deferred while it is held.
LEMMA ObserveStep ==
  ASSUME IndInv, NEW p \in Pids, NEW c \in Candidate, Alive(p), p \notin done,
         ObserveTarget(p, c), UNCHANGED <<setting, exe, held>>
  PROVE  /\ done' \subseteq done \cup {p} /\ deferred' \subseteq deferred \cup {p}
         /\ candidates' \in [Pids -> Candidate]
         /\ outcome' \in [Pids -> {"none", "taken", "reported", "skipped"}]
         /\ Mode # "late" => deferred' = {}
         /\ \A q \in Pids : Settled(q)'
         /\ FirstIsLast
<1>1. /\ candidates \in [Pids -> Candidate] /\ done \subseteq Pids /\ deferred \subseteq Pids
      /\ outcome \in [Pids -> {"none", "taken", "reported", "skipped"}]
  BY DEF IndInv, TypeOK, Candidate
<1>2. \A q \in Pids : Settled(q)
  BY DEF IndInv
<1>3. outcome[p] = "none" /\ exe[p] # "none"
  BY <1>2 DEF Settled, Alive, Programs
<1>4. Mode # "late" => deferred = {}
  BY DEF IndInv, Modes
<1>5. CASE p \in held
  <2>1. UNCHANGED <<done, outcome>> /\ candidates' = [candidates EXCEPT ![p] = c]
    BY <1>5 DEF ObserveTarget, Retry
  <2>2. deferred' = IF Mode = "late" THEN deferred \cup {p} ELSE deferred
    BY <1>5 DEF ObserveTarget
  <2>3. \A q \in Pids : Settled(q)'
    BY <1>2, <1>3, <2>1, <2>2 DEF Settled, Alive
  <2>4. candidates' \in [Pids -> Candidate]
    BY <1>1, <2>1
  <2>5. QED
    BY <1>1, <1>4, <2>1, <2>2, <2>3, <2>4 DEF FirstIsLast
<1>6. CASE p \notin held
  <2>1. PICK what \in {"taken", "reported", "skipped"} : Settle(p, what) /\ Drop(p)
    BY <1>6 DEF ObserveTarget, SeizeTarget
  <2>2. deferred' = IF Mode = "late" THEN deferred \ {p} ELSE deferred
    BY <1>6 DEF ObserveTarget
  <2>3. /\ done' = done \cup {p} /\ outcome' = [outcome EXCEPT ![p] = what]
        /\ candidates' = [candidates EXCEPT ![p] = "none"]
    BY <2>1 DEF Settle, Drop
  <2>4. outcome'[p] = what /\ \A q \in Pids : q # p => outcome'[q] = outcome[q]
    BY <1>1, <2>3
  <2>5. candidates' \in [Pids -> Candidate] /\ p \notin deferred'
    BY <1>1, <1>4, <2>2, <2>3 DEF Candidate
  <2>6. outcome' \in [Pids -> {"none", "taken", "reported", "skipped"}]
    BY <1>1, <2>3
  <2>7. ASSUME NEW q \in Pids
        PROVE  Settled(q)'
    <3>1. CASE q = p
      BY <1>2, <1>3, <2>3, <2>5, <3>1 DEF Settled, Alive
    <3>2. CASE q # p
      <4>1. /\ outcome'[q] = outcome[q] /\ (q \in done' <=> q \in done)
            /\ (q \in deferred' => q \in deferred)
        BY <2>2, <2>3, <2>4, <3>2
      <4>2. QED
        BY <1>2, <4>1 DEF Settled, Alive
    <3>3. QED
      BY <3>1, <3>2
  <2>8. FirstIsLast
    BY <1>3, <2>4 DEF FirstIsLast
  <2>9. QED
    BY <1>1, <1>4, <2>2, <2>3, <2>5, <2>6, <2>7, <2>8
<1>7. QED
  BY <1>5, <1>6

\* Less is remembered, but of no living process that was settled.
LEMMA LessRemembered ==
  ASSUME IndInv, UNCHANGED <<setting, exe, held, outcome>>,
         deferred' \subseteq deferred, done' \subseteq done,
         \A q \in done : Alive(q) => q \in done' \/ outcome[q] = "none"
  PROVE  /\ \A q \in Pids : Settled(q)'
         /\ Mode # "late" => deferred' = {}
         /\ FirstIsLast
<1>1. \A q \in Pids : Settled(q)
  BY DEF IndInv
<1>2. \A q \in Pids : Settled(q)'
  BY <1>1 DEF Settled, Alive
<1>3. QED
  BY <1>2 DEF IndInv, Modes, FirstIsLast

LEMMA SeenSoFar ==
  ASSUME IndInv, pass = "scan", NEW q \in done \cup deferred, Alive(q)
  PROVE  q \in seen
<1>1. q \in Pids
  BY DEF IndInv, TypeOK
<1>2. QED
  BY <1>1 DEF IndInv, Seen

LEMMA Remembered ==
  ASSUME IndInv
  PROVE  /\ events \in [Sources -> Seq(EventType)] /\ ExitsAreOver
         /\ done \subseteq Pids /\ ignored \subseteq Pids /\ deferred \subseteq Pids
         /\ recheck \subseteq Pids /\ candidates \in [Pids -> Candidate]
         /\ outcome \in [Pids -> {"none", "taken", "reported", "skipped"}]
         /\ recheck # {} => PollsKernel
         /\ PollsKernel => pass = "none"
BY DEF IndInv, TypeOK, Candidate, Modes

LEMMA ConsiderStep ==
  ASSUME IndInv, NEW s \in Sources, ConsiderKernelEvent(s), UNCHANGED setting
  PROVE  IndInv' /\ FirstIsLast
<1> DEFINE event == Head(events[s])
<1>1. /\ events[s] # <<>> /\ events' = [events EXCEPT ![s] = Tail(events[s])]
      /\ UNCHANGED <<exe, inflight, held, forked, pass, seen, left>>
      /\ IF event.kind = "exit" THEN ForgetProcess(event.pid) ELSE ConsiderExec(event)
  BY DEF ConsiderKernelEvent, passVars
<1>2. PollsKernel /\ pass = "none"
  BY Remembered DEF PollsKernel
<1>3. /\ events[s] \in Seq(EventType) /\ Tail(events[s]) \in Seq(EventType)
      /\ event \in EventType /\ 1 \in DOMAIN events[s] /\ event = events[s][1]
      /\ \A i \in DOMAIN Tail(events[s]) : i + 1 \in DOMAIN events[s] /\ Tail(events[s])[i] = events[s][i + 1]
  <2>1. events[s] \in Seq(EventType)
    BY Remembered
  <2>2. QED
    BY <1>1, <2>1, Shortened
<1>4. event.pid \in Pids /\ (event.kind = "exit" => exe[event.pid] = "gone")
  <2>1. events[s][1].kind = "exit" => exe[events[s][1].pid] = "gone"
    BY <1>3, Remembered DEF ExitsAreOver
  <2>2. QED
    BY <1>3, <2>1 DEF EventType
<1> HIDE DEF event
<1>5. events' \in [Sources -> Seq(EventType)]
  BY <1>1, <1>3, Remembered
<1>6. ExitsAreOver'
  <2>1. ASSUME NEW t \in Sources, NEW i \in DOMAIN events'[t], events'[t][i].kind = "exit"
        PROVE  exe[events'[t][i].pid] = "gone"
    <3>1. \A j \in DOMAIN events[t] : events[t][j].kind = "exit" => exe[events[t][j].pid] = "gone"
      BY Remembered DEF ExitsAreOver
    <3>2. CASE t = s
      <4>1. events'[t] = Tail(events[s])
        BY <1>1, <3>2, Remembered
      <4>2. QED
        BY <1>3, <2>1, <3>1, <3>2, <4>1
    <3>3. CASE t # s
      <4>1. events'[t] = events[t]
        BY <1>1, <3>3, Remembered
      <4>2. QED
        BY <2>1, <3>1, <4>1
    <3>4. QED
      BY <3>2, <3>3
  <2>2. QED
    BY <1>1, <2>1 DEF ExitsAreOver, Sources
<1> DEFINE p == event.pid
<1>7. SUFFICES /\ done' \subseteq Pids /\ ignored' \subseteq Pids /\ deferred' \subseteq Pids
               /\ recheck' \subseteq Pids /\ candidates' \in [Pids -> Candidate]
               /\ outcome' \in [Pids -> {"none", "taken", "reported", "skipped"}]
               /\ Mode # "late" => deferred' = {}
               /\ \A q \in Pids : Settled(q)'
               /\ FirstIsLast
  BY <1>1, <1>2, <1>5, <1>6, BooksStep
<1>8. CASE event.kind = "exit"
  <2>1. /\ candidates' = [candidates EXCEPT ![p] = "none"] /\ done' = done \ {p}
        /\ ignored' = ignored \ {p} /\ deferred' = deferred \ {p} /\ recheck' = recheck \ {p}
        /\ UNCHANGED outcome
    BY <1>1, <1>8 DEF ForgetProcess, Drop
  <2>2. ~Alive(p)
    BY <1>4, <1>8 DEF Alive, Programs
  <2>3. \A q \in done : Alive(q) => q \in done'
    BY <2>1, <2>2
  <2>4. candidates' \in [Pids -> Candidate]
    BY <2>1, Remembered DEF Candidate
  <2>5. deferred' \subseteq deferred /\ done' \subseteq done
    BY <2>1
  <2>6. QED
    BY <1>1, <2>1, <2>3, <2>4, <2>5, LessRemembered, Remembered
<1>9. CASE event.kind # "exit"
  <2>1. ConsiderExec(event)
    BY <1>1, <1>9
  <2>2. CASE UNCHANGED <<done, deferred, candidates, outcome>> /\ ignored' \subseteq Pids /\ recheck' \subseteq Pids
    BY <1>1, <2>2, LessRemembered, Remembered
  <2>3. CASE /\ p \notin done /\ Alive(p)
             /\ ObserveTarget(p, candidates[p]) /\ UNCHANGED <<ignored, recheck>>
    <3>1. candidates[p] \in Candidate
      BY <1>4, Remembered
    <3>2. QED
      BY <1>1, <1>4, <2>3, <3>1, ObserveStep, Remembered
  <2>4. CASE UNCHANGED <<bookkeeping, outcome>>
    BY <2>2, <2>4, Remembered DEF bookkeeping
  <2>5. CASE Ignore(p)
    BY <1>4, <2>2, <2>5, Remembered DEF Ignore
  <2>6. CASE DeferRecheck(p, event.exe)
    BY <1>4, <2>2, <2>5, <2>6, Remembered DEF DeferRecheck
  <2>7. \/ UNCHANGED <<bookkeeping, outcome>>
        \/ Ignore(p)
        \/ DeferRecheck(p, event.exe)
        \/ p \notin done /\ Alive(p) /\ ObserveTarget(p, candidates[p]) /\ UNCHANGED <<ignored, recheck>>
    <3>1. event.kind \in {"preexec", "exec"}
      BY <1>3, <1>9 DEF EventType
    <3>2. CASE p \in done \cup ignored
      BY <2>1, <3>2 DEF ConsiderExec
    <3>3. CASE p \notin done \cup ignored /\ event.kind = "preexec"
      BY <2>1, <3>3 DEF ConsiderExec
    <3>4. CASE p \notin done \cup ignored /\ event.kind = "exec" /\ ~Alive(p)
      BY <2>1, <3>4 DEF ConsiderExec
    <3>5. CASE p \notin done \cup ignored /\ event.kind = "exec" /\ Alive(p)
      BY <2>1, <3>5 DEF ConsiderExec
    <3>6. QED
      BY <3>1, <3>2, <3>3, <3>4, <3>5
  <2>8. QED
    BY <2>3, <2>4, <2>5, <2>6, <2>7
<1>10. QED
  BY <1>8, <1>9

LEMMA RecheckStep ==
  ASSUME IndInv, NEW p \in Pids, RecheckPending(p), UNCHANGED setting
  PROVE  IndInv' /\ FirstIsLast
<1>1. /\ p \in recheck /\ recheck' = recheck \ {p} /\ UNCHANGED ignored
      /\ UNCHANGED <<exe, inflight, held, events, forked, pass, seen, left>>
  BY DEF RecheckPending, envVars, passVars
<1>2. PollsKernel /\ pass = "none"
  BY <1>1, Remembered
<1>3. ExitsAreOver'
  BY <1>1, Remembered DEF ExitsAreOver, Sources
<1>4. CASE p \notin done /\ exe[p] = "target" /\ ObserveTarget(p, candidates[p])
  <2>1. candidates[p] \in Candidate /\ Alive(p)
    BY <1>4, Remembered DEF Alive, Programs
  <2>2. /\ done' \subseteq done \cup {p} /\ deferred' \subseteq deferred \cup {p}
        /\ candidates' \in [Pids -> Candidate]
        /\ outcome' \in [Pids -> {"none", "taken", "reported", "skipped"}]
        /\ Mode # "late" => deferred' = {}
        /\ \A q \in Pids : Settled(q)'
        /\ FirstIsLast
    BY <1>1, <1>4, <2>1, ObserveStep
  <2>3. QED
    BY <1>1, <1>2, <1>3, <2>2, BooksStep, Remembered
<1>5. CASE UNCHANGED <<done, candidates, deferred, outcome>>
  BY <1>1, <1>2, <1>3, <1>5, BooksStep, LessRemembered, Remembered
<1>6. QED
  BY <1>4, <1>5 DEF RecheckPending

LEMMA DeferredStep ==
  ASSUME IndInv, NEW p \in Pids, RetryDeferred(p), UNCHANGED setting
  PROVE  IndInv' /\ FirstIsLast
<1>1. /\ Mode = "late" /\ p \in deferred /\ UNCHANGED <<ignored, recheck>>
      /\ UNCHANGED <<exe, inflight, held, events, forked, pass, seen, left>>
  BY DEF RetryDeferred, envVars, passVars
<1>2. ExitsAreOver'
  BY <1>1, Remembered DEF ExitsAreOver, Sources
<1>3. Settled(p) /\ outcome[p] = "none"
  BY <1>1 DEF IndInv, Settled
<1>4. CASE p \in held
  <2>1. /\ done' = done \cup {p} /\ outcome' = [outcome EXCEPT ![p] = "reported"]
        /\ deferred' = deferred \ {p} /\ UNCHANGED candidates
    BY <1>4 DEF RetryDeferred, Settle
  <2>2. outcome'[p] = "reported" /\ \A q \in Pids : q # p => outcome'[q] = outcome[q]
    BY <2>1, Remembered
  <2>3. outcome' \in [Pids -> {"none", "taken", "reported", "skipped"}]
    BY <2>1, Remembered
  <2>4. ASSUME NEW q \in Pids
        PROVE  Settled(q)'
    <3>1. Settled(q)
      BY DEF IndInv
    <3>2. CASE q = p
      BY <1>1, <1>3, <2>1, <3>2 DEF Settled, Alive
    <3>3. CASE q # p
      BY <1>1, <2>1, <2>2, <3>1, <3>3 DEF Settled, Alive
    <3>4. QED
      BY <3>2, <3>3
  <2>5. FirstIsLast
    BY <1>3, <2>2 DEF FirstIsLast
  <2>6. pass = "scan" => \A q \in done' \cup deferred' : Alive(q) => q \in seen
    BY <1>1, <2>1, SeenSoFar
  <2>7. done' \subseteq Pids /\ deferred' \subseteq Pids
    BY <2>1, Remembered
  <2>8. QED
    BY <1>1, <1>2, <2>1, <2>3, <2>4, <2>5, <2>6, <2>7, BooksStep, Remembered
<1>5. CASE p \notin held /\ exe[p] = "target" /\ p \notin done /\ ObserveTarget(p, candidates[p])
  <2>1. candidates[p] \in Candidate /\ Alive(p)
    BY <1>5, Remembered DEF Alive, Programs
  <2>2. /\ done' \subseteq done \cup {p} /\ deferred' \subseteq deferred \cup {p}
        /\ candidates' \in [Pids -> Candidate]
        /\ outcome' \in [Pids -> {"none", "taken", "reported", "skipped"}]
        /\ \A q \in Pids : Settled(q)'
        /\ FirstIsLast
    BY <1>1, <1>5, <2>1, ObserveStep
  <2>3. pass = "scan" => \A q \in done' \cup deferred' : Alive(q) => q \in seen
    BY <1>1, <2>2, SeenSoFar
  <2>4. done' \subseteq Pids /\ deferred' \subseteq Pids
    BY <2>2, Remembered
  <2>5. QED
    BY <1>1, <1>2, <2>2, <2>3, <2>4, BooksStep, Remembered
<1>6. CASE deferred' = deferred \ {p} /\ UNCHANGED <<done, candidates, outcome>>
  <2>1. pass = "scan" => \A q \in done' \cup deferred' : Alive(q) => q \in seen
    BY <1>6, SeenSoFar
  <2>2. (\A q \in Pids : Settled(q)') /\ FirstIsLast
    BY <1>1, <1>6, LessRemembered
  <2>3. deferred' \subseteq Pids
    BY <1>6, Remembered
  <2>4. QED
    BY <1>1, <1>2, <1>6, <2>1, <2>2, <2>3, BooksStep, Remembered
<1>7. QED
  BY <1>4, <1>5, <1>6 DEF RetryDeferred

LEMMA PruneStep ==
  ASSUME IndInv, Prune, UNCHANGED setting
  PROVE  IndInv' /\ FirstIsLast
<1>1. UNCHANGED <<exe, inflight, held, events, forked, pass, seen, left, outcome>>
  BY DEF Prune, envVars, passVars
<1>2. ExitsAreOver'
  BY <1>1, Remembered DEF ExitsAreOver, Sources
<1>3. /\ done' \subseteq done /\ ignored' \subseteq ignored /\ deferred' \subseteq deferred
      /\ recheck' \subseteq recheck
  BY DEF Prune, Kept
<1>4. \A q \in done : Alive(q) => q \in done'
  BY Remembered DEF Prune, Kept, Living
<1>5. candidates' \in [Pids -> Candidate]
  BY Remembered DEF Prune, Candidate
<1>6. (\A q \in Pids : Settled(q)') /\ (Mode # "late" => deferred' = {}) /\ FirstIsLast
  BY <1>1, <1>3, <1>4, LessRemembered
<1>7. pass = "scan" => \A q \in done' \cup deferred' : Alive(q) => q \in seen
  BY <1>3, SeenSoFar
<1>8. /\ done' \subseteq Pids /\ ignored' \subseteq Pids /\ deferred' \subseteq Pids
      /\ recheck' \subseteq Pids /\ (recheck' # {} => PollsKernel)
  BY <1>3, Remembered
<1>9. QED
  BY <1>1, <1>2, <1>5, <1>6, <1>7, <1>8, BooksStep, Remembered

(***************************************************************************)
(* A pass over /proc.                                                      *)
(***************************************************************************)

LEMMA BeginStep ==
  ASSUME IndInv, BeginPass \/ ListProc, UNCHANGED setting
  PROVE  IndInv' /\ FirstIsLast
<1>1. UNCHANGED <<exe, inflight, held, events, done, ignored, candidates, deferred, recheck, outcome>>
  BY DEF BeginPass, ListProc, envVars, bookkeeping
<1>2. ~PollsKernel /\ pass' \in {"begun", "scan"} /\ forked' \in BOOLEAN
  BY DEF IndInv, TypeOK, Modes, BeginPass, ListProc, envVars
<1>3. \/ pass' = "begun" /\ UNCHANGED <<seen, left>>
      \/ seen' = Living /\ left' = Living
  BY DEF BeginPass, ListProc
<1>4. TypeOK'
  <2>1. seen' \subseteq Pids /\ left' \subseteq Pids
    BY <1>3 DEF IndInv, TypeOK, Living
  <2>2. QED
    BY <1>1, <1>2, <2>1 DEF IndInv, TypeOK, Sources
<1>5. ExitsAreOver' /\ Modes' /\ FirstIsLast
  BY <1>1, <1>2 DEF IndInv, ExitsAreOver, Modes, PollsKernel, Sources, Mode, FirstIsLast
<1>6. \A q \in Pids : Settled(q)'
  BY <1>1 DEF IndInv, Settled, Alive
<1>7. \A q \in Pids : Seen(q)'
  BY <1>1, <1>3 DEF Seen, Alive, Living
<1>8. QED
  BY <1>4, <1>5, <1>6, <1>7 DEF IndInv

LEMMA ScanStep ==
  ASSUME IndInv, NEW p \in Pids, ScanProcess(p) \/ Abandon(p), UNCHANGED setting
  PROVE  IndInv' /\ FirstIsLast
<1>1. /\ pass = "scan" /\ p \in left /\ left' \subseteq left
      /\ UNCHANGED <<exe, inflight, held, events, forked, pass, seen>>
  BY DEF ScanProcess, Abandon, envVars
<1>2. ExitsAreOver'
  BY <1>1, Remembered DEF ExitsAreOver, Sources
<1>3. p \in seen
  BY <1>1 DEF IndInv, Seen
<1>4. CASE /\ UNCHANGED <<done, deferred, recheck, outcome>> /\ ignored' \subseteq Pids
           /\ candidates' \in [Pids -> Candidate]
  <2>1. (\A q \in Pids : Settled(q)') /\ (Mode # "late" => deferred' = {}) /\ FirstIsLast
    BY <1>1, <1>4, LessRemembered
  <2>2. \A q \in done' \cup deferred' : Alive(q) => q \in seen
    BY <1>1, <1>4, SeenSoFar
  <2>3. QED
    BY <1>1, <1>2, <1>4, <2>1, <2>2, BooksStep, Remembered
<1>5. CASE /\ p \notin done /\ exe[p] = "target"
           /\ ObserveTarget(p, "target") /\ UNCHANGED <<ignored, recheck>>
  <2>1. "target" \in Candidate /\ Alive(p)
    BY <1>5 DEF Candidate, Alive, Programs
  <2>2. /\ done' \subseteq done \cup {p} /\ deferred' \subseteq deferred \cup {p}
        /\ candidates' \in [Pids -> Candidate]
        /\ outcome' \in [Pids -> {"none", "taken", "reported", "skipped"}]
        /\ Mode # "late" => deferred' = {}
        /\ \A q \in Pids : Settled(q)'
        /\ FirstIsLast
    BY <1>1, <1>5, <2>1, ObserveStep
  <2>3. \A q \in done' \cup deferred' : Alive(q) => q \in seen
    BY <1>1, <1>3, <2>2, SeenSoFar
  <2>4. done' \subseteq Pids /\ deferred' \subseteq Pids
    BY <2>2, Remembered
  <2>5. QED
    BY <1>1, <1>2, <1>5, <2>2, <2>3, <2>4, BooksStep, Remembered
<1>6. CASE ScanProcess(p)
  <2>1. CASE UNCHANGED <<bookkeeping, outcome>>
    BY <1>4, <2>1, Remembered DEF bookkeeping
  <2>2. CASE /\ candidates' = [candidates EXCEPT ![p] = "init"]
             /\ UNCHANGED <<done, ignored, deferred, recheck, outcome>>
    <3>1. candidates' \in [Pids -> Candidate]
      BY <2>2, Remembered DEF Candidate
    <3>2. QED
      BY <1>4, <2>2, <3>1, Remembered
  <2>3. CASE ignored' = ignored \cup {p} /\ Drop(p) /\ UNCHANGED <<done, deferred, recheck, outcome>>
    <3>1. candidates' \in [Pids -> Candidate] /\ ignored' \subseteq Pids
      BY <2>3, Remembered DEF Candidate, Drop
    <3>2. QED
      BY <1>4, <2>3, <3>1
  <2>4. QED
    BY <1>5, <1>6, <2>1, <2>2, <2>3 DEF ScanProcess
<1>7. CASE Abandon(p)
  <2>1. /\ done' = done \cup {p} /\ outcome' = [outcome EXCEPT ![p] = "reported"]
        /\ candidates' = [candidates EXCEPT ![p] = "none"]
        /\ Mode # "late" /\ p \notin done /\ Alive(p) /\ UNCHANGED <<ignored, deferred, recheck>>
    BY <1>7 DEF Abandon, Settle, Drop, Alive, Programs
  <2>2. outcome'[p] = "reported" /\ \A q \in Pids : q # p => outcome'[q] = outcome[q]
    BY <2>1, Remembered
  <2>3. deferred = {} /\ outcome[p] = "none"
    BY <2>1 DEF IndInv, Modes, Settled
  <2>4. /\ outcome' \in [Pids -> {"none", "taken", "reported", "skipped"}]
        /\ candidates' \in [Pids -> Candidate]
    BY <2>1, Remembered DEF Candidate
  <2>5. ASSUME NEW q \in Pids
        PROVE  Settled(q)'
    <3>1. Settled(q)
      BY DEF IndInv
    <3>2. exe[p] # "none"
      BY <2>1 DEF Alive, Programs
    <3>3. CASE q = p
      BY <1>1, <2>1, <2>3, <3>1, <3>2, <3>3 DEF Settled, Alive
    <3>4. CASE q # p
      BY <1>1, <2>1, <2>2, <3>1, <3>4 DEF Settled, Alive
    <3>5. QED
      BY <3>3, <3>4
  <2>6. FirstIsLast
    BY <2>2, <2>3 DEF FirstIsLast
  <2>7. \A q \in done' \cup deferred' : Alive(q) => q \in seen
    BY <1>1, <1>3, <2>1, SeenSoFar
  <2>8. done' \subseteq Pids
    BY <2>1, Remembered
  <2>9. QED
    BY <1>1, <1>2, <2>1, <2>3, <2>4, <2>5, <2>6, <2>7, <2>8, BooksStep, Remembered
<1>8. QED
  BY <1>6, <1>7

LEMMA EndStep ==
  ASSUME IndInv, EndPass, UNCHANGED setting
  PROVE  IndInv' /\ FirstIsLast
<1>1. /\ pass = "scan" /\ pass' = "none" /\ seen' = {} /\ done' = done \cap seen
      /\ candidates' = [q \in Pids |-> IF q \in seen THEN candidates[q] ELSE "none"]
      /\ ignored' \subseteq ignored
      /\ UNCHANGED <<exe, inflight, held, events, forked, deferred, recheck, left, outcome>>
  BY DEF EndPass, envVars
<1>2. \A q \in done : Alive(q) => q \in done'
  BY <1>1, SeenSoFar
<1>3. (\A q \in Pids : Settled(q)') /\ FirstIsLast
  BY <1>1, <1>2, LessRemembered
<1>4. TypeOK'
  <2>1. candidates' \in [Pids -> Candidate]
    BY <1>1, Remembered DEF Candidate
  <2>2. done' \subseteq Pids /\ ignored' \subseteq Pids
    BY <1>1, Remembered
  <2>3. QED
    BY <1>1, <2>1, <2>2 DEF IndInv, TypeOK, Sources, Candidate
<1>5. ExitsAreOver' /\ Modes' /\ \A q \in Pids : Seen(q)'
  BY <1>1 DEF IndInv, ExitsAreOver, Modes, PollsKernel, Sources, Mode, Seen
<1>6. QED
  BY <1>3, <1>4, <1>5 DEF IndInv

(***************************************************************************)
(* The specification.                                                      *)
(***************************************************************************)

LEMMA InitInv ==
  ASSUME Init
  PROVE  IndInv
<1>1. /\ setting \in Settings /\ exe = [p \in Pids |-> "none"] /\ inflight = [p \in Pids |-> "none"]
      /\ held = {} /\ events = [s \in Sources |-> <<>>] /\ forked = TRUE
      /\ done = {} /\ ignored = {} /\ deferred = {} /\ recheck = {}
      /\ candidates = [p \in Pids |-> "none"] /\ pass = "none" /\ seen = {} /\ left = {}
      /\ outcome = [p \in Pids |-> "none"]
  BY DEF Init
<1>2. TypeOK
  <2>1. <<>> \in Seq(EventType)
    OBVIOUS
  <2>2. events \in [Sources -> Seq(EventType)]
    BY <1>1, <2>1
  <2>3. QED
    BY <1>1, <2>2 DEF TypeOK
<1>3. ExitsAreOver
  <2>1. \A s \in Sources : events[s] = <<>>
    BY <1>1
  <2>2. QED
    BY <2>1 DEF ExitsAreOver
<1>4. Modes
  BY <1>1 DEF Modes
<1>5. \A p \in Pids : Settled(p) /\ Seen(p)
  BY <1>1 DEF Settled, Seen, Alive, Programs
<1>6. QED
  BY <1>2, <1>3, <1>4, <1>5 DEF IndInv

LEMMA NextInv ==
  ASSUME IndInv, [Next]_<<vars, setting>>
  PROVE  IndInv' /\ FirstIsLast
<1>1. CASE UNCHANGED <<vars, setting>>
  <2>1. UNCHANGED <<setting, exe, inflight, held, events, forked, done, ignored, candidates, deferred,
                    recheck, pass, seen, left, outcome>>
    BY <1>1 DEF vars
  <2>2. TypeOK'
    BY <2>1 DEF IndInv, TypeOK, Sources
  <2>3. ExitsAreOver' /\ Modes' /\ FirstIsLast
    BY <2>1 DEF IndInv, ExitsAreOver, Modes, PollsKernel, Sources, Mode, FirstIsLast
  <2>4. \A p \in Pids : Settled(p)' /\ Seen(p)'
    BY <2>1 DEF IndInv, Settled, Seen, Alive
  <2>5. QED
    BY <2>2, <2>3, <2>4 DEF IndInv
<1>2. CASE (\E p \in Pids : Environment(p)) /\ UNCHANGED setting
  BY <1>2, EnvironmentStep
<1>3. CASE DaemonStep /\ UNCHANGED setting
  BY <1>3, ConsiderStep, RecheckStep, DeferredStep, PruneStep, BeginStep, ScanStep, EndStep
     DEF DaemonStep
<1>4. QED
  BY <1>1, <1>2, <1>3 DEF Next

\* Whatever is reported and listed, and however late, the daemon remembers each settled
\* process that lives (IndInv).
THEOREM Invariance == Spec => []IndInv
<1>1. IndInv /\ [Next]_<<vars, setting>> => IndInv'
  BY NextInv
<1>2. QED
  BY <1>1, InitInv, PTL DEF Spec

\* The processes, the queues of events and the sets of the daemon stay of the types of
\* kernel.rs and mode.rs.
THEOREM TypeCorrect == Spec => []TypeOK
<1>1. IndInv => TypeOK
  BY DEF IndInv
<1>2. QED
  BY <1>1, Invariance, PTL

\* A process that was taken, skipped or reported is not considered again, in any mode:
\* not by an event that comes late, a list of /proc that is old, a retry of a process
\* that was held, or a pruning between them (Daemon::done).
THEOREM FirstAnswerIsLast == Spec => SettledOnce
<1>1. IndInv /\ [Next]_<<vars, setting>>
        => [\A p \in Pids : outcome[p] # "none" => outcome'[p] = outcome[p]]_vars
  BY NextInv DEF FirstIsLast
<1>2. QED
  BY <1>1, Invariance, PTL DEF Spec, SettledOnce

(***************************************************************************)
(* Of DaemonInstance, for any number of daemons and clients.               *)
(*                                                                         *)
(* Two daemons cannot both trust their scan of /proc because one of them   *)
(* began its scan last: from then on the other has been visible, so that   *)
(* one cannot have seen it not to be there.  The invariant states this     *)
(* without time: of two daemons whose scan counts, at most one has seen    *)
(* the other not to be a daemon.                                           *)
(***************************************************************************)

(* The lives in which what a daemon has examined counts.                   *)
Trusting == {"looking", "starting", "serving", "stopping"}

(* No two of them have each missed the other.                              *)
OneSeesTheOther ==
  \A d, e \in Daemons :
    life[d] \in Trusting /\ life[e] \in Trusting =>
      e \notin examined[d] \/ d \notin examined[e]

(* A daemon that serves has seen nobody.                                   *)
ServesAlone ==
  \A d \in Daemons : Serves(d) => examined[d] = Others(d)

(* The inductive invariant.                                                *)
AloneInv ==
  /\ InstanceTypeOK
  /\ OneSeesTheOther
  /\ ServesAlone
  /\ RecordedServes

(* Two daemons that serve would each have missed the other.                *)
LEMMA OneDaemonFromIndInv ==
  ASSUME OneSeesTheOther, ServesAlone
  PROVE  OneDaemon
BY DEF OneSeesTheOther, ServesAlone, OneDaemon, Serves, Trusting, Others

(* Boot preserves the invariant.                                           *)
LEMMA BootStep ==
  ASSUME AloneInv, NEW d \in Daemons, Boot(d)
  PROVE  AloneInv'
<1>1. InstanceTypeOK'
  BY DEF AloneInv, InstanceTypeOK, Lives, Steps, Lookers, Boot, Become, scanVars, clientVars
<1>2. OneSeesTheOther'
  BY DaemonInstanceAssumption DEF AloneInv, InstanceTypeOK, OneSeesTheOther, Trusting, Lives, Lookers, Boot, Become, scanVars, clientVars
<1>3. ServesAlone'
  BY DaemonInstanceAssumption DEF AloneInv, InstanceTypeOK, ServesAlone, Serves, Lives, Lookers, Boot, Become, scanVars, clientVars
<1>4. RecordedServes'
  BY DEF AloneInv, InstanceTypeOK, RecordedServes, Lives, Boot, Become, scanVars, clientVars
<1>5. QED
  BY <1>1, <1>2, <1>3, <1>4 DEF AloneInv

(* ExecDaemon preserves the invariant.                                     *)
LEMMA ExecDaemonStep ==
  ASSUME AloneInv, NEW d \in Daemons, ExecDaemon(d)
  PROVE  AloneInv'
<1>1. InstanceTypeOK'
  BY DEF AloneInv, InstanceTypeOK, Lives, Steps, Lookers, ExecDaemon, Become, scanVars, clientVars
<1>2. OneSeesTheOther'
  BY DaemonInstanceAssumption DEF AloneInv, InstanceTypeOK, OneSeesTheOther, Trusting, Lives, Lookers, ExecDaemon, Become, scanVars, clientVars
<1>3. ServesAlone'
  BY DaemonInstanceAssumption DEF AloneInv, InstanceTypeOK, ServesAlone, Serves, Lives, Lookers, ExecDaemon, Become, scanVars, clientVars
<1>4. RecordedServes'
  BY DEF AloneInv, InstanceTypeOK, RecordedServes, Lives, ExecDaemon, Become, scanVars, clientVars
<1>5. QED
  BY <1>1, <1>2, <1>3, <1>4 DEF AloneInv

(* VerifyModule preserves the invariant.                                   *)
LEMMA VerifyModuleStep ==
  ASSUME AloneInv, NEW d \in Daemons, VerifyModule(d)
  PROVE  AloneInv'
<1>1. InstanceTypeOK'
  BY DEF AloneInv, InstanceTypeOK, Lives, Steps, Lookers, VerifyModule, Become, StartScan, scanVars, clientVars
<1>2. OneSeesTheOther'
  <2> SUFFICES ASSUME NEW a \in Daemons, NEW b \in Daemons,
                      life'[a] \in Trusting, life'[b] \in Trusting
               PROVE  b \notin examined'[a] \/ a \notin examined'[b]
    BY DEF OneSeesTheOther
  <2>1. CASE StartScan(d)
    <3>1. examined'[d] = {}
      BY <2>1 DEF AloneInv, InstanceTypeOK, Lookers, StartScan
    <3>2. \A x \in Daemons \ {d} : life'[x] = life[x] /\ examined'[x] = examined[x]
      BY <2>1, DaemonInstanceAssumption
      DEF AloneInv, InstanceTypeOK, Lookers, StartScan, VerifyModule, Become
    <3>3. QED
      BY <3>1, <3>2 DEF AloneInv, OneSeesTheOther
  <2>2. CASE Become(d, "zombie") /\ examined' = examined
    BY <2>2 DEF AloneInv, InstanceTypeOK, OneSeesTheOther, Trusting, Become
  <2>3. QED
    BY <2>1, <2>2 DEF VerifyModule, scanVars
<1>3. ServesAlone'
  BY ZenonT(40), DaemonInstanceAssumption DEF AloneInv, InstanceTypeOK, ServesAlone, Serves, Lives, Lookers, VerifyModule, Become, StartScan, scanVars, clientVars
<1>4. RecordedServes'
  BY DEF AloneInv, InstanceTypeOK, RecordedServes, Lives, VerifyModule, Become, StartScan, scanVars, clientVars
<1>5. QED
  BY <1>1, <1>2, <1>3, <1>4 DEF AloneInv

(* LookAround preserves the invariant.                                     *)
LEMMA LookAroundStep ==
  ASSUME AloneInv, NEW d \in Daemons, LookAround(d)
  PROVE  AloneInv'
<1>1. InstanceTypeOK'
  BY DEF AloneInv, InstanceTypeOK, Lives, Steps, Lookers, LookAround, Look, Visible, Others, daemonVars, clientVars
<1>2. OneSeesTheOther'
  <2> SUFFICES ASSUME NEW a \in Daemons, NEW b \in Daemons,
                      life'[a] \in Trusting, life'[b] \in Trusting
               PROVE  b \notin examined'[a] \/ a \notin examined'[b]
    BY DEF OneSeesTheOther
  <2>1. PICK e \in Daemons : Look(d, e)
    BY DEF LookAround
  <2>2. life' = life
    BY DEF LookAround, daemonVars
  <2>3. CASE Visible(e)
    BY <2>1, <2>2, <2>3 DEF AloneInv, OneSeesTheOther, Look
  <2>4. CASE ~Visible(e)
    <3>1. life[e] \notin Trusting
      BY <2>4 DEF Visible, Trusting
    <3>2. a # e /\ b # e
      BY <2>2, <3>1
    <3>3. examined' = [examined EXCEPT ![d] = @ \cup {e}]
      BY <2>1, <2>4 DEF Look
    <3>4. \A x \in Daemons : examined'[x] \subseteq examined[x] \cup {e}
      BY <3>3, DaemonInstanceAssumption DEF AloneInv, InstanceTypeOK, Lookers
    <3>5. QED
      BY <2>2, <3>2, <3>4 DEF AloneInv, OneSeesTheOther
  <2>5. QED
    BY <2>3, <2>4
<1>3. ServesAlone'
  BY DaemonInstanceAssumption DEF AloneInv, InstanceTypeOK, ServesAlone, Serves, Lives, Lookers, LookAround, Look, Visible, Others, daemonVars, clientVars
<1>4. RecordedServes'
  BY DEF AloneInv, InstanceTypeOK, RecordedServes, Lives, LookAround, Look, Visible, Others, daemonVars, clientVars
<1>5. QED
  BY <1>1, <1>2, <1>3, <1>4 DEF AloneInv

(* Start preserves the invariant.                                          *)
LEMMA StartStep ==
  ASSUME AloneInv, NEW d \in Daemons, Start(d)
  PROVE  AloneInv'
<1>1. InstanceTypeOK'
  BY DEF AloneInv, InstanceTypeOK, Lives, Steps, Lookers, Start, Become, FoundNobody, ScanEnded, Others, scanVars, clientVars
<1>2. OneSeesTheOther'
  BY DaemonInstanceAssumption DEF AloneInv, InstanceTypeOK, OneSeesTheOther, Trusting, Lives, Lookers, Start, Become, FoundNobody, ScanEnded, Others, scanVars, clientVars
<1>3. ServesAlone'
  BY DaemonInstanceAssumption DEF AloneInv, InstanceTypeOK, ServesAlone, Serves, Lives, Lookers, Start, Become, FoundNobody, ScanEnded, Others, scanVars, clientVars
<1>4. RecordedServes'
  BY DEF AloneInv, InstanceTypeOK, RecordedServes, Lives, Start, Become, FoundNobody, ScanEnded, Others, scanVars, clientVars
<1>5. QED
  BY <1>1, <1>2, <1>3, <1>4 DEF AloneInv

(* Serve preserves the invariant.                                          *)
LEMMA ServeStep ==
  ASSUME AloneInv, NEW d \in Daemons, Serve(d)
  PROVE  AloneInv'
<1>1. InstanceTypeOK'
  BY DEF AloneInv, InstanceTypeOK, Lives, Steps, Lookers, Serve, Become, scanVars, clientVars
<1>2. OneSeesTheOther'
  BY DaemonInstanceAssumption DEF AloneInv, InstanceTypeOK, OneSeesTheOther, Trusting, Lives, Lookers, Serve, Become, scanVars, clientVars
<1>3. ServesAlone'
  BY DaemonInstanceAssumption DEF AloneInv, InstanceTypeOK, ServesAlone, Serves, Lives, Lookers, Serve, Become, scanVars, clientVars
<1>4. RecordedServes'
  <2>1. \A e \in Daemons : Serves(e) => e = d
    BY OneDaemonFromIndInv DEF AloneInv, OneDaemon, Serves, Serve
  <2>2. QED
    BY <2>1 DEF AloneInv, InstanceTypeOK, RecordedServes, Serves, Serve, Become
<1>5. QED
  BY <1>1, <1>2, <1>3, <1>4 DEF AloneInv

(* Wait preserves the invariant.                                           *)
LEMMA WaitStep ==
  ASSUME AloneInv, NEW d \in Daemons, Wait(d)
  PROVE  AloneInv'
<1>1. InstanceTypeOK'
  BY DEF AloneInv, InstanceTypeOK, Lives, Steps, Lookers, Wait, Become, scanVars, clientVars
<1>2. OneSeesTheOther'
  BY DaemonInstanceAssumption DEF AloneInv, InstanceTypeOK, OneSeesTheOther, Trusting, Lives, Lookers, Wait, Become, scanVars, clientVars
<1>3. ServesAlone'
  BY DaemonInstanceAssumption DEF AloneInv, InstanceTypeOK, ServesAlone, Serves, Lives, Lookers, Wait, Become, scanVars, clientVars
<1>4. RecordedServes'
  BY DEF AloneInv, InstanceTypeOK, RecordedServes, Lives, Wait, Become, scanVars, clientVars
<1>5. QED
  BY <1>1, <1>2, <1>3, <1>4 DEF AloneInv

(* LookAgain preserves the invariant.                                      *)
LEMMA LookAgainStep ==
  ASSUME AloneInv, NEW d \in Daemons, LookAgain(d)
  PROVE  AloneInv'
<1>1. InstanceTypeOK'
  BY DEF AloneInv, InstanceTypeOK, Lives, Steps, Lookers, LookAgain, Become, StartScan, scanVars, clientVars
<1>2. OneSeesTheOther'
  BY DaemonInstanceAssumption DEF AloneInv, InstanceTypeOK, OneSeesTheOther, Trusting, Lives, Lookers, LookAgain, Become, StartScan, scanVars, clientVars
<1>3. ServesAlone'
  BY DaemonInstanceAssumption DEF AloneInv, InstanceTypeOK, ServesAlone, Serves, Lives, Lookers, LookAgain, Become, StartScan, scanVars, clientVars
<1>4. RecordedServes'
  BY DEF AloneInv, InstanceTypeOK, RecordedServes, Lives, LookAgain, Become, StartScan, scanVars, clientVars
<1>5. QED
  BY <1>1, <1>2, <1>3, <1>4 DEF AloneInv

(* Refuse preserves the invariant.                                         *)
LEMMA RefuseStep ==
  ASSUME AloneInv, NEW d \in Daemons, Refuse(d)
  PROVE  AloneInv'
<1>1. InstanceTypeOK'
  BY DEF AloneInv, InstanceTypeOK, Lives, Steps, Lookers, Refuse, Become, scanVars, clientVars
<1>2. OneSeesTheOther'
  BY DaemonInstanceAssumption DEF AloneInv, InstanceTypeOK, OneSeesTheOther, Trusting, Lives, Lookers, Refuse, Become, scanVars, clientVars
<1>3. ServesAlone'
  BY DaemonInstanceAssumption DEF AloneInv, InstanceTypeOK, ServesAlone, Serves, Lives, Lookers, Refuse, Become, scanVars, clientVars
<1>4. RecordedServes'
  BY DEF AloneInv, InstanceTypeOK, RecordedServes, Lives, Refuse, Become, scanVars, clientVars
<1>5. QED
  BY <1>1, <1>2, <1>3, <1>4 DEF AloneInv

(* StopServing preserves the invariant.                                    *)
LEMMA StopServingStep ==
  ASSUME AloneInv, NEW d \in Daemons, StopServing(d)
  PROVE  AloneInv'
<1>1. InstanceTypeOK'
  BY DEF AloneInv, InstanceTypeOK, Lives, Steps, Lookers, StopServing, Become, scanVars, clientVars
<1>2. OneSeesTheOther'
  BY DaemonInstanceAssumption DEF AloneInv, InstanceTypeOK, OneSeesTheOther, Trusting, Lives, Lookers, StopServing, Become, scanVars, clientVars
<1>3. ServesAlone'
  BY DaemonInstanceAssumption DEF AloneInv, InstanceTypeOK, ServesAlone, Serves, Lives, Lookers, StopServing, Become, scanVars, clientVars
<1>4. RecordedServes'
  <2>1. \A e \in Daemons : Serves(e) => e = d
    BY OneDaemonFromIndInv DEF AloneInv, OneDaemon, Serves, StopServing
  <2>2. QED
    BY <2>1 DEF AloneInv, InstanceTypeOK, RecordedServes, Serves, StopServing, Become
<1>5. QED
  BY <1>1, <1>2, <1>3, <1>4 DEF AloneInv

(* Reaped preserves the invariant.                                         *)
LEMMA ReapedStep ==
  ASSUME AloneInv, NEW d \in Daemons, Reaped(d)
  PROVE  AloneInv'
<1>1. InstanceTypeOK'
  BY DEF AloneInv, InstanceTypeOK, Lives, Steps, Lookers, Reaped, Become, scanVars, clientVars
<1>2. OneSeesTheOther'
  BY DaemonInstanceAssumption DEF AloneInv, InstanceTypeOK, OneSeesTheOther, Trusting, Lives, Lookers, Reaped, Become, scanVars, clientVars
<1>3. ServesAlone'
  BY DaemonInstanceAssumption DEF AloneInv, InstanceTypeOK, ServesAlone, Serves, Lives, Lookers, Reaped, Become, scanVars, clientVars
<1>4. RecordedServes'
  BY DEF AloneInv, InstanceTypeOK, RecordedServes, Lives, Reaped, Become, scanVars, clientVars
<1>5. QED
  BY <1>1, <1>2, <1>3, <1>4 DEF AloneInv

(* Begin preserves the invariant.                                          *)
LEMMA ClientBeginsStep ==
  ASSUME AloneInv, NEW c \in Clients, Begin(c)
  PROVE  AloneInv'
<1>1. InstanceTypeOK'
  BY DEF AloneInv, InstanceTypeOK, Lives, Steps, Lookers, Begin, Goto, StartScan, daemonVars
<1>2. OneSeesTheOther'
  BY DaemonInstanceAssumption DEF AloneInv, InstanceTypeOK, OneSeesTheOther, Trusting, Lives, Lookers, Begin, Goto, StartScan, daemonVars
<1>3. ServesAlone'
  BY DaemonInstanceAssumption DEF AloneInv, InstanceTypeOK, ServesAlone, Serves, Lives, Lookers, Begin, Goto, StartScan, daemonVars
<1>4. RecordedServes'
  BY DEF AloneInv, InstanceTypeOK, RecordedServes, Lives, Begin, Goto, StartScan, daemonVars
<1>5. QED
  BY <1>1, <1>2, <1>3, <1>4 DEF AloneInv

(* FindRecorded preserves the invariant.                                   *)
LEMMA FindRecordedStep ==
  ASSUME AloneInv, NEW c \in Clients, FindRecorded(c)
  PROVE  AloneInv'
<1>1. InstanceTypeOK'
  BY DEF AloneInv, InstanceTypeOK, Lives, Steps, Lookers, FindRecorded, Found, Terminate, Become, Goto, Answer, Lowest, scanVars
<1>2. OneSeesTheOther'
  BY DaemonInstanceAssumption DEF AloneInv, InstanceTypeOK, OneSeesTheOther, Trusting, Lives, Lookers, FindRecorded, Found, Terminate, Become, Goto, Answer, Lowest, scanVars
<1>3. ServesAlone'
  BY DaemonInstanceAssumption DEF AloneInv, InstanceTypeOK, ServesAlone, Serves, Lives, Lookers, FindRecorded, Found, Terminate, Become, Goto, Answer, Lowest, scanVars
<1>4. RecordedServes'
  BY DEF AloneInv, InstanceTypeOK, RecordedServes, Lives, FindRecorded, Found, Terminate, Become, Goto, Answer, Lowest, scanVars
<1>5. QED
  BY <1>1, <1>2, <1>3, <1>4 DEF AloneInv

(* LookForDaemon preserves the invariant.                                  *)
LEMMA LookForDaemonStep ==
  ASSUME AloneInv, NEW c \in Clients, LookForDaemon(c)
  PROVE  AloneInv'
<1>1. InstanceTypeOK'
  BY DEF AloneInv, InstanceTypeOK, Lives, Steps, Lookers, LookForDaemon, Look, Others, daemonVars, clientVars
<1>2. OneSeesTheOther'
  <2> SUFFICES ASSUME NEW a \in Daemons, NEW b \in Daemons,
                      life'[a] \in Trusting, life'[b] \in Trusting
               PROVE  b \notin examined'[a] \/ a \notin examined'[b]
    BY DEF OneSeesTheOther
  <2>1. \A x \in Daemons : examined'[x] = examined[x]
    BY DaemonInstanceAssumption DEF AloneInv, InstanceTypeOK, Lookers, LookForDaemon, Look
  <2>2. QED
    BY <2>1 DEF AloneInv, OneSeesTheOther, LookForDaemon, daemonVars
<1>3. ServesAlone'
  BY ZenonT(40), DaemonInstanceAssumption DEF AloneInv, InstanceTypeOK, ServesAlone, Serves, Lives, Lookers, LookForDaemon, Look, Others, daemonVars, clientVars
<1>4. RecordedServes'
  BY DEF AloneInv, InstanceTypeOK, RecordedServes, Lives, LookForDaemon, Look, Others, daemonVars, clientVars
<1>5. QED
  BY <1>1, <1>2, <1>3, <1>4 DEF AloneInv

(* FindDaemon preserves the invariant.                                     *)
LEMMA FindDaemonStep ==
  ASSUME AloneInv, NEW c \in Clients, FindDaemon(c)
  PROVE  AloneInv'
<1>1. InstanceTypeOK'
  <2>1. /\ Lowest(found[c]) \subseteq Daemons
        /\ \A d, e \in Lowest(found[c]) : d = e
    <3>1. found[c] \subseteq Nat
      BY DaemonInstanceAssumption DEF AloneInv, InstanceTypeOK, Lookers
    <3>2. QED
      BY <3>1 DEF AloneInv, InstanceTypeOK, Lookers, Lowest
  <2>2. old' \in [Clients -> SUBSET Daemons] /\ old'[c] = Lowest(found[c])
    BY <2>1 DEF AloneInv, InstanceTypeOK, FindDaemon, Found
  <2>3. \A x \in Clients : \A d, e \in old'[x] : d = e
    BY <2>1, <2>2 DEF AloneInv, InstanceTypeOK, FindDaemon, Found
  <2>4. life' \in [Daemons -> Lives]
    BY <2>1 DEF AloneInv, InstanceTypeOK, FindDaemon, Found, Terminate, Become, Lives
  <2>5. QED
    BY <2>2, <2>3, <2>4 DEF AloneInv, InstanceTypeOK, FindDaemon, Found, Answer, Goto, Steps, scanVars
<1>2. OneSeesTheOther'
  BY DaemonInstanceAssumption DEF AloneInv, InstanceTypeOK, OneSeesTheOther, Trusting, Lives, Lookers, FindDaemon, Found, Terminate, Become, Goto, Answer, Lowest, scanVars
<1>3. ServesAlone'
  BY DaemonInstanceAssumption DEF AloneInv, InstanceTypeOK, ServesAlone, Serves, Lives, Lookers, FindDaemon, Found, Terminate, Become, Goto, Answer, Lowest, scanVars
<1>4. RecordedServes'
  BY DEF AloneInv, InstanceTypeOK, RecordedServes, Lives, FindDaemon, Found, Terminate, Become, Goto, Answer, Lowest, scanVars
<1>5. QED
  BY <1>1, <1>2, <1>3, <1>4 DEF AloneInv

(* Stopped preserves the invariant.                                        *)
LEMMA StoppedStep ==
  ASSUME AloneInv, NEW c \in Clients, Stopped(c)
  PROVE  AloneInv'
<1>1. InstanceTypeOK'
  BY DEF AloneInv, InstanceTypeOK, Lives, Steps, Lookers, Stopped, Goto, daemonVars, scanVars
<1>2. OneSeesTheOther'
  BY DaemonInstanceAssumption DEF AloneInv, InstanceTypeOK, OneSeesTheOther, Trusting, Lives, Lookers, Stopped, Goto, daemonVars, scanVars
<1>3. ServesAlone'
  BY DaemonInstanceAssumption DEF AloneInv, InstanceTypeOK, ServesAlone, Serves, Lives, Lookers, Stopped, Goto, daemonVars, scanVars
<1>4. RecordedServes'
  BY DEF AloneInv, InstanceTypeOK, RecordedServes, Lives, Stopped, Goto, daemonVars, scanVars
<1>5. QED
  BY <1>1, <1>2, <1>3, <1>4 DEF AloneInv

(* Kill preserves the invariant.                                           *)
LEMMA KillStep ==
  ASSUME AloneInv, NEW c \in Clients, Kill(c)
  PROVE  AloneInv'
<1>1. InstanceTypeOK'
  BY DEF AloneInv, InstanceTypeOK, Lives, Steps, Lookers, Kill, Become, Goto, scanVars
<1>2. OneSeesTheOther'
  <2> SUFFICES ASSUME NEW a \in Daemons, NEW b \in Daemons,
                      life'[a] \in Trusting, life'[b] \in Trusting
               PROVE  b \notin examined'[a] \/ a \notin examined'[b]
    BY DEF OneSeesTheOther
  <2>1. \A x \in Daemons : life'[x] \in Trusting => life'[x] = life[x]
    BY DEF AloneInv, InstanceTypeOK, Trusting, Kill, Become
  <2>2. QED
    BY <2>1 DEF AloneInv, OneSeesTheOther, Kill, scanVars
<1>3. ServesAlone'
  <2>1. \A x \in Daemons : Serves(x)' => Serves(x)
    BY DEF AloneInv, InstanceTypeOK, Serves, Kill, Become
  <2>2. QED
    BY <2>1 DEF AloneInv, ServesAlone, Kill, scanVars
<1>4. RecordedServes'
  BY DEF AloneInv, InstanceTypeOK, RecordedServes, Lives, Kill, Become, Goto, scanVars
<1>5. QED
  BY <1>1, <1>2, <1>3, <1>4 DEF AloneInv

(* DidNotStop preserves the invariant.                                     *)
LEMMA DidNotStopStep ==
  ASSUME AloneInv, NEW c \in Clients, DidNotStop(c)
  PROVE  AloneInv'
<1>1. InstanceTypeOK'
  BY DEF AloneInv, InstanceTypeOK, Lives, Steps, Lookers, DidNotStop, Answer, Goto, daemonVars, scanVars
<1>2. OneSeesTheOther'
  BY DaemonInstanceAssumption DEF AloneInv, InstanceTypeOK, OneSeesTheOther, Trusting, Lives, Lookers, DidNotStop, Answer, Goto, daemonVars, scanVars
<1>3. ServesAlone'
  BY DaemonInstanceAssumption DEF AloneInv, InstanceTypeOK, ServesAlone, Serves, Lives, Lookers, DidNotStop, Answer, Goto, daemonVars, scanVars
<1>4. RecordedServes'
  BY DEF AloneInv, InstanceTypeOK, RecordedServes, Lives, DidNotStop, Answer, Goto, daemonVars, scanVars
<1>5. QED
  BY <1>1, <1>2, <1>3, <1>4 DEF AloneInv

(* Spawn preserves the invariant.                                          *)
LEMMA SpawnStep ==
  ASSUME AloneInv, NEW c \in Clients, Spawn(c)
  PROVE  AloneInv'
<1>1. InstanceTypeOK'
  BY DEF AloneInv, InstanceTypeOK, Lives, Steps, Lookers, Spawn, Become, Goto, scanVars
<1>2. OneSeesTheOther'
  <2> SUFFICES ASSUME NEW a \in Daemons, NEW b \in Daemons,
                      life'[a] \in Trusting, life'[b] \in Trusting
               PROVE  b \notin examined'[a] \/ a \notin examined'[b]
    BY DEF OneSeesTheOther
  <2>1. \A x \in Daemons : life'[x] \in Trusting => life'[x] = life[x]
    BY DEF AloneInv, InstanceTypeOK, Trusting, Spawn, Become
  <2>2. QED
    BY <2>1 DEF AloneInv, OneSeesTheOther, Spawn, scanVars
<1>3. ServesAlone'
  BY DaemonInstanceAssumption DEF AloneInv, InstanceTypeOK, ServesAlone, Serves, Lives, Lookers, Spawn, Become, Goto, scanVars
<1>4. RecordedServes'
  BY DEF AloneInv, InstanceTypeOK, RecordedServes, Lives, Spawn, Become, Goto, scanVars
<1>5. QED
  BY <1>1, <1>2, <1>3, <1>4 DEF AloneInv

(* Announce preserves the invariant.                                       *)
LEMMA AnnounceStep ==
  ASSUME AloneInv, NEW c \in Clients, Announce(c)
  PROVE  AloneInv'
<1>1. InstanceTypeOK'
  BY DEF AloneInv, InstanceTypeOK, Lives, Steps, Lookers, Announce, Answer, Goto, daemonVars, scanVars
<1>2. OneSeesTheOther'
  BY DaemonInstanceAssumption DEF AloneInv, InstanceTypeOK, OneSeesTheOther, Trusting, Lives, Lookers, Announce, Answer, Goto, daemonVars, scanVars
<1>3. ServesAlone'
  BY DaemonInstanceAssumption DEF AloneInv, InstanceTypeOK, ServesAlone, Serves, Lives, Lookers, Announce, Answer, Goto, daemonVars, scanVars
<1>4. RecordedServes'
  BY DEF AloneInv, InstanceTypeOK, RecordedServes, Lives, Announce, Answer, Goto, daemonVars, scanVars
<1>5. QED
  BY <1>1, <1>2, <1>3, <1>4 DEF AloneInv

(* It holds initially.                                                     *)
THEOREM InitiallyAlone == InstanceInit => AloneInv
<1> SUFFICES ASSUME InstanceInit PROVE AloneInv
  OBVIOUS
<1>1. InstanceTypeOK
  BY DaemonInstanceAssumption DEF InstanceInit, InstanceTypeOK, Lives, Steps, Lookers
<1>2. OneSeesTheOther
  BY DaemonInstanceAssumption DEF InstanceInit, OneSeesTheOther, Trusting, Lookers
<1>3. ServesAlone
  BY DaemonInstanceAssumption DEF InstanceInit, ServesAlone, Serves, Others, Lookers
<1>4. RecordedServes
  BY DaemonInstanceAssumption DEF InstanceInit, RecordedServes
<1>5. QED
  BY <1>1, <1>2, <1>3, <1>4 DEF AloneInv

(* Every step preserves it.                                                *)
THEOREM StaysAlone == AloneInv /\ [InstanceNext]_instanceVars => AloneInv'
<1> SUFFICES ASSUME AloneInv, [InstanceNext]_instanceVars PROVE AloneInv'
  OBVIOUS
<1>1. CASE UNCHANGED instanceVars
  BY <1>1 DEF AloneInv, InstanceTypeOK, OneSeesTheOther, ServesAlone, RecordedServes, Serves, instanceVars
<1>2. ASSUME NEW d \in Daemons, InstanceStep(d) \/ Boot(d) \/ Refuse(d)
      PROVE  AloneInv'
  BY <1>2, BootStep, ExecDaemonStep, VerifyModuleStep, LookAroundStep,
     StartStep, ServeStep, WaitStep, LookAgainStep, RefuseStep,
     StopServingStep, ReapedStep
     DEF InstanceStep
<1>3. ASSUME NEW c \in Clients, ClientStep(c) \/ Begin(c)
      PROVE  AloneInv'
  BY <1>3, ClientBeginsStep, FindRecordedStep, LookForDaemonStep, FindDaemonStep,
     StoppedStep, KillStep, DidNotStopStep, SpawnStep, AnnounceStep
     DEF ClientStep
<1>4. QED
  BY <1>1, <1>2, <1>3 DEF InstanceNext

(* The invariant holds of every reachable state.                           *)
THEOREM AloneInvariance == InstanceSpec => []AloneInv
<1>1. QED
  BY InitiallyAlone, StaysAlone, PTL DEF InstanceSpec

(* Every variable keeps its type; what a client stops is one daemon.       *)
THEOREM InstanceTypes == InstanceSpec => []InstanceTypeOK
<1>1. AloneInv => InstanceTypeOK
  BY DEF AloneInv
<1>2. QED
  BY <1>1, AloneInvariance, PTL

(* Two daemons never serve at the same time, however many are started by   *)
(* however many clients, and however their scans of /proc interleave.      *)
THEOREM AtMostOneServes == InstanceSpec => []OneDaemon
<1>1. AloneInv => OneDaemon
  BY OneDaemonFromIndInv DEF AloneInv
<1>2. QED
  BY <1>1, AloneInvariance, PTL

(* The state file names the daemon that serves.                            *)
THEOREM RecordIsOfServer == InstanceSpec => []RecordedServes
<1>1. AloneInv => RecordedServes
  BY DEF AloneInv
<1>2. QED
  BY <1>1, AloneInvariance, PTL

==============================================================================
