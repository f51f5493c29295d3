------------------------------- MODULE KpmRing -------------------------------
(***************************************************************************)
(* The KernelPatch module (kpm/src/znn.c): hooks of execve and execveat     *)
(* that note every execution in a ring, and a hook of prctl by which the    *)
(* daemon reads the ring (injector/src/kernel_kpm.rs).                      *)
(*                                                                         *)
(* The ring has no lock.  A writer takes a number with an atomic addition    *)
(* and stores the fields of its record afterwards; nothing tells a reader   *)
(* which records are complete, and the stores of a writer and the loads of  *)
(* a reader are plain, so that they happen in any order.  A field holds the *)
(* number of the execution whose pid or parent it is, and 0 before the      *)
(* first store.  Unloading is taken to wait for callbacks that are running. *)
(***************************************************************************)
EXTENDS Integers, Sequences

CONSTANTS
  Capacity,     \* ZNN_RING_CAPACITY
  Tasks,        \* the tasks that can be in execve or execveat at one time
  BufferLines,  \* lines that fit into a reader's buffer, however long they are
  Settings,     \* what is asked for, and the bound on executions that goes with it
  MaxLoads      \* bound: how often the module is loaded

ASSUME KpmRingAssumption ==
  /\ Capacity \in Nat \ {0}
  /\ BufferLines \in Nat \ {0}
  /\ \A s \in Settings : s.commands \subseteq {"since", "read"} /\ s.execs \in Nat
  /\ MaxLoads \in Nat

VARIABLES
  setting,  \* one of Settings, for good
  hooked,   \* the system calls that are hooked
  stage,    \* how far znn_init or znn_exit is
  loads,    \* how often the module was loaded
  written,  \* znn_ring_written
  ring,     \* znn_ring
  noting,   \* per task: the number it took and the fields it has to store
  lapped,   \* the numbers whose slot was being stored into when they were taken
            \* (history)
  since,    \* since_seq of the daemon
  call,     \* the reader's call
  taken     \* the lines the daemon has read since the module was loaded (history)

vars == <<hooked, stage, loads, written, ring, noting, lapped, since, call, taken>>

\* "since" is the daemon's prctl, "read" the control call; MaxExecs bounds the
\* executions that are noted between loading and unloading.
Commands == setting.commands
MaxExecs == setting.execs

Execs == {"execve", "execveat"}
Fields == {"seq", "pid", "ppid"}
Slots == 0..(Capacity - 1)
Slot(seq) == (seq - 1) % Capacity
NotNoting == [seq |-> 0, left |-> {}]

\* A plain load of a field takes what the slot holds at that moment; the fields
\* loaded so far are a function on their names.
Empty == [f \in {} |-> 0]
NoCall == [of |-> "none", next |-> 1, to |-> 0, got |-> Empty, lines |-> <<>>,
           settled |-> {}]

EmptyRing == [s \in Slots |-> [f \in Fields |-> 0]]

Init ==
  /\ setting \in Settings
  /\ hooked = {} /\ stage = "out" /\ loads = 0
  /\ written = 0 /\ ring = EmptyRing
  /\ noting = [t \in Tasks |-> NotNoting] /\ lapped = {}
  /\ since = 0 /\ call = NoCall /\ taken = {}

(***************************************************************************)
(* znn_init and znn_exit.                                                  *)
(***************************************************************************)

ringVars == <<written, ring, noting, lapped>>
readerVars == <<since, call, taken>>

\* A module that is loaded has fresh memory.
BeginLoad ==
  /\ stage = "out" /\ loads < MaxLoads
  /\ stage' = "execve" /\ loads' = loads + 1
  /\ written' = 0 /\ ring' = EmptyRing
  /\ lapped' = {} /\ taken' = {}
  /\ UNCHANGED <<hooked, noting, since, call>>

\* The hooks are set one after the other.  One that fails takes the module out
\* again, except that of prctl.
HookNext ==
  /\ \/ /\ stage \in Execs
        /\ hooked' = hooked \union {stage}
        /\ stage' = IF stage = "execve" THEN "execveat" ELSE "prctl"
     \/ /\ stage = "prctl"
        /\ hooked' \in {hooked, hooked \union {"prctl"}}
        /\ stage' = "in"
     \/ /\ stage \in Execs
        /\ stage' = "unhook" /\ UNCHANGED hooked
  /\ UNCHANGED <<loads, ringVars, readerVars>>

BeginUnload ==
  /\ stage = "in" /\ stage' = "unhook"
  /\ UNCHANGED <<hooked, loads, ringVars, readerVars>>

AsTheyWereHooked(h) ==
  IF "execve" \in h THEN "execve" ELSE IF "execveat" \in h THEN "execveat" ELSE "prctl"

FirstToUnhook(h) ==
  CASE "prctl" \in h -> "prctl"
    [] "prctl" \notin h /\ "execveat" \in h -> "execveat"
    [] OTHER -> "execve"

\* What the last unhooking leaves running is waited for.
UnhookNext ==
  /\ stage = "unhook"
  /\ IF hooked # {}
       THEN hooked' = hooked \ {FirstToUnhook(hooked)} /\ UNCHANGED stage
       ELSE /\ \A t \in Tasks : noting[t] = NotNoting
            /\ call = NoCall
            /\ stage' = "out" /\ UNCHANGED hooked
  /\ UNCHANGED <<loads, ringVars, readerVars>>

(***************************************************************************)
(* znn_note_exec.                                                          *)
(***************************************************************************)

\* Nobody is storing into the slot of a number.
Untouched(n) ==
  \A t \in Tasks : noting[t] # NotNoting => Slot(noting[t].seq) # Slot(n)

Claim(t) ==
  /\ hooked \cap Execs # {} /\ noting[t] = NotNoting /\ written < MaxExecs
  /\ written' = written + 1
  /\ noting' = [noting EXCEPT ![t] = [seq |-> written', left |-> Fields]]
  /\ lapped' = IF Untouched(written') THEN lapped ELSE lapped \union {written'}
  /\ UNCHANGED <<hooked, stage, loads, ring, readerVars>>

\* The slot of the newest number instead of the writer's own.
StoreAtNewest(t) ==
  \E f \in noting[t].left :
    LET left == noting[t].left \ {f}
    IN  /\ ring' = [ring EXCEPT ![Slot(written)][f] = noting[t].seq]
        /\ noting' = [noting EXCEPT ![t] =
             IF left = {} THEN NotNoting ELSE [noting[t] EXCEPT !.left = left]]
        /\ UNCHANGED <<hooked, stage, loads, written, lapped, readerVars>>

Store(t) ==
  \E f \in noting[t].left :
    LET seq == noting[t].seq
        left == noting[t].left \ {f}
    IN  /\ ring' = [ring EXCEPT ![Slot(seq)][f] = seq]
        /\ noting' = [noting EXCEPT ![t] =
             IF left = {} THEN NotNoting ELSE [seq |-> seq, left |-> left]]
        /\ UNCHANGED <<hooked, stage, loads, written, lapped, readerVars>>

(***************************************************************************)
(* The readers.  Numbers first .. to are copied, line by line.             *)
(***************************************************************************)

\* The numbers whose records are complete, and were not stored by two at a time.
Settled == {n \in 1..written \ lapped : Untouched(n)}
Available == IF written < Capacity THEN written ELSE Capacity
Oldest == written - Available + 1

\* znn_channel_write_records numbers the lines itself; znn_control prints the
\* number that it finds in the record.
Loaded(of) == IF of = "since" THEN {"pid", "ppid"} ELSE Fields
Larger(a, b) == IF a > b THEN a ELSE b
FromOldest == Oldest
FirstSince == Larger(since + 1, Oldest)

\* A bug: the last number is not seen to be new.
BeginSinceLate ==
  /\ "since" \in Commands /\ call = NoCall /\ "prctl" \in hooked
  /\ since + 1 < written
  /\ call' = [NoCall EXCEPT !.of = "since", !.next = FirstSince, !.to = written,
                            !.got = Empty, !.settled = Settled]
  /\ UNCHANGED <<hooked, stage, loads, ringVars, since, taken>>

BeginSince ==
  /\ "since" \in Commands /\ call = NoCall /\ "prctl" \in hooked
  /\ since < written
  /\ call' = [NoCall EXCEPT !.of = "since", !.next = FirstSince, !.to = written,
                            !.got = Empty, !.settled = Settled]
  /\ UNCHANGED <<hooked, stage, loads, ringVars, since, taken>>

BeginRead ==
  /\ "read" \in Commands /\ call = NoCall /\ stage = "in"
  /\ \E requested \in 0..Capacity :
       LET count == IF requested = 0 \/ requested > Available THEN Available
                    ELSE requested
       IN  /\ count > 0
           /\ call' = [NoCall EXCEPT !.of = "read", !.next = written - count + 1,
                         !.to = written, !.got = Empty, !.settled = Settled]
  /\ UNCHANGED <<hooked, stage, loads, ringVars, since, taken>>

\* The last field that is loaded completes the line.  "clean" is history: the
\* slot was settled when the call began, and nobody has taken it since.
Line(got) ==
  [seq |-> IF call.of = "since" THEN call.next ELSE got["seq"],
   n |-> call.next, pid |-> got["pid"], ppid |-> got["ppid"],
   clean |-> call.next \in call.settled /\ written < call.next + Capacity]

LoadField ==
  /\ call.of # "none" /\ call.next <= call.to
  /\ \E f \in Loaded(call.of) \ DOMAIN call.got :
       LET got == [g \in DOMAIN call.got \union {f} |->
                     IF g = f THEN ring[Slot(call.next)][f] ELSE call.got[g]]
       IN  call' = IF DOMAIN got = Loaded(call.of)
                   THEN [call EXCEPT !.lines = Append(@, Line(got)),
                                     !.got = Empty, !.next = @ + 1]
                   ELSE [call EXCEPT !.got = got]
  /\ UNCHANGED <<hooked, stage, loads, ringVars, since, taken>>

Seqs(lines) == {lines[i].seq : i \in DOMAIN lines}
MaxOf(S) == CHOOSE x \in S : \A y \in S : y <= x

\* The daemon's next since_seq.
UpToCall == call.to
NewSince == MaxOf({since} \union Seqs(call.lines))

\* All lines are copied, or the next one does not fit.  The daemon goes
\* on from the largest number it saw; a line with a pid is an event.
Return ==
  /\ call.of # "none"
  /\ \/ call.next > call.to
     \/ call.got = Empty /\ Len(call.lines) >= BufferLines
  /\ call' = NoCall
  /\ IF call.of = "since"
       THEN /\ since' = NewSince
            /\ taken' = taken \union {call.lines[i] : i \in DOMAIN call.lines}
       ELSE UNCHANGED <<since, taken>>
  /\ UNCHANGED <<hooked, stage, loads, ringVars>>

Next ==
  /\ \/ BeginLoad \/ HookNext \/ BeginUnload \/ UnhookNext
     \/ \E t \in Tasks : Claim(t) \/ Store(t)
     \/ BeginSince \/ BeginRead \/ LoadField \/ Return
  /\ UNCHANGED setting

\* The daemon polls without end, whatever control calls come between (the model has
\* one call at a time), and a call runs to its end.
Fairness == SF_vars(BeginSince) /\ WF_vars(LoadField) /\ WF_vars(Return)
Spec == Init /\ [][Next]_<<vars, setting>> /\ Fairness

(***************************************************************************)
(* Properties.                                                             *)
(***************************************************************************)

\* A line, and a call that has loaded the fields loaded of the next one.
LineType == [seq : Nat, n : Nat, pid : Nat, ppid : Nat, clean : BOOLEAN]
CallType(loaded) ==
  [of : {"none", "since", "read"}, next : Nat \ {0}, to : Nat, got : [loaded -> Nat],
   lines : Seq(LineType), settled : SUBSET Nat]

TypeOK ==
  /\ setting \in Settings
  /\ hooked \subseteq Execs \union {"prctl"}
  /\ stage \in Execs \union {"out", "prctl", "in", "unhook"}
  /\ loads \in Nat /\ written \in Nat /\ since \in Nat
  /\ ring \in [Slots -> [Fields -> Nat]]
  /\ noting \in [Tasks -> [seq : Nat, left : SUBSET Fields]]
  /\ lapped \subseteq Nat
  /\ \E loaded \in SUBSET Fields : call \in CallType(loaded)
  /\ taken \subseteq LineType

\* A line whose record was complete before the call, stored by one writer at a time,
\* and whose slot was not taken again before the line was made, says what that
\* execution was: the number, the pid and the parent belong together.  (Without these
\* conditions a line can join the number of one execution to the pid of another.)
CleanLinesAreTrue ==
  \A l \in taken \union {call.lines[i] : i \in DOMAIN call.lines} :
    l.clean => l.seq = l.n /\ l.pid = l.n /\ l.ppid = l.n

\* The daemon never reads a number again that it has read, although it asks again and
\* again and lines are left out for want of room.
ReadOnce ==
  (loads = 1 /\ call.of = "since") =>
    \A i \in DOMAIN call.lines, l \in taken : call.lines[i].seq # l.seq

\* While the module stays loaded, a number the daemon has gone past was read, or
\* overwritten before the daemon asked for it: what does not fit into the buffer is
\* not skipped.
NothingSkipped ==
  loads = 1 =>
    \A n \in 1..since : n + Capacity <= written \/ \E l \in taken : l.seq = n

\* prctl is answered only while both system calls are observed: a channel that
\* answers and reports nothing would look like a device on which nothing executes.
ChannelObserves == "prctl" \in hooked => Execs \subseteq hooked

\* Once nothing executes any more, the daemon has come to the last number, unless
\* the module is unloaded.
Drained ==
  "since" \in Commands => []<>(since = written \/ loads # 1 \/ "prctl" \notin hooked)
=============================================================================
