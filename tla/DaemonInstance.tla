--------------------------- MODULE DaemonInstance ---------------------------
(***************************************************************************)
(* The daemon as a process among others: its start (injector/src/main.rs), *)
(* the control commands that start, restart and stop it                    *)
(* (injector/src/ctl.rs) and how both find a daemon that runs              *)
(* (injector/src/procfs.rs).                                               *)
(*                                                                         *)
(* There is no lock file.  A daemon is found by its entry in /proc, which  *)
(* is read one process after the other while processes start and exit, so  *)
(* what was found need not be there any more and what started meanwhile    *)
(* need not be found.  Time is not counted: a deadline may pass at any     *)
(* time, but for the one a daemon waits with for a predecessor that is     *)
(* stopping, if stopping takes less than that.                             *)
(*                                                                         *)
(* Its specification has names of its own (InstanceSpec, ...), so that a    *)
(* module can extend it beside Tracking, the other half of the daemon.     *)
(***************************************************************************)
EXTENDS Naturals

CONSTANTS
  Daemons,     \* the process ids of the daemons
  Clients,     \* the control clients (`injector --ctl`)
  Commands,    \* the commands they are given
  Running,     \* the daemon that serves at first, if any
  Booted,      \* the daemons that the boot scripts start
  Verdicts,    \* whether the files of the module are what was signed
  Prompt       \* a daemon stops before another is tired of waiting for it

ASSUME DaemonInstanceAssumption ==
  /\ Daemons \subseteq Nat
  /\ Daemons \cap Clients = {}
  /\ Commands \subseteq {"start", "restart", "exit"}
  /\ Running \subseteq Daemons /\ \A d, e \in Running : d = e
  /\ Booted \subseteq Daemons
  /\ Verdicts \subseteq BOOLEAN /\ Prompt \in BOOLEAN

VARIABLES
  life,        \* the life of a daemon
  served,      \* the daemons that came to serve
  examined,    \* the processes a scan of /proc has seen not to be a daemon
  found,       \* the processes it has seen to be one
  recorded,    \* the pid in the state file
  step,        \* where a client is
  command,     \* the command it was given
  old, child,  \* the daemon it stops, and the one it started
  answer       \* what it prints in the end

daemonVars == <<life, served, recorded>>
scanVars == <<examined, found>>
clientVars == <<step, command, old, child, answer>>
instanceVars == <<life, served, examined, found, recorded, step, command, old, child, answer>>

Lookers == Daemons \cup Clients

(* "client" is a daemon between fork and exec: still the command line of   *)
(* the client.  "starting" is Daemon::new, "serving" and "stopping" are    *)
(* Daemon::run.  "gone" has been reaped, "zombie" not yet.                 *)
Lives == {"none", "client", "verifying", "looking", "waiting", "starting", "serving",
          "stopping", "zombie", "gone"}
Steps == {"idle", "looking", "terminating", "killing", "spawning", "watching", "done"}

InstanceTypeOK ==
  /\ life \in [Daemons -> Lives]
  /\ served \subseteq Daemons
  /\ examined \in [Lookers -> SUBSET Daemons]
  /\ found \in [Lookers -> SUBSET Daemons]
  /\ recorded \subseteq Daemons
  /\ \A d, e \in recorded : d = e
  /\ step \in [Clients -> Steps]
  /\ command \in [Clients -> Commands \cup {"none"}]
  /\ old \in [Clients -> SUBSET Daemons]
  /\ \A c \in Clients : \A d, e \in old[c] : d = e
  /\ child \in [Clients -> SUBSET Daemons]
  /\ answer \in [Clients -> {"none", "running", "started", "failed"}]

InstanceInit ==
  /\ life = [d \in Daemons |-> IF d \in Running THEN "serving" ELSE "none"]
  /\ served = Running
  /\ examined = [x \in Lookers |-> IF x \in Running THEN Daemons \ {x} ELSE {}]
  /\ found = [x \in Lookers |-> {}]
  /\ recorded = Running
  /\ step = [c \in Clients |-> "idle"]
  /\ command = [c \in Clients |-> "none"]
  /\ old = [c \in Clients |-> {}]
  /\ child = [c \in Clients |-> {}]
  /\ answer = [c \in Clients |-> "none"]

(* Mutant: only a daemon that has published itself is seen.                *)
VisibleServing(d) == life[d] \in {"serving", "stopping", "zombie"}

(* is_daemon_alive: a process named injector without `--ctl` in its        *)
(* command line, which a zombie has none of.                               *)
Visible(d) == life[d] \notin {"none", "client", "gone"}

-----------------------------------------------------------------------------
(***************************************************************************)
(* find_daemon_pid: one process of the scan of /proc, by a daemon or by a  *)
(* client.                                                                 *)
(***************************************************************************)
Others(x) == Daemons \ {x}

Look(x, d) ==
  /\ d \in Others(x) \ (examined[x] \cup found[x])
  /\ IF Visible(d)
       THEN found' = [found EXCEPT ![x] = @ \cup {d}] /\ UNCHANGED examined
       ELSE examined' = [examined EXCEPT ![x] = @ \cup {d}] /\ UNCHANGED found

ScanEnded(x) == examined[x] \cup found[x] = Others(x)

StartScan(x) ==
  /\ examined' = [examined EXCEPT ![x] = {}]
  /\ found' = [found EXCEPT ![x] = {}]

(* Mutant: all that was found.                                             *)
LowestNot(S) == S

(* The lowest pid wins.                                                    *)
Lowest(S) == {d \in S : \A e \in S : d <= e}

-----------------------------------------------------------------------------
(***************************************************************************)
(* main: the life of a daemon.                                             *)
(***************************************************************************)
Become(d, l) == life' = [life EXCEPT ![d] = l]

Boot(d) ==
  /\ d \in Booted /\ life[d] = "none"
  /\ Become(d, "verifying")
  /\ UNCHANGED <<served, recorded, scanVars, clientVars>>

(* execv in the child of a client.                                         *)
ExecDaemon(d) ==
  /\ life[d] = "client"
  /\ Become(d, "verifying")
  /\ UNCHANGED <<served, recorded, scanVars, clientVars>>

VerifyModule(d) ==
  /\ life[d] = "verifying"
  /\ \/ TRUE \in Verdicts /\ Become(d, "looking") /\ StartScan(d)
     \/ FALSE \in Verdicts /\ Become(d, "zombie") /\ UNCHANGED scanVars
  /\ UNCHANGED <<served, recorded, clientVars>>

LookAround(d) ==
  /\ life[d] = "looking"
  /\ \E e \in Daemons : Look(d, e)
  /\ UNCHANGED <<daemonVars, clientVars>>

(* Mutant: a daemon that stops is counted as gone.                         *)
FoundNobodyServing(d) ==
  ScanEnded(d) /\ \A e \in found[d] : life[e] = "stopping"

(* The scan found no daemon.                                               *)
FoundNobody(d) == ScanEnded(d) /\ found[d] = {}

Start(d) ==
  /\ life[d] = "looking" /\ FoundNobody(d)
  /\ Become(d, "starting")
  /\ UNCHANGED <<served, recorded, scanVars, clientVars>>

(* Daemon::run begins with the state file.                                 *)
Serve(d) ==
  /\ life[d] = "starting"
  /\ Become(d, "serving")
  /\ served' = served \cup {d}
  /\ recorded' = {d}
  /\ UNCHANGED <<scanVars, clientVars>>

Wait(d) ==
  /\ life[d] = "looking" /\ ScanEnded(d) /\ found[d] # {}
  /\ Become(d, "waiting")
  /\ UNCHANGED <<served, recorded, scanVars, clientVars>>

(* Mutant: the scan is not begun anew.                                     *)
LookAgainOnly(d) ==
  /\ life[d] = "waiting"
  /\ Become(d, "looking")
  /\ UNCHANGED <<served, recorded, scanVars, clientVars>>

LookAgain(d) ==
  /\ life[d] = "waiting"
  /\ Become(d, "looking")
  /\ StartScan(d)
  /\ UNCHANGED <<served, recorded, clientVars>>

(* Three seconds have passed; a daemon that was stopping would be gone.    *)
Refuse(d) ==
  /\ life[d] = "waiting"
  /\ Prompt => \E e \in found[d] : life[e] \notin {"stopping", "zombie", "gone"}
  /\ Become(d, "zombie")
  /\ UNCHANGED <<served, recorded, scanVars, clientVars>>

StopServing(d) ==
  /\ life[d] = "stopping"
  /\ Become(d, "zombie")
  /\ recorded' = {d}
  /\ UNCHANGED <<served, scanVars, clientVars>>

(* The parent reaps it: a client does not wait for its child, so this is   *)
(* init, once the client has exited.                                       *)
Reaped(d) ==
  /\ life[d] = "zombie"
  /\ \A c \in Clients : d \in child[c] => step[c] = "done"
  /\ Become(d, "gone")
  /\ UNCHANGED <<served, recorded, scanVars, clientVars>>

-----------------------------------------------------------------------------
(***************************************************************************)
(* ctl_main: a client.                                                     *)
(***************************************************************************)
Goto(c, s) == step' = [step EXCEPT ![c] = s]

Answer(c, what) == answer' = [answer EXCEPT ![c] = what] /\ Goto(c, "done")

(* SIGTERM ends a process that has not set its handler, which Daemon::new  *)
(* does halfway; the main loop of a daemon sees it.                        *)
Terminate(d) ==
  \/ /\ life[d] \in {"verifying", "looking", "waiting", "starting"}
     /\ Become(d, "zombie")
  \/ /\ life[d] \in {"starting", "serving"}
     /\ Become(d, "stopping")
  \/ /\ life[d] \notin {"verifying", "looking", "waiting", "starting", "serving"}
     /\ UNCHANGED life

(* A client has found the daemons of S, the pid of the state file or the   *)
(* result of its scan.                                                     *)
Found(c, S) ==
  /\ old' = [old EXCEPT ![c] = S]
  /\ \/ /\ S = {} /\ command[c] # "exit"
        /\ Goto(c, "spawning")
        /\ UNCHANGED <<answer, life>>
     \/ /\ S = {} /\ command[c] = "exit"
        /\ Answer(c, "failed")
        /\ UNCHANGED life
     \/ /\ S # {} /\ command[c] = "start"
        /\ Answer(c, "running")
        /\ UNCHANGED life
     \/ /\ S # {} /\ command[c] = "restart"
        /\ \E d \in S : Terminate(d)
        /\ Goto(c, "terminating")
        /\ UNCHANGED answer
     \/ /\ S # {} /\ command[c] = "exit"
        /\ \E d \in S : Terminate(d)
        /\ Answer(c, "running")
  /\ UNCHANGED <<served, recorded, command, child>>

Begin(c) ==
  /\ step[c] = "idle"
  /\ \E k \in Commands : command' = [command EXCEPT ![c] = k]
  /\ Goto(c, "looking")
  /\ StartScan(c)
  /\ UNCHANGED <<daemonVars, old, child, answer>>

(* The pid of the state file is tried first.                               *)
RecordedAlive == \E d \in recorded : Visible(d)

FindRecorded(c) ==
  /\ step[c] = "looking" /\ examined[c] \cup found[c] = {}
  /\ RecordedAlive
  /\ Found(c, recorded)
  /\ UNCHANGED scanVars

LookForDaemon(c) ==
  /\ step[c] = "looking"
  /\ examined[c] \cup found[c] = {} => ~RecordedAlive
  /\ \E d \in Daemons : Look(c, d)
  /\ UNCHANGED <<daemonVars, clientVars>>

FindDaemon(c) ==
  /\ step[c] = "looking" /\ ScanEnded(c)
  /\ Found(c, Lowest(found[c]))
  /\ UNCHANGED scanVars

Stopped(c) ==
  /\ step[c] \in {"terminating", "killing"}
  /\ \A d \in old[c] : ~Visible(d)
  /\ Goto(c, "spawning")
  /\ UNCHANGED <<daemonVars, scanVars, command, old, child, answer>>

Kill(c) ==
  /\ step[c] = "terminating"
  /\ \E d \in old[c] : Visible(d) /\ Become(d, "zombie")
  /\ Goto(c, "killing")
  /\ UNCHANGED <<served, recorded, scanVars, command, old, child, answer>>

DidNotStop(c) ==
  /\ step[c] = "killing"
  /\ \E d \in old[c] : Visible(d)
  /\ Answer(c, "failed")
  /\ UNCHANGED <<daemonVars, scanVars, command, old, child>>

(* spawn_detached                                                          *)
Spawn(c) ==
  /\ step[c] = "spawning"
  /\ \E d \in Daemons \ Booted :
       /\ life[d] = "none"
       /\ Become(d, "client")
       /\ child' = [child EXCEPT ![c] = {d}]
  /\ Goto(c, "watching")
  /\ UNCHANGED <<served, recorded, scanVars, command, old, answer>>

Announce(c) ==
  /\ step[c] = "watching"
  /\ IF \E d \in child[c] : Visible(d) THEN Answer(c, "started") ELSE Answer(c, "failed")
  /\ UNCHANGED <<daemonVars, scanVars, command, old, child>>

-----------------------------------------------------------------------------
InstanceStep(d) ==
  \/ ExecDaemon(d)
  \/ VerifyModule(d)
  \/ LookAround(d)
  \/ Start(d)
  \/ Serve(d)
  \/ Wait(d)
  \/ LookAgain(d)
  \/ StopServing(d)
  \/ Reaped(d)

ClientStep(c) ==
  \/ FindRecorded(c)
  \/ LookForDaemon(c)
  \/ FindDaemon(c)
  \/ Stopped(c)
  \/ Kill(c)
  \/ DidNotStop(c)
  \/ Spawn(c)
  \/ Announce(c)

InstanceNext ==
  \/ \E d \in Daemons : InstanceStep(d) \/ Boot(d) \/ Refuse(d)
  \/ \E c \in Clients : ClientStep(c) \/ Begin(c)

InstanceSpec == InstanceInit /\ [][InstanceNext]_instanceVars

(* Processes are scheduled; nobody has to start, to give a command or to   *)
(* lose patience.                                                          *)
FairInstanceSpec ==
  /\ InstanceSpec
  /\ \A d \in Daemons : WF_instanceVars(InstanceStep(d))
  /\ \A c \in Clients : WF_instanceVars(ClientStep(c))

-----------------------------------------------------------------------------
(***************************************************************************)
(* Properties.                                                             *)
(***************************************************************************)
Serves(d) == life[d] \in {"starting", "serving", "stopping"}

(* Two daemons never serve at the same time (main.rs refuses a second      *)
(* instance), however their scans of /proc interleave: two tracers of init *)
(* and two owners of the state file would get into each other's way.       *)
OneDaemon ==
  \A d, e \in Daemons : Serves(d) /\ Serves(e) => d = e

(* The state file, where clients look first, names the daemon that serves: *)
(* no daemon before it writes the file any more.                           *)
RecordedServes ==
  \A d \in Daemons : life[d] = "serving" => recorded = {d}

(* A daemon that has verified the module once its predecessor was told to   *)
(* stop comes to serve, as after the soft reboot that runs `--ctl exit` and *)
(* then the boot scripts: it neither gives up nor overlooks that the other  *)
(* is gone, if no other daemon starts and no client looks for one to stop.  *)
OnlySuccessor(d) ==
  /\ \A e \in Others(d) : life[e] \in {"none", "stopping", "zombie", "gone"}
  /\ \A c \in Clients : step[c] \in {"idle", "watching", "done"}

SuccessorServes ==
  \A d \in Daemons :
    (life[d] = "looking" /\ [](OnlySuccessor(d))) ~> d \in served
=============================================================================
