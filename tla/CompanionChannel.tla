-------------------------- MODULE CompanionChannel -------------------------
(***************************************************************************)
(* A module and its companion.  The daemon starts a helper process for a     *)
(* module that has a companion (injector/src/companion.rs); the loader in    *)
(* the target opens a listener for it (loader/src/module/loader.cpp), and     *)
(* connectCompanion (loader/src/api/companion.cpp, ipc/channel.cpp) returns   *)
(* a descriptor whose other end the helper hands to the companion.           *)
(*                                                                         *)
(* There are two ways to the helper: one control connection, which it makes *)
(* to the listener and over which descriptors are sent, and direct           *)
(* connections, which the target makes to a name the helper has bound.  The *)
(* target may have several threads and a child that was forked with its      *)
(* handle and its descriptors; the handle has no lock.  A descriptor that a  *)
(* process has closed is not taken for another one.                        *)
(***************************************************************************)
EXTENDS Naturals, Sequences, SequencesExt, FiniteSets

CONSTANTS
  Parent, Child,   \* the target and the process it forks
  Callers,         \* threads that call connectCompanion
  Threads,         \* Threads[p]: the callers of process p
  MaxCalls,        \* bound: calls of each caller
  Settings         \* how often each caller calls, and what goes wrong

ASSUME CompanionAssumption ==
  /\ Parent # Child
  /\ Threads \in [{Parent, Child} -> SUBSET Callers]
  /\ Callers = Threads[Parent] \cup Threads[Child]
  /\ MaxCalls \in Nat
  /\ \A s \in Settings : s.calls \in [Callers -> 0..MaxCalls] /\ {s.faults, s.strained} \subseteq BOOLEAN

Processes == {Parent, Child}
Ids == Callers \X (1..MaxCalls)

VARIABLES
  setting,    \* one of Settings, for good
  process,    \* per process: "loading", "alive", "gone"; a child that is not there is "none"
  handle,     \* per process: the ModuleHandle, whether it holds a listener and a channel
  open,       \* per process: the descriptors it has
  conn,       \* the control connection: "none", "queued", "accepted", "reset"
  nonceSent,  \* the helper has sent its nonce over it
  frames,     \* frames sent over it and not yet read
  helper,     \* what the helper is about to do, and what it holds
  queue,      \* direct connections that wait to be accepted
  call,       \* per caller: how far its call is, and its number
  result,     \* per call: "pending", "fd", "failed"
  served      \* the calls the companion was told of, in order

vars == <<process, handle, open, conn, nonceSent, frames, helper, queue, call, result, served>>

\* Whether the helper may be killed and its reads may fail.
Faults == setting.faults

\* Whether a target may run out of descriptors or be slower than PROOF_TIMEOUT.
Strained == setting.strained

Init ==
  /\ setting \in Settings
  /\ process = [p \in Processes |-> IF p = Parent THEN "loading" ELSE "none"]
  /\ handle = [p \in Processes |-> [listen |-> FALSE, channel |-> FALSE]]
  /\ open = [p \in Processes |-> {}]
  /\ conn = "none" /\ nonceSent = FALSE /\ frames = <<>>
  /\ helper = [at |-> "load", channel |-> FALSE, direct |-> FALSE]
  /\ queue = <<>>
  /\ call = [c \in Callers |-> [at |-> "none", n |-> 0]]
  /\ result = [i \in Ids |-> "pending"]
  /\ served = <<>>

(***************************************************************************)
(* Descriptors.                                                            *)
(***************************************************************************)

Of(c) == CHOOSE p \in Processes : c \in Threads[p]
Id(c) == <<c, call[c].n>>
Held(d) == \E p \in Processes : d \in open[p]
Running(c, at) == process[Of(c)] = "alive" /\ call[c].at = at

\* What process p has is now ds.  A connection that waits in the backlog of a
\* listener is reset when the last descriptor of the listener is closed.
Open(p, ds) ==
  /\ open' = [open EXCEPT ![p] = ds]
  /\ conn' = IF conn = "queued" /\ ~\E q \in Processes : "listener" \in open'[q]
             THEN "reset" ELSE conn

callerVars == <<call, result>>
helperVars == <<helper, served>>
wireVars == <<nonceSent, frames, queue>>

(***************************************************************************)
(* The target: loading, forking, closing descriptors it has inherited,       *)
(* ending.                                                                 *)
(***************************************************************************)

\* openCompanionChannel; bind or listen may fail.
BindChannel ==
  /\ process[Parent] = "loading"
  /\ process' = [process EXCEPT ![Parent] = "alive"]
  /\ \E ok \in BOOLEAN :
       /\ handle' = [handle EXCEPT ![Parent].listen = ok]
       /\ Open(Parent, IF ok THEN {"listener"} ELSE {})
  /\ UNCHANGED <<callerVars, helperVars, wireVars>>

Fork ==
  /\ process[Parent] = "alive" /\ process[Child] = "none"
  /\ process' = [process EXCEPT ![Child] = "alive"]
  /\ handle' = [handle EXCEPT ![Child] = handle[Parent]]
  /\ Open(Child, open[Parent])
  /\ UNCHANGED <<callerVars, helperVars, wireVars>>

\* A child closes the descriptors it does not know, between its calls.
CloseInherited ==
  /\ process[Child] = "alive" /\ open[Child] # {}
  /\ \A c \in Threads[Child] : call[c].at = "none"
  /\ Open(Child, {})
  /\ UNCHANGED <<process, handle, callerVars, helperVars, wireVars>>

End(p) ==
  /\ process[p] = "alive"
  /\ process' = [process EXCEPT ![p] = "gone"]
  /\ Open(p, {})
  /\ UNCHANGED <<handle, callerVars, helperVars, wireVars>>

(***************************************************************************)
(* connectCompanion.                                                       *)
(***************************************************************************)

targetVars == <<process, handle, open, conn>>

Goto(c, at) == call' = [call EXCEPT ![c].at = at]
Return(c, r) ==
  /\ result' = [result EXCEPT ![Id(c)] = r]
  /\ Goto(c, "none")

channelUsable(p) == "channel" \in open[p]
listenerUsable(p) == "listener" \in open[p]

\* A channel or a listener that the process no longer has is let go.
Connect(c) ==
  /\ Running(c, "none") /\ call[c].n < setting.calls[c]
  /\ LET h == handle[Of(c)]
         has == [listen |-> h.listen /\ listenerUsable(Of(c)),
                 channel |-> h.channel /\ channelUsable(Of(c))]
     IN  /\ handle' = [handle EXCEPT ![Of(c)] = has]
         /\ call' = [call EXCEPT ![c] =
              [n |-> @.n + 1, at |-> IF has.listen /\ ~has.channel THEN "poll" ELSE "send"]]
  /\ UNCHANGED <<process, open, conn, result, helperVars, wireVars>>

\* A bug: the helper is waited for without a timeout.
PollWaits(c) ==
  /\ Running(c, "poll") /\ conn = "queued"
  /\ Goto(c, "accept")
  /\ UNCHANGED <<targetVars, result, helperVars, wireVars>>

\* What acceptChannel returns when there is no connection.
NotAccepted(c) ==
  /\ handle' = [handle EXCEPT ![Of(c)].channel = FALSE]
  /\ Goto(c, "close listener")
  /\ UNCHANGED <<open, conn>>

\* acceptChannel: a connection to be accepted, or none within kChannelAcceptTimeoutMs.
\* The other thread may have closed the listener and found the channel meanwhile.
Poll(c) ==
  /\ Running(c, "poll")
  /\ IF conn = "queued" /\ listenerUsable(Of(c))
     THEN Goto(c, "accept") /\ UNCHANGED <<handle, open, conn>>
     ELSE NotAccepted(c)
  /\ UNCHANGED <<process, result, helperVars, wireVars>>

\* accept4, on a listener that blocks.  Another thread, or the other process, may have
\* accepted the only connection since the poll: the call then waits for one that never
\* comes, unless the listener was closed before it got here.
Accept(c) ==
  /\ Running(c, "accept")
  /\ \/ /\ listenerUsable(Of(c)) /\ conn = "queued"
        /\ conn' = "accepted"
        /\ open' = [open EXCEPT ![Of(c)] = @ \cup {"channel"}]
        /\ Goto(c, "nonce")
        /\ UNCHANGED handle
     \/ /\ listenerUsable(Of(c)) /\ conn # "queued"
        /\ Goto(c, "blocked")
        /\ UNCHANGED <<handle, open, conn>>
     \/ /\ Strained \/ ~listenerUsable(Of(c))
        /\ NotAccepted(c)
  /\ UNCHANGED <<process, result, helperVars, wireVars>>

\* The nonce, or none in time.
ReadNonce(c) ==
  /\ Running(c, "nonce")
  /\ \/ /\ nonceSent
        /\ handle' = [handle EXCEPT ![Of(c)].channel = TRUE]
        /\ UNCHANGED <<open, conn>>
     \/ /\ ~nonceSent
        /\ handle' = [handle EXCEPT ![Of(c)].channel = FALSE]
        /\ Open(Of(c), open[Of(c)] \ {"channel"})
  /\ Goto(c, "close listener")
  /\ UNCHANGED <<process, result, helperVars, wireVars>>

CloseListener(c) ==
  /\ Running(c, "close listener")
  /\ handle' = [handle EXCEPT ![Of(c)].listen = FALSE]
  /\ Open(Of(c), open[Of(c)] \ {"listener"})
  /\ Goto(c, "send")
  /\ UNCHANGED <<process, result, helperVars, wireVars>>

\* A bug: a channel that is dead is not given up for the direct way.
SendOrFail(c) ==
  /\ Running(c, "send")
  /\ \/ /\ handle[Of(c)].channel
        /\ frames' = IF helper.channel THEN Append(frames, Id(c)) ELSE frames
        /\ Return(c, IF helper.channel THEN "fd" ELSE "failed")
     \/ /\ ~handle[Of(c)].channel
        /\ Goto(c, "direct")
        /\ UNCHANGED <<frames, result>>
  /\ UNCHANGED <<targetVars, nonceSent, queue, helperVars>>

\* A frame with one end of a new pair.  There may be no pair, and it cannot be sent when
\* the helper has closed its end: the channel is dropped and the direct way taken.
Send(c) ==
  /\ Running(c, "send")
  /\ LET usable == "channel" \in open[Of(c)] /\ helper.channel
     IN  \/ /\ handle[Of(c)].channel /\ usable
            /\ frames' = Append(frames, Id(c))
            /\ Return(c, "fd")
            /\ UNCHANGED <<handle, open, conn>>
         \/ /\ handle[Of(c)].channel /\ (Strained \/ ~usable)
            /\ handle' = [handle EXCEPT ![Of(c)].channel = FALSE]
            /\ Open(Of(c), open[Of(c)] \ {"channel"})
            /\ Goto(c, "direct")
            /\ UNCHANGED <<frames, result>>
         \/ /\ ~handle[Of(c)].channel
            /\ Goto(c, "direct")
            /\ UNCHANGED <<handle, open, conn, frames, result>>
  /\ UNCHANGED <<process, nonceSent, queue, helperVars>>

\* connectDirect: a connection is made, or there is no socket or no helper for one.
ConnectDirect(c) ==
  /\ Running(c, "direct")
  /\ \/ /\ helper.direct
        /\ queue' = Append(queue, Id(c))
        /\ Goto(c, "token")
        /\ UNCHANGED result
     \/ /\ Strained \/ ~helper.direct
        /\ Return(c, "failed")
        /\ UNCHANGED queue
  /\ UNCHANGED <<targetVars, nonceSent, frames, helperVars>>

\* It is proved with the token, which cannot be sent when the helper has dropped it.
SendToken(c) ==
  /\ Running(c, "token")
  /\ Return(c, IF helper.direct /\ Id(c) \in ToSet(queue) THEN "fd" ELSE "failed")
  /\ UNCHANGED <<targetVars, helperVars, wireVars>>

(***************************************************************************)
(* The helper.                                                             *)
(***************************************************************************)

Gone == [at |-> "gone", channel |-> FALSE, direct |-> FALSE]

\* A bug: the helper goes with the control connection.
ExitsWithoutChannel(h) == IF h.at = "serve" /\ ~h.channel THEN Gone ELSE h

HelperExits(h) == IF h.at = "serve" /\ ~h.channel /\ ~h.direct THEN Gone ELSE h
callVars == <<call, result>>

\* The library may not load, or have no companion.
Load ==
  /\ helper.at = "load"
  /\ helper' = [helper EXCEPT !.at = "bind"] \/ helper' = Gone
  /\ UNCHANGED <<targetVars, callVars, wireVars, served>>

\* bind_direct, then the companion is told that it is loaded.
BindDirect ==
  /\ helper.at = "bind"
  /\ \E ok \in BOOLEAN : helper' = [helper EXCEPT !.at = "connect", !.direct = ok]
  /\ UNCHANGED <<targetVars, callVars, wireVars, served>>

ConnectChannel ==
  /\ helper.at = "connect" /\ Held("listener")
  /\ helper' = [helper EXCEPT !.at = "prove", !.channel = TRUE]
  /\ conn' = "queued"
  /\ UNCHANGED <<process, handle, open, callVars, wireVars, served>>

\* CONNECT_TIMEOUT without a listener.
GiveUpChannel ==
  /\ helper.at = "connect" /\ ~Held("listener")
  /\ helper' = HelperExits([helper EXCEPT !.at = "serve"])
  /\ UNCHANGED <<targetVars, callVars, wireVars, served>>

ChannelEnded == conn = "reset" \/ (conn = "accepted" /\ ~Held("channel"))

\* The nonce is written; that may fail when the other end is closed.
Prove ==
  /\ helper.at = "prove"
  /\ \/ /\ helper' = [helper EXCEPT !.at = "serve"]
        /\ nonceSent' = TRUE
     \/ /\ ChannelEnded
        /\ helper' = [helper EXCEPT !.at = "serve", !.channel = FALSE]
        /\ UNCHANGED nonceSent
  /\ UNCHANGED <<targetVars, callVars, frames, queue, served>>

\* A bug: the end of the channel is looked at before the frames that are left.
ServeControlEnded ==
  /\ helper.at = "serve" /\ helper.channel
  /\ \/ /\ ~ChannelEnded /\ frames # <<>>
        /\ served' = Append(served, Head(frames))
        /\ frames' = Tail(frames)
        /\ UNCHANGED helper
     \/ /\ ChannelEnded
        /\ helper' = HelperExits([helper EXCEPT !.channel = FALSE])
        /\ UNCHANGED <<frames, served>>
  /\ UNCHANGED <<targetVars, callVars, nonceSent, queue>>

\* A bug: a frame stays to be read again.
ServeControlAgain ==
  /\ helper.at = "serve" /\ helper.channel
  /\ frames # <<>> /\ Len(served) < Cardinality(Ids)
  /\ served' = Append(served, Head(frames))
  /\ UNCHANGED <<targetVars, callVars, nonceSent, queue, frames, helper>>

\* A frame is handed to the companion; the end of the channel closes it.
ServeControl ==
  /\ helper.at = "serve" /\ helper.channel
  /\ \/ /\ frames # <<>>
        /\ served' = Append(served, Head(frames))
        /\ frames' = Tail(frames)
        /\ UNCHANGED helper
     \/ /\ frames = <<>> /\ ChannelEnded
        /\ helper' = HelperExits([helper EXCEPT !.channel = FALSE])
        /\ UNCHANGED <<frames, served>>
  /\ UNCHANGED <<targetVars, callVars, nonceSent, queue>>

\* A read of the control connection fails: it is closed with what was sent over it.
ControlFails ==
  /\ Faults /\ helper.at = "serve" /\ helper.channel
  /\ helper' = HelperExits([helper EXCEPT !.channel = FALSE])
  /\ frames' = <<>>
  /\ UNCHANGED <<targetVars, callVars, nonceSent, queue, served>>

\* The poll loop notices that it has neither.
Exit ==
  /\ helper.at = "serve" /\ ~helper.channel /\ ~helper.direct
  /\ helper' = Gone
  /\ UNCHANGED <<targetVars, callVars, wireVars, served>>

\* accept_direct: the next connection is handed to the companion when it has proved
\* itself.  The read ends without a proof when the target is gone or too late.
ServeDirect ==
  /\ helper.at = "serve" /\ helper.direct /\ queue # <<>>
  /\ \/ /\ result[Head(queue)] = "fd"
        /\ served' = Append(served, Head(queue))
        /\ queue' = Tail(queue)
        /\ UNCHANGED helper
     \/ /\ result[Head(queue)] = "pending"
        /\ Strained \/ process[Of(Head(queue)[1])] = "gone"
        /\ helper' = [helper EXCEPT !.at = "drop"]
        /\ UNCHANGED <<served, queue>>
  /\ UNCHANGED <<targetVars, callVars, nonceSent, frames>>

\* It is closed; the token may have come after all, and nobody reads it.
DropDirect ==
  /\ helper.at = "drop"
  /\ queue' = Tail(queue)
  /\ helper' = [helper EXCEPT !.at = "serve"]
  /\ UNCHANGED <<targetVars, callVars, nonceSent, frames, served>>

Die ==
  /\ Faults /\ helper.at # "gone"
  /\ helper' = Gone
  /\ UNCHANGED <<targetVars, callVars, wireVars, served>>

CallerStep(c) ==
  \/ Poll(c) \/ Accept(c) \/ ReadNonce(c) \/ CloseListener(c)
  \/ Send(c) \/ ConnectDirect(c) \/ SendToken(c)

HelperStep ==
  \/ Load \/ BindDirect \/ ConnectChannel \/ GiveUpChannel \/ Prove
  \/ ServeControl \/ ServeDirect \/ DropDirect \/ Exit

Next ==
  /\ \/ BindChannel \/ Fork \/ CloseInherited
     \/ \E p \in Processes : End(p)
     \/ \E c \in Callers : Connect(c) \/ CallerStep(c)
     \/ HelperStep \/ ControlFails \/ Die
  /\ UNCHANGED setting

Spec == Init /\ [][Next]_<<vars, setting>>

\* A call goes on, with a result or after a timeout, unless it waits in accept4, which
\* has none; the helper polls for ever, and the loader ends.
Fairness ==
  /\ WF_vars(BindChannel)
  /\ \A c \in Callers : WF_vars(CallerStep(c))
  /\ WF_vars(HelperStep)
  /\ WF_vars(ServeControl) /\ WF_vars(ServeDirect)

FairSpec == Spec /\ Fairness

(***************************************************************************)
(* Properties.                                                             *)
(***************************************************************************)

CallPlaces ==
  {"none", "poll", "accept", "blocked", "nonce", "close listener", "send", "direct", "token"}

TypeOK ==
  /\ setting \in Settings
  /\ process \in [Processes -> {"none", "loading", "alive", "gone"}]
  /\ handle \in [Processes -> [listen : BOOLEAN, channel : BOOLEAN]]
  /\ open \in [Processes -> SUBSET {"listener", "channel"}]
  /\ conn \in {"none", "queued", "accepted", "reset"}
  /\ nonceSent \in BOOLEAN
  /\ helper \in [at : {"load", "bind", "connect", "prove", "serve", "drop", "gone"},
                 channel : BOOLEAN, direct : BOOLEAN]
  /\ call \in [Callers -> [at : CallPlaces, n : 0..MaxCalls]]
  /\ result \in [Ids -> {"pending", "fd", "failed"}]
  /\ served \in Seq(Ids) /\ frames \in Seq(Ids) /\ queue \in Seq(Ids)

\* The companion is told once of a call that returned a descriptor and never of one
\* that failed, whichever ways to the helper the call has tried (onModuleConnected).
ServedOnce ==
  /\ IsInjective(served \o frames \o queue)
  /\ \A i \in ToSet(served \o frames) : result[i] = "fd"

\* A call fails only while there is no helper to be reached directly: a channel that
\* was never made, that was inherited and closed or whose other end is gone is no
\* reason to fail (companion.cpp:50-83).  A target that has no descriptor left, or
\* that is too late with its token, may fail.
FailsOnlyWithoutHelper ==
  [][\A i \in Ids : ~Strained /\ result[i] = "pending" /\ result'[i] = "failed" => ~helper.direct]_vars

\* A helper that goes by itself leaves no connection behind that it was sent.
GoesWhenDone ==
  [][~Faults /\ helper.at # "gone" /\ helper'.at = "gone" => frames \o queue = <<>>]_vars

\* A descriptor that was returned reaches the companion, although its process may end,
\* its channel be closed and the helper still be loading; it is lost only with the
\* helper, by a fault of the control connection or when its token came too late.  The
\* calls are bounded, so that what holds of all of them again and again holds of each
\* in the end.
Reaches ==
  ~Faults /\ ~Strained =>
    []<>(\A i \in Ids : result[i] = "fd" => i \in ToSet(served) \/ helper.at = "gone")

\* A call returns, unless its process ends or another call was under way with it: of two
\* that saw the helper's one connection, one is left in accept4 (channel.cpp:182-187).
Returns ==
  []<>(\A c \in Callers :
         \/ call[c].at = "none" \/ process[Of(c)] = "gone"
         \/ call[c].at = "blocked" /\ \E d \in Callers \ {c} : call[d].n # 0)
=============================================================================
