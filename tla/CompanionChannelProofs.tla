----------------------- MODULE CompanionChannelProofs -----------------------
(***************************************************************************)
(* Proofs about CompanionChannel: for any callers and any number of calls,   *)
(* the companion is told once of a call that returned a descriptor, a call   *)
(* fails only without a helper that can be reached, and a helper that goes   *)
(* by itself has read what it was sent.                                     *)
(***************************************************************************)
EXTENDS CompanionChannel, TLAPS

\* A call that has not begun or not returned has no result.
CallsPending ==
  \A c \in Callers :
    /\ call[c].at # "none" => call[c].n # 0
    /\ \A n \in 1..MaxCalls :
         n > call[c].n \/ (n = call[c].n /\ call[c].at # "none") => result[<<c, n>>] = "pending"

Disjoint(s, t) == ToSet(s) \cap ToSet(t) = {}

\* A call is in one place at most; the companion is told, or about to be told over the
\* channel, only of one that has returned a descriptor.
InOnePlace ==
  /\ IsInjective(served) /\ IsInjective(frames) /\ IsInjective(queue)
  /\ Disjoint(served, frames) /\ Disjoint(served, queue) /\ Disjoint(frames, queue)
  /\ \A i \in ToSet(served) \cup ToSet(frames) : result[i] = "fd"

\* A connection without a result is of a call that is about to prove it, and waits for
\* that unless the helper may lose patience; what it drops is of a process that is gone.
Tokens ==
  /\ \A c \in Callers, n \in 1..MaxCalls :
       <<c, n>> \in ToSet(queue) /\ result[<<c, n>>] = "pending"
         => call[c].at = "token" /\ call[c].n = n
  /\ \A c \in Callers :
       call[c].at = "token" /\ ~Strained /\ process[Of(c)] # "gone" => Id(c) \in ToSet(queue)
  /\ helper.at = "drop" => queue # <<>> /\ (Strained \/ process[Of(Head(queue)[1])] = "gone")

\* What was sent to the helper, and how: over a channel it has proved itself on, or to
\* a name it has bound.
SentToHelper ==
  /\ (\E p \in Processes : handle[p].channel) \/ frames # <<>> => nonceSent
  /\ nonceSent => helper.at \in {"serve", "drop", "gone"}
  /\ helper.at \in {"load", "bind", "connect"} => ~helper.channel
  /\ helper.at \in {"load", "bind"} => ~helper.direct
  /\ queue # <<>> /\ helper.at # "gone" => helper.direct
  /\ queue # <<>> => helper.at \notin {"load", "bind"}
  /\ frames # <<>> /\ helper.at # "gone" /\ ~Faults => helper.channel

IndInv == TypeOK /\ CallsPending /\ InOnePlace /\ Tokens /\ SentToHelper

(***************************************************************************)
(* Sequences without a repetition.                                         *)
(***************************************************************************)

LEMMA AppendNew ==
  ASSUME NEW S, NEW s \in Seq(S), NEW x \in S, IsInjective(s), x \notin ToSet(s)
  PROVE  /\ IsInjective(Append(s, x))
         /\ ToSet(Append(s, x)) = ToSet(s) \cup {x}
<1>1. /\ DOMAIN Append(s, x) = 1..(Len(s) + 1) /\ DOMAIN s = 1..Len(s) /\ Len(s) \in Nat
      /\ Append(s, x)[Len(s) + 1] = x
      /\ \A i \in 1..Len(s) : Append(s, x)[i] = s[i] /\ s[i] # x
  BY DEF ToSet
<1> DEFINE t == Append(s, x)
<1> HIDE DEF t
<1>2. ASSUME NEW a \in DOMAIN t, NEW b \in DOMAIN t, t[a] = t[b]
      PROVE  a = b
  <2>1. CASE a \in 1..Len(s) /\ b \in 1..Len(s)
    BY <1>1, <1>2, <2>1 DEF IsInjective, t
  <2>2. CASE a = Len(s) + 1 \/ b = Len(s) + 1
    BY <1>1, <1>2, <2>2 DEF t
  <2>3. QED
    BY <1>1, <2>1, <2>2 DEF t
<1>3. IsInjective(t)
  BY <1>2 DEF IsInjective
<1>4. ToSet(t) = ToSet(s) \cup {x}
  BY <1>1 DEF ToSet, t
<1>5. QED
  BY <1>3, <1>4 DEF t

LEMMA Elements ==
  ASSUME NEW S, NEW s \in Seq(S)
  PROVE  ToSet(s) \subseteq S
<1>1. \A i \in DOMAIN s : s[i] \in S
  OBVIOUS
<1>2. QED
  BY <1>1 DEF ToSet

LEMMA HeadFirst ==
  ASSUME NEW S, NEW s \in Seq(S), s # <<>>, IsInjective(s)
  PROVE  /\ Head(s) \in S /\ Tail(s) \in Seq(S) /\ IsInjective(Tail(s))
         /\ Head(s) \notin ToSet(Tail(s)) /\ ToSet(s) = {Head(s)} \cup ToSet(Tail(s))
<1>1. /\ Len(s) \in Nat \ {0} /\ DOMAIN s = 1..Len(s)
      /\ Head(s) = s[1] /\ Tail(s) \in Seq(S) /\ DOMAIN Tail(s) = 1..(Len(s) - 1)
      /\ \A i \in 1..(Len(s) - 1) : Tail(s)[i] = s[i + 1]
  OBVIOUS
<1> DEFINE t == Tail(s)
<1> HIDE DEF t
<1>2. \A i \in 1..(Len(s) - 1) : i + 1 \in 1..Len(s) /\ i + 1 # 1
  BY <1>1
<1>3. IsInjective(t)
  <2>1. ASSUME NEW a \in 1..(Len(s) - 1), NEW b \in 1..(Len(s) - 1), t[a] = t[b]
        PROVE  a = b
    <3>1. a + 1 = b + 1
      BY <1>1, <1>2, <2>1 DEF IsInjective, t
    <3>2. QED
      BY <3>1
  <2>2. QED
    BY <1>1, <2>1 DEF IsInjective, t
<1>4. s[1] \notin ToSet(t)
  BY <1>1, <1>2 DEF IsInjective, ToSet, t
<1>5. ToSet(s) = {s[1]} \cup ToSet(t)
  <2>1. \A j \in 1..Len(s) : j = 1 \/ (j - 1 \in 1..(Len(s) - 1) /\ s[j] = t[j - 1])
    BY <1>1 DEF t
  <2>2. \A i \in 1..(Len(s) - 1) : t[i] = s[i + 1]
    BY <1>1 DEF t
  <2>3. DOMAIN t = 1..(Len(s) - 1)
    BY <1>1 DEF t
  <2>4. ASSUME NEW x \in ToSet(s)
        PROVE  x = s[1] \/ x \in ToSet(t)
    <3>1. PICK j \in 1..Len(s) : x = s[j]
      BY <1>1, <2>4 DEF ToSet
    <3>2. QED
      BY <2>1, <2>3, <3>1 DEF ToSet
  <2>5. ASSUME NEW x \in ToSet(t)
        PROVE  x \in ToSet(s)
    <3>1. PICK i \in 1..(Len(s) - 1) : x = t[i]
      BY <2>3, <2>5 DEF ToSet
    <3>2. QED
      BY <1>1, <1>2, <2>2, <3>1 DEF ToSet
  <2>6. s[1] \in ToSet(s)
    BY <1>1 DEF ToSet
  <2>7. QED
    BY <2>4, <2>5, <2>6
<1>6. QED
  BY <1>1, <1>3, <1>4, <1>5 DEF t

LEMMA ConcatDisjoint ==
  ASSUME NEW S, NEW s \in Seq(S), NEW t \in Seq(S), IsInjective(s), IsInjective(t), Disjoint(s, t)
  PROVE  /\ IsInjective(s \o t) /\ ToSet(s \o t) = ToSet(s) \cup ToSet(t)
         /\ s \o t \in Seq(S)
<1> DEFINE u == s \o t
<1>1. /\ u \in Seq(S) /\ DOMAIN u = 1..(Len(s) + Len(t))
      /\ Len(s) \in Nat /\ Len(t) \in Nat /\ DOMAIN s = 1..Len(s) /\ DOMAIN t = 1..Len(t)
      /\ \A i \in 1..Len(s) : u[i] = s[i]
      /\ \A i \in 1..(Len(s) + Len(t)) : i > Len(s) => u[i] = t[i - Len(s)]
  OBVIOUS
<1> HIDE DEF u
<1>2. \A i \in 1..(Len(s) + Len(t)) :
        (i <= Len(s) /\ i \in 1..Len(s)) \/ (i > Len(s) /\ i - Len(s) \in 1..Len(t))
  BY <1>1
<1>3. \A i \in 1..Len(s), j \in 1..Len(t) : s[i] # t[j]
  BY <1>1 DEF Disjoint, ToSet
<1>4. ASSUME NEW a \in 1..(Len(s) + Len(t)), NEW b \in 1..(Len(s) + Len(t)), u[a] = u[b]
      PROVE  a = b
  <2>1. CASE a <= Len(s) /\ b <= Len(s)
    <3>1. a \in DOMAIN s /\ b \in DOMAIN s /\ s[a] = s[b]
      BY <1>1, <1>2, <1>4, <2>1
    <3>2. QED
      BY <3>1 DEF IsInjective
  <2>2. CASE a > Len(s) /\ b > Len(s)
    <3>1. a - Len(s) = b - Len(s)
      <4>1. /\ a - Len(s) \in DOMAIN t /\ b - Len(s) \in DOMAIN t
            /\ t[a - Len(s)] = t[b - Len(s)]
        BY <1>1, <1>2, <1>4, <2>2
      <4>2. QED
        BY <4>1 DEF IsInjective
    <3>2. QED
      BY <1>1, <3>1
  <2>3. CASE (a <= Len(s) /\ b > Len(s)) \/ (a > Len(s) /\ b <= Len(s))
    BY <1>1, <1>2, <1>3, <1>4, <2>3
  <2>4. QED
    BY <1>1, <2>1, <2>2, <2>3
<1>5. IsInjective(u)
  BY <1>1, <1>4 DEF IsInjective
<1>6. ToSet(u) = ToSet(s) \cup ToSet(t)
  <2>1. \A j \in 1..Len(t) : j + Len(s) \in 1..(Len(s) + Len(t)) /\ u[j + Len(s)] = t[j]
    BY <1>1
  <2>2. \A i \in 1..Len(s) : i \in 1..(Len(s) + Len(t))
    BY <1>1
  <2>3. ASSUME NEW x \in ToSet(u)
        PROVE  x \in ToSet(s) \cup ToSet(t)
    <3>1. PICK i \in 1..(Len(s) + Len(t)) : x = u[i]
      BY <1>1, <2>3 DEF ToSet
    <3>2. CASE i <= Len(s)
      BY <1>1, <1>2, <3>1, <3>2 DEF ToSet
    <3>3. CASE i > Len(s)
      BY <1>1, <1>2, <3>1, <3>3 DEF ToSet
    <3>4. QED
      BY <1>1, <3>1, <3>2, <3>3
  <2>4. ASSUME NEW x \in ToSet(s) \cup ToSet(t)
        PROVE  x \in ToSet(u)
    <3>1. CASE x \in ToSet(s)
      BY <1>1, <2>2, <3>1 DEF ToSet
    <3>2. CASE x \in ToSet(t)
      BY <1>1, <2>1, <3>2 DEF ToSet
    <3>3. QED
      BY <2>4, <3>1, <3>2
  <2>5. QED
    BY <2>3, <2>4
<1>7. QED
  BY <1>1, <1>5, <1>6 DEF u

(***************************************************************************)
(* The calls.                                                              *)
(***************************************************************************)

CallType == [at : CallPlaces, n : 0..MaxCalls]
Within == CallPlaces \ {"none"}

LEMMA OfProcess ==
  ASSUME NEW c \in Callers
  PROVE  Of(c) \in Processes
<1>1. \E p \in Processes : c \in Threads[p]
  BY CompanionAssumption DEF Processes
<1>2. QED
  BY <1>1 DEF Of

\* The call a thread is in has a number and no result; it has a connection to the
\* helper's name only when it is about to prove it.
LEMMA Calling ==
  ASSUME IndInv, NEW c \in Callers, call[c].at # "none"
  PROVE  /\ Id(c) \in Ids /\ result[Id(c)] = "pending" /\ call[c].n \in 1..MaxCalls
         /\ Id(c) \notin ToSet(served) \cup ToSet(frames)
         /\ call[c].at # "token" => Id(c) \notin ToSet(queue)
<1>1. call[c] \in CallType
  BY DEF IndInv, TypeOK, CallType
<1>2. call[c].n \in 1..MaxCalls
  <2>1. call[c].n # 0
    BY DEF IndInv, CallsPending
  <2>2. call[c].n \in 0..MaxCalls /\ MaxCalls \in Nat
    BY <1>1, CompanionAssumption DEF CallType
  <2>3. QED
    BY <2>1, <2>2
<1>3. Id(c) \in Ids /\ result[Id(c)] = "pending"
  BY <1>2 DEF IndInv, CallsPending, Id, Ids
<1>4. Id(c) \notin ToSet(served) \cup ToSet(frames)
  BY <1>3 DEF IndInv, InOnePlace
<1>5. call[c].at # "token" => Id(c) \notin ToSet(queue)
  BY <1>2, <1>3 DEF IndInv, Tokens, Id
<1>6. QED
  BY <1>2, <1>3, <1>4, <1>5

\* A thread goes on within its call.
LEMMA GotoKeeps ==
  ASSUME IndInv, NEW c \in Callers, NEW at \in Within, call[c].at # "none", Goto(c, at), UNCHANGED result
  PROVE  CallsPending' /\ call' \in [Callers -> CallType]
<1>1. call \in [Callers -> CallType]
  BY DEF IndInv, TypeOK, CallType
<1>2. call'[c] = [call[c] EXCEPT !.at = at] /\ \A d \in Callers : d # c => call'[d] = call[d]
  BY <1>1 DEF Goto
<1>3. call'[c].n = call[c].n /\ call'[c].at = at /\ call'[c] \in CallType
  BY <1>1, <1>2 DEF CallType, Within
<1>4. CallsPending'
  <2>1. \A d \in Callers : call'[d].n = call[d].n /\ (call'[d].at # "none" => call[d].at # "none")
    BY <1>2, <1>3
  <2>2. QED
    BY <2>1 DEF IndInv, CallsPending
<1>5. call' \in [Callers -> CallType]
  BY <1>1, <1>2, <1>3 DEF Goto
<1>6. QED
  BY <1>4, <1>5

\* A call returns: its result is the only one that changes.
LEMMA ReturnKeeps ==
  ASSUME IndInv, NEW c \in Callers, NEW r \in {"fd", "failed"}, call[c].at # "none", Return(c, r)
  PROVE  /\ CallsPending' /\ call' \in [Callers -> CallType]
         /\ result' \in [Ids -> {"pending", "fd", "failed"}]
         /\ result'[Id(c)] = r /\ \A i \in Ids : i # Id(c) => result'[i] = result[i]
<1>1. call \in [Callers -> CallType] /\ result \in [Ids -> {"pending", "fd", "failed"}]
  BY DEF IndInv, TypeOK, CallType
<1>2. Id(c) \in Ids
  BY Calling
<1>3. call'[c] = [call[c] EXCEPT !.at = "none"] /\ \A d \in Callers : d # c => call'[d] = call[d]
  BY <1>1 DEF Return, Goto
<1>4. call'[c].n = call[c].n /\ call'[c].at = "none" /\ call'[c] \in CallType
  BY <1>1, <1>3 DEF CallType, CallPlaces
<1>5. result'[Id(c)] = r /\ \A i \in Ids : i # Id(c) => result'[i] = result[i]
  BY <1>1, <1>2 DEF Return
<1>6. CallsPending'
  <2>1. ASSUME NEW d \in Callers, NEW n \in 1..MaxCalls,
               n > call'[d].n \/ (n = call'[d].n /\ call'[d].at # "none")
        PROVE  result'[<<d, n>>] = "pending"
    <3>1. <<d, n>> \in Ids /\ result[<<d, n>>] = "pending"
      <4>1. n > call[d].n \/ (n = call[d].n /\ call[d].at # "none")
        BY <1>3, <1>4, <2>1
      <4>2. QED
        BY <4>1 DEF IndInv, CallsPending, Ids
    <3>2. <<d, n>> # Id(c)
      <4>1. call[c].n \in 0..MaxCalls
        BY <1>1 DEF CallType
      <4>2. d = c => n > call[c].n
        BY <1>4, <2>1
      <4>3. QED
        BY <4>1, <4>2 DEF Id
    <3>3. QED
      BY <1>5, <3>1, <3>2
  <2>2. \A d \in Callers : call'[d].at # "none" => call'[d].n # 0
    BY <1>3, <1>4 DEF IndInv, CallsPending
  <2>3. QED
    BY <2>1, <2>2 DEF CallsPending
<1>7. call' \in [Callers -> CallType] /\ result' \in [Ids -> {"pending", "fd", "failed"}]
  BY <1>1, <1>3, <1>4, <1>5 DEF Return, Goto
<1>8. QED
  BY <1>5, <1>6, <1>7

\* What was sent stays where it is.
LEMMA PlacesKept ==
  ASSUME InOnePlace, UNCHANGED <<served, frames, queue, result>>
  PROVE  InOnePlace'
BY DEF InOnePlace, Disjoint

\* A step that has nothing to do with the helper's name: no call begins or ends to prove
\* a connection, and no process comes back.
LEMMA TokensKept ==
  ASSUME TypeOK, Tokens, UNCHANGED <<setting, queue, result>>,
         \A c \in Callers : call[c].at = "token" \/ call'[c].at = "token" => call'[c] = call[c],
         \A p \in Processes : process[p] = "gone" => process'[p] = "gone",
         helper'.at = "drop" => helper.at = "drop"
  PROVE  Tokens'
<1>1. \A c \in Callers, n \in 1..MaxCalls :
        <<c, n>> \in ToSet(queue') /\ result'[<<c, n>>] = "pending"
          => call'[c].at = "token" /\ call'[c].n = n
  BY DEF Tokens
<1>2. ASSUME NEW c \in Callers, call'[c].at = "token", ~Strained', process'[Of(c)] # "gone"
      PROVE  Id(c)' \in ToSet(queue')
  <2>1. call[c].at = "token" /\ ~Strained /\ process[Of(c)] # "gone" /\ Id(c)' = Id(c)
    BY <1>2, OfProcess DEF Id, Strained
  <2>2. QED
    BY <2>1 DEF Tokens
<1>3. ASSUME helper'.at = "drop"
      PROVE  queue' # <<>> /\ (Strained' \/ process'[Of(Head(queue')[1])] = "gone")
  <2>1. queue # <<>> /\ (Strained \/ process[Of(Head(queue)[1])] = "gone")
    BY <1>3 DEF Tokens
  <2>2. Head(queue) \in Ids
    BY <2>1 DEF TypeOK
  <2>3. Head(queue)[1] \in Callers
    BY <2>2 DEF Ids
  <2>4. QED
    BY <2>1, <2>3, OfProcess DEF Strained
<1>4. QED
  BY <1>1, <1>2, <1>3 DEF Tokens

\* A call that returns has no connection to be proved any more.
LEMMA TokenReturned ==
  ASSUME IndInv, NEW c \in Callers, NEW r \in {"fd", "failed"}, call[c].at # "none", Return(c, r),
         UNCHANGED <<setting, process, queue, helper>>
  PROVE  Tokens'
<1>1. /\ result'[Id(c)] = r /\ \A i \in Ids : i # Id(c) => result'[i] = result[i]
      /\ call'[c].at = "none" /\ \A d \in Callers : d # c => call'[d] = call[d]
  <2>1. call \in [Callers -> CallType]
    BY DEF IndInv, TypeOK, CallType
  <2>2. call'[c] = [call[c] EXCEPT !.at = "none"] /\ \A d \in Callers : d # c => call'[d] = call[d]
    BY <2>1 DEF Return, Goto
  <2>3. call'[c].at = "none"
    BY <2>1, <2>2 DEF CallType
  <2>4. QED
    BY <2>2, <2>3, ReturnKeeps
<1>2. ASSUME NEW d \in Callers, NEW n \in 1..MaxCalls, <<d, n>> \in ToSet(queue),
             result'[<<d, n>>] = "pending"
      PROVE  call'[d].at = "token" /\ call'[d].n = n
  <2>1. <<d, n>> # Id(c) /\ <<d, n>> \in Ids
    BY <1>1, <1>2 DEF Ids
  <2>2. call[d].at = "token" /\ call[d].n = n
    BY <1>1, <1>2, <2>1 DEF IndInv, Tokens
  <2>3. d # c
    BY <2>1, <2>2 DEF Id
  <2>4. QED
    BY <1>1, <2>2, <2>3
<1>3. ASSUME NEW d \in Callers, call'[d].at = "token", ~Strained', process'[Of(d)] # "gone"
      PROVE  Id(d)' \in ToSet(queue')
  <2>1. d # c /\ call'[d] = call[d]
    BY <1>1, <1>3
  <2>2. QED
    BY <1>3, <2>1 DEF IndInv, Tokens, Id, Strained
<1>4. helper'.at = "drop" => queue' # <<>> /\ (Strained' \/ process'[Of(Head(queue')[1])] = "gone")
  BY DEF IndInv, Tokens, Strained
<1>5. QED
  BY <1>2, <1>3, <1>4 DEF Tokens

\* Nothing of a call changes in a step of a process.
LEMMA CallsKept ==
  ASSUME CallsPending, UNCHANGED <<call, result>>
  PROVE  CallsPending'
BY DEF CallsPending

(***************************************************************************)
(* The processes.                                                          *)
(***************************************************************************)

HandleType == [listen : BOOLEAN, channel : BOOLEAN]

LEMMA OpenTyped ==
  ASSUME TypeOK, NEW p, NEW ds \in SUBSET {"listener", "channel"}, Open(p, ds)
  PROVE  /\ open' \in [Processes -> SUBSET {"listener", "channel"}]
         /\ conn' \in {"none", "queued", "accepted", "reset"}
BY DEF TypeOK, Open

\* A step of the processes that makes no channel.
LEMMA NoChannelMade ==
  ASSUME IndInv, UNCHANGED <<setting, helperVars, wireVars>>,
         \A p \in Processes : handle'[p].channel => \E q \in Processes : handle[q].channel
  PROVE  SentToHelper'
BY DEF IndInv, SentToHelper, helperVars, wireVars, Faults

LEMMA HandleTyped ==
  ASSUME TypeOK, NEW p, NEW b \in BOOLEAN
  PROVE  /\ handle \in [Processes -> HandleType]
         /\ [handle EXCEPT ![p].listen = b] \in [Processes -> HandleType]
         /\ [handle EXCEPT ![p].channel = b] \in [Processes -> HandleType]
<1>1. handle \in [Processes -> HandleType]
  BY ZenonT(40) DEF TypeOK, HandleType
<1>2. [handle EXCEPT ![p].listen = b] \in [Processes -> HandleType]
  BY <1>1 DEF HandleType
<1>3. [handle EXCEPT ![p].channel = b] \in [Processes -> HandleType]
  BY <1>1 DEF HandleType
<1>4. QED
  BY <1>1, <1>2, <1>3

\* A handle that is changed elsewhere, or loses its channel, gets none.
LEMMA HandleChanged ==
  ASSUME TypeOK, NEW q, NEW b \in BOOLEAN,
         \/ handle' = [handle EXCEPT ![q].listen = b]
         \/ handle' = [handle EXCEPT ![q].channel = FALSE]
  PROVE  \A p \in Processes : handle'[p].channel => handle[p].channel
<1>1. handle \in [Processes -> HandleType]
  BY HandleTyped
<1>2. TAKE p \in Processes
<1>3. CASE p # q
  BY <1>1, <1>3
<1>4. CASE p = q
  <2>1. \/ handle'[p] = [handle[p] EXCEPT !.listen = b]
        \/ handle'[p] = [handle[p] EXCEPT !.channel = FALSE]
    BY <1>1, <1>4
  <2>2. handle[p] \in HandleType
    BY <1>1
  <2>3. QED
    BY <2>1, <2>2 DEF HandleType
<1>5. QED
  BY <1>3, <1>4

LEMMA BindChannelStep ==
  ASSUME IndInv, BindChannel, UNCHANGED setting
  PROVE  IndInv'
<1>1. UNCHANGED <<call, result, helper, served, nonceSent, frames, queue>>
  BY DEF BindChannel, callerVars, helperVars, wireVars
<1>2. PICK ok \in BOOLEAN : /\ handle' = [handle EXCEPT ![Parent].listen = ok]
                            /\ Open(Parent, IF ok THEN {"listener"} ELSE {})
  BY DEF BindChannel
<1>3. TypeOK'
  <2>1. handle' \in [Processes -> HandleType]
    BY <1>2, HandleTyped DEF IndInv
  <2>2. process' \in [Processes -> {"none", "loading", "alive", "gone"}]
    BY DEF IndInv, TypeOK, BindChannel
  <2>3. (IF ok THEN {"listener"} ELSE {}) \in SUBSET {"listener", "channel"}
    OBVIOUS
  <2>4. /\ open' \in [Processes -> SUBSET {"listener", "channel"}]
        /\ conn' \in {"none", "queued", "accepted", "reset"}
    BY <1>2, <2>3, OpenTyped DEF IndInv
  <2>5. QED
    BY <1>1, <2>1, <2>2, <2>4 DEF IndInv, TypeOK, HandleType
<1>4. \A p \in Processes : handle'[p].channel => handle[p].channel
  BY <1>2, HandleChanged DEF IndInv
<1>5. \A p \in Processes : process[p] = "gone" => process'[p] = "gone"
  BY DEF IndInv, TypeOK, BindChannel
<1>6. QED
  BY <1>1, <1>3, <1>4, <1>5, CallsKept, PlacesKept, TokensKept, NoChannelMade
  DEF IndInv, helperVars, wireVars

LEMMA ForkStep ==
  ASSUME IndInv, Fork, UNCHANGED setting
  PROVE  IndInv'
<1>1. UNCHANGED <<call, result, helper, served, nonceSent, frames, queue>>
  BY DEF Fork, callerVars, helperVars, wireVars
<1>2. Parent \in Processes /\ open[Parent] \in SUBSET {"listener", "channel"}
  BY DEF IndInv, TypeOK, Processes
<1>3. TypeOK'
  BY <1>1, <1>2, OpenTyped DEF IndInv, TypeOK, Fork
<1>4. \A p \in Processes : handle'[p].channel => \E q \in Processes : handle[q].channel
  BY <1>2 DEF IndInv, TypeOK, Fork
<1>5. \A p \in Processes : process[p] = "gone" => process'[p] = "gone"
  BY DEF IndInv, TypeOK, Fork
<1>6. QED
  BY <1>1, <1>3, <1>4, <1>5, CallsKept, PlacesKept, TokensKept, NoChannelMade
  DEF IndInv, helperVars, wireVars

LEMMA CloseStep ==
  ASSUME IndInv, UNCHANGED setting, NEW p \in Processes, End(p) \/ CloseInherited
  PROVE  IndInv'
<1>1. UNCHANGED <<handle, call, result, helper, served, nonceSent, frames, queue>>
  BY DEF End, CloseInherited, callerVars, helperVars, wireVars
<1>2. Open(p, {}) \/ Open(Child, {})
  BY DEF End, CloseInherited
<1>3. process' \in [Processes -> {"none", "loading", "alive", "gone"}]
  BY DEF IndInv, TypeOK, End, CloseInherited
<1>4. TypeOK'
  BY <1>1, <1>2, <1>3, OpenTyped DEF IndInv, TypeOK
<1>5. \A q \in Processes : process[q] = "gone" => process'[q] = "gone"
  BY DEF IndInv, TypeOK, End, CloseInherited
<1>6. QED
  BY <1>1, <1>4, <1>5, CallsKept, PlacesKept, TokensKept, NoChannelMade
  DEF IndInv, helperVars, wireVars

(***************************************************************************)
(* connectCompanion.                                                       *)
(***************************************************************************)

LEMMA ConnectStep ==
  ASSUME IndInv, NEW c \in Callers, Connect(c), UNCHANGED setting
  PROVE  IndInv'
<1> DEFINE h == handle[Of(c)]
           li == h.listen /\ listenerUsable(Of(c))
           ch == h.channel /\ channelUsable(Of(c))
           has == [listen |-> li, channel |-> ch]
           at == IF li /\ ~ch THEN "poll" ELSE "send"
<1>1. /\ UNCHANGED <<process, open, conn, result, helper, served, nonceSent, frames, queue>>
      /\ call[c].at = "none" /\ call[c].n < setting.calls[c]
      /\ handle' = [handle EXCEPT ![Of(c)] = has]
      /\ call' = [call EXCEPT ![c] = [n |-> @.n + 1, at |-> at]]
  BY DEF Connect, Running, helperVars, wireVars
<1>2. li \in BOOLEAN /\ ch \in BOOLEAN /\ at \in {"poll", "send"} /\ (ch => h.channel)
  OBVIOUS
<1> HIDE DEF li, ch, at
<1>3. has \in HandleType
  BY <1>2 DEF HandleType
<1>4. handle' \in [Processes -> HandleType]
  BY <1>1, <1>3 DEF IndInv, TypeOK, HandleType
<1>5. \A p \in Processes : handle'[p].channel => handle[p].channel
  <2>1. TAKE p \in Processes
  <2>2. CASE p # Of(c)
    BY <1>1, <2>2 DEF IndInv, TypeOK
  <2>3. CASE p = Of(c)
    <3>1. handle'[p].channel = ch
      BY <1>1, <2>3 DEF IndInv, TypeOK
    <3>2. QED
      BY <1>2, <2>3, <3>1
  <2>4. QED
    BY <2>2, <2>3
<1>6. call \in [Callers -> CallType] /\ setting.calls[c] \in 0..MaxCalls /\ MaxCalls \in Nat
  <2>1. setting.calls \in [Callers -> 0..MaxCalls]
    BY CompanionAssumption DEF IndInv, TypeOK
  <2>2. QED
    BY <2>1, CompanionAssumption DEF IndInv, TypeOK, CallType
<1>7. call[c].n \in 0..MaxCalls /\ call[c].n + 1 \in 1..MaxCalls
  <2>1. call[c].n \in 0..MaxCalls
    BY <1>6 DEF CallType
  <2>2. QED
    BY <1>1, <1>6, <2>1
<1>8. /\ call'[c].n = call[c].n + 1 /\ call'[c].at = at
      /\ \A d \in Callers : d # c => call'[d] = call[d]
  BY <1>1, <1>6
<1>9. call' \in [Callers -> CallType]
  <2>1. call[c].n + 1 \in 0..MaxCalls
    BY <1>6, <1>7
  <2>2. at \in CallPlaces
    BY <1>2 DEF CallPlaces
  <2>3. [n |-> call[c].n + 1, at |-> at] \in CallType
    BY <2>1, <2>2 DEF CallType
  <2>4. QED
    BY <1>1, <1>6, <2>3
<1>10. CallsPending'
  <2>1. ASSUME NEW d \in Callers, NEW n \in 1..MaxCalls,
               n > call'[d].n \/ (n = call'[d].n /\ call'[d].at # "none")
        PROVE  result'[<<d, n>>] = "pending"
    <3>1. n > call[d].n \/ (n = call[d].n /\ call[d].at # "none")
      BY <1>7, <1>8, <2>1
    <3>2. QED
      BY <1>1, <3>1 DEF IndInv, CallsPending
  <2>2. \A d \in Callers : call'[d].at # "none" => call'[d].n # 0
    BY <1>7, <1>8 DEF IndInv, CallsPending
  <2>3. QED
    BY <2>1, <2>2 DEF CallsPending
<1>11. TypeOK'
  BY <1>1, <1>4, <1>9 DEF IndInv, TypeOK, HandleType, CallType
<1>12. Tokens'
  <2>1. \A d \in Callers : call[d].at = "token" \/ call'[d].at = "token" => call'[d] = call[d]
    BY <1>1, <1>2, <1>8
  <2>2. QED
    BY <1>1, <2>1, TokensKept DEF IndInv
<1>13. QED
  BY <1>1, <1>5, <1>10, <1>11, <1>12, PlacesKept, NoChannelMade DEF IndInv, helperVars, wireVars

\* A step within a call that sends nothing.
LEMMA WithinCall ==
  ASSUME IndInv, NEW c \in Callers, call[c].at \notin {"none", "token"},
         UNCHANGED <<setting, process, result, helperVars, wireVars>>,
         NEW at \in Within \ {"token"}, Goto(c, at),
         handle' \in [Processes -> HandleType],
         open' \in [Processes -> SUBSET {"listener", "channel"}],
         conn' \in {"none", "queued", "accepted", "reset"},
         \A p \in Processes : handle'[p].channel => nonceSent \/ handle[p].channel
  PROVE  IndInv'
<1>1. UNCHANGED <<helper, served, nonceSent, frames, queue>>
  BY DEF helperVars, wireVars
<1>2. CallsPending' /\ call' \in [Callers -> CallType]
  BY GotoKeeps
<1>3. TypeOK'
  BY <1>1, <1>2 DEF IndInv, TypeOK, HandleType, CallType
<1>4. SentToHelper'
  BY <1>1 DEF IndInv, SentToHelper, Faults
<1>5. Tokens'
  <2>1. call \in [Callers -> CallType]
    BY DEF IndInv, TypeOK, CallType
  <2>2. call'[c] = [call[c] EXCEPT !.at = at] /\ \A d \in Callers : d # c => call'[d] = call[d]
    BY <2>1 DEF Goto
  <2>3. call'[c].at = at
    BY <2>1, <2>2 DEF CallType
  <2>4. \A d \in Callers : call[d].at = "token" \/ call'[d].at = "token" => call'[d] = call[d]
    BY <2>2, <2>3
  <2>5. QED
    BY <1>1, <2>4, TokensKept DEF IndInv
<1>6. QED
  BY <1>1, <1>2, <1>3, <1>4, <1>5, PlacesKept DEF IndInv

\* What a call does of which no connection comes.
LEMMA NotAcceptedStep ==
  ASSUME IndInv, NEW c \in Callers, call[c].at \notin {"none", "token"}, NotAccepted(c),
         UNCHANGED <<setting, process, result, helperVars, wireVars>>
  PROVE  IndInv'
<1>1. /\ handle' = [handle EXCEPT ![Of(c)].channel = FALSE]
      /\ Goto(c, "close listener") /\ UNCHANGED <<open, conn>>
  BY DEF NotAccepted
<1>2. handle' \in [Processes -> HandleType]
  BY <1>1, HandleTyped DEF IndInv
<1>3. \A p \in Processes : handle'[p].channel => handle[p].channel
  BY <1>1, HandleChanged DEF IndInv
<1>4. "close listener" \in Within \ {"token"}
  BY DEF Within, CallPlaces
<1>5. QED
  BY <1>1, <1>2, <1>3, <1>4, WithinCall DEF IndInv, TypeOK

LEMMA PollStep ==
  ASSUME IndInv, NEW c \in Callers, Poll(c), UNCHANGED setting
  PROVE  IndInv'
<1>1. call[c].at = "poll" /\ UNCHANGED <<process, result, helperVars, wireVars>>
  BY DEF Poll, Running
<1>2. CASE Goto(c, "accept") /\ UNCHANGED <<handle, open, conn>>
  <2>1. "accept" \in Within \ {"token"}
    BY DEF Within, CallPlaces
  <2>2. QED
    BY <1>1, <1>2, <2>1, HandleTyped, WithinCall DEF IndInv, TypeOK
<1>3. CASE NotAccepted(c)
  BY <1>1, <1>3, NotAcceptedStep
<1>4. QED
  BY <1>2, <1>3 DEF Poll

LEMMA AcceptStep ==
  ASSUME IndInv, NEW c \in Callers, Accept(c), UNCHANGED setting
  PROVE  IndInv'
<1>1. call[c].at = "accept" /\ UNCHANGED <<process, result, helperVars, wireVars>>
  BY DEF Accept, Running
<1>2. {"nonce", "blocked"} \subseteq Within \ {"token"}
  BY DEF Within, CallPlaces
<1>3. CASE /\ conn' = "accepted" /\ open' = [open EXCEPT ![Of(c)] = @ \cup {"channel"}]
           /\ Goto(c, "nonce") /\ UNCHANGED handle
  <2>1. open' \in [Processes -> SUBSET {"listener", "channel"}]
    BY <1>3 DEF IndInv, TypeOK
  <2>2. QED
    BY <1>1, <1>2, <1>3, <2>1, HandleTyped, WithinCall DEF IndInv
<1>4. CASE Goto(c, "blocked") /\ UNCHANGED <<handle, open, conn>>
  BY <1>1, <1>2, <1>4, HandleTyped, WithinCall DEF IndInv, TypeOK
<1>5. CASE NotAccepted(c)
  BY <1>1, <1>5, NotAcceptedStep
<1>6. QED
  BY <1>3, <1>4, <1>5 DEF Accept

\* The channel is kept only when the helper has proved itself.
LEMMA ReadNonceStep ==
  ASSUME IndInv, NEW c \in Callers, ReadNonce(c), UNCHANGED setting
  PROVE  IndInv'
<1>1. /\ call[c].at = "nonce" /\ UNCHANGED <<process, result, helperVars, wireVars>>
      /\ Goto(c, "close listener") /\ "close listener" \in Within \ {"token"}
  BY DEF ReadNonce, Running, Within, CallPlaces
<1>2. CASE nonceSent /\ handle' = [handle EXCEPT ![Of(c)].channel = TRUE] /\ UNCHANGED <<open, conn>>
  <2>1. handle' \in [Processes -> HandleType]
    BY <1>2, HandleTyped DEF IndInv
  <2>2. QED
    BY <1>1, <1>2, <2>1, WithinCall DEF IndInv, TypeOK
<1>3. CASE /\ handle' = [handle EXCEPT ![Of(c)].channel = FALSE]
           /\ Open(Of(c), open[Of(c)] \ {"channel"})
  <2>1. handle' \in [Processes -> HandleType]
    BY <1>3, HandleTyped DEF IndInv
  <2>2. \A p \in Processes : handle'[p].channel => handle[p].channel
    BY <1>3, HandleChanged DEF IndInv
  <2>3. /\ open' \in [Processes -> SUBSET {"listener", "channel"}]
        /\ conn' \in {"none", "queued", "accepted", "reset"}
    BY <1>3 DEF IndInv, TypeOK, Open
  <2>4. QED
    BY <1>1, <2>1, <2>2, <2>3, WithinCall
<1>4. QED
  BY <1>2, <1>3 DEF ReadNonce

LEMMA CloseListenerStep ==
  ASSUME IndInv, NEW c \in Callers, CloseListener(c), UNCHANGED setting
  PROVE  IndInv'
<1>1. /\ call[c].at = "close listener" /\ UNCHANGED <<process, result, helperVars, wireVars>>
      /\ Goto(c, "send") /\ handle' = [handle EXCEPT ![Of(c)].listen = FALSE]
      /\ Open(Of(c), open[Of(c)] \ {"listener"}) /\ "send" \in Within \ {"token"}
  BY DEF CloseListener, Running, Within, CallPlaces
<1>2. handle' \in [Processes -> HandleType]
  BY <1>1, HandleTyped DEF IndInv
<1>3. \A p \in Processes : handle'[p].channel => handle[p].channel
  BY <1>1, HandleChanged DEF IndInv
<1>4. /\ open' \in [Processes -> SUBSET {"listener", "channel"}]
      /\ conn' \in {"none", "queued", "accepted", "reset"}
  BY <1>1 DEF IndInv, TypeOK, Open
<1>5. QED
  BY <1>1, <1>2, <1>3, <1>4, WithinCall

\* A call that returns is in no place where the companion is told of it.
LEMMA ReturnedNowhere ==
  ASSUME IndInv, NEW c \in Callers, NEW r \in {"fd", "failed"}, call[c].at # "none", Return(c, r),
         UNCHANGED <<served, frames, queue>>
  PROVE  InOnePlace'
<1>1. Id(c) \notin ToSet(served) \cup ToSet(frames)
  BY Calling
<1>2. \A i \in Ids : i # Id(c) => result'[i] = result[i]
  BY ReturnKeeps
<1>3. ToSet(served) \cup ToSet(frames) \subseteq Ids
  <2>1. served \in Seq(Ids) /\ frames \in Seq(Ids)
    BY DEF IndInv, TypeOK
  <2>2. QED
    BY <2>1, Elements
<1>4. \A i \in ToSet(served) \cup ToSet(frames) : result'[i] = "fd"
  BY <1>1, <1>2, <1>3 DEF IndInv, InOnePlace
<1>5. QED
  BY <1>4 DEF IndInv, InOnePlace, Disjoint

\* A call that returns a descriptor over the channel has put it at the end of the frames.
LEMMA FrameSent ==
  ASSUME IndInv, NEW c \in Callers, call[c].at \notin {"none", "token"}, Return(c, "fd"),
         frames' = Append(frames, Id(c)), UNCHANGED <<served, queue>>
  PROVE  InOnePlace' /\ frames' \in Seq(Ids)
<1>1. Id(c) \in Ids /\ Id(c) \notin ToSet(served) \cup ToSet(frames) \cup ToSet(queue)
  BY Calling
<1>2. result'[Id(c)] = "fd" /\ \A i \in Ids : i # Id(c) => result'[i] = result[i]
  BY ReturnKeeps
<1>3. ToSet(served) \cup ToSet(frames) \subseteq Ids /\ frames \in Seq(Ids)
  <2>1. served \in Seq(Ids) /\ frames \in Seq(Ids)
    BY DEF IndInv, TypeOK
  <2>2. QED
    BY <2>1, Elements
<1>4. /\ IsInjective(served) /\ IsInjective(frames) /\ IsInjective(queue)
      /\ Disjoint(served, frames) /\ Disjoint(served, queue) /\ Disjoint(frames, queue)
      /\ \A i \in ToSet(served) \cup ToSet(frames) : result[i] = "fd"
  BY DEF IndInv, InOnePlace
<1>5. IsInjective(frames') /\ ToSet(frames') = ToSet(frames) \cup {Id(c)}
  BY <1>1, <1>3, <1>4, AppendNew
<1>6. \A i \in ToSet(served') \cup ToSet(frames') : result'[i] = "fd"
  BY <1>2, <1>3, <1>4, <1>5
<1>7. Disjoint(served', frames') /\ Disjoint(served', queue') /\ Disjoint(frames', queue')
  BY <1>1, <1>4, <1>5 DEF Disjoint
<1>8. QED
  BY <1>1, <1>3, <1>4, <1>5, <1>6, <1>7 DEF InOnePlace

LEMMA SendStep ==
  ASSUME IndInv, NEW c \in Callers, Send(c), UNCHANGED setting
  PROVE  IndInv'
<1>1. /\ call[c].at = "send" /\ UNCHANGED <<process, nonceSent, queue, helper, served>>
      /\ "direct" \in Within \ {"token"}
  BY DEF Send, Running, helperVars, Within, CallPlaces
<1>2. CASE /\ handle[Of(c)].channel /\ helper.channel
           /\ frames' = Append(frames, Id(c)) /\ Return(c, "fd")
           /\ UNCHANGED <<handle, open, conn>>
  <2>1. InOnePlace' /\ frames' \in Seq(Ids)
    BY <1>1, <1>2, FrameSent
  <2>2. /\ CallsPending' /\ call' \in [Callers -> CallType]
        /\ result' \in [Ids -> {"pending", "fd", "failed"}]
    BY <1>1, <1>2, ReturnKeeps
  <2>3. TypeOK'
    BY <1>1, <1>2, <2>1, <2>2 DEF IndInv, TypeOK, CallType
  <2>4. nonceSent
    BY <1>2, OfProcess DEF IndInv, SentToHelper
  <2>5. SentToHelper'
    BY <1>1, <1>2, <2>4 DEF IndInv, SentToHelper, Faults
  <2>6. Tokens'
    BY <1>1, <1>2, TokenReturned
  <2>7. QED
    BY <2>1, <2>2, <2>3, <2>5, <2>6 DEF IndInv
<1>3. CASE /\ handle' = [handle EXCEPT ![Of(c)].channel = FALSE]
           /\ Open(Of(c), open[Of(c)] \ {"channel"})
           /\ Goto(c, "direct") /\ UNCHANGED <<frames, result>>
  <2>1. handle' \in [Processes -> HandleType]
    BY <1>3, HandleTyped DEF IndInv
  <2>2. \A p \in Processes : handle'[p].channel => handle[p].channel
    BY <1>3, HandleChanged DEF IndInv
  <2>3. /\ open' \in [Processes -> SUBSET {"listener", "channel"}]
        /\ conn' \in {"none", "queued", "accepted", "reset"}
    BY <1>3 DEF IndInv, TypeOK, Open
  <2>4. UNCHANGED <<helperVars, wireVars>>
    BY <1>1, <1>3 DEF helperVars, wireVars
  <2>5. QED
    BY <1>1, <1>3, <2>1, <2>2, <2>3, <2>4, WithinCall
<1>4. CASE Goto(c, "direct") /\ UNCHANGED <<handle, open, conn, frames, result>>
  <2>1. UNCHANGED <<helperVars, wireVars>>
    BY <1>1, <1>4 DEF helperVars, wireVars
  <2>2. /\ handle' \in [Processes -> HandleType]
        /\ open' \in [Processes -> SUBSET {"listener", "channel"}]
        /\ conn' \in {"none", "queued", "accepted", "reset"}
    BY <1>4 DEF IndInv, TypeOK, HandleType
  <2>3. QED
    BY <1>1, <1>4, <2>1, <2>2, WithinCall
<1>5. QED
  BY <1>2, <1>3, <1>4 DEF Send

\* A connection is made and waits in the queue for its token.
LEMMA QueuedStep ==
  ASSUME IndInv, NEW c \in Callers, call[c].at = "direct", helper.direct,
         queue' = Append(queue, Id(c)), Goto(c, "token"),
         UNCHANGED <<setting, process, handle, open, conn, nonceSent, frames, helper, served, result>>
  PROVE  IndInv'
<1>1. Id(c) \in Ids /\ Id(c) \notin ToSet(served) \cup ToSet(frames) \cup ToSet(queue)
  BY Calling
<1>2. queue \in Seq(Ids) /\ call \in [Callers -> CallType]
  BY DEF IndInv, TypeOK, CallType
<1>3. /\ IsInjective(queue') /\ ToSet(queue') = ToSet(queue) \cup {Id(c)} /\ queue' \in Seq(Ids)
      /\ queue # <<>> => Head(queue') = Head(queue)
  <2>1. IsInjective(queue)
    BY DEF IndInv, InOnePlace
  <2>2. queue' \in Seq(Ids) /\ (queue # <<>> => Head(queue') = Head(queue))
    BY <1>1, <1>2
  <2>3. QED
    BY <1>1, <1>2, <2>1, <2>2, AppendNew
<1>4. InOnePlace'
  BY <1>1, <1>3 DEF IndInv, InOnePlace, Disjoint
<1>5. "token" \in Within
  BY DEF Within, CallPlaces
<1>6. CallsPending' /\ call' \in [Callers -> CallType]
  BY <1>5, GotoKeeps
<1>7. /\ call'[c].at = "token" /\ call'[c].n = call[c].n
      /\ \A d \in Callers : d # c => call'[d] = call[d]
  <2>1. call'[c] = [call[c] EXCEPT !.at = "token"] /\ \A d \in Callers : d # c => call'[d] = call[d]
    BY <1>2 DEF Goto
  <2>2. QED
    BY <1>2, <2>1 DEF CallType
<1>8. Tokens'
  <2>1. ASSUME NEW d \in Callers, NEW n \in 1..MaxCalls, <<d, n>> \in ToSet(queue'),
               result'[<<d, n>>] = "pending"
        PROVE  call'[d].at = "token" /\ call'[d].n = n
    <3>1. CASE <<d, n>> = Id(c)
      BY <1>7, <3>1 DEF Id
    <3>2. CASE <<d, n>> # Id(c)
      <4>1. call[d].at = "token" /\ call[d].n = n
        BY <1>3, <2>1, <3>2 DEF IndInv, Tokens
      <4>2. QED
        BY <1>7, <4>1
    <3>3. QED
      BY <3>1, <3>2
  <2>2. ASSUME NEW d \in Callers, call'[d].at = "token", ~Strained', process'[Of(d)] # "gone"
        PROVE  Id(d)' \in ToSet(queue')
    <3>1. CASE d = c
      BY <1>3, <1>7, <3>1 DEF Id
    <3>2. CASE d # c
      BY <1>3, <1>7, <2>2, <3>2 DEF IndInv, Tokens, Id, Strained
    <3>3. QED
      BY <3>1, <3>2
  <2>3. helper'.at = "drop" => queue' # <<>> /\ (Strained' \/ process'[Of(Head(queue')[1])] = "gone")
    <3>1. queue' # <<>>
      BY <1>2
    <3>2. QED
      BY <1>3, <3>1 DEF IndInv, Tokens, Strained
  <2>4. QED
    BY <2>1, <2>2, <2>3 DEF Tokens
<1>9. TypeOK'
  BY <1>3, <1>6 DEF IndInv, TypeOK, CallType
<1>10. helper.at \notin {"load", "bind"}
  BY DEF IndInv, SentToHelper
<1>11. SentToHelper'
  BY <1>10 DEF IndInv, SentToHelper, Faults
<1>12. QED
  BY <1>4, <1>6, <1>8, <1>9, <1>11 DEF IndInv

\* A call returns and moves nothing.
LEMMA ReturnStep ==
  ASSUME IndInv, NEW c \in Callers, NEW r \in {"fd", "failed"}, call[c].at # "none", Return(c, r),
         UNCHANGED <<setting, process, handle, open, conn, nonceSent, frames, helper, queue, served>>
  PROVE  IndInv'
<1>1. InOnePlace' /\ Tokens'
  BY ReturnedNowhere, TokenReturned
<1>2. /\ CallsPending' /\ call' \in [Callers -> CallType]
      /\ result' \in [Ids -> {"pending", "fd", "failed"}]
  BY ReturnKeeps
<1>3. TypeOK'
  BY <1>2 DEF IndInv, TypeOK, CallType
<1>4. SentToHelper'
  BY DEF IndInv, SentToHelper, Faults
<1>5. QED
  BY <1>1, <1>2, <1>3, <1>4 DEF IndInv

LEMMA ConnectDirectStep ==
  ASSUME IndInv, NEW c \in Callers, ConnectDirect(c) \/ SendToken(c), UNCHANGED setting
  PROVE  IndInv'
<1>1. CASE ConnectDirect(c)
  <2>1. /\ call[c].at = "direct"
        /\ UNCHANGED <<process, handle, open, conn, nonceSent, frames, helper, served>>
    BY <1>1 DEF ConnectDirect, Running, targetVars, helperVars
  <2>2. QED
    BY <1>1, <2>1, QueuedStep, ReturnStep DEF ConnectDirect
<1>2. CASE SendToken(c)
  <2>1. /\ call[c].at = "token"
        /\ UNCHANGED <<process, handle, open, conn, nonceSent, frames, helper, queue, served>>
        /\ Return(c, "fd") \/ Return(c, "failed")
    BY <1>2 DEF SendToken, Running, targetVars, helperVars, wireVars
  <2>2. QED
    BY <2>1, ReturnStep
<1>3. QED
  BY <1>1, <1>2

(***************************************************************************)
(* The helper.                                                             *)
(***************************************************************************)

HelperType == [at : {"load", "bind", "connect", "prove", "serve", "drop", "gone"},
               channel : BOOLEAN, direct : BOOLEAN]

\* A step of the helper that moves nothing it was sent.
LEMMA HelperMoves ==
  ASSUME IndInv, UNCHANGED <<setting, process, handle, open, call, result, frames, queue, served>>,
         conn' \in {"none", "queued", "accepted", "reset"}, nonceSent' \in BOOLEAN,
         helper' \in HelperType, helper'.at # "drop", SentToHelper'
  PROVE  IndInv'
<1>1. TypeOK'
  BY DEF IndInv, TypeOK, HelperType
<1>2. Tokens'
  BY TokensKept DEF IndInv
<1>3. QED
  BY <1>1, <1>2, CallsKept, PlacesKept DEF IndInv

\* The helper as a record of its three parts.
LEMMA HelperParts ==
  ASSUME TypeOK
  PROVE  /\ helper = [at |-> helper.at, channel |-> helper.channel, direct |-> helper.direct]
         /\ helper.at \in {"load", "bind", "connect", "prove", "serve", "drop", "gone"}
         /\ helper.channel \in BOOLEAN /\ helper.direct \in BOOLEAN
         /\ Gone \in HelperType /\ Gone.at # "drop"
BY DEF TypeOK, HelperType, Gone

LEMMA StartStep ==
  ASSUME IndInv, Load \/ BindDirect \/ Exit \/ Die, UNCHANGED setting
  PROVE  IndInv'
<1>1. /\ UNCHANGED <<process, handle, open, conn, call, result, nonceSent, frames, queue, served>>
      /\ helper \in HelperType /\ Gone \in HelperType /\ Gone.at # "drop"
  BY HelperParts DEF Load, BindDirect, Exit, Die, targetVars, callVars, wireVars, IndInv, TypeOK, HelperType
<1>2. CASE helper' = Gone
  <2>1. SentToHelper'
    BY <1>1, <1>2 DEF IndInv, SentToHelper, Gone, Faults
  <2>2. QED
    BY <1>1, <1>2, <2>1, HelperMoves DEF IndInv, TypeOK
<1>3. CASE Load /\ helper' = [helper EXCEPT !.at = "bind"]
  <2>1. /\ helper.at = "load" /\ helper'.at = "bind" /\ helper' \in HelperType
        /\ helper'.channel = helper.channel /\ helper'.direct = helper.direct
    BY <1>1, <1>3 DEF Load, HelperType
  <2>2. SentToHelper'
    BY <1>1, <2>1 DEF IndInv, SentToHelper, Faults
  <2>3. QED
    BY <1>1, <2>1, <2>2, HelperMoves DEF IndInv, TypeOK
<1>4. CASE BindDirect
  <2>1. /\ helper.at = "bind" /\ helper'.at = "connect" /\ helper' \in HelperType
        /\ helper'.channel = helper.channel
    BY <1>1, <1>4 DEF BindDirect, HelperType
  <2>2. SentToHelper'
    BY <1>1, <2>1 DEF IndInv, SentToHelper, Faults
  <2>3. QED
    BY <1>1, <2>1, <2>2, HelperMoves DEF IndInv, TypeOK
<1>5. QED
  BY <1>2, <1>3, <1>4 DEF Load, Exit, Die

LEMMA ConnectChannelStep ==
  ASSUME IndInv, ConnectChannel \/ Prove, UNCHANGED setting
  PROVE  IndInv'
<1>1. /\ UNCHANGED <<process, handle, open, call, result, frames, queue, served>>
      /\ helper \in HelperType
  BY DEF ConnectChannel, Prove, targetVars, callVars, wireVars, IndInv, TypeOK, HelperType
<1>2. CASE ConnectChannel
  <2>1. /\ helper.at = "connect" /\ helper'.at = "prove" /\ helper' \in HelperType
        /\ helper'.channel /\ helper'.direct = helper.direct
        /\ UNCHANGED nonceSent /\ conn' \in {"none", "queued", "accepted", "reset"}
    BY <1>1, <1>2 DEF ConnectChannel, HelperType, wireVars
  <2>2. SentToHelper'
    BY <1>1, <2>1 DEF IndInv, SentToHelper, Faults
  <2>3. QED
    BY <1>1, <2>1, <2>2, HelperMoves DEF IndInv, TypeOK
<1>3. CASE Prove /\ helper' = [helper EXCEPT !.at = "serve"] /\ nonceSent' = TRUE
  <2>1. /\ helper.at = "prove" /\ helper'.at = "serve" /\ helper' \in HelperType
        /\ helper'.channel = helper.channel /\ helper'.direct = helper.direct /\ UNCHANGED conn
    BY <1>1, <1>3 DEF Prove, HelperType, targetVars
  <2>2. SentToHelper'
    BY <1>1, <1>3, <2>1 DEF IndInv, SentToHelper, Faults
  <2>3. QED
    BY <1>1, <1>3, <2>1, <2>2, HelperMoves DEF IndInv, TypeOK
<1>4. CASE Prove /\ helper' = [helper EXCEPT !.at = "serve", !.channel = FALSE] /\ UNCHANGED nonceSent
  <2>1. /\ helper.at = "prove" /\ helper'.at = "serve" /\ helper' \in HelperType
        /\ ~helper'.channel /\ helper'.direct = helper.direct /\ UNCHANGED conn
    BY <1>1, <1>4 DEF Prove, HelperType, targetVars
  <2>2. ~nonceSent /\ frames = <<>>
    BY <2>1 DEF IndInv, SentToHelper
  <2>3. SentToHelper'
    BY <1>1, <1>4, <2>1, <2>2 DEF IndInv, SentToHelper, Faults
  <2>4. QED
    BY <1>1, <1>4, <2>1, <2>3, HelperMoves DEF IndInv, TypeOK
<1>5. QED
  BY <1>2, <1>3, <1>4 DEF Prove

\* Without the channel the helper stays, or goes when it has no name either.
LEMMA ExitsOrServes ==
  ASSUME NEW h \in HelperType, h.at = "serve", ~h.channel
  PROVE  /\ HelperExits(h) \in HelperType /\ ~HelperExits(h).channel
         /\ \/ HelperExits(h).at = "serve" /\ HelperExits(h).direct
            \/ HelperExits(h).at = "gone" /\ ~h.direct
BY DEF HelperType, HelperExits, Gone

LEMMA GiveUpStep ==
  ASSUME IndInv, GiveUpChannel, UNCHANGED setting
  PROVE  IndInv'
<1>1. /\ UNCHANGED <<process, handle, open, conn, call, result, nonceSent, frames, queue, served>>
      /\ helper \in HelperType /\ helper.at = "connect"
  BY DEF GiveUpChannel, targetVars, callVars, wireVars, IndInv, TypeOK, HelperType
<1> DEFINE h == [helper EXCEPT !.at = "serve"]
<1>2. h \in HelperType /\ h.at = "serve" /\ h.channel = helper.channel /\ h.direct = helper.direct
  BY <1>1 DEF HelperType
<1>3. helper' = HelperExits(h)
  BY DEF GiveUpChannel
<1> HIDE DEF h
<1>4. ~helper.channel /\ ~nonceSent /\ frames = <<>>
  BY <1>1 DEF IndInv, SentToHelper
<1>5. /\ helper' \in HelperType
      /\ \/ helper'.at = "serve" /\ helper'.direct
         \/ helper'.at = "gone"
  BY <1>2, <1>3, <1>4, ExitsOrServes
<1>6. SentToHelper'
  BY <1>1, <1>4, <1>5 DEF IndInv, SentToHelper, Faults
<1>7. QED
  BY <1>1, <1>5, <1>6, HelperMoves DEF IndInv, TypeOK

\* The channel is closed, at its end or by a fault, and nothing more is read from it.
LEMMA ChannelClosed ==
  ASSUME IndInv, UNCHANGED <<setting, targetVars, callVars, nonceSent, queue, served>>,
         helper.at = "serve", helper' = HelperExits([helper EXCEPT !.channel = FALSE]),
         frames' = <<>>
  PROVE  IndInv'
<1>1. /\ UNCHANGED <<process, handle, open, conn, call, result>> /\ helper \in HelperType
      /\ frames' \in Seq(Ids)
  <2>1. UNCHANGED <<process, handle, open, conn, call, result>>
    BY DEF targetVars, callVars
  <2>2. helper \in HelperType
    BY DEF IndInv, TypeOK, HelperType
  <2>3. frames' \in Seq(Ids)
    OBVIOUS
  <2>4. QED
    BY <2>1, <2>2, <2>3
<1> DEFINE h == [helper EXCEPT !.channel = FALSE]
<1>2. h \in HelperType /\ h.at = "serve" /\ ~h.channel /\ h.direct = helper.direct
  BY <1>1 DEF HelperType
<1>3. helper' = HelperExits(h)
  OBVIOUS
<1> HIDE DEF h
<1>4. /\ helper' \in HelperType
      /\ \/ helper'.at = "serve" /\ helper'.direct
         \/ helper'.at = "gone"
  BY <1>2, <1>3, ExitsOrServes
<1>5. SentToHelper'
  BY <1>1, <1>4 DEF IndInv, SentToHelper, Faults
<1>6. InOnePlace'
  <2>1. IsInjective(frames') /\ ToSet(frames') = {}
    BY DEF IsInjective, ToSet
  <2>2. Disjoint(served, frames') /\ Disjoint(frames', queue)
    BY <2>1 DEF Disjoint
  <2>3. \A i \in ToSet(served') \cup ToSet(frames') : result'[i] = "fd"
    BY <1>1, <2>1 DEF IndInv, InOnePlace
  <2>4. QED
    BY <1>1, <2>1, <2>2, <2>3 DEF IndInv, InOnePlace, Disjoint
<1>7. TypeOK'
  BY <1>1, <1>4 DEF IndInv, TypeOK, HelperType
<1>8. Tokens'
  BY <1>1, <1>4, TokensKept DEF IndInv
<1>9. QED
  BY <1>1, <1>5, <1>6, <1>7, <1>8, CallsKept DEF IndInv

\* The first of the direct connections leaves the queue: it has a result, or its process
\* is gone, or the helper may lose patience.
LEMMA Dequeued ==
  ASSUME IndInv, UNCHANGED <<setting, process, call, result>>, queue # <<>>, queue' = Tail(queue),
         \/ result[Head(queue)] # "pending"
         \/ Strained \/ process[Of(Head(queue)[1])] = "gone",
         helper'.at # "drop"
  PROVE  /\ queue' \in Seq(Ids) /\ IsInjective(queue') /\ ToSet(queue') \subseteq ToSet(queue)
         /\ Head(queue) \in Ids /\ Head(queue) \in ToSet(queue) /\ Head(queue) \notin ToSet(queue')
         /\ Tokens'
<1>1. queue \in Seq(Ids) /\ IsInjective(queue)
  BY DEF IndInv, TypeOK, InOnePlace
<1>2. /\ Head(queue) \in Ids /\ queue' \in Seq(Ids) /\ IsInjective(queue')
      /\ Head(queue) \notin ToSet(queue') /\ ToSet(queue) = {Head(queue)} \cup ToSet(queue')
  BY <1>1, HeadFirst
<1>3. ASSUME NEW c \in Callers, call'[c].at = "token", ~Strained', process'[Of(c)] # "gone"
      PROVE  Id(c)' \in ToSet(queue')
  <2>1. Id(c) \in ToSet(queue) /\ Id(c)' = Id(c)
    BY <1>3 DEF IndInv, Tokens, Id, Strained
  <2>2. result[Id(c)] = "pending"
    BY <1>3, Calling
  <2>3. Id(c)[1] = c
    BY DEF Id
  <2>4. Id(c) # Head(queue)
    BY <1>3, <2>2, <2>3 DEF Strained
  <2>5. QED
    BY <1>2, <2>1, <2>4
<1>4. \A c \in Callers, n \in 1..MaxCalls :
        <<c, n>> \in ToSet(queue') /\ result'[<<c, n>>] = "pending"
          => call'[c].at = "token" /\ call'[c].n = n
  BY <1>2 DEF IndInv, Tokens
<1>5. Tokens'
  BY <1>3, <1>4 DEF Tokens
<1>6. QED
  BY <1>2, <1>5

\* The companion is told of the first that waits.
LEMMA ToldOfFrame ==
  ASSUME IndInv, UNCHANGED <<setting, targetVars, callVars, nonceSent, helper, queue>>,
         helper.at = "serve", frames # <<>>, served' = Append(served, Head(frames)),
         frames' = Tail(frames)
  PROVE  IndInv'
<1>1. UNCHANGED <<process, handle, open, conn, call, result>>
  BY DEF targetVars, callVars
<1>2. served \in Seq(Ids) /\ frames \in Seq(Ids)
  BY DEF IndInv, TypeOK
<1>3. /\ IsInjective(served) /\ IsInjective(frames) /\ IsInjective(queue)
      /\ Disjoint(served, frames) /\ Disjoint(served, queue) /\ Disjoint(frames, queue)
      /\ \A i \in ToSet(served) \cup ToSet(frames) : result[i] = "fd"
  BY DEF IndInv, InOnePlace
<1>4. /\ Head(frames) \in Ids /\ frames' \in Seq(Ids) /\ IsInjective(frames')
      /\ Head(frames) \notin ToSet(frames')
      /\ ToSet(frames) = {Head(frames)} \cup ToSet(frames')
  BY <1>2, <1>3, HeadFirst
<1>5. Head(frames) \notin ToSet(served)
  BY <1>3, <1>4 DEF Disjoint
<1>6. /\ IsInjective(served') /\ ToSet(served') = ToSet(served) \cup {Head(frames)}
      /\ served' \in Seq(Ids)
  BY <1>2, <1>3, <1>4, <1>5, AppendNew
<1>7. InOnePlace'
  <2>1. Disjoint(served', frames') /\ Disjoint(served', queue') /\ Disjoint(frames', queue')
    BY <1>3, <1>4, <1>5, <1>6 DEF Disjoint
  <2>2. \A i \in ToSet(served') \cup ToSet(frames') : result'[i] = "fd"
    BY <1>1, <1>3, <1>4, <1>6
  <2>3. QED
    BY <1>3, <1>4, <1>6, <2>1, <2>2 DEF InOnePlace
<1>8. SentToHelper'
  BY <1>1 DEF IndInv, SentToHelper, Faults
<1>9. TypeOK'
  BY <1>1, <1>4, <1>6 DEF IndInv, TypeOK
<1>10. Tokens'
  BY <1>1, TokensKept DEF IndInv
<1>11. QED
  BY <1>1, <1>7, <1>8, <1>9, <1>10, CallsKept DEF IndInv

LEMMA ToldOfDirect ==
  ASSUME IndInv, UNCHANGED <<setting, targetVars, callVars, nonceSent, helper, frames>>,
         helper.at = "serve", queue # <<>>, result[Head(queue)] = "fd",
         served' = Append(served, Head(queue)), queue' = Tail(queue)
  PROVE  IndInv'
<1>1. UNCHANGED <<process, handle, open, conn, call, result>>
  BY DEF targetVars, callVars
<1>2. served \in Seq(Ids)
  BY DEF IndInv, TypeOK
<1>3. /\ IsInjective(served) /\ IsInjective(frames)
      /\ Disjoint(served, frames) /\ Disjoint(served, queue) /\ Disjoint(frames, queue)
      /\ \A i \in ToSet(served) \cup ToSet(frames) : result[i] = "fd"
  BY DEF IndInv, InOnePlace
<1>4. /\ queue' \in Seq(Ids) /\ IsInjective(queue') /\ ToSet(queue') \subseteq ToSet(queue)
      /\ Head(queue) \in Ids /\ Head(queue) \in ToSet(queue) /\ Head(queue) \notin ToSet(queue')
      /\ Tokens'
  BY <1>1, Dequeued
<1>5. Head(queue) \notin ToSet(served) \cup ToSet(frames)
  BY <1>3, <1>4 DEF Disjoint
<1>6. /\ IsInjective(served') /\ ToSet(served') = ToSet(served) \cup {Head(queue)}
      /\ served' \in Seq(Ids)
  BY <1>2, <1>3, <1>4, <1>5, AppendNew
<1>7. InOnePlace'
  <2>1. Disjoint(served', frames') /\ Disjoint(served', queue') /\ Disjoint(frames', queue')
    BY <1>3, <1>4, <1>5, <1>6 DEF Disjoint
  <2>2. \A i \in ToSet(served') \cup ToSet(frames') : result'[i] = "fd"
    BY <1>1, <1>3, <1>6
  <2>3. QED
    BY <1>3, <1>4, <1>6, <2>1, <2>2 DEF InOnePlace
<1>8. SentToHelper'
  BY <1>1 DEF IndInv, SentToHelper, Faults
<1>9. TypeOK'
  BY <1>1, <1>4, <1>6 DEF IndInv, TypeOK
<1>10. QED
  BY <1>1, <1>4, <1>7, <1>8, <1>9, CallsKept DEF IndInv

\* The helper has read no proof, and closes the connection.
LEMMA DropStep ==
  ASSUME IndInv, UNCHANGED setting,
         \/ DropDirect
         \/ ServeDirect /\ helper' = [helper EXCEPT !.at = "drop"]
  PROVE  IndInv'
<1>1. CASE ServeDirect /\ helper' = [helper EXCEPT !.at = "drop"]
  <2>1. helper \in HelperType /\ helper.at = "serve"
    BY <1>1 DEF IndInv, TypeOK, HelperType, ServeDirect
  <2>2. /\ helper' \in HelperType /\ helper'.at = "drop"
        /\ helper'.channel = helper.channel /\ helper'.direct = helper.direct
    BY <1>1, <2>1 DEF HelperType
  <2>3. /\ UNCHANGED <<process, handle, open, conn, call, result, nonceSent, frames, queue, served>>
        /\ queue # <<>> /\ (Strained \/ process[Of(Head(queue)[1])] = "gone")
    BY <1>1, <2>1, <2>2 DEF ServeDirect, targetVars, callVars
  <2>4. TypeOK'
    BY <2>2, <2>3 DEF IndInv, TypeOK, HelperType
  <2>5. Tokens'
    BY <2>3 DEF IndInv, Tokens, Strained, Id
  <2>6. SentToHelper'
    BY <2>1, <2>2, <2>3 DEF IndInv, SentToHelper, Faults
  <2>7. QED
    BY <2>3, <2>4, <2>5, <2>6, CallsKept, PlacesKept DEF IndInv
<1>2. CASE DropDirect
  <2>1. helper \in HelperType /\ helper.at = "drop"
    BY <1>2 DEF IndInv, TypeOK, HelperType, DropDirect
  <2>2. /\ helper' \in HelperType /\ helper'.at = "serve"
        /\ helper'.channel = helper.channel /\ helper'.direct = helper.direct
    BY <1>2, <2>1 DEF HelperType, DropDirect
  <2>3. /\ UNCHANGED <<process, handle, open, conn, call, result, nonceSent, frames, served>>
        /\ queue' = Tail(queue)
    BY <1>2 DEF DropDirect, targetVars, callVars
  <2>4. queue # <<>> /\ (Strained \/ process[Of(Head(queue)[1])] = "gone")
    BY <2>1 DEF IndInv, Tokens
  <2>5. /\ queue' \in Seq(Ids) /\ IsInjective(queue') /\ ToSet(queue') \subseteq ToSet(queue)
        /\ Tokens'
    BY <2>2, <2>3, <2>4, Dequeued
  <2>6. InOnePlace'
    BY <2>3, <2>5 DEF IndInv, InOnePlace, Disjoint
  <2>7. TypeOK'
    BY <2>2, <2>3, <2>5 DEF IndInv, TypeOK, HelperType
  <2>8. SentToHelper'
    BY <2>1, <2>2, <2>3, <2>4 DEF IndInv, SentToHelper, Faults
  <2>9. QED
    BY <2>3, <2>5, <2>6, <2>7, <2>8, CallsKept DEF IndInv
<1>3. QED
  BY <1>1, <1>2

LEMMA ServeStep ==
  ASSUME IndInv, ServeControl \/ ControlFails \/ ServeDirect \/ DropDirect, UNCHANGED setting
  PROVE  IndInv'
<1>1. CASE ServeControl
  <2>1. \/ /\ frames # <<>> /\ served' = Append(served, Head(frames))
           /\ frames' = Tail(frames) /\ UNCHANGED helper
        \/ /\ frames' = <<>> /\ helper' = HelperExits([helper EXCEPT !.channel = FALSE])
           /\ UNCHANGED served
    BY <1>1 DEF ServeControl
  <2>2. helper.at = "serve" /\ UNCHANGED <<targetVars, callVars, nonceSent, queue>>
    BY <1>1 DEF ServeControl
  <2>3. QED
    BY <2>1, <2>2, ToldOfFrame, ChannelClosed
<1>2. CASE ControlFails
  BY <1>2, ChannelClosed DEF ControlFails
<1>3. CASE ServeDirect
  BY <1>3, ToldOfDirect, DropStep DEF ServeDirect
<1>4. CASE DropDirect
  BY <1>4, DropStep
<1>5. QED
  BY <1>1, <1>2, <1>3, <1>4

(***************************************************************************)
(* The specification.                                                      *)
(***************************************************************************)

LEMMA InitInv ==
  ASSUME Init
  PROVE  IndInv
<1>1. \A c \in Callers : call[c] = [at |-> "none", n |-> 0]
  BY DEF Init
<1>2. frames = <<>> /\ queue = <<>> /\ served = <<>> /\ result = [i \in Ids |-> "pending"]
  BY DEF Init
<1>3. TypeOK
  <2>1. /\ setting \in Settings
        /\ process \in [Processes -> {"none", "loading", "alive", "gone"}]
        /\ handle \in [Processes -> [listen : BOOLEAN, channel : BOOLEAN]]
        /\ open \in [Processes -> SUBSET {"listener", "channel"}]
        /\ conn \in {"none", "queued", "accepted", "reset"}
        /\ nonceSent \in BOOLEAN
        /\ helper \in [at : {"load", "bind", "connect", "prove", "serve", "drop", "gone"},
                       channel : BOOLEAN, direct : BOOLEAN]
    BY DEF Init
  <2>2. call \in [Callers -> CallType]
    <3>1. 0 \in 0..MaxCalls
      BY CompanionAssumption
    <3>2. [at |-> "none", n |-> 0] \in CallType
      BY <3>1 DEF CallType, CallPlaces
    <3>3. QED
      BY <3>2 DEF Init
  <2>3. result \in [Ids -> {"pending", "fd", "failed"}]
    BY <1>2
  <2>4. served \in Seq(Ids) /\ frames \in Seq(Ids) /\ queue \in Seq(Ids)
    BY <1>2
  <2>5. QED
    BY <2>1, <2>2, <2>3, <2>4 DEF TypeOK, CallType
<1>4. CallsPending
  BY <1>1, <1>2 DEF CallsPending, Ids
<1>5. InOnePlace
  BY <1>2 DEF InOnePlace, Disjoint, IsInjective, ToSet
<1>6. SentToHelper
  <2>1. \A p \in Processes : ~handle[p].channel
    BY DEF Init
  <2>2. QED
    BY <1>2, <2>1 DEF Init, SentToHelper
<1>7. Tokens
  <2>1. helper.at = "load" /\ ToSet(queue) = {}
    BY <1>2 DEF Init, ToSet
  <2>2. QED
    BY <1>1, <2>1 DEF Tokens
<1>8. QED
  BY <1>3, <1>4, <1>5, <1>6, <1>7 DEF IndInv

LEMMA NextInv ==
  ASSUME IndInv, [Next]_<<vars, setting>>
  PROVE  IndInv'
<1>1. CASE UNCHANGED <<vars, setting>>
  <2>1. UNCHANGED <<setting, process, handle, open, conn, nonceSent, frames, helper, queue, call,
                    result, served>>
    BY <1>1 DEF vars
  <2>2. TypeOK'
    BY <2>1 DEF IndInv, TypeOK
  <2>3. SentToHelper'
    BY <2>1 DEF IndInv, SentToHelper, Faults
  <2>4. Tokens'
    BY <2>1, TokensKept DEF IndInv
  <2>5. QED
    BY <2>1, <2>2, <2>3, <2>4, CallsKept, PlacesKept DEF IndInv
<1>2. CASE BindChannel \/ Fork \/ CloseInherited \/ \E p \in Processes : End(p)
  <2>1. UNCHANGED setting \/ UNCHANGED <<vars, setting>>
    BY DEF Next
  <2>2. Parent \in Processes
    BY DEF Processes
  <2>3. QED
    BY <1>1, <1>2, <2>1, <2>2, BindChannelStep, ForkStep, CloseStep
<1>3. CASE \E c \in Callers : Connect(c) \/ CallerStep(c)
  <2>1. UNCHANGED setting \/ UNCHANGED <<vars, setting>>
    BY DEF Next
  <2>2. PICK c \in Callers : Connect(c) \/ CallerStep(c)
    BY <1>3
  <2>3. CASE Connect(c) /\ UNCHANGED setting
    BY <2>3, ConnectStep
  <2>4. CASE CallerStep(c) /\ UNCHANGED setting
    BY <2>4, PollStep, AcceptStep, ReadNonceStep, CloseListenerStep, SendStep, ConnectDirectStep DEF CallerStep
  <2>5. QED
    BY <1>1, <2>1, <2>2, <2>3, <2>4
<1>4. CASE (HelperStep \/ ControlFails \/ Die) /\ UNCHANGED setting
  BY <1>4, StartStep, ConnectChannelStep, GiveUpStep, ServeStep DEF HelperStep
<1>5. QED
  BY <1>1, <1>2, <1>3, <1>4 DEF Next

\* A call is under way in one place, and what was sent to the helper went over a channel
\* or a name that it has (IndInv), whatever forks, exits and fails.
THEOREM Invariance == Spec => []IndInv
<1>1. QED
  BY InitInv, NextInv, PTL DEF Spec

\* The helper, its two sockets, the handles and the calls stay of the types of
\* companion.rs and companion.cpp, through forks and faults.
THEOREM TypeCorrect == Spec => []TypeOK
<1>1. IndInv => TypeOK
  BY DEF IndInv
<1>2. QED
  BY <1>1, Invariance, PTL

\* The companion is told once of a call that returned a descriptor and never of one that
\* failed, whatever the threads, a forked child and the helper do meanwhile
\* (onModuleConnected).
THEOREM ToldOfEachCallOnce == Spec => []ServedOnce
<1>1. ASSUME IndInv
      PROVE  ServedOnce
  <2>1. /\ served \in Seq(Ids) /\ frames \in Seq(Ids) /\ queue \in Seq(Ids)
        /\ IsInjective(served) /\ IsInjective(frames) /\ IsInjective(queue)
        /\ Disjoint(served, frames) /\ Disjoint(served, queue) /\ Disjoint(frames, queue)
        /\ \A i \in ToSet(served) \cup ToSet(frames) : result[i] = "fd"
    BY <1>1 DEF IndInv, TypeOK, InOnePlace
  <2> DEFINE sf == served \o frames
  <2>2. IsInjective(sf) /\ ToSet(sf) = ToSet(served) \cup ToSet(frames) /\ sf \in Seq(Ids)
    BY <2>1, ConcatDisjoint
  <2> HIDE DEF sf
  <2>3. Disjoint(sf, queue)
    BY <2>1, <2>2 DEF Disjoint
  <2>4. IsInjective(sf \o queue) /\ ToSet(sf \o queue) = ToSet(sf) \cup ToSet(queue)
    BY <2>1, <2>2, <2>3, ConcatDisjoint
  <2>5. QED
    BY <2>1, <2>2, <2>4 DEF ServedOnce, sf
<1>2. QED
  BY <1>1, Invariance, PTL

\* A call fails only while there is no helper to be reached directly (companion.cpp).
THEOREM FailsWithoutHelper == Spec => FailsOnlyWithoutHelper
<1> DEFINE Fails(i) == ~Strained /\ result[i] = "pending" /\ result'[i] = "failed"
<1>1. ASSUME IndInv, [Next]_<<vars, setting>>
      PROVE  [\A i \in Ids : Fails(i) => ~helper.direct]_vars
  <2>1. CASE UNCHANGED result \/ UNCHANGED vars
    <3>1. \A i \in Ids : result[i] = "pending" /\ result'[i] = "failed" => UNCHANGED vars
      BY <2>1
    <3>2. QED
      BY <3>1
  <2>2. ASSUME NEW c \in Callers, Return(c, "fd"), call[c].at # "none"
        PROVE  \A i \in Ids : ~Fails(i)
    <3>1. \A i \in Ids : result'[i] = "fd" \/ result'[i] = result[i]
      BY <1>1, <2>2, ReturnKeeps
    <3>2. QED
      BY <3>1
  <2>3. CASE \E c \in Callers : Send(c)
    <3>1. PICK c \in Callers : Send(c)
      BY <2>3
    <3>2. call[c].at # "none" /\ (UNCHANGED result \/ Return(c, "fd"))
      BY <3>1 DEF Send, Running
    <3>3. QED
      BY <2>1, <2>2, <3>2
  <2>4. CASE \E c \in Callers : ConnectDirect(c)
    <3>1. PICK c \in Callers : ConnectDirect(c)
      BY <2>4
    <3>2. UNCHANGED result \/ Strained \/ ~helper.direct
      BY <3>1 DEF ConnectDirect
    <3>3. QED
      BY <2>1, <3>2
  <2>5. CASE \E c \in Callers : SendToken(c)
    <3>1. PICK c \in Callers : SendToken(c)
      BY <2>5
    <3>2. call[c].at = "token" /\ process[Of(c)] = "alive"
      BY <3>1 DEF SendToken, Running
    <3>3. Strained \/ Id(c) \in ToSet(queue)
      BY <1>1, <3>2 DEF IndInv, Tokens
    <3>4. Strained \/ ~helper.direct \/ Return(c, "fd")
      BY <3>1, <3>3 DEF SendToken
    <3>5. QED
      BY <2>2, <3>2, <3>4
  <2>6. CASE BindChannel \/ Fork \/ CloseInherited \/ \E p \in Processes : End(p)
    BY <2>1, <2>6 DEF BindChannel, Fork, CloseInherited, End, callerVars
  <2>7. CASE \E c \in Callers : Connect(c) \/ Poll(c) \/ Accept(c) \/ ReadNonce(c) \/ CloseListener(c)
    BY <2>1, <2>7 DEF Connect, Poll, Accept, ReadNonce, CloseListener
  <2>8. CASE HelperStep \/ ControlFails \/ Die
    BY <2>1, <2>8 DEF HelperStep, Load, BindDirect, ConnectChannel, GiveUpChannel, Prove,
       ServeControl, ServeDirect, DropDirect, Exit, ControlFails, Die, callVars
  <2>9. QED
    BY <1>1, <2>1, <2>3, <2>4, <2>5, <2>6, <2>7, <2>8 DEF Next, CallerStep
<1>2. QED
  BY <1>1, Invariance, PTL DEF Spec, FailsOnlyWithoutHelper

\* A helper that goes by itself leaves no connection behind that it was sent
\* (companion.rs, the poll loop).
THEOREM GoesWithNothingLeft == Spec => GoesWhenDone
<1>1. ASSUME IndInv, [Next]_<<vars, setting>>
      PROVE  [~Faults /\ helper.at # "gone" /\ helper'.at = "gone" => frames \o queue = <<>>]_vars
  <2>1. SUFFICES ASSUME ~Faults, helper.at # "gone", helper'.at = "gone"
                 PROVE  frames \o queue = <<>>
    OBVIOUS
  <2>2. helper \in HelperType /\ frames \in Seq(Ids) /\ queue \in Seq(Ids)
    BY <1>1 DEF IndInv, TypeOK, HelperType
  <2>3. /\ queue # <<>> => helper.direct /\ helper.at \notin {"load", "bind"}
        /\ frames # <<>> => helper.channel /\ helper.at \in {"serve", "drop"}
    BY <1>1, <2>1 DEF IndInv, SentToHelper
  <2>4. Next /\ ~UNCHANGED helper
    BY <1>1, <2>1 DEF vars
  <2>5. \/ Load \/ GiveUpChannel \/ ServeControl \/ Exit
        \/ BindDirect \/ ConnectChannel \/ Prove \/ ServeDirect \/ DropDirect
    BY <2>1, <2>4 DEF Next, BindChannel, Fork, CloseInherited, End, Connect, CallerStep, Poll, Accept,
       ReadNonce, CloseListener, Send, ConnectDirect, SendToken, HelperStep, ControlFails, Die,
       helperVars
  <2>6. frames = <<>> /\ queue = <<>>
    <3>1. CASE Load
      BY <2>3, <3>1 DEF Load
    <3>2. CASE GiveUpChannel
      <4> DEFINE h == [helper EXCEPT !.at = "serve"]
      <4>1. h \in HelperType /\ h.direct = helper.direct /\ helper.at = "connect"
        BY <2>2, <3>2 DEF GiveUpChannel, HelperType
      <4>2. helper' = HelperExits(h) /\ h.at = "serve"
        BY <2>2, <3>2 DEF GiveUpChannel, HelperType
      <4> HIDE DEF h
      <4>3. ~h.direct
        BY <2>1, <4>2 DEF HelperExits
      <4>4. QED
        BY <2>3, <4>1, <4>3
    <3>3. CASE ServeControl
      <4> DEFINE h == [helper EXCEPT !.channel = FALSE]
      <4>1. h \in HelperType /\ h.direct = helper.direct /\ h.at = "serve"
        BY <2>2, <3>3 DEF ServeControl, HelperType
      <4>2. frames = <<>> /\ helper' = HelperExits(h)
        BY <2>4, <3>3 DEF ServeControl
      <4> HIDE DEF h
      <4>3. ~h.direct
        BY <2>1, <4>1, <4>2 DEF HelperExits
      <4>4. QED
        BY <2>3, <4>1, <4>2, <4>3
    <3>4. CASE Exit
      BY <2>3, <3>4 DEF Exit
    <3>5. CASE BindDirect \/ ConnectChannel \/ Prove \/ ServeDirect \/ DropDirect
      BY <2>1, <2>2, <3>5
      DEF BindDirect, ConnectChannel, Prove, ServeDirect, DropDirect, HelperType
    <3>6. QED
      BY <2>5, <3>1, <3>2, <3>3, <3>4, <3>5
  <2>7. QED
    BY <2>6
<1>2. QED
  BY <1>1, Invariance, PTL DEF Spec, GoesWhenDone
=============================================================================
