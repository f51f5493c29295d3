---------------------------- MODULE KpmRingProofs ----------------------------
(***************************************************************************)
(* Proofs about KpmRing: for a ring of any size, any tasks that execute and  *)
(* any buffer of the reader, what a reader is told of a record that nobody   *)
(* touches is true, the daemon skips nothing that is still in the ring and   *)
(* reads nothing twice, and prctl is hooked last and unhooked first.         *)
(***************************************************************************)
EXTENDS KpmRing, TLAPS

\* How far znn_init or znn_exit is, and what is hooked then.
Hooking ==
  /\ stage = "out" => /\ hooked = {} /\ call.of = "none"
                      /\ \A t \in Tasks : noting[t] = NotNoting
  /\ stage = "execve" => hooked = {}
  /\ stage = "execveat" => hooked = {"execve"}
  /\ stage = "prctl" => hooked = Execs
  /\ stage = "in" => hooked \in {Execs, Execs \union {"prctl"}}
  /\ stage = "unhook" => hooked \in {{}, {"execve"}, Execs, Execs \union {"prctl"}}

Lines == {call.lines[i] : i \in DOMAIN call.lines}

\* The lines of the daemon's call are of new numbers, up to the one before the next;
\* what it has gone past was read or is overwritten.
Reading ==
  /\ loads = 0 => since = 0 /\ stage = "out"
  /\ \A l \in taken : l.seq <= since
  /\ call.of = "since" =>
       /\ call.next > since
       /\ \A l \in Lines : since < l.seq /\ l.seq < call.next
       /\ call.lines # <<>> => \E l \in Lines : l.seq = call.next - 1
       /\ loads = 1 => \A n \in (since + 1)..(call.next - 1) :
                         n + Capacity <= written \/ \E l \in Lines : l.seq = n

\* The newest number of a slot: only its own writer stores into the slot, and what that
\* writer does not have to store any more is there.
InRing ==
  \A n \in 1..written :
    n \notin lapped /\ written < n + Capacity =>
      /\ \A t \in Tasks : noting[t] # NotNoting /\ Slot(noting[t].seq) = Slot(n) => noting[t].seq = n
      /\ \A f \in Fields : \/ ring[Slot(n)][f] = n
                           \/ \E t \in Tasks : noting[t].seq = n /\ f \in noting[t].left

Recorded ==
  /\ \A t \in Tasks : noting[t] # NotNoting => noting[t].seq \in 1..written
  /\ InRing

\* What was settled when the call began stays so until its slot is taken again, and what
\* was loaded of it is true.
Loading ==
  call.of # "none" =>
    /\ \A n \in call.settled :
         n \in 1..written /\ n \notin lapped /\ (written < n + Capacity => Untouched(n))
    /\ call.next \in call.settled /\ written < call.next + Capacity =>
         \A f \in DOMAIN call.got : call.got[f] = call.next

Clean(l) == l.clean => l.seq = l.n /\ l.pid = l.n /\ l.ppid = l.n

CleanInv == \A l \in taken \union Lines : Clean(l)

IndInv == TypeOK /\ Hooking /\ Reading /\ NothingSkipped /\ Recorded /\ Loading /\ CleanInv

(***************************************************************************)
(* Numbers and slots.                                                      *)
(***************************************************************************)

LEMMA Division ==
  ASSUME NEW k \in Nat \ {0}, NEW a \in Nat
  PROVE  a = k * (a \div k) + (a % k) /\ a \div k \in Int /\ a % k \in 0..(k - 1)
OBVIOUS

LEMMA Multiple ==
  ASSUME NEW k \in Nat \ {0}, NEW q \in Int, k * q > 0
  PROVE  k * q >= k
<1>1. q > 0
  OBVIOUS
<1>2. QED
  BY <1>1

LEMMA SlotIn ==
  ASSUME NEW n \in Nat \ {0}
  PROVE  Slot(n) \in Slots
<1>1. n - 1 \in Nat /\ Capacity \in Nat \ {0}
  BY KpmRingAssumption
<1>2. QED
  BY <1>1, Division DEF Slot, Slots

\* Of the numbers that are less than the size of the ring apart, no two have one slot.
LEMMA OtherSlot ==
  ASSUME NEW m \in Nat \ {0}, NEW n \in Nat \ {0}, m < n, n < m + Capacity
  PROVE  Slot(m) # Slot(n)
<1> DEFINE a == m - 1
           b == n - 1
           q == a \div Capacity
           r == b \div Capacity
           ra == a % Capacity
           rb == b % Capacity
<1>1. Capacity \in Nat \ {0} /\ a \in Nat /\ b \in Nat
  BY KpmRingAssumption
<1>2. 0 < b - a /\ b - a < Capacity
  BY <1>1
<1> HIDE DEF a, b
<1>3. /\ a = Capacity * q + ra /\ b = Capacity * r + rb
      /\ q \in Int /\ r \in Int /\ ra \in Int /\ rb \in Int
  BY <1>1, Division
<1> HIDE DEF q, r, ra, rb
<1>4. ra # rb
  <2>1. SUFFICES ASSUME ra = rb PROVE FALSE
    OBVIOUS
  <2>2. b - a = Capacity * r - Capacity * q
    BY <1>1, <1>3, <2>1
  <2>3. Capacity * r - Capacity * q = Capacity * (r - q) /\ r - q \in Int
    BY <1>1, <1>3
  <2>4. Capacity * (r - q) >= Capacity
    BY <1>1, <1>2, <2>2, <2>3, Multiple
  <2>5. QED
    BY <1>1, <1>2, <1>3, <2>2, <2>3, <2>4
<1>5. QED
  BY <1>4 DEF Slot, a, b, ra, rb

LEMMA MaxIs ==
  ASSUME NEW S \in SUBSET Nat, NEW m \in S, \A y \in S : y <= m
  PROVE  MaxOf(S) = m
<1> DEFINE x == MaxOf(S)
<1>1. x \in S /\ \A y \in S : y <= x
  BY DEF MaxOf
<1> HIDE DEF x
<1>2. x \in Nat /\ m \in Nat /\ x <= m /\ m <= x
  BY <1>1
<1>3. x = m
  BY <1>2
<1>4. QED
  BY <1>3 DEF x

LEMMA OldestIs ==
  ASSUME written \in Nat
  PROVE  /\ Available \in Nat /\ Available <= written /\ Available <= Capacity
         /\ Oldest \in Nat \ {0} /\ Oldest = written - Available + 1
         /\ \A n \in Nat \ {0} : n < Oldest => n + Capacity <= written
<1>1. Capacity \in Nat \ {0}
  BY KpmRingAssumption
<1>2. QED
  BY <1>1 DEF Available, Oldest

Elements(s) == {s[i] : i \in DOMAIN s}

LEMMA AppendLines ==
  ASSUME NEW S, NEW s \in Seq(S), NEW x \in S
  PROVE  /\ Elements(Append(s, x)) = Elements(s) \union {x}
         /\ Append(s, x) # <<>> /\ Append(s, x) \in Seq(S)
<1> DEFINE t == Append(s, x)
<1>1. /\ DOMAIN t = 1..(Len(s) + 1) /\ DOMAIN s = 1..Len(s) /\ Len(s) \in Nat
      /\ t[Len(s) + 1] = x /\ t \in Seq(S) /\ t # <<>>
      /\ \A i \in 1..Len(s) : t[i] = s[i]
  OBVIOUS
<1> HIDE DEF t
<1>2. Len(s) + 1 \in 1..(Len(s) + 1) /\ \A i \in 1..(Len(s) + 1) : i \in 1..Len(s) \/ i = Len(s) + 1
  BY <1>1
<1>3. \A i \in 1..Len(s) : i \in 1..(Len(s) + 1)
  BY <1>1
<1>4. ASSUME NEW y \in {t[i] : i \in DOMAIN t}
      PROVE  y \in {s[i] : i \in DOMAIN s} \union {x}
  <2>1. PICK i \in 1..(Len(s) + 1) : y = t[i]
    BY <1>1, <1>4
  <2>2. QED
    BY <1>1, <1>2, <2>1
<1>5. ASSUME NEW y \in {s[i] : i \in DOMAIN s} \union {x}
      PROVE  y \in {t[i] : i \in DOMAIN t}
  <2>1. CASE y = x
    BY <1>1, <1>2, <2>1
  <2>2. CASE y \in {s[i] : i \in DOMAIN s}
    <3>1. PICK i \in 1..Len(s) : y = s[i]
      BY <1>1, <2>2
    <3>2. QED
      BY <1>1, <1>3, <3>1
  <2>3. QED
    BY <1>5, <2>1, <2>2
<1>6. QED
  BY <1>1, <1>4, <1>5 DEF t, Elements

(***************************************************************************)
(* Loading and unloading.                                                  *)
(***************************************************************************)

\* The parts of the invariant that a step which stores nothing and reads nothing keeps.
LEMMA RecordsKept ==
  ASSUME Recorded, Loading, UNCHANGED <<written, ring, noting, lapped, call>>
  PROVE  Recorded' /\ Loading'
BY DEF Recorded, InRing, Loading, Untouched, NotNoting, Slot

LEMMA LinesKept ==
  ASSUME CleanInv, UNCHANGED <<call, taken>>
  PROVE  CleanInv'
BY DEF CleanInv, Lines, Clean

LEMMA BeginLoadStep ==
  ASSUME IndInv, BeginLoad, UNCHANGED setting
  PROVE  IndInv'
<1>1. /\ stage = "out" /\ stage' = "execve" /\ loads' = loads + 1 /\ loads \in Nat
      /\ written' = 0 /\ ring' = EmptyRing /\ lapped' = {} /\ taken' = {}
      /\ UNCHANGED <<setting, hooked, noting, since, call>>
  BY DEF BeginLoad, IndInv, TypeOK
<1>2. hooked = {} /\ call.of = "none" /\ \A t \in Tasks : noting[t] = NotNoting
  BY <1>1 DEF IndInv, Hooking
<1>3. TypeOK'
  <2>1. ring' \in [Slots -> [Fields -> Nat]]
    BY <1>1 DEF EmptyRing
  <2>2. stage' \in Execs \union {"out", "prctl", "in", "unhook"}
    BY <1>1 DEF Execs
  <2>3. loads' \in Nat /\ written' \in Nat
    BY <1>1
  <2>4. QED
    BY <1>1, <2>1, <2>2, <2>3 DEF IndInv, TypeOK
<1>4. Hooking'
  BY <1>1, <1>2 DEF Hooking
<1>5. Reading'
  BY <1>1, <1>2 DEF Reading
<1>6. NothingSkipped'
  <2>1. loads' = 1 => since' = 0
    BY <1>1 DEF IndInv, Reading
  <2>2. QED
    BY <2>1 DEF NothingSkipped
<1>7. Recorded' /\ Loading'
  BY <1>1, <1>2 DEF Recorded, InRing, Loading
<1>8. CleanInv'
  BY <1>1 DEF IndInv, CleanInv, Lines, Clean
<1>9. QED
  BY <1>3, <1>4, <1>5, <1>6, <1>7, <1>8 DEF IndInv

\* A step that only hooks or unhooks.
LEMMA OnlyHooks ==
  ASSUME IndInv, UNCHANGED <<setting, loads, ringVars, readerVars>>,
         hooked' \subseteq Execs \union {"prctl"},
         stage' \in Execs \union {"out", "prctl", "in", "unhook"},
         stage # "out", Hooking'
  PROVE  IndInv'
<1>1. UNCHANGED <<setting, loads, written, ring, noting, lapped, since, call, taken>>
  BY DEF ringVars, readerVars
<1>2. TypeOK'
  BY <1>1 DEF IndInv, TypeOK
<1>3. Reading' /\ NothingSkipped'
  BY <1>1 DEF IndInv, Reading, NothingSkipped, Lines
<1>4. QED
  BY <1>1, <1>2, <1>3, RecordsKept, LinesKept DEF IndInv

LEMMA HookStep ==
  ASSUME IndInv, HookNext \/ BeginUnload \/ UnhookNext, UNCHANGED setting
  PROVE  IndInv'
<1>1. UNCHANGED <<setting, loads, ringVars, readerVars>> /\ stage # "out"
  BY DEF HookNext, BeginUnload, UnhookNext, Execs
<1>2. hooked \subseteq Execs \union {"prctl"}
  BY DEF IndInv, TypeOK
<1>3. CASE HookNext
  <2>1. /\ hooked' \subseteq Execs \union {"prctl"}
        /\ stage' \in Execs \union {"out", "prctl", "in", "unhook"}
    BY <1>2, <1>3 DEF HookNext, Execs
  <2>2. Hooking'
    BY <1>3 DEF IndInv, Hooking, HookNext, Execs
  <2>3. QED
    BY <1>1, <2>1, <2>2, OnlyHooks
<1>4. CASE BeginUnload
  <2>1. hooked' = hooked /\ stage' = "unhook"
    BY <1>4 DEF BeginUnload
  <2>2. Hooking'
    BY <1>4, <2>1 DEF IndInv, Hooking, BeginUnload
  <2>3. QED
    BY <1>1, <1>2, <2>1, <2>2, OnlyHooks
<1>5. CASE UnhookNext
  <2>1. CASE hooked # {}
    <3>1. hooked' = hooked \ {FirstToUnhook(hooked)} /\ stage' = "unhook"
      BY <1>5, <2>1 DEF UnhookNext
    <3>2. hooked \in {{"execve"}, Execs, Execs \union {"prctl"}}
      BY <1>5, <2>1 DEF IndInv, Hooking, UnhookNext
    <3>3. hooked' \in {{}, {"execve"}, Execs}
      BY <3>1, <3>2 DEF FirstToUnhook, Execs
    <3>4. Hooking'
      BY <3>1, <3>3 DEF Hooking
    <3>5. QED
      BY <1>1, <1>2, <3>1, <3>4, OnlyHooks
  <2>2. CASE hooked = {}
    <3>1. /\ stage' = "out" /\ hooked' = {} /\ call = NoCall
          /\ \A t \in Tasks : noting[t] = NotNoting
      BY <1>5, <2>2 DEF UnhookNext
    <3>2. Hooking'
      BY <1>1, <3>1 DEF Hooking, NoCall, NotNoting, ringVars, readerVars
    <3>3. QED
      BY <1>1, <3>1, <3>2, OnlyHooks
  <2>3. QED
    BY <2>1, <2>2
<1>6. QED
  BY <1>3, <1>4, <1>5

(***************************************************************************)
(* znn_note_exec.                                                          *)
(***************************************************************************)

NotingType == [seq : Nat, left : SUBSET Fields]

LEMMA NotNotingTyped ==
  NotNoting \in NotingType /\ NotNoting.left = {}
BY DEF NotNoting, NotingType

\* What nobody reads stays as it is while a record is noted.
LEMMA ReaderKept ==
  ASSUME IndInv, UNCHANGED <<setting, hooked, stage, loads, readerVars>>,
         written' \in Nat, written <= written'
  PROVE  Reading' /\ NothingSkipped' /\ CleanInv'
<1>1. UNCHANGED <<since, call, taken>> /\ written \in Nat /\ since \in Nat /\ call.next \in Nat
      /\ Capacity \in Nat
  BY KpmRingAssumption DEF readerVars, IndInv, TypeOK, CallType
<1>2. \A n \in Nat : n + Capacity <= written => n + Capacity <= written'
  BY <1>1
<1>3. (1..since) \subseteq Nat /\ ((since + 1)..(call.next - 1)) \subseteq Nat
  BY <1>1
<1>4. Reading'
  BY <1>1, <1>2, <1>3 DEF IndInv, Reading, Lines
<1>5. NothingSkipped'
  BY <1>1, <1>2, <1>3 DEF IndInv, NothingSkipped
<1>6. QED
  BY <1>1, <1>4, <1>5, LinesKept DEF IndInv

LEMMA ClaimStep ==
  ASSUME IndInv, NEW t \in Tasks, Claim(t), UNCHANGED setting
  PROVE  IndInv'
<1> DEFINE w == written + 1
<1>1. /\ hooked \cap Execs # {} /\ noting[t] = NotNoting
      /\ written' = w
      /\ noting' = [noting EXCEPT ![t] = [seq |-> w, left |-> Fields]]
      /\ lapped' = IF Untouched(w) THEN lapped ELSE lapped \union {w}
      /\ UNCHANGED <<setting, hooked, stage, loads, ring, readerVars>>
  BY DEF Claim
<1>2. written \in Nat /\ w \in Nat \ {0} /\ written < w
      /\ Capacity \in Nat \ {0} /\ noting \in [Tasks -> NotingType] /\ lapped \subseteq Nat
  BY KpmRingAssumption DEF IndInv, TypeOK, NotingType
<1>3. \A n \in 1..w : n = w \/ n \in 1..written
  BY <1>2
<1>4. \A n \in 1..written : n \in 1..w /\ n < w /\ n \in Nat \ {0}
  BY <1>2
<1> HIDE DEF w
<1>5. noting'[t] = [seq |-> w, left |-> Fields] /\ noting'[t].seq = w /\ noting'[t].left = Fields
      /\ \A u \in Tasks : u # t => noting'[u] = noting[u]
  BY <1>1, <1>2
<1>6. \A n \in 1..written : w < n + Capacity => Slot(w) # Slot(n) /\ written < n + Capacity
  <2>1. TAKE n \in 1..written
  <2>2. HAVE w < n + Capacity
  <2>3. Slot(n) # Slot(w)
    BY <1>2, <1>4, <2>2, OtherSlot
  <2>4. QED
    BY <1>2, <2>2, <2>3
<1>7. lapped \subseteq lapped' /\ lapped' \subseteq lapped \union {w} /\ (w \notin lapped' => Untouched(w))
  BY <1>1
<1>8. TypeOK'
  <2>1. [seq |-> w, left |-> Fields] \in NotingType
    BY <1>2 DEF NotingType
  <2>2. noting' \in [Tasks -> NotingType]
    BY <1>1, <1>2, <2>1
  <2>3. lapped' \subseteq Nat /\ written' \in Nat
    BY <1>1, <1>2, <1>7
  <2>4. UNCHANGED <<since, call, taken>>
    BY <1>1 DEF readerVars
  <2>5. QED
    BY <1>1, <2>2, <2>3, <2>4 DEF IndInv, TypeOK, NotingType
<1>9. Hooking'
  BY <1>1 DEF IndInv, Hooking
<1>10. Reading' /\ NothingSkipped' /\ CleanInv'
  <2>1. written' \in Nat /\ written <= written'
    BY <1>1, <1>2
  <2>2. QED
    BY <1>1, <2>1, ReaderKept
<1>11. Recorded'
  <2>1. \A u \in Tasks : noting'[u] # NotNoting => noting'[u].seq \in 1..w
    <3>1. w \in 1..w
      BY <1>2
    <3>2. QED
      BY <1>4, <1>5, <3>1 DEF IndInv, Recorded
  <2>2. ASSUME NEW n \in 1..w, n \notin lapped', w < n + Capacity
        PROVE  /\ \A u \in Tasks : noting'[u] # NotNoting /\ Slot(noting'[u].seq) = Slot(n)
                                     => noting'[u].seq = n
               /\ \A f \in Fields : \/ ring[Slot(n)][f] = n
                                    \/ \E u \in Tasks : noting'[u].seq = n /\ f \in noting'[u].left
    <3>1. CASE n = w
      <4>1. Untouched(w)
        BY <1>7, <2>2, <3>1
      <4>2. QED
        BY <1>5, <3>1, <4>1 DEF Untouched
    <3>2. CASE n \in 1..written
      <4>1. n \notin lapped /\ written < n + Capacity /\ Slot(w) # Slot(n)
        BY <1>6, <1>7, <2>2, <3>2
      <4>2. /\ \A u \in Tasks : noting[u] # NotNoting /\ Slot(noting[u].seq) = Slot(n) => noting[u].seq = n
            /\ \A f \in Fields : \/ ring[Slot(n)][f] = n
                                 \/ \E u \in Tasks : noting[u].seq = n /\ f \in noting[u].left
        BY <3>2, <4>1 DEF IndInv, Recorded, InRing
      <4>3. \A u \in Tasks, f \in Fields : f \in noting[u].left => u # t
        BY <1>1, NotNotingTyped
      <4>4. QED
        BY <1>5, <4>1, <4>2, <4>3
    <3>3. QED
      BY <1>3, <3>1, <3>2
  <2>3. UNCHANGED ring /\ written' = w
    BY <1>1
  <2>4. QED
    BY <2>1, <2>2, <2>3 DEF Recorded, InRing, Slot
<1>12. Loading'
  <2>1. UNCHANGED call /\ (call.of # "none" => call.next \in Nat)
    BY <1>1 DEF readerVars, IndInv, TypeOK, CallType
  <2>2. ASSUME call.of # "none", NEW n \in call.settled
        PROVE  /\ n \in 1..w /\ n \notin lapped' /\ w # n
               /\ w < n + Capacity => Untouched(n)' /\ written < n + Capacity
    <3>1. n \in 1..written /\ n \notin lapped /\ (written < n + Capacity => Untouched(n))
      BY <2>2 DEF IndInv, Loading
    <3>2. n \in 1..w /\ n # w /\ n \notin lapped'
      BY <1>2, <1>4, <1>7, <3>1
    <3>3. ASSUME w < n + Capacity
          PROVE  Untouched(n)' /\ written < n + Capacity
      <4>1. Slot(w) # Slot(n) /\ written < n + Capacity
        BY <1>6, <3>1, <3>3
      <4>2. \A u \in Tasks : noting'[u] # NotNoting => Slot(noting'[u].seq) # Slot(n)
        BY <1>5, <3>1, <4>1 DEF Untouched
      <4>3. QED
        BY <4>1, <4>2 DEF Untouched, NotNoting, Slot
    <3>4. QED
      BY <3>2, <3>3
  <2>3. QED
    BY <1>1, <2>1, <2>2 DEF IndInv, Loading
<1>13. QED
  BY <1>8, <1>9, <1>10, <1>11, <1>12 DEF IndInv

LEMMA StoreStep ==
  ASSUME IndInv, NEW t \in Tasks, Store(t), UNCHANGED setting
  PROVE  IndInv'
<1> DEFINE m == noting[t].seq
<1>1. PICK f \in noting[t].left :
        /\ ring' = [ring EXCEPT ![Slot(m)][f] = m]
        /\ noting' = [noting EXCEPT ![t] =
             IF noting[t].left \ {f} = {} THEN NotNoting
             ELSE [seq |-> m, left |-> noting[t].left \ {f}]]
        /\ UNCHANGED <<setting, hooked, stage, loads, written, lapped, readerVars>>
  BY DEF Store
<1> DEFINE left == noting[t].left \ {f}
           record == IF left = {} THEN NotNoting ELSE [seq |-> m, left |-> left]
<1>2. /\ noting \in [Tasks -> NotingType] /\ ring \in [Slots -> [Fields -> Nat]]
      /\ written \in Nat /\ noting[t] # NotNoting
  BY NotNotingTyped DEF IndInv, TypeOK, NotingType
<1>3. m \in 1..written /\ m \in Nat \ {0} /\ Slot(m) \in Slots /\ f \in Fields /\ left \subseteq Fields
  <2>1. m \in 1..written
    BY <1>2 DEF IndInv, Recorded
  <2>2. m \in Nat \ {0} /\ f \in Fields /\ left \subseteq Fields
    BY <1>2, <2>1 DEF NotingType
  <2>3. QED
    BY <2>1, <2>2, SlotIn
<1>4. /\ record \in NotingType
      /\ record # NotNoting => record.seq = m
      /\ \A g \in Fields : g \in noting[t].left /\ g # f => record.seq = m /\ g \in record.left
  <2>1. NotNoting \in NotingType
    BY NotNotingTyped
  <2>2. CASE left = {}
    BY <2>1, <2>2
  <2>3. CASE left # {}
    <3>1. record = [seq |-> m, left |-> left]
      BY <2>3
    <3>2. record.seq = m /\ record.left = left /\ record \in NotingType
      BY <1>3, <3>1 DEF NotingType
    <3>3. QED
      BY <3>2
  <2>4. QED
    BY <2>2, <2>3
<1>5. noting'[t] = record /\ \A u \in Tasks : u # t => noting'[u] = noting[u]
  BY <1>1, <1>2
<1>6. /\ ring'[Slot(m)][f] = m
      /\ \A g \in Fields : g # f => ring'[Slot(m)][g] = ring[Slot(m)][g]
      /\ \A s \in Slots : s # Slot(m) => ring'[s] = ring[s]
  BY <1>1, <1>2, <1>3
<1>7. TypeOK'
  <2>1. noting' \in [Tasks -> NotingType]
    BY <1>1, <1>2, <1>4
  <2>2. ring' \in [Slots -> [Fields -> Nat]]
    BY <1>1, <1>2, <1>3
  <2>3. UNCHANGED <<since, call, taken>>
    BY <1>1 DEF readerVars
  <2>4. QED
    BY <1>1, <2>1, <2>2, <2>3 DEF IndInv, TypeOK, NotingType
<1> HIDE DEF record, left, m
<1>8. Hooking'
  BY <1>1, <1>2 DEF IndInv, Hooking
<1>9. Reading' /\ NothingSkipped' /\ CleanInv'
  <2>1. written' \in Nat /\ written <= written'
    BY <1>1, <1>2
  <2>2. QED
    BY <1>1, <2>1, ReaderKept
<1>10. Recorded'
  <2>1. \A u \in Tasks : noting'[u] # NotNoting => noting'[u].seq \in 1..written
    BY <1>3, <1>4, <1>5 DEF IndInv, Recorded
  <2>2. ASSUME NEW n \in 1..written, n \notin lapped, written < n + Capacity
        PROVE  /\ \A u \in Tasks : noting'[u] # NotNoting /\ Slot(noting'[u].seq) = Slot(n)
                                     => noting'[u].seq = n
               /\ \A g \in Fields : \/ ring'[Slot(n)][g] = n
                                    \/ \E u \in Tasks : noting'[u].seq = n /\ g \in noting'[u].left
    <3>1. /\ \A u \in Tasks : noting[u] # NotNoting /\ Slot(noting[u].seq) = Slot(n) => noting[u].seq = n
          /\ \A g \in Fields : \/ ring[Slot(n)][g] = n
                               \/ \E u \in Tasks : noting[u].seq = n /\ g \in noting[u].left
      BY <2>2 DEF IndInv, Recorded, InRing
    <3>2. Slot(m) = Slot(n) => m = n
      BY <1>2, <3>1 DEF m
    <3>3. \A u \in Tasks : noting'[u] # NotNoting /\ Slot(noting'[u].seq) = Slot(n) => noting'[u].seq = n
      BY <1>4, <1>5, <3>1, <3>2
    <3>4. n \in Nat \ {0} /\ Slot(n) \in Slots
      BY <2>2, SlotIn
    <3>5. ASSUME NEW g \in Fields
          PROVE  \/ ring'[Slot(n)][g] = n
                 \/ \E u \in Tasks : noting'[u].seq = n /\ g \in noting'[u].left
      <4>1. CASE Slot(m) = Slot(n) /\ g = f
        BY <1>6, <3>2, <4>1
      <4>2. CASE ring[Slot(n)][g] = n /\ ~(Slot(m) = Slot(n) /\ g = f)
        BY <1>6, <3>4, <4>2
      <4>3. CASE /\ \E u \in Tasks : noting[u].seq = n /\ g \in noting[u].left
                 /\ ~(Slot(m) = Slot(n) /\ g = f)
        <5>1. PICK u \in Tasks : noting[u].seq = n /\ g \in noting[u].left
          BY <4>3
        <5>2. CASE u = t
          <6>1. m = n
            BY <5>1, <5>2 DEF m
          <6>2. g # f
            BY <4>3, <6>1
          <6>3. QED
            BY <1>4, <1>5, <5>1, <5>2, <6>1, <6>2
        <5>3. CASE u # t
          BY <1>5, <5>1, <5>3
        <5>4. QED
          BY <5>2, <5>3
      <4>4. QED
        BY <3>1, <4>1, <4>2, <4>3
    <3>6. QED
      BY <3>3, <3>5
  <2>3. UNCHANGED <<written, lapped>>
    BY <1>1
  <2>4. QED
    BY <2>1, <2>2, <2>3 DEF Recorded, InRing, Slot
<1>11. Loading'
  <2>1. UNCHANGED <<call, written, lapped>>
    BY <1>1 DEF readerVars
  <2>2. ASSUME NEW n, Untouched(n)
        PROVE  Untouched(n)'
    <3>1. \A u \in Tasks : noting'[u] # NotNoting => Slot(noting'[u].seq) # Slot(n)
      BY <1>2, <1>4, <1>5, <2>2 DEF Untouched, m
    <3>2. QED
      BY <3>1 DEF Untouched, NotNoting, Slot
  <2>3. QED
    BY <2>1, <2>2 DEF IndInv, Loading
<1>12. QED
  BY <1>7, <1>8, <1>9, <1>10, <1>11 DEF IndInv

(***************************************************************************)
(* The readers.                                                            *)
(***************************************************************************)

LEMMA CallFields ==
  ASSUME TypeOK
  PROVE  /\ call.of \in {"none", "since", "read"} /\ call.next \in Nat \ {0} /\ call.to \in Nat
         /\ call.lines \in Seq(LineType) /\ call.settled \in SUBSET Nat
         /\ DOMAIN call.got \subseteq Fields /\ call.got \in [DOMAIN call.got -> Nat]
         /\ call \in CallType(DOMAIN call.got)
<1>1. PICK loaded \in SUBSET Fields : call \in CallType(loaded)
  BY DEF TypeOK
<1>2. call.got \in [loaded -> Nat]
  BY <1>1 DEF CallType
<1>3. DOMAIN call.got = loaded
  BY <1>2
<1>4. QED
  BY <1>1, <1>2, <1>3 DEF CallType

LEMMA LinesTyped ==
  ASSUME TypeOK
  PROVE  Lines \subseteq LineType
<1>1. call.lines \in Seq(LineType)
  BY CallFields
<1>2. \A i \in DOMAIN call.lines : call.lines[i] \in LineType
  BY <1>1
<1>3. QED
  BY <1>2 DEF Lines

\* A step of a reader leaves the ring and the writers alone.
LEMMA OnlyReads ==
  ASSUME IndInv, UNCHANGED <<setting, hooked, stage, loads, ringVars>>,
         since' \in Nat, taken' \subseteq LineType,
         \E loaded \in SUBSET Fields : call' \in CallType(loaded),
         stage = "out" => call'.of = "none",
         Reading', NothingSkipped', Loading', CleanInv'
  PROVE  IndInv'
<1>1. UNCHANGED <<setting, hooked, stage, loads, written, ring, noting, lapped>>
  BY DEF ringVars
<1>2. TypeOK'
  BY <1>1 DEF IndInv, TypeOK
<1>3. Hooking'
  BY <1>1 DEF IndInv, Hooking
<1>4. Recorded'
  BY <1>1 DEF IndInv, Recorded, InRing, NotNoting, Slot
<1>5. QED
  BY <1>2, <1>3, <1>4 DEF IndInv

\* A call begins, for the daemon after what it has gone past and what is overwritten.
LEMMA BeginCall ==
  ASSUME IndInv, UNCHANGED <<setting, hooked, stage, loads, ringVars, since, taken>>,
         stage # "out", NEW of \in {"since", "read"}, NEW first \in Nat \ {0},
         of = "since" => first = FirstSince,
         call' = [NoCall EXCEPT !.of = of, !.next = first, !.to = written,
                                !.got = Empty, !.settled = Settled]
  PROVE  IndInv'
<1>1. /\ UNCHANGED <<setting, hooked, stage, loads, written, ring, noting, lapped, since, taken>>
      /\ written \in Nat /\ since \in Nat /\ taken \subseteq LineType
  BY DEF ringVars, IndInv, TypeOK
<1>2. /\ call'.of = of /\ call'.next = first /\ call'.got = Empty /\ call'.lines = <<>>
      /\ call'.settled = Settled
      /\ call' = [of |-> of, next |-> first, to |-> written, got |-> Empty, lines |-> <<>>,
                  settled |-> Settled]
  BY DEF NoCall
<1>3. DOMAIN Empty = {} /\ Empty \in [{} -> Nat] /\ Settled \in SUBSET Nat
  BY <1>1 DEF Empty, Settled
<1>4. Lines' = {}
  BY <1>2 DEF Lines
<1>5. \E loaded \in SUBSET Fields : call' \in CallType(loaded)
  <2>1. of \in {"none", "since", "read"} /\ <<>> \in Seq(LineType)
    OBVIOUS
  <2>2. call' \in CallType({})
    BY <1>1, <1>2, <1>3, <2>1 DEF CallType
  <2>3. QED
    BY <2>2
<1>6. Reading'
  <2>1. SUFFICES ASSUME of = "since"
                 PROVE  /\ first > since
                        /\ \A n \in (since + 1)..(first - 1) : n + Capacity <= written
    BY <1>1, <1>2, <1>4 DEF IndInv, Reading
  <2>2. /\ Oldest \in Nat \ {0}
        /\ \A n \in Nat \ {0} : n < Oldest => n + Capacity <= written
    BY <1>1, OldestIs
  <2>3. first = since + 1 \/ (first = Oldest /\ first > since + 1)
    BY <1>1, <2>1, <2>2 DEF FirstSince, Larger
  <2>4. QED
    BY <1>1, <2>2, <2>3
<1>7. NothingSkipped'
  BY <1>1 DEF IndInv, NothingSkipped
<1>8. Loading'
  <2>1. \A n \in Settled : n \in 1..written /\ n \notin lapped /\ Untouched(n)
    BY DEF Settled
  <2>2. \A n : Untouched(n)' <=> Untouched(n)
    BY <1>1 DEF Untouched, NotNoting, Slot
  <2>3. QED
    BY <1>1, <1>2, <1>3, <2>1, <2>2 DEF Loading
<1>9. CleanInv'
  BY <1>1, <1>4 DEF IndInv, CleanInv, Clean
<1>10. QED
  BY <1>1, <1>5, <1>6, <1>7, <1>8, <1>9, OnlyReads

LEMMA BeginStep ==
  ASSUME IndInv, BeginSince \/ BeginRead, UNCHANGED setting
  PROVE  IndInv'
<1>1. written \in Nat /\ since \in Nat
  BY DEF IndInv, TypeOK
<1>2. Oldest \in Nat \ {0} /\ Available \in Nat /\ Available <= written
  BY <1>1, OldestIs
<1>3. CASE BeginSince
  <2>1. FirstSince \in Nat \ {0}
    BY <1>1, <1>2 DEF FirstSince, Larger
  <2>2. stage # "out"
    BY <1>3 DEF IndInv, Hooking, BeginSince
  <2>3. QED
    BY <1>3, <2>1, <2>2, BeginCall DEF BeginSince
<1>4. CASE BeginRead
  <2>1. PICK requested \in 0..Capacity :
          LET count == IF requested = 0 \/ requested > Available THEN Available ELSE requested
          IN  /\ count > 0
              /\ call' = [NoCall EXCEPT !.of = "read", !.next = written - count + 1,
                            !.to = written, !.got = Empty, !.settled = Settled]
    BY <1>4 DEF BeginRead
  <2> DEFINE count == IF requested = 0 \/ requested > Available THEN Available ELSE requested
  <2>2. count \in Nat /\ count <= Available /\ Capacity \in Nat
    BY <1>2, KpmRingAssumption
  <2>3. call' = [NoCall EXCEPT !.of = "read", !.next = written - count + 1,
                   !.to = written, !.got = Empty, !.settled = Settled]
    BY <2>1
  <2> HIDE DEF count
  <2>4. written - count + 1 \in Nat \ {0}
    BY <1>1, <1>2, <2>2
  <2>5. QED
    BY <1>4, <2>3, <2>4, BeginCall DEF BeginRead
<1>5. QED
  BY <1>3, <1>4

\* A field that is loaded of a record that nobody has touched since the call began is
\* that of the record.
LEMMA LoadedIsTrue ==
  ASSUME IndInv, call.of # "none", NEW f \in Fields,
         call.next \in call.settled, written < call.next + Capacity
  PROVE  ring[Slot(call.next)][f] = call.next
<1>1. call.next \in 1..written /\ call.next \notin lapped /\ Untouched(call.next)
  BY DEF IndInv, Loading
<1>2. \A t \in Tasks : f \in noting[t].left => noting[t].seq # call.next
  BY <1>1, NotNotingTyped DEF Untouched
<1>3. QED
  BY <1>1, <1>2 DEF IndInv, Recorded, InRing

LEMMA LoadStep ==
  ASSUME IndInv, LoadField, UNCHANGED setting
  PROVE  IndInv'
<1>1. PICK f \in Loaded(call.of) \ DOMAIN call.got :
        LET got == [g \in DOMAIN call.got \union {f} |->
                      IF g = f THEN ring[Slot(call.next)][f] ELSE call.got[g]]
        IN  call' = IF DOMAIN got = Loaded(call.of)
                    THEN [call EXCEPT !.lines = Append(@, Line(got)),
                                      !.got = Empty, !.next = @ + 1]
                    ELSE [call EXCEPT !.got = got]
  BY DEF LoadField
<1> DEFINE D == DOMAIN call.got \union {f}
           got == [g \in D |-> IF g = f THEN ring[Slot(call.next)][f] ELSE call.got[g]]
           ln == Line(got)
           untouched == call.next \in call.settled /\ written < call.next + Capacity
<1>2. /\ UNCHANGED <<hooked, stage, loads, ringVars, since, taken>>
      /\ UNCHANGED <<setting, hooked, stage, loads, written, ring, noting, lapped, since, taken>>
      /\ call.of # "none"
  BY DEF LoadField, ringVars
<1>3. /\ call.of \in {"since", "read"} /\ call.next \in Nat \ {0} /\ call.to \in Nat
      /\ call.lines \in Seq(LineType) /\ call.settled \in SUBSET Nat
      /\ DOMAIN call.got \subseteq Fields /\ call.got \in [DOMAIN call.got -> Nat]
      /\ call \in CallType(DOMAIN call.got)
  BY <1>2, CallFields DEF IndInv
<1>4. f \in Fields /\ D \subseteq Fields
  BY <1>3 DEF Loaded, Fields
<1>5. ring[Slot(call.next)][f] \in Nat
  <2>1. ring \in [Slots -> [Fields -> Nat]] /\ Slot(call.next) \in Slots
    BY <1>3, SlotIn DEF IndInv, TypeOK
  <2>2. QED
    BY <1>4, <2>1
<1>6. got \in [D -> Nat] /\ DOMAIN got = D
  BY <1>3, <1>5
<1>7. untouched => \A g \in D : got[g] = call.next
  <2>1. untouched => ring[Slot(call.next)][f] = call.next
    BY <1>2, <1>4, LoadedIsTrue
  <2>2. untouched => \A g \in DOMAIN call.got : call.got[g] = call.next
    BY <1>2 DEF IndInv, Loading
  <2>3. QED
    BY <2>1, <2>2
<1>8. call' = IF D = Loaded(call.of)
              THEN [call EXCEPT !.lines = Append(@, ln), !.got = Empty, !.next = @ + 1]
              ELSE [call EXCEPT !.got = got]
  BY <1>1, <1>6
<1>9. UNCHANGED since /\ since \in Nat /\ taken' \subseteq LineType /\ stage # "out"
  BY <1>2 DEF IndInv, TypeOK, Hooking
<1>10. \A n : Untouched(n)' <=> Untouched(n)
  BY <1>2 DEF Untouched, NotNoting, Slot
<1>11. NothingSkipped'
  BY <1>2 DEF IndInv, NothingSkipped
<1>12. CASE D # Loaded(call.of)
  <2> HIDE DEF D, got, ln
  <2>1. call' = [call EXCEPT !.got = got]
    BY <1>8, <1>12
  <2>2. /\ call'.of = call.of /\ call'.next = call.next /\ call'.got = got
        /\ call'.lines = call.lines /\ call'.settled = call.settled
        /\ call' \in CallType(D)
    BY <1>3, <1>6, <2>1 DEF CallType
  <2>3. Lines' = Lines
    BY <2>2 DEF Lines
  <2>4. Reading' /\ CleanInv'
    BY <1>2, <2>2, <2>3 DEF IndInv, Reading, CleanInv, Clean
  <2>5. Loading'
    BY <1>2, <1>6, <1>7, <1>10, <2>2 DEF IndInv, Loading, untouched
  <2>6. QED
    BY <1>2, <1>4, <1>9, <1>11, <2>2, <2>4, <2>5, OnlyReads
<1>13. CASE D = Loaded(call.of)
  <2>1. "pid" \in D /\ "ppid" \in D /\ (call.of # "since" => "seq" \in D)
    BY <1>3, <1>13 DEF Loaded, Fields
  <2> DEFINE clean == call.next \in call.settled /\ written < call.next + Capacity
             seq == IF call.of = "since" THEN call.next ELSE got["seq"]
  <2>2. ln = [seq |-> seq, n |-> call.next, pid |-> got["pid"], ppid |-> got["ppid"], clean |-> clean]
    BY DEF Line
  <2> HIDE DEF D, got, ln
  <2>3. clean \in BOOLEAN /\ seq \in Nat /\ got["pid"] \in Nat /\ got["ppid"] \in Nat
    BY <1>3, <1>6, <2>1
  <2>4. clean => seq = call.next /\ got["pid"] = call.next /\ got["ppid"] = call.next
    BY <1>7, <2>1 DEF untouched
  <2>5. call.of = "since" => seq = call.next
    OBVIOUS
  <2> HIDE DEF clean, seq
  <2>6. ln \in LineType /\ Clean(ln) /\ (call.of = "since" => ln.seq = call.next)
    BY <1>3, <2>2, <2>3, <2>4, <2>5 DEF LineType, Clean
  <2>7. call' = [call EXCEPT !.lines = Append(@, ln), !.got = Empty, !.next = @ + 1]
    BY <1>8, <1>13
  <2>8. /\ {Append(call.lines, ln)[i] : i \in DOMAIN Append(call.lines, ln)} = Lines \union {ln}
        /\ Append(call.lines, ln) \in Seq(LineType)
    <3>1. call.lines \in Seq(LineType) /\ ln \in LineType
      BY <1>3, <2>6
    <3>2. /\ Elements(Append(call.lines, ln)) = Elements(call.lines) \union {ln}
          /\ Append(call.lines, ln) \in Seq(LineType)
      BY <3>1, AppendLines
    <3>3. QED
      BY <3>2 DEF Lines, Elements
  <2>9. DOMAIN Empty = {} /\ Empty \in [{} -> Nat]
    BY DEF Empty
  <2>10. /\ call'.of = call.of /\ call'.next = call.next + 1 /\ call'.got = Empty
         /\ call'.lines = Append(call.lines, ln) /\ call'.settled = call.settled
         /\ call' \in CallType({})
    <3> DEFINE longer == Append(call.lines, ln)
    <3>1. longer \in Seq(LineType)
      BY <2>8
    <3>2. call' = [call EXCEPT !.lines = longer, !.got = Empty, !.next = call.next + 1]
      BY <2>7
    <3> HIDE DEF longer
    <3>3. /\ call'.of = call.of /\ call'.next = call.next + 1 /\ call'.got = Empty
          /\ call'.lines = longer /\ call'.settled = call.settled
      BY <1>3, <3>2 DEF CallType
    <3>4. call.next + 1 \in Nat \ {0}
      BY <1>3
    <3>5. call' \in CallType({})
      BY <1>3, <2>9, <3>1, <3>2, <3>4 DEF CallType
    <3>6. QED
      BY <3>3, <3>5 DEF longer
  <2>11. Lines' = Lines \union {ln}
    BY <2>8, <2>10 DEF Lines
  <2>12. Reading'
    <3>1. SUFFICES ASSUME call.of = "since"
                   PROVE  /\ call'.next > since
                          /\ \A l \in Lines' : since < l.seq /\ l.seq < call'.next
                          /\ \E l \in Lines' : l.seq = call'.next - 1
                          /\ loads = 1 => \A n \in (since + 1)..(call'.next - 1) :
                                            n + Capacity <= written \/ \E l \in Lines' : l.seq = n
      BY <1>2, <2>10 DEF IndInv, Reading
    <3>2. /\ call.next > since
          /\ \A l \in Lines : since < l.seq /\ l.seq < call.next
          /\ loads = 1 => \A n \in (since + 1)..(call.next - 1) :
                            n + Capacity <= written \/ \E l \in Lines : l.seq = n
      BY <3>1 DEF IndInv, Reading
    <3>3. ln.seq = call.next /\ \A l \in Lines : l.seq \in Nat
      BY <2>6, <3>1, LinesTyped DEF IndInv, LineType
    <3>4. \A l \in Lines' : since < l.seq /\ l.seq < call'.next
      BY <1>3, <1>9, <2>10, <2>11, <3>2, <3>3
    <3>5. ln \in Lines' /\ ln.seq = call'.next - 1
      BY <1>3, <2>10, <2>11, <3>3
    <3>6. ASSUME loads = 1, NEW n \in (since + 1)..(call'.next - 1)
          PROVE  n + Capacity <= written \/ \E l \in Lines' : l.seq = n
      <4>1. n = call.next \/ n \in (since + 1)..(call.next - 1)
        BY <1>3, <1>9, <2>10, <3>6
      <4>2. CASE n = call.next
        BY <2>11, <3>3, <4>2
      <4>3. CASE n \in (since + 1)..(call.next - 1)
        BY <2>11, <3>2, <3>6, <4>3
      <4>4. QED
        BY <4>1, <4>2, <4>3
    <3>7. QED
      BY <1>3, <1>9, <2>10, <3>2, <3>4, <3>5, <3>6
  <2>13. Loading'
    BY <1>2, <1>10, <2>9, <2>10 DEF IndInv, Loading
  <2>14. CleanInv'
    BY <1>2, <2>6, <2>11 DEF IndInv, CleanInv, Clean
  <2>15. QED
    BY <1>2, <1>9, <1>11, <2>10, <2>12, <2>13, <2>14, OnlyReads
<1>14. QED
  BY <1>12, <1>13

\* The daemon goes on from the last line.
LEMMA NewSinceIs ==
  ASSUME IndInv, call.of = "since"
  PROVE  \/ call.lines = <<>> /\ NewSince = since /\ Lines = {}
         \/ call.lines # <<>> /\ NewSince = call.next - 1
<1>1. /\ call.next \in Nat /\ since \in Nat /\ Lines \subseteq LineType
  BY CallFields, LinesTyped DEF IndInv, TypeOK
<1>2. Seqs(call.lines) = {l.seq : l \in Lines} /\ Seqs(call.lines) \subseteq Nat
  BY <1>1 DEF Seqs, Lines, LineType
<1>3. CASE call.lines = <<>>
  <2>1. Lines = {}
    BY <1>3 DEF Lines
  <2>2. {since} \union Seqs(call.lines) = {since}
    BY <1>2, <2>1
  <2>3. MaxOf({since}) = since
    BY <1>1, MaxIs
  <2>4. QED
    BY <1>3, <2>1, <2>2, <2>3 DEF NewSince
<1>4. CASE call.lines # <<>>
  <2>1. /\ call.next > since /\ call.next - 1 \in Seqs(call.lines)
        /\ \A y \in Seqs(call.lines) : y < call.next
    BY <1>2, <1>4 DEF IndInv, Reading
  <2> DEFINE S == {since} \union Seqs(call.lines)
  <2>2. S \in SUBSET Nat /\ call.next - 1 \in S /\ \A y \in S : y <= call.next - 1
    <3>1. S \in SUBSET Nat /\ call.next - 1 \in S
      BY <1>1, <1>2, <2>1
    <3>2. ASSUME NEW y \in S
          PROVE  y <= call.next - 1
      <4>1. CASE y = since
        BY <1>1, <2>1, <4>1
      <4>2. CASE y \in Seqs(call.lines)
        <5>1. y \in Nat /\ y < call.next
          BY <1>2, <2>1, <4>2
        <5>2. QED
          BY <1>1, <5>1
      <4>3. QED
        BY <3>2, <4>1, <4>2
    <3>3. QED
      BY <3>1, <3>2
  <2> HIDE DEF S
  <2>3. MaxOf(S) = call.next - 1
    BY <2>2, MaxIs
  <2>4. QED
    BY <1>4, <2>3 DEF NewSince, S
<1>5. QED
  BY <1>3, <1>4

LEMMA ReturnStep ==
  ASSUME IndInv, Return, UNCHANGED setting
  PROVE  IndInv'
<1>1. /\ UNCHANGED <<setting, hooked, stage, loads, ringVars>>
      /\ UNCHANGED <<setting, hooked, stage, loads, written, ring, noting, lapped>>
      /\ call' = NoCall /\ call.of # "none"
  BY DEF Return, ringVars
<1>2. /\ since \in Nat /\ call.next \in Nat \ {0} /\ Lines \subseteq LineType
      /\ taken \subseteq LineType
  BY CallFields, LinesTyped DEF IndInv, TypeOK
<1>3. call'.of = "none" /\ Lines' = {}
  BY <1>1 DEF NoCall, Lines
<1>4. \E loaded \in SUBSET Fields : call' \in CallType(loaded)
  <2>1. Empty \in [{} -> Nat] /\ <<>> \in Seq(LineType) /\ 1 \in Nat \ {0} /\ 0 \in Nat
    BY DEF Empty
  <2>2. NoCall \in CallType({})
    BY <2>1 DEF NoCall, CallType
  <2>3. QED
    BY <1>1, <2>2
<1>5. \/ UNCHANGED <<since, taken>>
      \/ call.of = "since" /\ since' = NewSince /\ taken' = taken \union Lines
  BY DEF Return, Lines
<1>6. Loading'
  BY <1>3 DEF Loading
<1>7. CleanInv'
  BY <1>3, <1>5 DEF IndInv, CleanInv, Clean
<1>8. CASE UNCHANGED <<since, taken>>
  <2>1. Reading' /\ NothingSkipped'
    BY <1>1, <1>3, <1>8 DEF IndInv, Reading, NothingSkipped
  <2>2. QED
    BY <1>1, <1>2, <1>3, <1>4, <1>6, <1>7, <1>8, <2>1, OnlyReads
<1>9. CASE call.of = "since" /\ since' = NewSince /\ taken' = taken \union Lines
  <2>1. /\ call.next > since
        /\ \A l \in Lines : since < l.seq /\ l.seq < call.next
        /\ loads = 1 => \A n \in (since + 1)..(call.next - 1) :
                          n + Capacity <= written \/ \E l \in Lines : l.seq = n
        /\ \A l \in taken : l.seq <= since
        /\ loads # 0
        /\ loads = 1 => \A n \in 1..since : n + Capacity <= written \/ \E l \in taken : l.seq = n
    BY <1>1, <1>9 DEF IndInv, Reading, NothingSkipped, Hooking
  <2>2. \/ since' = since /\ Lines = {}
        \/ since' = call.next - 1
    BY <1>9, NewSinceIs
  <2>3. since' \in Nat /\ since <= since' /\ since' <= call.next - 1
    BY <1>2, <2>1, <2>2
  <2>4. taken' \subseteq LineType
    BY <1>2, <1>9
  <2>5. \A l \in taken' : l.seq <= since'
    <3>1. \A l \in taken' : l.seq \in Nat
      BY <2>4 DEF LineType
    <3>2. \A l \in taken : l.seq <= since'
      BY <1>2, <1>9, <2>1, <2>3, <3>1
    <3>3. \A l \in Lines : l.seq <= since'
      BY <1>2, <1>9, <2>1, <2>2, <3>1
    <3>4. QED
      BY <1>9, <3>2, <3>3
  <2>6. Reading'
    BY <1>1, <1>3, <2>1, <2>5 DEF Reading
  <2>7. NothingSkipped'
    <3>1. \A n \in 1..since' : n \in 1..since \/ n \in (since + 1)..(call.next - 1)
      BY <1>2, <2>3
    <3>2. loads = 1 => \A n \in 1..since' : n + Capacity <= written \/ \E l \in taken' : l.seq = n
      BY <1>9, <2>1, <3>1
    <3>3. QED
      BY <1>1, <3>2 DEF NothingSkipped
  <2>8. QED
    BY <1>1, <1>3, <1>4, <1>6, <1>7, <2>3, <2>4, <2>6, <2>7, OnlyReads
<1>10. QED
  BY <1>5, <1>8, <1>9

(***************************************************************************)
(* The specification.                                                      *)
(***************************************************************************)

LEMMA InitInv ==
  ASSUME Init
  PROVE  IndInv
<1>1. /\ setting \in Settings /\ hooked = {} /\ stage = "out" /\ loads = 0 /\ written = 0
      /\ ring = EmptyRing /\ noting = [t \in Tasks |-> NotNoting] /\ lapped = {}
      /\ since = 0 /\ call = NoCall /\ taken = {}
  BY DEF Init
<1>2. call.of = "none" /\ Lines = {}
  BY <1>1 DEF NoCall, Lines
<1>3. TypeOK
  <2>1. Empty \in [{} -> Nat] /\ <<>> \in Seq(LineType) /\ 1 \in Nat \ {0} /\ 0 \in Nat
    BY DEF Empty
  <2>2. NoCall \in CallType({})
    BY <2>1 DEF NoCall, CallType
  <2>3. \E loaded \in SUBSET Fields : call \in CallType(loaded)
    BY <1>1, <2>2
  <2>4. ring \in [Slots -> [Fields -> Nat]]
    BY <1>1 DEF EmptyRing
  <2>5. noting \in [Tasks -> NotingType]
    BY <1>1, NotNotingTyped
  <2>6. QED
    BY <1>1, <2>3, <2>4, <2>5 DEF TypeOK, NotingType
<1>4. Hooking /\ Reading /\ NothingSkipped
  BY <1>1, <1>2 DEF Hooking, Reading, NothingSkipped
<1>5. Recorded /\ Loading /\ CleanInv
  BY <1>1, <1>2 DEF Recorded, InRing, Loading, CleanInv
<1>6. QED
  BY <1>3, <1>4, <1>5 DEF IndInv

LEMMA NextInv ==
  ASSUME IndInv, [Next]_<<vars, setting>>
  PROVE  IndInv'
<1>1. CASE UNCHANGED <<vars, setting>>
  <2>1. UNCHANGED <<setting, hooked, stage, loads, ringVars, since, taken, call>>
    BY <1>1 DEF vars, ringVars
  <2>2. TypeOK' /\ Hooking'
    BY <2>1 DEF IndInv, TypeOK, Hooking, ringVars
  <2>3. Reading' /\ NothingSkipped'
    BY <2>1 DEF IndInv, Reading, NothingSkipped, Lines, ringVars
  <2>4. QED
    BY <2>1, <2>2, <2>3, RecordsKept, LinesKept DEF IndInv, ringVars
<1>2. CASE (BeginLoad \/ HookNext \/ BeginUnload \/ UnhookNext) /\ UNCHANGED setting
  BY <1>2, BeginLoadStep, HookStep
<1>3. CASE (\E t \in Tasks : Claim(t) \/ Store(t)) /\ UNCHANGED setting
  BY <1>3, ClaimStep, StoreStep
<1>4. CASE (BeginSince \/ BeginRead \/ LoadField \/ Return) /\ UNCHANGED setting
  BY <1>4, BeginStep, LoadStep, ReturnStep
<1>5. QED
  BY <1>1, <1>2, <1>3, <1>4 DEF Next

\* What is hooked, what the slots and their writers hold and what the daemon has gone
\* past belong together (IndInv), at every interleaving of writers and readers.
THEOREM Invariance == Spec => []IndInv
<1>1. QED
  BY InitInv, NextInv, PTL DEF Spec

\* The ring, the tasks that write into it and the call that reads it stay of the types of
\* znn.c, also while the module is loaded and unloaded.
THEOREM TypeCorrect == Spec => []TypeOK
<1>1. IndInv => TypeOK
  BY DEF IndInv
<1>2. QED
  BY <1>1, Invariance, PTL

\* The hooks are set and taken away in an order in which prctl is never hooked alone
\* (znn_init, znn_exit).
THEOREM ObservedWhenAsked == Spec => []ChannelObserves
<1>1. IndInv => ChannelObserves
  BY DEF IndInv, TypeOK, Hooking, ChannelObserves, Execs
<1>2. QED
  BY <1>1, Invariance, PTL

\* A number is read once, whatever fits into the buffer (znn_channel_write_records and
\* the since_seq of the daemon).
THEOREM EachNumberOnce == Spec => []ReadOnce
<1>1. ASSUME IndInv
      PROVE  ReadOnce
  <2>1. SUFFICES ASSUME call.of = "since", NEW i \in DOMAIN call.lines, NEW l \in taken
                 PROVE  call.lines[i].seq # l.seq
    BY DEF ReadOnce
  <2>2. call.lines[i] \in Lines
    BY DEF Lines
  <2>3. since < call.lines[i].seq /\ l.seq <= since
    BY <1>1, <2>1, <2>2 DEF IndInv, Reading
  <2>4. since \in Nat /\ call.lines[i].seq \in Nat /\ l.seq \in Nat
    BY <1>1, <2>2, LinesTyped DEF IndInv, TypeOK, LineType
  <2>5. QED
    BY <2>3, <2>4
<1>2. QED
  BY <1>1, Invariance, PTL

\* What the daemon has gone past it has read, or the ring was full of newer ones.
THEOREM NothingIsSkipped == Spec => []NothingSkipped
<1>1. IndInv => NothingSkipped
  BY DEF IndInv
<1>2. QED
  BY <1>1, Invariance, PTL

\* A line of a record that nobody has touched since the call began tells one execution,
\* although neither writers nor readers hold a lock.
THEOREM UntouchedLinesAreTrue == Spec => []CleanLinesAreTrue
<1>1. IndInv => CleanLinesAreTrue
  BY DEF IndInv, CleanInv, Clean, Lines, CleanLinesAreTrue
<1>2. QED
  BY <1>1, Invariance, PTL

=============================================================================
