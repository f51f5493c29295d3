------------------------- MODULE LoaderRuntimeProofs ------------------------
(***************************************************************************)
(* Proofs about LoaderRuntime, and about what it is built from: a boot plan   *)
(* arrives as it was written (BootPlan), what is parsed of a file is what it   *)
(* defines (ElfSymbols), the base of a library is found although its file is    *)
(* mapped as well (MemoryMaps).  No theorem of the libraries tells what         *)
(* FlattenSeq and the other folds compute, so the first part proves it, by      *)
(* induction over the least number for which it would fail.                   *)
(***************************************************************************)
EXTENDS LoaderRuntime, SequenceTheorems, WellFoundedInduction, TLAPS

(***************************************************************************)
(* Sequences that are joined.                                              *)
(***************************************************************************)

(* Numbers are well founded: a set of them has a least one.                  *)
LEMMA LeastNumber ==
  ASSUME NEW S \in SUBSET Nat, S # {}
  PROVE  \E n \in S : \A m \in S : n =< m
<1> DEFINE R == OpToRel(<, Nat)
<1>1. \A x, y \in Nat : <<y, x>> \in R <=> y < x
  BY DEF OpToRel
<1>2. IsWellFoundedOn(R, Nat)
  BY NatLessThanWellFounded, Zenon
<1> HIDE DEF R
<1>3. PICK x \in S : \A y \in S : ~(<<y, x>> \in R)
  BY <1>2, WFMin
<1>4. \A y \in S : ~(y < x)
  BY <1>1, <1>3
<1>5. QED
  BY <1>4

(* Induction, over the numbers that are in a set.                            *)
LEMMA InductionOver ==
  ASSUME NEW S, 0 \in S, \A n \in Nat : n \in S => n + 1 \in S
  PROVE  \A n \in Nat : n \in S
<1> DEFINE B == {n \in Nat : n \notin S}
<1> SUFFICES ASSUME B # {} PROVE FALSE
  OBVIOUS
<1>1. B \in SUBSET Nat
  OBVIOUS
<1> HIDE DEF B
<1>2. PICK n \in B : \A m \in B : n =< m
  BY <1>1, LeastNumber
<1>3. n \in Nat /\ n # 0 /\ n \notin S
  BY <1>2 DEF B
<1>4. n - 1 \in Nat /\ ~(n =< n - 1)
  BY <1>3
<1>5. n - 1 \in S
  BY <1>2, <1>4 DEF B
<1>6. QED
  BY <1>3, <1>4, <1>5

(* A sequence that was joined from two.                                      *)
LEMMA PlacesOfTwo ==
  ASSUME NEW S, NEW a \in Seq(S), NEW b \in Seq(S)
  PROVE  /\ a \o b \in Seq(S) /\ Len(a \o b) = Len(a) + Len(b)
         /\ \A i \in 1..Len(a) : (a \o b)[i] = a[i]
         /\ \A i \in 1..Len(b) : (a \o b)[Len(a) + i] = b[i]
OBVIOUS

(* Its elements.                                                             *)
LEMMA JoinedTwo ==
  ASSUME NEW S, NEW a \in Seq(S), NEW b \in Seq(S)
  PROVE  /\ ToSet(a \o b) = ToSet(a) \cup ToSet(b)
         /\ a \o b \in Seq(S)
<1>1. /\ a \o b \in Seq(S) /\ Len(a \o b) = Len(a) + Len(b)
      /\ \A i \in 1..Len(a) : (a \o b)[i] = a[i]
      /\ \A i \in 1..Len(b) : (a \o b)[Len(a) + i] = b[i]
  BY PlacesOfTwo
<1>2. ASSUME NEW i \in 1..(Len(a) + Len(b))
      PROVE  (a \o b)[i] \in ToSet(a) \cup ToSet(b)
  <2>1. CASE i =< Len(a)
    BY <1>1, <2>1 DEF ToSet
  <2>2. CASE i > Len(a)
    <3>1. i - Len(a) \in 1..Len(b) /\ i = Len(a) + (i - Len(a))
      BY <2>2
    <3>2. QED
      BY <1>1, <3>1 DEF ToSet
  <2>3. QED
    BY <2>1, <2>2
<1>3. \A i \in 1..Len(a) : a[i] \in ToSet(a \o b)
  BY <1>1, SMTT(30) DEF ToSet
<1>4. \A i \in 1..Len(b) : b[i] \in ToSet(a \o b)
  BY <1>1, SMTT(30) DEF ToSet
<1>5. ToSet(a \o b) \subseteq ToSet(a) \cup ToSet(b)
  BY <1>1, <1>2 DEF ToSet
<1>6. ToSet(a) \subseteq ToSet(a \o b) /\ ToSet(b) \subseteq ToSet(a \o b)
  <2>1. ToSet(a) = {a[i] : i \in 1..Len(a)} /\ ToSet(b) = {b[i] : i \in 1..Len(b)}
    BY DEF ToSet
  <2>2. QED
    BY <1>3, <1>4, <2>1
<1>7. QED
  BY <1>1, <1>5, <1>6

(* f[k] is what the first k sequences of s join to.                          *)
Joins(s, f) ==
  /\ f[0] = <<>>
  /\ \A i \in 1..Len(s) : f[i] = f[i - 1] \o s[i]

(* The recursion of FlattenSeq, up to n.                                     *)
Flattens(s, n, f) ==
  f = [i \in 1..n |-> IF i = 1 THEN s[i] ELSE f[i - 1] \o s[i]]

(* There is such a function.                                                 *)
LEMMA FlattensExists ==
  ASSUME NEW S, NEW s \in Seq(Seq(S)), NEW n \in Nat
  PROVE  \E f : Flattens(s, n, f)
<1> DEFINE E == {k \in Nat : \E f : Flattens(s, k, f)}
<1>1. 0 \in E
  <2>1. Flattens(s, 0, [i \in 1..0 |-> <<>>])
    BY DEF Flattens
  <2>2. QED
    BY <2>1
<1>2. ASSUME NEW k \in Nat, k \in E
      PROVE  k + 1 \in E
  <2>1. PICK f : Flattens(s, k, f)
    BY <1>2
  <2> DEFINE g == [i \in 1..(k + 1) |->
                     IF i = k + 1 THEN IF i = 1 THEN s[i] ELSE f[i - 1] \o s[i] ELSE f[i]]
  <2>2. \A i \in 1..k : f[i] = IF i = 1 THEN s[i] ELSE f[i - 1] \o s[i]
    BY <2>1 DEF Flattens
  <2>9. \A i \in 1..k : g[i] = f[i]
    OBVIOUS
  <2>3. g[k + 1] = IF k + 1 = 1 THEN s[k + 1] ELSE g[k] \o s[k + 1]
    OBVIOUS
  <2>4. \A i \in 1..k : i # 1 => i - 1 \in 1..k
    OBVIOUS
  <2>5. \A i \in 1..(k + 1) : g[i] = IF i = 1 THEN s[i] ELSE g[i - 1] \o s[i]
    <3> SUFFICES ASSUME NEW i \in 1..(k + 1)
                 PROVE  g[i] = IF i = 1 THEN s[i] ELSE g[i - 1] \o s[i]
      OBVIOUS
    <3> HIDE DEF g
    <3>1. CASE i \in 1..k
      BY <2>2, <2>9, <2>4, <3>1
    <3>2. CASE i = k + 1
      <4>1. i - 1 = k
        BY <3>2
      <4>2. QED
        BY <2>3, <3>2, <4>1
    <3>3. QED
      BY <3>1, <3>2
  <2>6. g = [i \in 1..(k + 1) |-> g[i]]
    OBVIOUS
  <2> HIDE DEF g
  <2>7. Flattens(s, k + 1, g)
    BY <2>5, <2>6 DEF Flattens
  <2>8. QED
    BY <2>7
<1> HIDE DEF E
<1>3. \A k \in Nat : k \in E
  BY <1>1, <1>2, InductionOver
<1>4. QED
  BY <1>3 DEF E

(* What FlattenSeq computes.                                                 *)
LEMMA FlattenJoins ==
  ASSUME NEW S, NEW s \in Seq(Seq(S))
  PROVE  \E f \in [0..Len(s) -> Seq(S)] : Joins(s, f) /\ FlattenSeq(s) = f[Len(s)]
<1>1. CASE Len(s) = 0
  <2> DEFINE f == [i \in 0..0 |-> <<>>]
  <2>1. f \in [0..Len(s) -> Seq(S)] /\ Joins(s, f) /\ f[Len(s)] = <<>>
    BY <1>1 DEF Joins
  <2>2. s = <<>> /\ FlattenSeq(s) = s
    BY <1>1 DEF FlattenSeq
  <2>3. QED
    BY <2>1, <2>2
<1>2. CASE Len(s) # 0
  <2> DEFINE h == CHOOSE f : Flattens(s, Len(s), f)
             f == [i \in 0..Len(s) |-> IF i = 0 THEN <<>> ELSE h[i]]
             E == {i \in Nat : i \in 0..Len(s) => f[i] \in Seq(S)}
  <2>1. Flattens(s, Len(s), h)
    BY FlattensExists
  <2>2. FlattenSeq(s) = h[Len(s)]
    BY <1>2 DEF FlattenSeq, Flattens
  <2> HIDE DEF h
  <2>3. \A i \in 1..Len(s) : h[i] = IF i = 1 THEN s[i] ELSE h[i - 1] \o s[i]
    BY <2>1 DEF Flattens
  <2>4. \A i \in 1..Len(s) : f[i] = f[i - 1] \o s[i]
    <3> SUFFICES ASSUME NEW i \in 1..Len(s) PROVE f[i] = f[i - 1] \o s[i]
      OBVIOUS
    <3>1. s[i] \in Seq(S) /\ <<>> \o s[i] = s[i]
      OBVIOUS
    <3>2. f[i] = h[i] /\ (i # 1 => f[i - 1] = h[i - 1]) /\ f[0] = <<>>
      OBVIOUS
    <3> HIDE DEF f
    <3>3. CASE i = 1
      <4>1. i - 1 = 0 /\ f[i] = s[i]
        BY <2>3, <3>2, <3>3
      <4>2. QED
        BY <3>1, <3>2, <4>1
    <3>4. CASE i # 1
      BY <2>3, <3>2, <3>4
    <3>5. QED
      BY <3>3, <3>4
  <2>5. f = [i \in 0..Len(s) |-> f[i]] /\ f[0] = <<>> /\ FlattenSeq(s) = f[Len(s)]
    BY <1>2, <2>2
  <2> HIDE DEF f
  <2>6. 0 \in E
    BY <2>5
  <2>7. ASSUME NEW n \in Nat, n \in E
        PROVE  n + 1 \in E
    <3> SUFFICES ASSUME n + 1 \in 0..Len(s) PROVE f[n + 1] \in Seq(S)
      OBVIOUS
    <3>1. n \in 0..Len(s) /\ n + 1 \in 1..Len(s) /\ (n + 1) - 1 = n
      OBVIOUS
    <3>2. f[n] \in Seq(S) /\ s[n + 1] \in Seq(S)
      BY <2>7, <3>1
    <3>3. f[n + 1] = f[n] \o s[n + 1]
      BY <2>4, <3>1
    <3>4. QED
      BY <3>2, <3>3
  <2>8. \A n \in Nat : n \in E
    <3> HIDE DEF E
    <3>1. QED
      BY <2>6, <2>7, InductionOver
  <2>11. \A i \in 0..Len(s) : f[i] \in Seq(S)
    BY <2>8
  <2>9. f \in [0..Len(s) -> Seq(S)]
    BY <2>5, <2>11
  <2>10. QED
    BY <2>4, <2>5, <2>9 DEF Joins
<1>3. QED
  BY <1>1, <1>2

(* Two that begin alike join alike.                                          *)
Alike(s, r, k) == \A i \in 1..k : i \in 1..Len(s) /\ i \in 1..Len(r) /\ s[i] = r[i]

(* What two sequences join to, as far as they are alike.                     *)
LEMMA JoinsAgree ==
  ASSUME NEW s, NEW r, NEW f, NEW g, Joins(s, f), Joins(r, g), NEW k \in Nat, Alike(s, r, k)
  PROVE  f[k] = g[k]
<1> DEFINE E == {i \in Nat : i =< k => f[i] = g[i]}
<1>1. 0 \in E
  BY DEF Joins
<1>2. ASSUME NEW n \in Nat, n \in E
      PROVE  n + 1 \in E
  <2> SUFFICES ASSUME n + 1 =< k PROVE f[n + 1] = g[n + 1]
    OBVIOUS
  <2>1. n + 1 \in 1..k /\ (n + 1) - 1 = n /\ f[n] = g[n]
    BY <1>2
  <2>2. QED
    BY <2>1 DEF Joins, Alike
<1> HIDE DEF E
<1>3. k \in E
  BY <1>1, <1>2, InductionOver
<1>4. QED
  BY <1>3 DEF E

(* What is joined has the elements of all the parts, and no other.            *)
LEMMA FlattenElements ==
  ASSUME NEW S, NEW s \in Seq(Seq(S))
  PROVE  /\ FlattenSeq(s) \in Seq(S)
         /\ ToSet(FlattenSeq(s)) = UNION {ToSet(s[i]) : i \in 1..Len(s)}
<1>1. PICK f \in [0..Len(s) -> Seq(S)] : Joins(s, f) /\ FlattenSeq(s) = f[Len(s)]
  BY FlattenJoins
<1> DEFINE E == {k \in Nat : k =< Len(s) => ToSet(f[k]) = UNION {ToSet(s[i]) : i \in 1..k}}
<1>2. 0 \in E
  BY <1>1 DEF Joins, ToSet
<1>3. ASSUME NEW k \in Nat, k \in E
      PROVE  k + 1 \in E
  <2> SUFFICES ASSUME k + 1 =< Len(s)
               PROVE  ToSet(f[k + 1]) = UNION {ToSet(s[i]) : i \in 1..(k + 1)}
    OBVIOUS
  <2>1. k + 1 \in 1..Len(s) /\ (k + 1) - 1 = k /\ k \in 0..Len(s)
    OBVIOUS
  <2>2. f[k] \in Seq(S) /\ s[k + 1] \in Seq(S)
    <3>1. f[k] \in Seq(S)
      BY <1>1, <2>1
    <3>2. s[k + 1] \in Seq(S)
      BY <2>1
    <3>3. QED
      BY <3>1, <3>2
  <2>7. f[k + 1] = f[k] \o s[k + 1]
    BY <1>1, <2>1 DEF Joins
  <2>3. ToSet(f[k + 1]) = ToSet(f[k]) \cup ToSet(s[k + 1])
    BY <2>2, <2>7, JoinedTwo
  <2>4. ToSet(f[k]) = UNION {ToSet(s[i]) : i \in 1..k}
    BY <1>3, <2>1
  <2>5. \A i : i \in 1..(k + 1) <=> i \in 1..k \/ i = k + 1
    OBVIOUS
  <2>6. QED
    BY <2>3, <2>4, <2>5
<1>4. \A k \in Nat : k \in E
  <2> HIDE DEF E
  <2>1. QED
    BY <1>2, <1>3, InductionOver
<1>5. Len(s) \in Nat /\ f[Len(s)] \in Seq(S)
  OBVIOUS
<1> HIDE DEF E
<1>8. Len(s) \in E
  BY <1>4, <1>5
<1>6. ToSet(f[Len(s)]) = UNION {ToSet(s[i]) : i \in 1..Len(s)}
  BY <1>8, <1>5 DEF E
<1>7. QED
  BY <1>1, <1>5, <1>6

(***************************************************************************)
(* The symbols of a file.                                                  *)
(***************************************************************************)

(* A sequence is one over the set of its elements, and over any that holds   *)
(* them.                                                                     *)
LEMMA SeqOfElements ==
  ASSUME NEW S, NEW s \in Seq(S)
  PROVE  IsSeq(s) /\ \A T : ToSet(s) \subseteq T => s \in Seq(T)
<1>1. Len(s) \in Nat /\ s \in [1..Len(s) -> S] /\ ToSet(s) = {s[i] : i \in 1..Len(s)}
  BY DEF ToSet
<1>2. ASSUME NEW T, ToSet(s) \subseteq T
      PROVE  s \in Seq(T)
  <2>1. s \in [1..Len(s) -> T]
    BY <1>1, <1>2
  <2>2. QED
    BY <1>1, <2>1
<1>3. QED
  BY <1>2 DEF IsSeq

(* The empty sequence has no elements.                                       *)
LEMMA EmptySequence == IsSeq(<<>>) /\ ToSet(<<>>) = {}
BY DEF IsSeq, ToSet

(* A symbol as it is listed, where the file is loaded with a bias.           *)
Entry(s, bias) == [name |-> s.name, addr |-> bias + s.value]
Listed(s) == s.defined /\ s.name # <<>>

(* parseSymbols takes what is defined and has a name.                        *)
LEMMA ParsedSymbols ==
  ASSUME NEW syms, IsSeq(syms), NEW bias
  PROVE  /\ IsSeq(parseSymbols(syms, bias))
         /\ ToSet(parseSymbols(syms, bias)) = {Entry(s, bias) : s \in {x \in ToSet(syms) : Listed(x)}}
<1> DEFINE S == {Entry(s, bias) : s \in ToSet(syms)}
           parts == [i \in DOMAIN syms |-> IF Listed(syms[i]) THEN <<Entry(syms[i], bias)>> ELSE <<>>]
<1>1. Len(syms) \in Nat /\ DOMAIN syms = 1..Len(syms) /\ ToSet(syms) = {syms[i] : i \in 1..Len(syms)}
  BY DEF IsSeq, ToSet
<1>2. parseSymbols(syms, bias) = FlattenSeq(parts)
  BY DEF parseSymbols, Listed, Entry
<1>3. \A i \in 1..Len(syms) : Entry(syms[i], bias) \in S
  BY <1>1
<1> HIDE DEF S
<1>4. \A i \in 1..Len(syms) : parts[i] \in Seq(S)
  BY <1>1, <1>3
<1>5. parts \in Seq(Seq(S)) /\ Len(parts) = Len(syms)
  BY <1>1, <1>4
<1>6. \A i \in 1..Len(syms) : ToSet(parts[i]) = IF Listed(syms[i]) THEN {Entry(syms[i], bias)} ELSE {}
  BY <1>1 DEF ToSet
<1> HIDE DEF parts
<1>7. /\ FlattenSeq(parts) \in Seq(S)
      /\ ToSet(FlattenSeq(parts)) = UNION {ToSet(parts[i]) : i \in 1..Len(syms)}
  BY <1>5, FlattenElements
<1>8. UNION {ToSet(parts[i]) : i \in 1..Len(syms)}
        = {Entry(s, bias) : s \in {x \in ToSet(syms) : Listed(x)}}
  <2>1. ASSUME NEW e, NEW i \in 1..Len(syms), e \in ToSet(parts[i])
        PROVE  e \in {Entry(s, bias) : s \in {x \in ToSet(syms) : Listed(x)}}
    BY <1>1, <1>6, <2>1
  <2>2. ASSUME NEW s \in ToSet(syms), Listed(s)
        PROVE  \E i \in 1..Len(syms) : Entry(s, bias) \in ToSet(parts[i])
    BY <1>1, <1>6, <2>2
  <2>3. QED
    BY <2>1, <2>2
<1>9. QED
  BY <1>2, <1>7, <1>8, SeqOfElements

(* TableSymbols takes what the sections of these kinds describe.             *)
LEMMA TabledSymbols ==
  ASSUME NEW sections, HasTables(sections), NEW kinds, kinds \subseteq {"symtab", "dynsym"}, NEW bias
  PROVE  /\ IsSeq(TableSymbols(sections, kinds, bias))
         /\ ToSet(TableSymbols(sections, kinds, bias)) = {Entry(s, bias) : s \in Described(sections, kinds)}
<1> DEFINE Table(i) == sections[i].kind \in kinds /\ sections[i].sound
           parts == [i \in DOMAIN sections |->
                       IF Table(i) THEN parseSymbols(sections[i].syms, bias) ELSE <<>>]
           S == UNION {ToSet(parts[i]) : i \in 1..Len(sections)}
<1>1. /\ Len(sections) \in Nat /\ DOMAIN sections = 1..Len(sections)
      /\ ToSet(sections) = {sections[i] : i \in 1..Len(sections)}
  BY DEF HasTables, IsSeq, ToSet
<1>2. TableSymbols(sections, kinds, bias) = FlattenSeq(parts)
  BY DEF TableSymbols
<1>3. ASSUME NEW i \in 1..Len(sections)
      PROVE  /\ IsSeq(parts[i])
             /\ ToSet(parts[i]) = IF Table(i)
                  THEN {Entry(s, bias) : s \in {x \in ToSet(sections[i].syms) : Listed(x)}} ELSE {}
  <2>1. CASE Table(i)
    <3>1. IsSeq(sections[i].syms)
      BY <1>1, <2>1 DEF HasTables
    <3>2. QED
      BY <1>1, <2>1, <3>1, ParsedSymbols
  <2>2. CASE ~Table(i)
    BY <1>1, <2>2 DEF IsSeq, ToSet
  <2> HIDE DEF Table, parts
  <2>3. QED
    BY <2>1, <2>2
<1>4. \A i \in 1..Len(sections) : parts[i] \in Seq(S)
  <2> SUFFICES ASSUME NEW i \in 1..Len(sections) PROVE parts[i] \in Seq(S)
    OBVIOUS
  <2>1. ToSet(parts[i]) \subseteq S
    OBVIOUS
  <2> HIDE DEF S, parts
  <2>2. QED
    BY <1>3, <2>1, SeqOfElements DEF IsSeq
<1>5. parts = [i \in 1..Len(sections) |-> parts[i]]
  BY <1>1
<1> HIDE DEF parts
<1>6. parts \in Seq(Seq(S)) /\ Len(parts) = Len(sections)
  <2> HIDE DEF S
  <2>1. QED
    BY <1>1, <1>4, <1>5
<1>7. FlattenSeq(parts) \in Seq(S) /\ ToSet(FlattenSeq(parts)) = S
  BY <1>6, FlattenElements
<1>8. S = {Entry(s, bias) : s \in Described(sections, kinds)}
  <2>1. ASSUME NEW i \in 1..Len(sections), NEW e \in ToSet(parts[i])
        PROVE  \E s \in Described(sections, kinds) : e = Entry(s, bias)
    <3>1. Table(i) /\ \E s \in ToSet(sections[i].syms) : Listed(s) /\ e = Entry(s, bias)
      BY <1>3
    <3>2. sections[i] \in ToSet(sections)
      BY <1>1
    <3>3. QED
      BY <3>1, <3>2 DEF Described, Listed
  <2>2. ASSUME NEW s \in Described(sections, kinds)
        PROVE  \E i \in 1..Len(sections) : Entry(s, bias) \in ToSet(parts[i])
    <3>1. PICK sh \in ToSet(sections) : sh.kind \in kinds /\ sh.sound /\ s \in ToSet(sh.syms)
      BY DEF Described
    <3>2. Listed(s)
      BY DEF Described, Listed
    <3>3. PICK i \in 1..Len(sections) : sh = sections[i]
      BY <1>1
    <3>4. QED
      BY <1>3, <3>1, <3>2, <3>3
  <2>3. S \subseteq {Entry(s, bias) : s \in Described(sections, kinds)}
    BY <2>1
  <2>4. {Entry(s, bias) : s \in Described(sections, kinds)} \subseteq S
    BY <2>2
  <2>5. QED
    BY <2>3, <2>4
<1>9. QED
  BY <1>2, <1>7, <1>8, SeqOfElements

(* Unique leaves out what comes again, and nothing else.                     *)
LEMMA UniqueSymbols ==
  ASSUME NEW symbols, IsSeq(symbols)
  PROVE  /\ IsSeq(Unique(symbols))
         /\ ToSet(Unique(symbols)) = ToSet(symbols)
         /\ IsInjective(Unique(symbols))
<1> DEFINE S == ToSet(symbols)
           First(i) == \A j \in 1..(i - 1) : symbols[j] # symbols[i]
           parts == [i \in DOMAIN symbols |-> IF First(i) THEN <<symbols[i]>> ELSE <<>>]
<1>1. /\ Len(symbols) \in Nat /\ DOMAIN symbols = 1..Len(symbols)
      /\ S = {symbols[i] : i \in 1..Len(symbols)}
  BY DEF IsSeq, ToSet
<1>2. Unique(symbols) = FlattenSeq(parts)
  BY DEF Unique
<1> HIDE DEF S
<1>3. \A i \in 1..Len(symbols) : parts[i] = IF First(i) THEN <<symbols[i]>> ELSE <<>>
  BY <1>1
<1>14. \A i \in 1..Len(symbols) : symbols[i] \in S
  BY <1>1
<1>4. \A i \in 1..Len(symbols) : parts[i] \in Seq(S)
  <2> SUFFICES ASSUME NEW i \in 1..Len(symbols) PROVE parts[i] \in Seq(S)
    OBVIOUS
  <2>1. <<symbols[i]>> \in Seq(S) /\ <<>> \in Seq(S)
    BY <1>14
  <2>2. QED
    BY <1>3, <2>1
<1>5. parts = [i \in 1..Len(symbols) |-> parts[i]]
  BY <1>1
<1> HIDE DEF parts
<1>6. parts \in Seq(Seq(S)) /\ Len(parts) = Len(symbols)
  BY <1>1, <1>4, <1>5
<1>7. PICK f \in [0..Len(symbols) -> Seq(S)] : Joins(parts, f) /\ FlattenSeq(parts) = f[Len(symbols)]
  BY <1>6, FlattenJoins
<1> DEFINE E == {k \in Nat : k =< Len(symbols) =>
                   ToSet(f[k]) = {symbols[j] : j \in 1..k} /\ IsInjective(f[k])}
<1>8. 0 \in E
  BY <1>7 DEF Joins, ToSet, IsInjective
<1>9. ASSUME NEW k \in Nat, k \in E
      PROVE  k + 1 \in E
  <2> SUFFICES ASSUME k + 1 =< Len(symbols)
               PROVE  ToSet(f[k + 1]) = {symbols[j] : j \in 1..(k + 1)} /\ IsInjective(f[k + 1])
    OBVIOUS
  <2>1. k + 1 \in 1..Len(symbols) /\ (k + 1) - 1 = k /\ k \in 0..Len(symbols)
    OBVIOUS
  <2>2. f[k] \in Seq(S)
    BY <1>7, <2>1
  <2>3. f[k + 1] = f[k] \o parts[k + 1]
    BY <1>6, <1>7, <2>1 DEF Joins
  <2>4. ToSet(f[k]) = {symbols[j] : j \in 1..k} /\ IsInjective(f[k])
    BY <1>9, <2>1
  <2>5. \A j : j \in 1..(k + 1) <=> j \in 1..k \/ j = k + 1
    OBVIOUS
  <2>6. {symbols[j] : j \in 1..(k + 1)} = ToSet(f[k]) \cup {symbols[k + 1]}
    BY <2>4, <2>5
  <2>7. CASE First(k + 1)
    <3>1. symbols[k + 1] \notin ToSet(f[k])
      BY <2>1, <2>4, <2>7
    <3>2. symbols[k + 1] \in S
      BY <1>1, <2>1
    <3>12. f[k + 1] = f[k] \o <<symbols[k + 1]>>
      BY <1>3, <2>1, <2>3, <2>7
    <3>3. f[k + 1] = Append(f[k], symbols[k + 1])
      BY <2>2, <3>2, <3>12
    <3>4. ToSet(<<symbols[k + 1]>>) = {symbols[k + 1]} /\ <<symbols[k + 1]>> \in Seq(S)
      BY <3>2 DEF ToSet
    <3>5. ToSet(f[k + 1]) = ToSet(f[k]) \cup {symbols[k + 1]}
      <4>1. parts[k + 1] \in Seq(S) /\ ToSet(parts[k + 1]) = {symbols[k + 1]}
        BY <1>3, <1>4, <2>1, <2>7, <3>4
      <4>2. QED
        BY <2>2, <2>3, <4>1, JoinedTwo
    <3>6. /\ DOMAIN f[k + 1] = 1..(Len(f[k]) + 1) /\ DOMAIN f[k] = 1..Len(f[k])
          /\ \A a \in 1..Len(f[k]) : f[k + 1][a] = f[k][a]
          /\ f[k + 1][Len(f[k]) + 1] = symbols[k + 1]
      BY <2>2, <3>2, <3>3
    <3>7. \A a \in 1..Len(f[k]) : f[k][a] # symbols[k + 1]
      BY <3>1, <3>6 DEF ToSet
    <3>8. \A a, b \in 1..Len(f[k]) : f[k][a] = f[k][b] => a = b
      BY <2>4, <3>6 DEF IsInjective
    <3>9. \A a \in 1..(Len(f[k]) + 1) : a \in 1..Len(f[k]) \/ a = Len(f[k]) + 1
      BY <2>2
    <3>10. IsInjective(f[k + 1])
      BY <3>6, <3>7, <3>8, <3>9 DEF IsInjective
    <3>11. QED
      BY <2>6, <3>5, <3>10
  <2>8. CASE ~First(k + 1)
    <3>1. symbols[k + 1] \in ToSet(f[k])
      BY <2>1, <2>4, <2>8
    <3>2. f[k + 1] = f[k]
      <4>1. parts[k + 1] = <<>>
        BY <1>3, <2>1, <2>8
      <4>2. QED
        BY <2>2, <2>3, <4>1
    <3>3. QED
      BY <2>4, <2>6, <3>1, <3>2
  <2>9. QED
    BY <2>7, <2>8
<1> HIDE DEF E
<1>10. Len(symbols) \in E
  BY <1>1, <1>8, <1>9, InductionOver
<1>11. ToSet(FlattenSeq(parts)) = S /\ IsInjective(FlattenSeq(parts))
  BY <1>1, <1>7, <1>10 DEF E
<1>12. FlattenSeq(parts) \in Seq(S)
  BY <1>1, <1>7
<1>13. QED
  BY <1>2, <1>11, <1>12, SeqOfElements DEF S

(* The output grows until the stream fits, if it fits at all.                *)
LEMMA GrowsUntilItFits ==
  ASSUME NEW length \in Nat
  PROVE  FitsGrowing(length) <=> length =< MaxDecompressed
<1> DEFINE Capacities == InitialOutput..MaxDecompressed
           Twice(c) == Min({c * 2, MaxDecompressed})
           Fits(f) == f = [c \in Capacities |->
                             length =< c \/ (c < MaxDecompressed /\ f[Twice(c)])]
           fits == CHOOSE f : Fits(f)
           g == [c \in Capacities |-> length =< MaxDecompressed]
<1>1. MaxDecompressed \in Nat /\ MaxDecompressed >= 1
  BY ElfAssumption
<1>2. \A c \in Capacities : c \in Nat /\ c >= 1 /\ c =< MaxDecompressed
  BY <1>1 DEF InitialOutput
<1>3. ASSUME NEW c \in Capacities, c < MaxDecompressed
      PROVE  Twice(c) \in Capacities /\ Twice(c) > c
  <2>1. c * 2 \in Nat /\ c * 2 > c
    BY <1>2
  <2>2. \E x \in {c * 2, MaxDecompressed} : \A y \in {c * 2, MaxDecompressed} : x =< y
    BY <1>1, <2>1
  <2>3. Twice(c) \in {c * 2, MaxDecompressed} /\ Twice(c) =< MaxDecompressed
    BY <2>2 DEF Min
  <2>4. QED
    BY <1>1, <1>2, <1>3, <2>1, <2>3 DEF InitialOutput
<1> HIDE DEF Twice
<1>4. Fits(g)
  <2>1. ASSUME NEW c \in Capacities
        PROVE  (length =< MaxDecompressed)
                 = (length =< c \/ (c < MaxDecompressed /\ g[Twice(c)]))
    <3>1. CASE c < MaxDecompressed
      <4>1. g[Twice(c)] <=> length =< MaxDecompressed
        BY <1>3, <3>1
      <4>2. length =< c => length =< MaxDecompressed
        BY <1>1, <1>2, <3>1
      <4> HIDE DEF g
      <4>3. CASE length =< MaxDecompressed
        BY <3>1, <4>1, <4>3
      <4>4. CASE ~(length =< MaxDecompressed)
        BY <3>1, <4>1, <4>2, <4>4
      <4>5. QED
        BY <4>3, <4>4
    <3>2. CASE c = MaxDecompressed
      <4> HIDE DEF g
      <4>1. ~(c < MaxDecompressed)
        BY <1>1, <3>2
      <4>2. QED
        BY <3>2, <4>1
    <3>3. QED
      BY <1>1, <1>2, <3>1, <3>2
  <2>2. QED
    BY <2>1
<1>5. Fits(fits)
  <2> HIDE DEF Fits, g
  <2>1. QED
    BY <1>4
<1>6. FitsGrowing(length) = fits[InitialOutput]
  BY DEF FitsGrowing, Twice
<1> HIDE DEF fits, g
<1>7. \A c \in Capacities : fits[c] = (length =< c \/ (c < MaxDecompressed /\ fits[Twice(c)]))
  BY <1>5
<1> DEFINE Wrong == {n \in Nat : MaxDecompressed - n \in Capacities
                       /\ fits[MaxDecompressed - n] # (length =< MaxDecompressed)}
<1>8. Wrong = {}
  <2> SUFFICES ASSUME Wrong # {} PROVE FALSE
    OBVIOUS
  <2>1. Wrong \in SUBSET Nat
    OBVIOUS
  <2> HIDE DEF Wrong
  <2>2. PICK n \in Wrong : \A m \in Wrong : n =< m
    BY <2>1, LeastNumber
  <2> DEFINE c == MaxDecompressed - n
  <2>3. n \in Nat /\ c \in Capacities /\ fits[c] # (length =< MaxDecompressed)
    BY <2>2 DEF Wrong
  <2>4. CASE c < MaxDecompressed
    <3>1. Twice(c) \in Capacities /\ Twice(c) > c
      BY <1>3, <2>3, <2>4
    <3>2. /\ MaxDecompressed - Twice(c) \in Nat /\ MaxDecompressed - Twice(c) < n
          /\ MaxDecompressed - (MaxDecompressed - Twice(c)) = Twice(c)
      BY <1>1, <1>2, <2>3, <3>1
    <3>3. MaxDecompressed - Twice(c) \notin Wrong
      BY <2>2, <2>3, <3>2
    <3>4. fits[Twice(c)] <=> length =< MaxDecompressed
      BY <3>1, <3>2, <3>3 DEF Wrong
    <3>5. length =< c => length =< MaxDecompressed
      BY <1>1, <1>2, <2>3
    <3>6. fits[c] = (length =< c \/ (c < MaxDecompressed /\ fits[Twice(c)]))
      BY <1>7, <2>3
    <3> HIDE DEF c
    <3>7. CASE length =< MaxDecompressed
      BY <2>3, <2>4, <3>4, <3>6, <3>7
    <3>8. CASE ~(length =< MaxDecompressed)
      BY <2>3, <2>4, <3>4, <3>5, <3>6, <3>8
    <3>9. QED
      BY <3>7, <3>8
  <2>5. CASE c = MaxDecompressed
    BY <1>1, <1>7, <2>3, <2>5
  <2>6. QED
    BY <1>1, <1>2, <2>3, <2>4, <2>5
<1>9. MaxDecompressed - (MaxDecompressed - InitialOutput) = InitialOutput
      /\ MaxDecompressed - InitialOutput \in Nat /\ InitialOutput \in Capacities
  BY <1>1 DEF InitialOutput
<1>10. fits[InitialOutput] = (length =< MaxDecompressed)
  BY <1>8, <1>9
<1>11. QED
  BY <1>6, <1>10

(* Whichever decoder is tried first, what can be decompressed is.            *)
LEMMA DecompressesWhole ==
  ASSUME NEW sh, IsDebugData(sh), NEW b \in Backends
  PROVE  parseGnuDebugData(b, sh) <=>
           sh.stream.whole /\ sh.stream.elf /\ sh.stream.length =< MaxDecompressed
<1> DEFINE stream == sh.stream
<1>1. /\ stream.whole \in BOOLEAN /\ stream.elf \in BOOLEAN /\ sh.prefixed \in BOOLEAN
      /\ stream.format \in {"lzma", "xz"} /\ stream.length \in Nat
      /\ stream.declared \in {Unknown, stream.length}
  BY DEF IsDebugData, Backends
<1>2. FitsGrowing(stream.length) <=> stream.length =< MaxDecompressed
  BY <1>1, GrowsUntilItFits
<1> HIDE DEF stream
<1>3. lzmaAlone(stream) <=> stream.format = "lzma" /\ stream.whole /\ stream.length =< MaxDecompressed
  BY <1>1, <1>2 DEF lzmaAlone
<1>4. xzStream(stream) <=> stream.format = "xz" /\ stream.whole /\ stream.length =< MaxDecompressed
  BY <1>1, <1>2 DEF xzStream
<1>5. decompress(b, stream) <=> lzmaAlone(stream) \/ xzStream(stream)
  BY DEF decompress, tryBackend, Backends
<1>6. decompress(b, stream) <=> stream.whole /\ stream.length =< MaxDecompressed
  BY <1>1, <1>3, <1>4, <1>5
<1>7. parseGnuDebugData(b, sh) <=> decompress(b, stream) /\ stream.elf
  BY <1>1 DEF parseGnuDebugData, stream
<1>8. QED
  BY <1>6, <1>7 DEF stream

(* What is parsed of a file is what it defines, nothing twice, with any of   *)
(* the backends.                                                             *)
THEOREM SymbolsAreDefinitions ==
  ASSUME NEW file, WellFormed(file), NEW base, NEW b \in Backends
  PROVE  /\ IsSeq(Symbols(file, base, b)) /\ IsInjective(Symbols(file, base, b))
         /\ ToSet(Symbols(file, base, b)) = {Entry(s, Bias(file, base)) : s \in DefinedSymbols(file)}
<1> DEFINE bias == Bias(file, base)
           Readable(sh) == sh.kind = "debugdata" /\ sh.sound /\ sh.stream.whole /\ sh.stream.elf
                             /\ sh.stream.length =< MaxDecompressed
           debug == {i \in DOMAIN file.sections : LET sh == file.sections[i] IN
                       sh.kind = "debugdata" /\ sh.sound /\ parseGnuDebugData(b, sh)}
           own == TableSymbols(file.sections, {"symtab", "dynsym"}, bias)
           more == IF debug = {} THEN <<>>
                   ELSE TableSymbols(file.sections[Max(debug)].stream.sections, {"symtab"}, bias)
           inner == UNION {Described(sh.stream.sections, {"symtab"}) :
                             sh \in {x \in ToSet(file.sections) : Readable(x)}}
<1>1. Symbols(file, base, b) = Unique(own \o more)
  BY DEF Symbols
<1>2. /\ ToSet(file.sections) = {file.sections[i] : i \in DOMAIN file.sections}
      /\ DefinedSymbols(file) = Described(file.sections, {"symtab", "dynsym"}) \cup inner
  BY DEF ToSet, DefinedSymbols
<1>3. IsSeq(own) /\ ToSet(own) = {Entry(s, bias) : s \in Described(file.sections, {"symtab", "dynsym"})}
  <2>1. HasTables(file.sections) /\ {"symtab", "dynsym"} \subseteq {"symtab", "dynsym"}
    BY DEF WellFormed
  <2>2. QED
    BY <2>1, TabledSymbols
<1>4. \A i \in DOMAIN file.sections : i \in debug <=> Readable(file.sections[i])
  BY <1>2, DecompressesWhole DEF WellFormed
<1>5. \A i, j \in debug : i = j
  BY DEF WellFormed
<1>6. IsSeq(more) /\ ToSet(more) = {Entry(s, bias) : s \in inner}
  <2>1. CASE debug = {}
    <3>1. inner = {}
      BY <1>2, <1>4, <2>1
    <3>2. more = <<>>
      BY <2>1
    <3> HIDE DEF more, inner
    <3>3. QED
      BY <3>1, <3>2, EmptySequence
  <2>2. CASE debug # {}
    <3>1. PICK i \in DOMAIN file.sections : debug = {i}
      BY <1>5, <2>2
    <3>2. Max(debug) = i
      BY <3>1 DEF Max
    <3>3. IsDebugData(file.sections[i])
      BY <1>2, <3>1 DEF WellFormed
    <3>4. {x \in ToSet(file.sections) : Readable(x)} = {file.sections[i]}
      BY <1>2, <1>4, <3>1
    <3>5. inner = Described(file.sections[i].stream.sections, {"symtab"})
      BY <3>4
    <3>6. HasTables(file.sections[i].stream.sections)
      BY <3>3 DEF IsDebugData
    <3>7. more = TableSymbols(file.sections[i].stream.sections, {"symtab"}, bias)
      BY <2>2, <3>2
    <3>8. {"symtab"} \subseteq {"symtab", "dynsym"}
      OBVIOUS
    <3> HIDE DEF more, inner
    <3>9. QED
      BY <3>5, <3>6, <3>7, <3>8, TabledSymbols
  <2>3. QED
    BY <2>1, <2>2
<1> HIDE DEF own, more, inner, bias, debug
<1>7. IsSeq(own \o more) /\ ToSet(own \o more) = ToSet(own) \cup ToSet(more)
  <2> DEFINE S == ToSet(own) \cup ToSet(more)
  <2>1. own \in Seq(S) /\ more \in Seq(S)
    <3>1. ToSet(own) \subseteq S /\ ToSet(more) \subseteq S
      OBVIOUS
    <3> HIDE DEF S
    <3>2. QED
      BY <1>3, <1>6, <3>1, SeqOfElements DEF IsSeq
  <2> HIDE DEF S
  <2>2. own \o more \in Seq(S) /\ ToSet(own \o more) = ToSet(own) \cup ToSet(more)
    BY <2>1, JoinedTwo
  <2>3. IsSeq(own \o more)
    BY <2>2, SeqOfElements
  <2>4. QED
    BY <2>2, <2>3
<1>8. QED
  BY <1>1, <1>2, <1>3, <1>6, <1>7, UniqueSymbols DEF bias

(***************************************************************************)
(* The plan arrives as it was written.                                      *)
(***************************************************************************)

(* A function on the numbers up to n.                                        *)
LEMMA SequenceOf ==
  ASSUME NEW S, NEW n \in Nat, NEW s, s = [j \in 1..n |-> s[j]], \A j \in 1..n : s[j] \in S
  PROVE  s \in Seq(S) /\ Len(s) = n /\ DOMAIN s = 1..n
OBVIOUS

(* What has been joined stays at the beginning.                              *)
LEMMA JoinsGrow ==
  ASSUME NEW S, NEW s \in Seq(Seq(S)), NEW f \in [0..Len(s) -> Seq(S)], Joins(s, f),
         NEW i \in 0..Len(s), NEW n \in i..Len(s)
  PROVE  Alike(f[i], f[n], Len(f[i]))
<1> DEFINE E == {k \in Nat : k \in i..Len(s) =>
                   Len(f[i]) =< Len(f[k]) /\ \A x \in 1..Len(f[i]) : f[k][x] = f[i][x]}
<1>1. \A k \in 0..Len(s) : f[k] \in Seq(S) /\ Len(f[k]) \in Nat
  OBVIOUS
<1>2. 0 \in E
  <2>1. 0 \in i..Len(s) => i = 0
    OBVIOUS
  <2>2. QED
    BY <1>1, <2>1
<1>3. ASSUME NEW k \in Nat, k \in E
      PROVE  k + 1 \in E
  <2> SUFFICES ASSUME k + 1 \in i..Len(s)
               PROVE  Len(f[i]) =< Len(f[k + 1]) /\ \A x \in 1..Len(f[i]) : f[k + 1][x] = f[i][x]
    OBVIOUS
  <2>1. CASE k + 1 = i
    BY <1>1, <2>1
  <2>2. CASE k + 1 # i
    <3>1. k \in i..Len(s) /\ k + 1 \in 1..Len(s) /\ (k + 1) - 1 = k /\ k \in 0..Len(s)
      BY <2>2
    <3>2. Len(f[i]) =< Len(f[k]) /\ \A x \in 1..Len(f[i]) : f[k][x] = f[i][x]
      BY <1>3, <3>1
    <3>3. f[k + 1] = f[k] \o s[k + 1]
      BY <3>1 DEF Joins
    <3>4. f[k] \in Seq(S) /\ s[k + 1] \in Seq(S)
      BY <1>1, <3>1
    <3>9. /\ Len(f[k] \o s[k + 1]) = Len(f[k]) + Len(s[k + 1])
          /\ \A x \in 1..Len(f[k]) : (f[k] \o s[k + 1])[x] = f[k][x]
      <4>1. PICK a \in Seq(S), b \in Seq(S) : a = f[k] /\ b = s[k + 1]
        BY <3>4
      <4>2. Len(a \o b) = Len(a) + Len(b) /\ \A x \in 1..Len(a) : (a \o b)[x] = a[x]
        BY PlacesOfTwo
      <4>3. QED
        BY <4>1, <4>2
    <3>5. Len(f[k + 1]) = Len(f[k]) + Len(s[k + 1]) /\ \A x \in 1..Len(f[k]) : f[k + 1][x] = f[k][x]
      BY <3>3, <3>9
    <3>6. Len(f[i]) \in Nat /\ Len(f[k]) \in Nat /\ Len(s[k + 1]) \in Nat
      <4>1. i \in 0..Len(s)
        OBVIOUS
      <4>2. QED
        BY <1>1, <3>1, <3>4, <4>1
    <3>7. Len(f[i]) =< Len(f[k + 1]) /\ \A x \in 1..Len(f[i]) : x \in 1..Len(f[k])
      <4>1. \A p, q, r \in Nat : p =< q => p =< q + r /\ \A x \in 1..p : x \in 1..q
        OBVIOUS
      <4>2. QED
        BY <3>2, <3>5, <3>6, <4>1
    <3>8. QED
      BY <3>2, <3>5, <3>7
  <2>3. QED
    BY <2>1, <2>2
<1> HIDE DEF E
<1>4. n \in E
  <2>1. n \in Nat
    OBVIOUS
  <2>2. QED
    BY <1>2, <1>3, <2>1, InductionOver
<1>5. Len(f[i]) =< Len(f[n]) /\ \A x \in 1..Len(f[i]) : f[n][x] = f[i][x]
  BY <1>4 DEF E
<1>6. QED
  <2>1. n \in 0..Len(s)
    OBVIOUS
  <2>2. Len(f[i]) \in Nat /\ Len(f[n]) \in Nat
    BY <1>1, <2>1
  <2>3. \A p, q \in Nat : p =< q => \A x \in 1..p : x \in 1..q
    OBVIOUS
  <2>4. QED
    BY <1>5, <2>2, <2>3 DEF Alike

(* A string is in the blob where the plan says, with a NUL behind it.         *)
LEMMA StringArrives ==
  ASSUME NEW S, NUL \in S, NEW strings \in Seq(Seq(S)), NEW i \in 1..Len(strings)
  PROVE  LET blob == Blob(strings)
             ref == PlanString(strings, i)
         IN  Len(blob) \in Nat /\ InBlob(blob, Len(blob), ref) /\ BlobString(blob, ref) = strings[i]
<1> DEFINE parts == [j \in DOMAIN strings |-> PushString(strings[j])]
           before == SubSeq(strings, 1, i - 1)
           first == [j \in DOMAIN before |-> PushString(before[j])]
<1>1. ASSUME NEW v \in Seq(S)
      PROVE  /\ PushString(v) \in Seq(S) /\ Len(PushString(v)) = Len(v) + 1
             /\ \A x \in 1..Len(v) : PushString(v)[x] = v[x]
             /\ PushString(v)[Len(v) + 1] = NUL
  <2>5. PICK end : end = <<NUL>>
    OBVIOUS
  <2>1. end \in Seq(S) /\ Len(end) = 1 /\ end[1] = NUL
    BY <2>5
  <2>6. PushString(v) = v \o end
    BY <2>5 DEF PushString
  <2>7. 1 \in 1..Len(end)
    BY <2>1
  <2>8. /\ v \o end \in Seq(S) /\ Len(v \o end) = Len(v) + Len(end)
        /\ \A x \in 1..Len(v) : (v \o end)[x] = v[x]
        /\ \A x \in 1..Len(end) : (v \o end)[Len(v) + x] = end[x]
    <3>1. v \in Seq(S) /\ end \in Seq(S)
      BY <2>1
    <3>2. QED
      BY <3>1, PlacesOfTwo
  <2>2. /\ PushString(v) \in Seq(S) /\ Len(PushString(v)) = Len(v) + 1
        /\ \A x \in 1..Len(v) : PushString(v)[x] = v[x]
        /\ PushString(v)[Len(v) + 1] = NUL
    BY <2>1, <2>6, <2>7, <2>8
  <2>3. QED
    BY <2>2
<1>2. parts \in Seq(Seq(S)) /\ Len(parts) = Len(strings)
  <2>1. /\ DOMAIN strings = 1..Len(strings) /\ Len(strings) \in Nat
        /\ \A j \in 1..Len(strings) : strings[j] \in Seq(S)
    OBVIOUS
  <2>2. \A j \in 1..Len(strings) : parts[j] \in Seq(S)
    BY <1>1, <2>1
  <2>3. parts = [j \in 1..Len(strings) |-> parts[j]]
    BY <2>1
  <2> HIDE DEF parts
  <2>4. QED
    BY <2>1, <2>2, <2>3
<1>3. /\ before \in Seq(Seq(S)) /\ Len(before) = i - 1 /\ DOMAIN before = 1..(i - 1)
      /\ \A j \in 1..(i - 1) : before[j] = strings[j] /\ before[j] \in Seq(S)
  <2>1. 1 \in Int /\ i - 1 \in Int /\ \A j \in 1..(i - 1) : strings[j] \in Seq(S)
    OBVIOUS
  <2>2. /\ before \in Seq(Seq(S))
        /\ Len(before) = IF 1 =< i - 1 THEN (i - 1) - 1 + 1 ELSE 0
        /\ \A j \in 1..((i - 1) - 1 + 1) : before[j] = strings[1 + j - 1]
    BY <2>1, SubSeqProperties
  <2> HIDE DEF before
  <2>3. /\ (IF 1 =< i - 1 THEN (i - 1) - 1 + 1 ELSE 0) = i - 1 /\ (i - 1) - 1 + 1 = i - 1
        /\ \A j \in 1..(i - 1) : 1 + j - 1 = j
    OBVIOUS
  <2>4. Len(before) = i - 1 /\ \A j \in 1..(i - 1) : before[j] = strings[j]
    BY <2>2, <2>3
  <2>5. DOMAIN before = 1..Len(before)
    BY <2>2
  <2>6. QED
    BY <2>1, <2>2, <2>4, <2>5
<1> HIDE DEF before
<1>4. first \in Seq(Seq(S)) /\ Len(first) = i - 1 /\ \A j \in 1..(i - 1) : first[j] = parts[j]
  <2>1. \A j \in 1..(i - 1) : first[j] \in Seq(S)
    BY <1>1, <1>3
  <2>2. first \in Seq(Seq(S)) /\ Len(first) = i - 1
    <3>1. first = [j \in 1..(i - 1) |-> first[j]] /\ i - 1 \in Nat
      BY <1>3
    <3> HIDE DEF first
    <3>2. QED
      BY <2>1, <3>1, SequenceOf
  <2>3. ASSUME NEW j \in 1..(i - 1)
        PROVE  first[j] = parts[j]
    <3>1. j \in DOMAIN before /\ j \in DOMAIN strings /\ before[j] = strings[j]
      <4>1. j \in 1..Len(strings) /\ DOMAIN strings = 1..Len(strings)
        OBVIOUS
      <4>2. QED
        BY <1>3, <4>1
    <3>2. QED
      BY <3>1
  <2>4. QED
    BY <2>2, <2>3
<1>5. PICK f \in [0..Len(parts) -> Seq(S)] : Joins(parts, f) /\ FlattenSeq(parts) = f[Len(parts)]
  <2> HIDE DEF parts
  <2>1. QED
    BY <1>2, FlattenJoins
<1>6. PICK g \in [0..Len(first) -> Seq(S)] : Joins(first, g) /\ FlattenSeq(first) = g[Len(first)]
  <2> HIDE DEF first
  <2>1. QED
    BY <1>4, FlattenJoins
<1>7. Blob(strings) = f[Len(strings)] /\ Blob(before) = g[i - 1] /\ parts[i] = PushString(strings[i])
  <2>1. Blob(strings) = FlattenSeq(parts) /\ Blob(before) = FlattenSeq(first)
    BY DEF Blob
  <2>2. parts[i] = PushString(strings[i])
    OBVIOUS
  <2> HIDE DEF parts, first
  <2>3. QED
    BY <1>2, <1>4, <1>5, <1>6, <2>1, <2>2
<1> HIDE DEF parts, first
<1>18. Len(strings) \in Nat /\ i \in Nat /\ 1 =< i /\ i =< Len(strings) /\ i - 1 \in Nat
  OBVIOUS
<1>8. g[i - 1] = f[i - 1]
  <2>1. /\ i - 1 \in Nat
        /\ \A j \in 1..(i - 1) : j \in 1..Len(first) /\ j \in 1..Len(parts) /\ first[j] = parts[j]
    <3>1. \A j \in 1..(i - 1) : j \in 1..Len(strings)
      BY <1>18
    <3>2. QED
      BY <1>2, <1>4, <1>18, <3>1
  <2>2. Joins(first, g) /\ Joins(parts, f)
    BY <1>5, <1>6
  <2>3. PICK k \in Nat : k = i - 1
    BY <2>1
  <2>4. Alike(first, parts, k)
    BY <2>1, <2>3 DEF Alike
  <2>5. g[k] = f[k]
    BY <2>2, <2>4, JoinsAgree, SMTT(30)
  <2>6. QED
    BY <2>3, <2>5
<1> DEFINE offset == Len(f[i - 1])
           length == Len(strings[i])
           blob == f[Len(strings)]
<1>9. PlanString(strings, i) = [offset |-> offset, length |-> length]
  BY <1>7, <1>8 DEF PlanString, before
<1>10. /\ i - 1 \in 0..Len(parts) /\ i \in 0..Len(parts) /\ i \in 1..Len(parts) /\ Len(parts) \in i..Len(parts)
       /\ f[i - 1] \in Seq(S) /\ strings[i] \in Seq(S) /\ blob \in Seq(S)
       /\ offset \in Nat /\ length \in Nat /\ Len(blob) \in Nat
  <2>1. /\ i - 1 \in 0..Len(strings) /\ i \in 0..Len(strings) /\ i \in 1..Len(strings)
        /\ Len(strings) \in i..Len(strings) /\ Len(strings) \in 0..Len(strings)
    BY <1>18
  <2>2. f \in [0..Len(strings) -> Seq(S)] /\ strings[i] \in Seq(S)
    BY <1>2
  <2>3. f[i - 1] \in Seq(S) /\ f[Len(strings)] \in Seq(S)
    BY <2>1, <2>2
  <2>4. \A q \in Seq(S) : Len(q) \in Nat
    OBVIOUS
  <2>5. QED
    BY <1>2, <2>1, <2>2, <2>3, <2>4
<1>11. f[i] = f[i - 1] \o PushString(strings[i])
  BY <1>5, <1>7, <1>10 DEF Joins
<1>12. /\ Len(f[i]) = offset + length + 1
       /\ \A x \in 1..length : f[i][offset + x] = strings[i][x]
       /\ f[i][offset + length + 1] = NUL
  <2>1. /\ Len(f[i]) = offset + (length + 1)
        /\ \A x \in 1..(length + 1) : f[i][offset + x] = PushString(strings[i])[x]
    <3>1. PICK a \in Seq(S), b \in Seq(S) : a = f[i - 1] /\ b = PushString(strings[i])
      BY <1>1, <1>10
    <3>2. /\ Len(a \o b) = Len(a) + Len(b)
          /\ \A x \in 1..Len(b) : (a \o b)[Len(a) + x] = b[x]
      BY PlacesOfTwo
    <3>3. Len(b) = length + 1
      BY <1>1, <1>10, <3>1
    <3>4. QED
      BY <1>11, <3>1, <3>2, <3>3
  <2> HIDE DEF offset, length
  <2>2. offset + (length + 1) = offset + length + 1 /\ length + 1 \in 1..(length + 1)
        /\ \A x \in 1..length : x \in 1..(length + 1)
    BY <1>10
  <2>3. /\ \A x \in 1..length : PushString(strings[i])[x] = strings[i][x]
        /\ PushString(strings[i])[length + 1] = NUL
    BY <1>1, <1>10 DEF length
  <2>4. Len(f[i]) = offset + length + 1
    BY <2>1, <2>2
  <2>5. f[i][offset + length + 1] = NUL
    BY <2>1, <2>2, <2>3
  <2>6. \A x \in 1..length : f[i][offset + x] = strings[i][x]
    BY <2>1, <2>2, <2>3
  <2>7. QED
    BY <2>4, <2>5, <2>6
<1>13. Alike(f[i], blob, Len(f[i]))
  <2>1. PICK n \in i..Len(parts) : n = Len(strings)
    BY <1>2, <1>10
  <2>2. Joins(parts, f) /\ parts \in Seq(Seq(S)) /\ f \in [0..Len(parts) -> Seq(S)] /\ i \in 0..Len(parts)
    BY <1>2, <1>5, <1>10
  <2>3. Alike(f[i], f[n], Len(f[i]))
    BY <2>2, JoinsGrow
  <2>4. QED
    BY <2>1, <2>3
<1> HIDE DEF offset, length, blob
<1>14. /\ offset + length < Len(blob) /\ blob[offset + length + 1] = NUL
       /\ \A x \in 1..length : blob[offset + x] = strings[i][x]
  <2>1. offset + length + 1 \in 1..Len(f[i]) /\ \A x \in 1..length : offset + x \in 1..Len(f[i])
    <3>1. \A p, q \in Nat : /\ p + q + 1 \in 1..(p + q + 1)
                            /\ \A x \in 1..q : p + x \in 1..(p + q + 1)
      OBVIOUS
    <3>2. QED
      BY <1>10, <1>12, <3>1
  <2>2. \A j \in 1..Len(f[i]) : j \in 1..Len(blob) /\ blob[j] = f[i][j]
    BY <1>13 DEF Alike
  <2>3. offset + length + 1 \in 1..Len(blob) => offset + length < Len(blob)
    BY <1>10
  <2>4. QED
    BY <1>12, <2>1, <2>2, <2>3
<1>15. InBlob(blob, Len(blob), PlanString(strings, i))
  <2>1. offset =< Len(blob) /\ length =< Len(blob) - offset
    <3>1. \A p, q, n \in Nat : p + q < n => p =< n /\ q =< n - p
      OBVIOUS
    <3>2. QED
      BY <1>10, <1>14, <3>1
  <2>2. PICK ref : ref = PlanString(strings, i)
    OBVIOUS
  <2>3. ref.offset = offset /\ ref.length = length
    BY <1>9, <2>2
  <2>4. InBlob(blob, Len(blob), ref)
    BY <1>14, <2>1, <2>3 DEF InBlob
  <2>5. QED
    BY <2>2, <2>4
<1>16. SubSeq(blob, offset + 1, offset + length) = strings[i]
  <2> DEFINE sub == SubSeq(blob, offset + 1, offset + length)
  <2>1. /\ offset + 1 \in Int /\ offset + length \in Int
        /\ \A x \in (offset + 1)..(offset + length) : blob[x] \in S
    <3>1. \A x \in (offset + 1)..(offset + length) : x \in 1..Len(blob)
      BY <1>10, <1>14
    <3>2. QED
      BY <1>10, <3>1
  <2>2. /\ sub \in Seq(S)
        /\ Len(sub) = IF offset + 1 =< offset + length THEN (offset + length) - (offset + 1) + 1 ELSE 0
        /\ \A x \in 1..((offset + length) - (offset + 1) + 1) : sub[x] = blob[(offset + 1) + x - 1]
    <3>1. PICK m \in Int, n \in Int : m = offset + 1 /\ n = offset + length
      BY <2>1
    <3>2. \A x \in m..n : blob[x] \in S
      BY <2>1, <3>1
    <3>3. /\ SubSeq(blob, m, n) \in Seq(S)
          /\ Len(SubSeq(blob, m, n)) = IF m =< n THEN n - m + 1 ELSE 0
          /\ \A x \in 1..(n - m + 1) : SubSeq(blob, m, n)[x] = blob[m + x - 1]
      BY <3>2, SubSeqProperties
    <3>4. QED
      BY <3>1, <3>3
  <2> HIDE DEF sub
  <2>3. /\ (IF offset + 1 =< offset + length THEN (offset + length) - (offset + 1) + 1 ELSE 0) = length
        /\ (offset + length) - (offset + 1) + 1 = length
        /\ \A x \in 1..length : (offset + 1) + x - 1 = offset + x
    BY <1>10
  <2>4. Len(sub) = length /\ \A x \in 1..length : sub[x] = strings[i][x]
    BY <1>14, <2>2, <2>3
  <2>5. length = Len(strings[i]) /\ strings[i] \in Seq(S)
    BY <1>10 DEF length
  <2>6. sub = strings[i]
    BY <2>2, <2>4, <2>5, SeqEqual
  <2>7. QED
    BY <2>6 DEF sub
<1>17. QED
  BY <1>7, <1>9, <1>10, <1>15, <1>16 DEF BlobString, blob

(* A character, or the NUL behind a string.                                  *)
Chars == STRING \cup {NUL}

(* A module of the plan: plan.rs:34-39.                                      *)
PlanModules == [fd : Nat, companion : BOOLEAN, index : Nat, path : Seq(STRING)]

(* What a plan that can be sent is made of.                                  *)
IsPlan(p) ==
  /\ p.modules \in Seq(PlanModules)
  /\ p.inline_engine \in Seq(STRING) /\ p.plt_engine \in Seq(STRING) /\ p.debugdata \in Seq(STRING)

(* What parsePlan makes of a plan it accepts.                                *)
Sent(p) ==
  [nonce |-> p.nonce, inline_engine |-> p.inline_engine, plt_engine |-> p.plt_engine,
   debugdata |-> p.debugdata, modules |-> p.modules]

(* The strings of a plan, and where each stands.                             *)
LEMMA StringsOfPlan ==
  ASSUME NEW p, IsPlan(p)
  PROVE  /\ Strings(p) \in Seq(Seq(Chars)) /\ Len(Strings(p)) = 3 + Len(p.modules)
         /\ Strings(p)[1] = p.inline_engine /\ Strings(p)[2] = p.plt_engine
         /\ Strings(p)[3] = p.debugdata
         /\ \A i \in 1..Len(p.modules) : Strings(p)[3 + i] = p.modules[i].path
<1> DEFINE modules == p.modules
           options == <<p.inline_engine, p.plt_engine, p.debugdata>>
           paths == [i \in DOMAIN modules |-> modules[i].path]
<1>1. /\ Len(modules) \in Nat /\ DOMAIN modules = 1..Len(modules)
      /\ \A i \in 1..Len(modules) : modules[i] \in PlanModules
  BY DEF IsPlan
<1>2. \A v \in Seq(STRING) : v \in Seq(Chars)
  <2>1. \A v \in Seq(STRING) : Len(v) \in Nat /\ v \in [1..Len(v) -> STRING]
    OBVIOUS
  <2>2. \A v \in Seq(STRING) : v \in [1..Len(v) -> Chars]
    BY <2>1 DEF Chars
  <2>3. QED
    BY <2>1, <2>2
<1>3. /\ options \in Seq(Seq(Chars)) /\ Len(options) = 3
      /\ options[1] = p.inline_engine /\ options[2] = p.plt_engine /\ options[3] = p.debugdata
  <2>1. p.inline_engine \in Seq(Chars) /\ p.plt_engine \in Seq(Chars) /\ p.debugdata \in Seq(Chars)
    BY <1>2 DEF IsPlan
  <2>2. QED
    BY <2>1
<1>4. \A i \in 1..Len(modules) : paths[i] = modules[i].path /\ paths[i] \in Seq(Chars)
  BY <1>1, <1>2 DEF PlanModules
<1>5. paths = [i \in 1..Len(modules) |-> paths[i]]
  BY <1>1
<1>6. Strings(p) = options \o paths
  BY DEF Strings
<1> HIDE DEF modules, options, paths
<1>7. paths \in Seq(Seq(Chars)) /\ Len(paths) = Len(modules)
  BY <1>1, <1>4, <1>5, SequenceOf
<1>8. /\ options \o paths \in Seq(Seq(Chars)) /\ Len(options \o paths) = Len(options) + Len(paths)
      /\ \A i \in 1..Len(options) : (options \o paths)[i] = options[i]
      /\ \A i \in 1..Len(paths) : (options \o paths)[Len(options) + i] = paths[i]
  <2>1. PICK a \in Seq(Seq(Chars)), b \in Seq(Seq(Chars)) : a = options /\ b = paths
    BY <1>3, <1>7
  <2>2. /\ a \o b \in Seq(Seq(Chars)) /\ Len(a \o b) = Len(a) + Len(b)
        /\ \A i \in 1..Len(a) : (a \o b)[i] = a[i]
        /\ \A i \in 1..Len(b) : (a \o b)[Len(a) + i] = b[i]
    BY PlacesOfTwo
  <2>3. QED
    BY <2>1, <2>2
<1>9. 1 \in 1..3 /\ 2 \in 1..3 /\ 3 \in 1..3
  OBVIOUS
<1>10. QED
  BY <1>3, <1>4, <1>6, <1>7, <1>8, <1>9, ZenonT(30) DEF modules

(* A plan of the loader's version arrives as it was written, one of another  *)
(* does not: plan.rs:79-131, plan.cpp:47-114.                                *)
THEOREM PlanArrives ==
  ASSUME NEW p, IsPlan(p), Encode(p) # Rejected, NEW version
  PROVE  Parse([Encode(p) EXCEPT !.version = version])
           = IF version = PlanVersion THEN Sent(p) ELSE Rejected
<1> DEFINE strings == Strings(p)
           blob == Blob(strings)
           count == Len(p.modules)
           raw == [Encode(p) EXCEPT !.version = version]
<1>1. /\ strings \in Seq(Seq(Chars)) /\ Len(strings) = 3 + count
      /\ strings[1] = p.inline_engine /\ strings[2] = p.plt_engine /\ strings[3] = p.debugdata
      /\ \A i \in 1..count : strings[3 + i] = p.modules[i].path
  BY StringsOfPlan
<1> HIDE DEF strings
<1>2. /\ count \in Nat /\ DOMAIN p.modules = 1..count
      /\ \A i \in 1..count : p.modules[i] \in PlanModules
  BY DEF IsPlan
<1>3. ASSUME NEW i \in 1..(3 + count)
      PROVE  /\ Len(blob) \in Nat /\ InBlob(blob, Len(blob), PlanString(strings, i))
             /\ BlobString(blob, PlanString(strings, i)) = strings[i]
  <2>1. NUL \in Chars /\ i \in 1..Len(strings)
    BY <1>1 DEF Chars
  <2>2. QED
    BY <1>1, <2>1, StringArrives
<1> DEFINE size == HeaderSize + ModuleSize * count + Len(blob)
           record(i) == [fd |-> p.modules[i].fd, companion |-> p.modules[i].companion,
                         index |-> p.modules[i].index, path |-> PlanString(strings, 3 + i)]
           records == [i \in 1..count |-> record(i)]
<1>4. /\ count =< MaxModules /\ size =< MaxBytes
      /\ \A i \in 1..count : p.modules[i].index < MaxModules
      /\ Encode(p) = [magic |-> PlanMagic, version |-> PlanVersion, size |-> size,
                      module_count |-> count, nonce |-> p.nonce,
                      inline_engine |-> PlanString(strings, 1),
                      plt_engine |-> PlanString(strings, 2),
                      debugdata |-> PlanString(strings, 3),
                      records |-> records, blob |-> blob]
  <2>1. ~(count > MaxModules) /\ ~(size > MaxBytes)
        /\ ~(\E i \in 1..count : p.modules[i].index >= MaxModules)
    BY DEF Encode, strings
  <2>2. size \in Nat /\ \A i \in 1..count : p.modules[i].index \in Nat
    <3>1. 1 \in 1..(3 + count)
      BY <1>2
    <3>2. Len(blob) \in Nat
      BY <1>3, <3>1
    <3>3. QED
      BY <1>2, <3>2 DEF PlanModules, HeaderSize, ModuleSize
  <2>3. MaxModules \in Nat /\ MaxBytes \in Nat
    BY BootPlanAssumption
  <2>4. /\ count =< MaxModules /\ size =< MaxBytes
        /\ \A i \in 1..count : p.modules[i].index < MaxModules
    <3> HIDE DEF size, count
    <3>1. QED
      BY <1>2, <2>1, <2>2, <2>3
  <2>5. QED
    BY <2>1, <2>4 DEF Encode, strings
<1> HIDE DEF blob, records, size, count
<1>5. /\ raw.magic = PlanMagic /\ raw.version = version /\ raw.size = size
      /\ raw.module_count = count /\ raw.nonce = p.nonce
      /\ raw.inline_engine = PlanString(strings, 1) /\ raw.plt_engine = PlanString(strings, 2)
      /\ raw.debugdata = PlanString(strings, 3) /\ raw.records = records /\ raw.blob = blob
  BY <1>4
<1> HIDE DEF raw
<1>6. CASE version # PlanVersion
  BY <1>5, <1>6 DEF Parse, raw
<1>7. CASE version = PlanVersion
  <2>1. 1 \in 1..(3 + count) /\ 2 \in 1..(3 + count) /\ 3 \in 1..(3 + count)
        /\ \A i \in 1..count : 3 + i \in 1..(3 + count)
    BY <1>2
  <2>2. Len(blob) \in Nat /\ size = HeaderSize + ModuleSize * count + Len(blob)
    BY <1>3, <2>1 DEF size
  <2>3. /\ size - HeaderSize - count * ModuleSize = Len(blob)
        /\ HeaderSize =< size /\ HeaderSize + count * ModuleSize =< size
    BY <1>2, <2>2 DEF HeaderSize, ModuleSize
  <2>4. \A ref \in {raw.inline_engine, raw.plt_engine, raw.debugdata} : InBlob(blob, Len(blob), ref)
    BY <1>3, <1>5, <2>1
  <2>5. ASSUME NEW i \in 1..count
        PROVE  /\ records[i].fd >= 0 /\ records[i].index < MaxModules
               /\ InBlob(blob, Len(blob), records[i].path)
               /\ [records[i] EXCEPT !.path = BlobString(blob, records[i].path)] = p.modules[i]
    <3>1. records[i] = [fd |-> p.modules[i].fd, companion |-> p.modules[i].companion,
                        index |-> p.modules[i].index, path |-> PlanString(strings, 3 + i)]
      BY DEF records
    <3>2. /\ InBlob(blob, Len(blob), PlanString(strings, 3 + i))
          /\ BlobString(blob, PlanString(strings, 3 + i)) = p.modules[i].path
      BY <1>1, <1>3, <2>1
    <3>3. p.modules[i] \in PlanModules /\ p.modules[i].index < MaxModules
      BY <1>2, <1>4
    <3>4. p.modules[i].fd \in Nat
      BY <3>3 DEF PlanModules
    <3>5. [records[i] EXCEPT !.path = p.modules[i].path] = p.modules[i]
      BY <3>1, <3>3 DEF PlanModules
    <3>6. QED
      BY <3>1, <3>2, <3>3, <3>4, <3>5
  <2>6. [i \in 1..count |-> [records[i] EXCEPT !.path = BlobString(blob, records[i].path)]] = p.modules
    <3>1. p.modules = [i \in 1..count |-> p.modules[i]]
      BY <1>2 DEF IsPlan
    <3>2. QED
      BY <2>5, <3>1
  <2>7. /\ BlobString(blob, raw.inline_engine) = p.inline_engine
        /\ BlobString(blob, raw.plt_engine) = p.plt_engine
        /\ BlobString(blob, raw.debugdata) = p.debugdata
    BY <1>1, <1>3, <1>5, <2>1
  <2>8. /\ raw.magic = PlanMagic /\ raw.version = PlanVersion
        /\ HeaderSize =< raw.size /\ raw.size =< MaxBytes /\ raw.module_count =< MaxModules
        /\ HeaderSize + raw.module_count * ModuleSize =< raw.size
    BY <1>4, <1>5, <1>7, <2>3
  <2>9. raw.size - HeaderSize - raw.module_count * ModuleSize = Len(blob)
    BY <1>5, <2>3
  <2>10. Parse(raw) = [nonce |-> raw.nonce,
                       inline_engine |-> BlobString(raw.blob, raw.inline_engine),
                       plt_engine |-> BlobString(raw.blob, raw.plt_engine),
                       debugdata |-> BlobString(raw.blob, raw.debugdata),
                       modules |-> [i \in 1..raw.module_count |->
                         [raw.records[i] EXCEPT !.path = BlobString(raw.blob, raw.records[i].path)]]]
    <3>1. \A i \in 1..raw.module_count :
            /\ raw.records[i].fd >= 0 /\ raw.records[i].index < MaxModules
            /\ InBlob(raw.blob, Len(blob), raw.records[i].path)
      BY <1>5, <2>5
    <3>2. \A ref \in {raw.inline_engine, raw.plt_engine, raw.debugdata} : InBlob(raw.blob, Len(blob), ref)
      BY <1>5, <2>4
    <3>3. QED
      BY <2>8, <2>9, <3>1, <3>2 DEF Parse
  <2>11. Parse(raw) = Sent(p)
    BY <1>5, <2>6, <2>7, <2>10 DEF Sent
  <2>12. QED
    BY <1>7, <2>11 DEF raw
<1>8. QED
  BY <1>6, <1>7

(***************************************************************************)
(* The inductive invariant.                                                *)
(***************************************************************************)

(* What a thread does that makes an image, and one that asks an image.       *)
Constructing == {"find", "map", "check"}
Asking == {"lock", "parse", "look"}

(* What a thread of a module and the loader may be about to do.              *)
WorkerStages == Constructing \cup Asking \cup {"idle", "built", "ready", "crashed"}
LoaderStages == Constructing \cup Asking \cup {"boot", "load", "built", "dlopen", "done", "crashed"}

(* What can be in symbols_.                                                  *)
SymbolLists == {<<>>} \cup {Symbols(Elf[f], base, b) : f \in Files, base \in Nat, b \in Backends}

Images == [file : Files \cup {None}, base : Nat, at : Nat, valid : BOOLEAN,
           parsed : BOOLEAN, symbols : SymbolLists, steady : BOOLEAN]

Queries == [of : Threads \cup {None}, kind : {None, "exact", "prefix", "each"},
            name : Names \cup {DlopenExt, <<>>}]

Calls == [index : Nat, path : Seq(STRING), companion : BOOLEAN,
          nonce : {None} \cup {s.plan.nonce : s \in Settings},
          api : SUBSET {"hook", "symbols", "companion", "runtime"}]

(* The types of what the loader keeps of the plan, and of what the threads   *)
(* keep.                                                                     *)
PlanTypes ==
  /\ next \in Nat /\ backend \in Backends /\ hyos \in BOOLEAN
  /\ closed \in [DOMAIN setting.plan.modules -> Nat] /\ told \in Seq(Calls)

ThreadTypes ==
  /\ loaded \subseteq Files
  /\ pc \in [Threads -> WorkerStages \cup LoaderStages]
  /\ pc[Loader] \in LoaderStages /\ \A w \in Workers : pc[w] \in WorkerStages
  /\ image \in [Threads -> Images]
  /\ lock \in [Threads -> Threads \cup {None}]
  /\ query \in [Threads -> Queries]

TypeOK == setting \in Settings /\ PlanTypes /\ ThreadTypes

(* An image is of a file, and valid only from when it has been made to when it  *)
(* is unmapped.                                                            *)
ImageHasFile(t) ==
  /\ image[t].steady => image[t].file \in loaded
  /\ image[t].at # 0 => image[t].file \in Files
  /\ pc[t] \in {"find", "map"} => image[t].file \in Files /\ image[t].at = 0
  /\ pc[t] = "check" => image[t].at # 0
  /\ image[t].valid => image[t].at # 0 /\ pc[t] \in Asking \cup {"built", "ready", "dlopen", "crashed"}
  /\ pc[t] = "ready" => image[t].valid
  /\ pc[t] \in Constructing => ~image[t].parsed

(* While its library stays loaded, the base of an image is right as soon as   *)
(* it has been looked for, and the image valid as soon as it has been made.    *)
ImageHasBase(t) ==
  LET img == image[t] IN
  img.steady =>
    /\ pc[t] \in {"map", "check"} /\ Elf[img.file].type = "dyn" => img.base = LoadAt[img.file]
    /\ pc[t] \notin Constructing /\ img.at # 0 =>
         img.valid /\ img.base = Bias(Elf[img.file], LoadAt[img.file])

(* No file is mapped over the header of a loaded library.                    *)
HeadersFree(t) ==
  \A f \in loaded : Elf[f].type = "dyn" /\ image[t].at # 0 =>
    LoadAt[f] \notin image[t].at..(image[t].at + MyFile(t).pages - 1)

(* A thread asks an image that is valid, the loader its own and no other.     *)
QueryInv(t) ==
  IF pc[t] \in Asking
  THEN /\ query[t].of \in Threads /\ image[query[t].of].valid
       /\ query[t].kind # None
       /\ query[t].of = Loader <=> t = Loader
  ELSE query[t] = NoQuery \/ pc[t] = "crashed"

(* The mutex of an image is held by the one thread that parses it; it has been  *)
(* parsed when the flag is set and the mutex is free.                         *)
ParseInv(r) ==
  /\ lock[r] # None => pc[lock[r]] = "parse" /\ query[lock[r]].of = r /\ image[r].parsed
  /\ pc[r] = "parse" => lock[Of(r)] = r
  /\ pc[r] = "look" => Asked(r).parsed /\ lock[Of(r)] = None
  /\ image[r].parsed /\ lock[r] = None =>
       \E b \in Backends : image[r].symbols = Symbols(Elf[image[r].file], image[r].base, b)

(* What a thread and its image keep to.                                      *)
ThreadInv(t) ==
  ImageHasFile(t) /\ ImageHasBase(t) /\ HeadersFree(t) /\ QueryInv(t) /\ ParseInv(t)

Usable(i) == Callable(setting.modules[i])

(* The modules before the next one have been done with, in their order.       *)
Obeyed ==
  /\ closed = [i \in DOMAIN setting.plan.modules |-> IF i < next THEN 1 ELSE 0]
  /\ \E order \in [DOMAIN told -> {i \in DOMAIN closed : i < next /\ Usable(i)}] :
       /\ \A i \in DOMAIN closed : i < next /\ Usable(i) => \E k \in DOMAIN told : order[k] = i
       /\ \A k \in DOMAIN told :
            /\ \A j \in 1..(k - 1) : order[j] < order[k]
            /\ told[k] = Call(setting.plan.modules[order[k]], setting.modules[order[k]])

(* The loader is in the linker's image, or past it, for a module of the plan.  *)
WithEntry == Constructing \cup Asking \cup {"built", "dlopen"}

(* What the loader has made of the plan so far.                              *)
PlanInv ==
  \/ pc[Loader] = "boot" /\ next = 1 /\ told = <<>>
       /\ closed = [i \in DOMAIN setting.plan.modules |-> 0]
  \/ pc[Loader] = "done" /\ plan = Rejected /\ setting.version # PlanVersion
  \/ /\ plan = Sent(setting.plan)
     /\ next \in 1..(Len(plan.modules) + 1)
     /\ pc[Loader] \in WithEntry => next =< Len(plan.modules)
     /\ pc[Loader] = "done" => next > Len(plan.modules)
     /\ pc[Loader] # "boot"
     /\ Obeyed

(* The inductive invariant of the loader, its threads and the linker.        *)
IndInv == TypeOK /\ PlanInv /\ \A t \in Threads : ThreadInv(t)

(***************************************************************************)
(* The address space.                                                      *)
(***************************************************************************)

(* The first of some mappings is one of them.                               *)
LEMMA FirstIsLeast ==
  ASSUME NEW E, E # {}, \A m \in E : m.start \in Nat
  PROVE  FirstOf(E) \in E /\ \A n \in E : FirstOf(E).start =< n.start
<1> DEFINE starts == {m.start : m \in E}
<1>1. starts \in SUBSET Nat /\ starts # {}
  OBVIOUS
<1>2. PICK x \in starts : \A y \in starts : x =< y
  BY <1>1, LeastNumber
<1>3. PICK m \in E : x = m.start
  BY <1>2
<1>4. \A n \in E : m.start =< n.start
  BY <1>2, <1>3
<1>5. QED
  BY <1>4 DEF FirstOf

(* What a mapping is of.                                                   *)
Segment(m, f) == \E s \in Elf[f].segments : m = Mapping(f, LoadAt[f] + s.vaddr, s.pages, s.offset)
Whole(m, t) == image[t].at # 0 /\ m = Mapping(image[t].file, image[t].at, MyFile(t).pages, 0)

(* The maps hold segments of what is loaded and files that are mapped whole. *)
LEMMA WhatIsMapped ==
  ASSUME NEW m
  PROVE  m \in Maps <=> (\E f \in loaded : Segment(m, f)) \/ (\E t \in Threads : Whole(m, t))
<1> DEFINE Segments(f) == {Mapping(f, LoadAt[f] + s.vaddr, s.pages, s.offset) : s \in Elf[f].segments}
           Wholes == {Mapping(image[t].file, image[t].at, MyFile(t).pages, 0) :
                        t \in {u \in Threads : image[u].at # 0}}
<1>1. m \in Maps <=> m \in UNION {Segments(f) : f \in loaded} \/ m \in Wholes
  BY DEF Maps
<1>2. \A f : m \in Segments(f) <=> Segment(m, f)
  BY DEF Segment
<1>3. m \in Wholes <=> \E t \in Threads : Whole(m, t)
  BY DEF Whole
<1> HIDE DEF Segments, Wholes
<1>4. QED
  BY <1>1, <1>2, <1>3

(* The mapping of the beginning of a library.                                *)
Header(f) ==
  CHOOSE s \in Elf[f].segments :
    /\ s.offset = 0 /\ s.vaddr = 0 /\ s.pages < Elf[f].pages
    /\ \A r \in Elf[f].segments \ {s} : r.vaddr > 0
HeaderMapping(f) == Mapping(f, LoadAt[f], Header(f).pages, 0)

(* The segment of a library with its header.                                 *)
LEMMA HeaderIs ==
  ASSUME NEW f \in Files, Elf[f].type = "dyn"
  PROVE  /\ Header(f) \in Elf[f].segments /\ Header(f).offset = 0 /\ Header(f).vaddr = 0
         /\ Header(f).pages \in Nat \ {0} /\ Header(f).pages < Elf[f].pages
         /\ \A s \in Elf[f].segments : s.vaddr = 0 => s = Header(f)
<1>1. IsLoadable(Elf[f])
  BY LoaderAssumption
<1>2. /\ Header(f) \in Elf[f].segments /\ Header(f).offset = 0 /\ Header(f).vaddr = 0
      /\ Header(f).pages < Elf[f].pages
      /\ \A r \in Elf[f].segments \ {Header(f)} : r.vaddr > 0
  BY <1>1 DEF IsLoadable, Header
<1>3. \A s \in Elf[f].segments : s.vaddr \in Nat /\ s.pages \in Nat \ {0}
  BY <1>1 DEF IsLoadable
<1>4. QED
  BY <1>2, <1>3

(* A mapping of a segment.                                                   *)
LEMMA SegmentIs ==
  ASSUME NEW f \in Files, NEW m, Segment(m, f)
  PROVE  /\ m.start \in Nat /\ m.end \in Nat /\ m.offset \in Nat /\ m.ino # 0
         /\ m.path = Elf[f].path /\ m.ino = Elf[f].ino /\ m.start < m.end /\ m.readable
         /\ m.start >= LoadAt[f]
         /\ Elf[f].type = "dyn" /\ m.start = LoadAt[f] => m = HeaderMapping(f)
<1>1. PICK s \in Elf[f].segments : m = Mapping(f, LoadAt[f] + s.vaddr, s.pages, s.offset)
  BY DEF Segment
<1>2. IsLoadable(Elf[f]) /\ LoadAt[f] \in Nat
  BY LoaderAssumption
<1>3. s.vaddr \in Nat /\ s.offset \in Nat /\ s.pages \in Nat \ {0} /\ Elf[f].ino # 0
  BY <1>2 DEF IsLoadable
<1>4. /\ m.start = LoadAt[f] + s.vaddr /\ m.end = LoadAt[f] + s.vaddr + s.pages
      /\ m.offset = s.offset /\ m.path = Elf[f].path /\ m.ino = Elf[f].ino /\ m.readable
  BY <1>1 DEF Mapping
<1>5. ASSUME Elf[f].type = "dyn", m.start = LoadAt[f]
      PROVE  m = HeaderMapping(f)
  <2>1. s.vaddr = 0
    BY <1>2, <1>3, <1>4, <1>5
  <2>2. s = Header(f) /\ s.offset = 0
    BY <1>5, <2>1, HeaderIs
  <2>3. LoadAt[f] + s.vaddr = LoadAt[f]
    BY <1>2, <2>1
  <2>4. QED
    BY <1>1, <2>2, <2>3 DEF HeaderMapping
<1>6. QED
  BY <1>2, <1>3, <1>4, <1>5

(* A mapping of a file as a whole.                                           *)
LEMMA WholeIs ==
  ASSUME NEW t \in Threads, image \in [Threads -> Images], ImageHasFile(t), NEW m, Whole(m, t)
  PROVE  /\ image[t].file \in Files /\ m.path = MyFile(t).path /\ m.ino = MyFile(t).ino
         /\ m.start = image[t].at /\ m.end = image[t].at + MyFile(t).pages /\ m.offset = 0
         /\ image[t].at \in Nat /\ MyFile(t).pages \in Nat \ {0} /\ m.ino # 0 /\ m.readable
<1>1. image[t].file \in Files /\ image[t].at \in Nat
  BY DEF ImageHasFile, Whole, Images
<1>2. IsLoadable(MyFile(t))
  BY <1>1, LoaderAssumption DEF MyFile
<1>3. QED
  BY <1>1, <1>2 DEF Whole, Mapping, IsLoadable, MyFile

(* The maps hold numbers, and are of files.                                  *)
SpaceInv == loaded \subseteq Files /\ image \in [Threads -> Images] /\ \A t \in Threads : ImageHasFile(t)

(* Every mapping has bounds and is of a file.                                *)
LEMMA MapsAreOfFiles ==
  ASSUME SpaceInv, NEW m \in Maps
  PROVE  /\ m.start \in Nat /\ m.end \in Nat /\ m.offset \in Nat /\ m.ino # 0 /\ m.start < m.end
         /\ \E f \in Files : m.path = Elf[f].path
<1>1. CASE \E f \in loaded : Segment(m, f)
  <2>1. PICK f \in Files : Segment(m, f)
    BY <1>1 DEF SpaceInv
  <2>2. QED
    BY <2>1, SegmentIs
<1>2. CASE \E t \in Threads : Whole(m, t)
  <2>1. PICK t \in Threads : Whole(m, t)
    BY <1>2
  <2>2. /\ image[t].file \in Files /\ m.path = MyFile(t).path
        /\ m.start = image[t].at /\ m.end = image[t].at + MyFile(t).pages /\ m.offset = 0
        /\ image[t].at \in Nat /\ MyFile(t).pages \in Nat \ {0} /\ m.ino # 0
    BY <2>1, WholeIs DEF SpaceInv
  <2>3. QED
    BY <2>2 DEF MyFile
<1>3. QED
  BY <1>1, <1>2, WhatIsMapped

(* The header of a loaded library is in the maps.                            *)
LEMMA HeaderIsMapped ==
  ASSUME NEW f \in loaded, f \in Files, Elf[f].type = "dyn"
  PROVE  /\ HeaderMapping(f) \in Maps /\ LoadAt[f] \in Nat \ {0}
         /\ HeaderMapping(f).start = LoadAt[f] /\ HeaderMapping(f).offset = 0
         /\ HeaderMapping(f).end = LoadAt[f] + Header(f).pages
         /\ HeaderMapping(f).path = Elf[f].path /\ HeaderMapping(f).ino = Elf[f].ino
         /\ HeaderMapping(f).readable
         /\ Covers(HeaderMapping(f), LoadAt[f]) /\ Mapped(LoadAt[f]) /\ LooksElf(LoadAt[f])
<1>1. LoadAt[f] \in Nat \ {0}
  BY LoaderAssumption
<1>2. /\ Header(f) \in Elf[f].segments /\ Header(f).offset = 0 /\ Header(f).vaddr = 0
      /\ Header(f).pages \in Nat \ {0}
  BY HeaderIs
<1>3. LoadAt[f] + Header(f).vaddr = LoadAt[f]
  BY <1>1, <1>2
<1>4. HeaderMapping(f) = Mapping(f, LoadAt[f] + Header(f).vaddr, Header(f).pages, Header(f).offset)
  BY <1>2, <1>3 DEF HeaderMapping
<1>5. Segment(HeaderMapping(f), f)
  BY <1>2, <1>4 DEF Segment
<1>6. HeaderMapping(f) \in Maps
  BY <1>5, WhatIsMapped
<1>7. /\ HeaderMapping(f).start = LoadAt[f] /\ HeaderMapping(f).offset = 0
      /\ HeaderMapping(f).end = LoadAt[f] + Header(f).pages
      /\ HeaderMapping(f).path = Elf[f].path /\ HeaderMapping(f).ino = Elf[f].ino
      /\ HeaderMapping(f).readable
  BY DEF HeaderMapping, Mapping
<1>8. Covers(HeaderMapping(f), LoadAt[f])
  BY <1>1, <1>2, <1>7 DEF Covers
<1>9. LoadAt[f] - HeaderMapping(f).start + HeaderMapping(f).offset = 0
  BY <1>1, <1>7
<1>10. QED
  BY <1>1, <1>6, <1>7, <1>8, <1>9 DEF Mapped, LooksElf

(* The mappings of a name that has a directory are those of the one file.      *)
LEMMA MatchesOneFile ==
  ASSUME SpaceInv, NEW f \in Files, NEW m \in Maps, mapMatchesName(m, Elf[f].path)
  PROVE  (f \in loaded /\ Segment(m, f)) \/ \E t \in Threads : Whole(m, t) /\ image[t].file = f
<1>1. Elf[f].path.dir # NoDir
  BY LoaderAssumption DEF IsLoadable
<1>2. m.path = Elf[f].path
  BY <1>1 DEF mapMatchesName
<1>3. ASSUME NEW g \in loaded, Segment(m, g)
      PROVE  f \in loaded /\ Segment(m, f)
  <2>1. g \in Files
    BY DEF SpaceInv
  <2>2. m.path = Elf[g].path
    BY <1>3, <2>1, SegmentIs
  <2>3. f = g
    BY <1>2, <2>1, <2>2, LoaderAssumption
  <2>4. QED
    BY <1>3, <2>3
<1>4. ASSUME NEW t \in Threads, Whole(m, t)
      PROVE  image[t].file = f
  <2>1. image[t].file \in Files /\ m.path = MyFile(t).path
    BY <1>4, WholeIs DEF SpaceInv
  <2>2. Elf[image[t].file].path.name = Elf[f].path.name
    BY <1>2, <2>1 DEF MyFile
  <2>3. QED
    BY <2>1, <2>2, LoaderAssumption
<1>5. QED
  BY <1>3, <1>4, WhatIsMapped

(* The base of a loaded library is found, whoever has its file mapped: the   *)
(* mappings of the whole file are passed over: elf_util.cpp:416-434.         *)
THEOREM BaseIsFound ==
  ASSUME SpaceInv, NEW f \in loaded, f \in Files, Elf[f].type = "dyn"
  PROVE  findLibraryBase(Maps, Elf[f].path, Elf[f].pages) = LoadAt[f]
<1> DEFINE whole == Elf[f].pages
           first == HeaderMapping(f)
           matching == {m \in Maps : mapMatchesName(m, Elf[f].path)}
           wholeFile(m) == matching # {m} /\ whole # 0 /\ Span(m) = whole
           segments == {m \in matching : m.start >= m.offset /\ ~wholeFile(m)}
<1>1. /\ Header(f).pages \in Nat \ {0} /\ Header(f).pages < whole /\ whole \in Nat \ {0}
      /\ LoadAt[f] \in Nat \ {0} /\ Elf[f].path.dir # NoDir
  BY HeaderIs, LoaderAssumption DEF IsLoadable
<1>2. /\ first \in Maps /\ first.start = LoadAt[f] /\ first.offset = 0
      /\ first.end = LoadAt[f] + Header(f).pages /\ first.path = Elf[f].path
  BY HeaderIsMapped
<1> HIDE DEF first
<1>3. Span(first) # whole /\ first.start >= first.offset
  BY <1>1, <1>2 DEF Span
<1>4. first \in segments
  BY <1>1, <1>2, <1>3 DEF mapMatchesName
<1>5. ASSUME NEW m \in segments
      PROVE  m.start \in Nat /\ m.start >= LoadAt[f] /\ (m.start = LoadAt[f] => m = first)
  <2>1. CASE Segment(m, f)
    BY <2>1, SegmentIs DEF first
  <2>2. CASE \E t \in Threads : Whole(m, t) /\ image[t].file = f
    <3>1. PICK t \in Threads : Whole(m, t) /\ image[t].file = f
      BY <2>2
    <3>2. /\ m.start = image[t].at /\ m.end = image[t].at + whole
          /\ image[t].at \in Nat
      BY <3>1, WholeIs DEF SpaceInv, MyFile
    <3>3. Span(m) = whole
      BY <1>1, <3>2 DEF Span
    <3>4. matching # {m}
      BY <1>3, <1>4, <3>3
    <3>5. wholeFile(m)
      BY <1>1, <3>3, <3>4
    <3>6. QED
      BY <3>5
  <2>3. QED
    BY <2>1, <2>2, MatchesOneFile
<1>6. findLibraryBase(Maps, Elf[f].path, whole)
        = IF segments = {} THEN 0 ELSE LoadBase(FirstOf(segments))
  BY DEF findLibraryBase
<1> HIDE DEF segments
<1>7. FirstOf(segments) \in segments /\ FirstOf(segments).start =< first.start
  BY <1>4, <1>5, FirstIsLeast
<1>8. FirstOf(segments) = first
  BY <1>1, <1>2, <1>5, <1>7
<1>9. LoadBase(first) = LoadAt[f]
  BY <1>1, <1>2 DEF LoadBase
<1>10. QED
  BY <1>4, <1>6, <1>8, <1>9

(* A name without a directory is that of the one file.                       *)
LEMMA PathIsResolved ==
  ASSUME SpaceInv, NEW f \in Files, NEW g \in Files, NEW name,
         name.dir = NoDir, name.name = Elf[f].path.name, Elf[g].path = resolveMapPath(Maps, name)
  PROVE  g = f
<1> DEFINE matching == {m \in Maps : mapMatchesName(m, name)}
<1>1. Elf[g].path # NoPath
  BY LoaderAssumption DEF IsLoadable, NoPath
<1>2. matching # {} /\ resolveMapPath(Maps, name) = FirstOf(matching).path
  BY <1>1 DEF resolveMapPath
<1>3. \A m \in matching : m.start \in Nat /\ m.path.name = name.name
  BY MapsAreOfFiles DEF mapMatchesName
<1> HIDE DEF matching
<1>4. FirstOf(matching) \in matching
  BY <1>2, <1>3, FirstIsLeast
<1>5. Elf[g].path.name = Elf[f].path.name
  BY <1>2, <1>3, <1>4
<1>6. QED
  BY <1>5, LoaderAssumption

(* The base of a loaded library is in its header mapping, which a plt hook is  *)
(* made on: hook/plt.cpp:34-56.                                              *)
LEMMA HookIsOnHeader ==
  ASSUME SpaceInv, \A t \in Threads : HeadersFree(t),
         NEW f \in loaded, f \in Files, Elf[f].type = "dyn",
         NEW hit, hit = findMapping(Maps, LoadAt[f])
  PROVE  hit # NoMapping /\ firstMappingOfFile(Maps, hit).start = LoadAt[f]
<1> DEFINE base == LoadAt[f]
           first == HeaderMapping(f)
           hits == {m \in Maps : m.ino # 0 /\ (Covers(m, base) \/ (m.start >= m.offset /\ base = LoadBase(m)))}
           ofImage == {m \in Maps : /\ m.ino = first.ino /\ m.start >= m.offset
                                    /\ LoadBase(m) = LoadBase(first) /\ m.readable}
           headers == {m \in ofImage : m.offset = 0}
<1>1. /\ first \in Maps /\ base \in Nat \ {0} /\ first.start = base /\ first.offset = 0
      /\ first.ino = Elf[f].ino /\ first.readable /\ Covers(first, base)
  BY HeaderIsMapped
<1>2. \A m \in Maps : /\ m.start \in Nat /\ m.end \in Nat /\ m.offset \in Nat
                      /\ m.ino # 0 /\ m.start < m.end
  BY MapsAreOfFiles
<1>3. first \in hits
  BY <1>1, <1>2
<1>4. ASSUME NEW m \in Maps, Covers(m, base)
      PROVE  m = first
  <2>1. ASSUME NEW g \in loaded, Segment(m, g)
        PROVE  m = first
    <3>1. PICK s \in Elf[g].segments : m = Mapping(g, LoadAt[g] + s.vaddr, s.pages, s.offset)
      BY <2>1 DEF Segment
    <3>2. g \in Files /\ LoadAt[g] \in Nat /\ s.vaddr \in Nat /\ s.pages \in Nat
      BY LoaderAssumption DEF SpaceInv, IsLoadable
    <3>3. base \in (LoadAt[g] + s.vaddr)..(LoadAt[g] + s.vaddr + s.pages - 1)
      BY <1>1, <1>4, <3>1, <3>2 DEF Covers, Mapping
    <3>4. f = g /\ s.vaddr = 0
      BY <3>2, <3>3, LoaderAssumption
    <3>5. m.start = base
      BY <3>1, <3>2, <3>4 DEF Mapping
    <3>6. QED
      BY <2>1, <3>2, <3>4, <3>5, SegmentIs
  <2>2. ASSUME NEW t \in Threads, Whole(m, t)
        PROVE  FALSE
    <3>1. /\ m.start = image[t].at /\ m.end = image[t].at + MyFile(t).pages
          /\ image[t].at \in Nat /\ MyFile(t).pages \in Nat
      BY <2>2, WholeIs DEF SpaceInv
    <3>2. base \in image[t].at..(image[t].at + MyFile(t).pages - 1)
      BY <1>1, <1>4, <3>1 DEF Covers
    <3>3. image[t].at # 0
      BY <2>2 DEF Whole
    <3>4. QED
      BY <3>2, <3>3 DEF HeadersFree
  <2>3. QED
    BY <2>1, <2>2, WhatIsMapped
<1>5. ASSUME NEW m \in hits, m.start =< base
      PROVE  m = first
  <2>1. CASE Covers(m, base)
    BY <1>4, <2>1
  <2>2. CASE m.start >= m.offset /\ base = LoadBase(m)
    <3>1. m.start = base
      BY <1>1, <1>2, <1>5, <2>2 DEF LoadBase
    <3>2. Covers(m, base)
      BY <1>1, <1>2, <3>1 DEF Covers
    <3>3. QED
      BY <1>4, <3>2
  <2>3. QED
    BY <2>1, <2>2
<1>6. hit = IF hits = {} THEN NoMapping ELSE FirstOf(hits)
  BY DEF findMapping
<1>7. \A m \in hits : m.start \in Nat
  BY <1>2
<1> HIDE DEF hits
<1>8. FirstOf(hits) \in hits /\ FirstOf(hits).start =< base
  BY <1>1, <1>3, <1>7, FirstIsLeast
<1>9. hit = first
  BY <1>3, <1>5, <1>6, <1>8
<1>10. first # NoMapping
  BY DEF HeaderMapping, Mapping, NoMapping
<1>11. LoadBase(first) = base
  BY <1>1 DEF LoadBase
<1>12. first \in headers
  BY <1>1
<1>13. \A m \in headers : m.start = base
  BY <1>1, <1>2, <1>11 DEF LoadBase
<1>14. ofImage # {} /\ headers # {}
  BY <1>12
<1>15. ~(first.start < first.offset)
  BY <1>1
<1>16. firstMappingOfFile(Maps, first) = FirstOf(headers)
  <2> HIDE DEF first
  <2>1. QED
    BY <1>14, <1>15 DEF firstMappingOfFile
<1> HIDE DEF headers
<1>17. FirstOf(headers) \in headers
  BY <1>1, <1>13, <1>14, FirstIsLeast
<1>18. QED
  BY <1>9, <1>10, <1>13, <1>16, <1>17

(***************************************************************************)
(* The answers.                                                            *)
(***************************************************************************)

(* What AnswersAreRight asks of an answer.                                  *)
RightAnswer(q, f, is) ==
  LET asked == {d \in Definitions(f) :
        IF q.kind = "prefix" THEN IsPrefix(q.name, d.name) ELSE d.name = q.name}
  IN /\ q.kind \in {"exact", "prefix"} =>
          IF asked = {} THEN is = NoSymbol ELSE \E d \in asked : is = d.addr
     /\ q.kind = "each" => ToSet(is) = Definitions(f) /\ IsInjective(is)

(* The symbols of an image with the right base are the definitions of its file. *)
LEMMA ImageHasDefinitions ==
  ASSUME NEW f \in Files, NEW b \in Backends,
         NEW symbols, symbols = Symbols(Elf[f], Bias(Elf[f], LoadAt[f]), b)
  PROVE  IsSeq(symbols) /\ IsInjective(symbols) /\ ToSet(symbols) = Definitions(f)
<1> DEFINE bias == Bias(Elf[f], LoadAt[f])
<1>1. WellFormed(Elf[f])
  BY LoaderAssumption
<1>2. /\ IsSeq(symbols) /\ IsInjective(symbols)
      /\ ToSet(symbols) = {Entry(s, Bias(Elf[f], bias)) : s \in DefinedSymbols(Elf[f])}
  BY <1>1, SymbolsAreDefinitions
<1>3. Bias(Elf[f], bias) = bias
  BY DEF Bias
<1>4. Definitions(f) = {Entry(s, bias) : s \in DefinedSymbols(Elf[f])}
  BY DEF Definitions, Entry
<1>5. QED
  BY <1>2, <1>3, <1>4

(* A lookup yields the first of the entries asked for.                       *)
LEMMA LookupIsRight ==
  ASSUME NEW f, NEW symbols, IsSeq(symbols), ToSet(symbols) = Definitions(f),
         NEW q, q.kind \in {"exact", "prefix"}
  PROVE  RightAnswer(q, f, lookup(symbols, q.name, q.kind = "prefix"))
<1> DEFINE prefix == q.kind = "prefix"
           Fits(d) == IF q.kind = "prefix" THEN IsPrefix(q.name, d.name) ELSE d.name = q.name
           asked == {d \in Definitions(f) : Fits(d)}
           found == {i \in DOMAIN symbols :
                       IF prefix THEN IsPrefix(q.name, symbols[i].name) ELSE symbols[i].name = q.name}
<1>1. /\ DOMAIN symbols = 1..Len(symbols) /\ Len(symbols) \in Nat
      /\ Definitions(f) = {symbols[i] : i \in DOMAIN symbols}
  BY DEF IsSeq, ToSet
<1>2. \A i : i \in found <=> i \in DOMAIN symbols /\ Fits(symbols[i])
  OBVIOUS
<1>3. lookup(symbols, q.name, prefix) = IF found = {} THEN NoSymbol ELSE symbols[Min(found)].addr
  BY DEF lookup
<1>4. found \in SUBSET Nat
  BY <1>1
<1>5. q.kind # "each"
  OBVIOUS
<1> HIDE DEF found, Fits
<1>6. CASE found = {}
  <2>1. asked = {}
    BY <1>1, <1>2, <1>6
  <2>2. QED
    BY <1>3, <1>5, <1>6, <2>1 DEF RightAnswer, Fits
<1>7. CASE found # {}
  <2>1. Min(found) \in found
    <3>1. \E i \in found : \A j \in found : i =< j
      BY <1>4, <1>7, LeastNumber
    <3>2. QED
      BY <3>1 DEF Min
  <2>2. symbols[Min(found)] \in asked
    BY <1>1, <1>2, <2>1
  <2>3. QED
    BY <1>3, <1>5, <1>7, <2>2 DEF RightAnswer, Fits
<1>8. QED
  BY <1>6, <1>7

(* What the dynamic segment shows is defined, and where it says.              *)
LEMMA LoadedIsRight ==
  ASSUME NEW f \in Files, NEW base, base # 0, base = Bias(Elf[f], LoadAt[f]),
         NEW q, q.kind = "exact", LoadedLookup(Elf[f], base, q.name) # NoSymbol
  PROVE  RightAnswer(q, f, LoadedLookup(Elf[f], base, q.name))
<1> DEFINE file == Elf[f]
           found == {i \in DOMAIN file.loaded : LET s == file.loaded[i] IN
                       s.defined /\ s.value # 0 /\ s.name = q.name}
           asked == {d \in Definitions(f) : d.name = q.name}
<1>1. /\ IsSeq(file.loaded)
      /\ {s \in ToSet(file.loaded) : s.defined /\ s.value # 0} \subseteq DefinedSymbols(file)
  BY LoaderAssumption DEF WellFormed, DefinedSymbols
<1>2. /\ DOMAIN file.loaded = 1..Len(file.loaded) /\ Len(file.loaded) \in Nat
      /\ \A i \in DOMAIN file.loaded : file.loaded[i] \in ToSet(file.loaded)
  BY <1>1, SMTT(30) DEF IsSeq, ToSet
<1>3. LoadedLookup(file, base, q.name)
        = IF base = 0 \/ found = {} THEN NoSymbol ELSE base + file.loaded[Min(found)].value
  BY Zenon DEF LoadedLookup
<1>4. /\ found \subseteq DOMAIN file.loaded
      /\ \A i \in found : LET s == file.loaded[i] IN s.defined /\ s.value # 0 /\ s.name = q.name
  OBVIOUS
<1> HIDE DEF found
<1>5. found # {} /\ found \in SUBSET Nat
  <2>1. found # {}
    BY <1>3
  <2>2. found \in SUBSET Nat
    BY <1>2, <1>4
  <2>3. QED
    BY <2>1, <2>2
<1>6. PICK least \in found : least = Min(found)
  <2>1. \E i \in found : \A j \in found : i =< j
    BY <1>5, LeastNumber
  <2>2. QED
    BY <2>1 DEF Min
<1> DEFINE s == file.loaded[least]
<1>7. s \in ToSet(file.loaded) /\ s.defined /\ s.value # 0 /\ s.name = q.name
  BY <1>2, <1>4
<1> HIDE DEF s
<1>8. s \in DefinedSymbols(file)
  BY <1>1, <1>7
<1> DEFINE d == [name |-> s.name, addr |-> base + s.value]
<1>9. d \in Definitions(f)
  BY <1>8 DEF Definitions
<1>10. d \in asked /\ d.addr = base + s.value
  BY <1>7, <1>9
<1>11. LoadedLookup(file, base, q.name) = d.addr
  BY <1>3, <1>5, <1>6, <1>10 DEF s
<1>12. QED
  BY <1>10, <1>11 DEF RightAnswer

(***************************************************************************)
(* The steps.                                                              *)
(***************************************************************************)

(* The process has not ended.                                                *)
Alive == \A u \in Threads : pc[u] # "crashed"

(* The loader is a thread, the others are those of modules.                  *)
LEMMA ThreadsAre ==
  /\ Loader \in Threads /\ None \notin Threads
  /\ \A w \in Workers : w \in Threads /\ w # Loader
  /\ \A t \in Threads : t # Loader => t \in Workers
BY LoaderAssumption DEF Threads

(* NoImage is an image that is not parsed.                                   *)
LEMMA NoImageIsImage == NoImage \in Images /\ ~NoImage.parsed
<1>1. <<>> \in SymbolLists
  BY DEF SymbolLists
<1>2. QED
  BY <1>1 DEF NoImage, Images

(* The plan is where it was, when only the threads have moved.               *)
LEMMA PlanIsKept ==
  ASSUME PlanInv, UNCHANGED <<setting, plan, next, hyos, closed, told>>,
         \/ pc'[Loader] = pc[Loader]
         \/ pc[Loader] \in WithEntry /\ pc'[Loader] \in WithEntry \cup {"crashed"}
  PROVE  PlanInv'
<1>1. Obeyed => Obeyed'
  BY DEF Obeyed, Usable, Call
<1>2. CASE pc[Loader] = "boot" /\ next = 1 /\ told = <<>>
             /\ closed = [i \in DOMAIN setting.plan.modules |-> 0]
  BY <1>2 DEF PlanInv, WithEntry, Constructing, Asking
<1>3. CASE pc[Loader] = "done" /\ plan = Rejected /\ setting.version # PlanVersion
  BY <1>3 DEF PlanInv, WithEntry, Constructing, Asking
<1>4. CASE /\ plan = Sent(setting.plan)
           /\ next \in 1..(Len(plan.modules) + 1)
           /\ pc[Loader] \in WithEntry => next =< Len(plan.modules)
           /\ pc[Loader] = "done" => next > Len(plan.modules)
           /\ pc[Loader] # "boot"
           /\ Obeyed
  <2>1. /\ plan' = Sent(setting'.plan)
        /\ next' \in 1..(Len(plan'.modules) + 1)
        /\ pc'[Loader] \in WithEntry => next' =< Len(plan'.modules)
        /\ pc'[Loader] = "done" => next' > Len(plan'.modules)
        /\ pc'[Loader] # "boot"
    BY <1>4 DEF WithEntry, Constructing, Asking
  <2>2. QED
    BY <1>1, <1>4, <2>1 DEF PlanInv, WithEntry, Constructing, Asking
<1>5. QED
  BY <1>2, <1>3, <1>4 DEF PlanInv

(* A step of a thread that is in no lookup, on its own image that nobody asks.  *)
LEMMA ImageStep ==
  ASSUME ThreadTypes, \A u \in Threads : ThreadInv(u), Alive,
         NEW t \in Threads, pc[t] \notin Asking,
         \A u \in Threads : pc[u] \in Asking => query[u].of # t,
         NEW new \in Images, new = image[t] \/ ~new.parsed,
         NEW to, to \notin Asking,
         IF t = Loader THEN to \in LoaderStages ELSE to \in WorkerStages,
         image' = [image EXCEPT ![t] = new], pc' = [pc EXCEPT ![t] = to],
         UNCHANGED <<loaded, lock, query>>,
         ImageHasFile(t)', ImageHasBase(t)', HeadersFree(t)'
  PROVE  ThreadTypes' /\ \A u \in Threads : ThreadInv(u)'
<1>1. /\ image'[t] = new /\ pc'[t] = to
      /\ \A u \in Threads : u # t => image'[u] = image[u] /\ pc'[u] = pc[u]
  BY DEF ThreadTypes
<1>2. ThreadTypes'
  <2>1. image' \in [Threads -> Images] /\ pc' \in [Threads -> WorkerStages \cup LoaderStages]
    BY DEF ThreadTypes
  <2>2. pc'[Loader] \in LoaderStages /\ \A w \in Workers : pc'[w] \in WorkerStages
    BY <1>1, ThreadsAre DEF ThreadTypes
  <2>3. QED
    BY <2>1, <2>2 DEF ThreadTypes
<1>3. ASSUME NEW u \in Threads, u # t
      PROVE  ImageHasFile(u)' /\ ImageHasBase(u)' /\ HeadersFree(u)'
  <2>1. ImageHasFile(u) /\ ImageHasBase(u) /\ HeadersFree(u)
    BY DEF ThreadInv
  <2>2. image'[u] = image[u] /\ pc'[u] = pc[u] /\ loaded' = loaded
    BY <1>1, <1>3
  <2>3. ImageHasFile(u)'
    BY <2>1, <2>2 DEF ImageHasFile
  <2>4. ImageHasBase(u)'
    BY <2>1, <2>2 DEF ImageHasBase
  <2>5. HeadersFree(u)'
    BY <2>1, <2>2 DEF HeadersFree, MyFile
  <2>6. QED
    BY <2>3, <2>4, <2>5
<1>4. ASSUME NEW u \in Threads
      PROVE  QueryInv(u)'
  <2>1. QueryInv(u) /\ query' = query
    BY DEF ThreadInv
  <2>2. CASE u = t
    <3>1. pc'[u] \notin Asking /\ query[u] = NoQuery
      BY <1>1, <2>1, <2>2 DEF QueryInv, Alive
    <3>2. QED
      BY <2>1, <3>1 DEF QueryInv
  <2>3. CASE u # t
    <3>1. pc'[u] = pc[u]
      BY <1>1, <2>3
    <3>2. CASE pc[u] \in Asking
      <4>1. query[u].of \in Threads /\ query[u].of # t
        BY <2>1, <3>2 DEF QueryInv
      <4>2. image'[query[u].of] = image[query[u].of]
        BY <1>1, <4>1
      <4>3. QED
        BY <2>1, <3>1, <3>2, <4>2 DEF QueryInv
    <3>3. CASE pc[u] \notin Asking
      BY <2>1, <3>1, <3>3 DEF QueryInv
    <3>4. QED
      BY <3>2, <3>3
  <2>4. QED
    BY <2>2, <2>3
<1>5. ASSUME NEW r \in Threads
      PROVE  ParseInv(r)'
  <2>1. ParseInv(r) /\ query' = query /\ lock' = lock /\ lock[r] \in Threads \cup {None}
    BY DEF ThreadInv, ThreadTypes
  <2>2. lock'[r] # None => pc'[lock'[r]] = "parse" /\ query'[lock'[r]].of = r /\ image'[r].parsed
    <3>1. SUFFICES ASSUME lock[r] # None
                   PROVE  pc'[lock[r]] = "parse" /\ query[lock[r]].of = r /\ image'[r].parsed
      BY <2>1
    <3>2. pc[lock[r]] = "parse" /\ query[lock[r]].of = r /\ image[r].parsed /\ lock[r] \in Threads
      BY <2>1, <3>1 DEF ParseInv
    <3>3. lock[r] # t /\ r # t
      BY <3>2 DEF Asking
    <3>4. QED
      BY <1>1, <3>2, <3>3
  <2>3. CASE r = t
    <3>1. pc'[r] # "parse" /\ pc'[r] # "look"
      BY <1>1, <2>3 DEF Asking
    <3>2. image'[r].parsed /\ lock'[r] = None =>
            \E b \in Backends : image'[r].symbols = Symbols(Elf[image'[r].file], image'[r].base, b)
      BY <1>1, <2>1, <2>3 DEF ParseInv
    <3>3. QED
      BY <2>2, <3>1, <3>2 DEF ParseInv
  <2>4. CASE r # t
    <3>1. pc'[r] = pc[r] /\ image'[r] = image[r]
      BY <1>1, <2>4
    <3>2. pc'[r] = "parse" => lock'[query'[r].of] = r
      BY <2>1, <3>1 DEF ParseInv, Of
    <3>3. pc'[r] = "look" => image'[query'[r].of].parsed /\ lock'[query'[r].of] = None
      <4>1. SUFFICES ASSUME pc[r] = "look"
                     PROVE  image'[query[r].of].parsed /\ lock[query[r].of] = None
        BY <2>1, <3>1
      <4>2. query[r].of \in Threads /\ query[r].of # t
        <5>1. QueryInv(r) /\ pc[r] \in Asking
          BY <4>1 DEF ThreadInv, Asking
        <5>2. QED
          BY <5>1 DEF QueryInv
      <4>3. QED
        BY <1>1, <2>1, <4>1, <4>2 DEF ParseInv, Asked, Of
    <3>4. QED
      BY <2>1, <2>2, <3>1, <3>2, <3>3 DEF ParseInv, Asked, Of
  <2>5. QED
    BY <2>3, <2>4
<1>6. QED
  BY <1>2, <1>3, <1>4, <1>5 DEF ThreadInv

(* The images are where they were, when a thread goes on asking.             *)
LEMMA ImagesAreKept ==
  ASSUME ThreadTypes, \A u \in Threads : ThreadInv(u), NEW t \in Threads,
         pc[t] \notin Constructing, NEW to, to \notin Constructing,
         image[t].valid => to \in Asking \cup {"built", "ready", "dlopen", "crashed"},
         to = "ready" => image[t].valid,
         pc' = [pc EXCEPT ![t] = to], loaded' = loaded,
         \A u \in Threads :
           /\ image'[u].file = image[u].file /\ image'[u].base = image[u].base
           /\ image'[u].at = image[u].at /\ image'[u].steady = image[u].steady
           /\ image'[u].valid = image[u].valid
           /\ image'[u].parsed /\ ~image[u].parsed => pc[u] \notin Constructing
  PROVE  \A u \in Threads : ImageHasFile(u)' /\ ImageHasBase(u)' /\ HeadersFree(u)'
<1> SUFFICES ASSUME NEW u \in Threads
             PROVE  ImageHasFile(u)' /\ ImageHasBase(u)' /\ HeadersFree(u)'
  OBVIOUS
<1>1. ImageHasFile(u) /\ ImageHasBase(u) /\ HeadersFree(u)
  BY DEF ThreadInv
<1>2. /\ image'[u].file = image[u].file /\ image'[u].base = image[u].base
      /\ image'[u].at = image[u].at /\ image'[u].steady = image[u].steady
      /\ image'[u].valid = image[u].valid
      /\ image'[u].parsed /\ ~image[u].parsed => pc[u] \notin Constructing
  OBVIOUS
<1>3. pc'[u] = IF u = t THEN to ELSE pc[u]
  BY DEF ThreadTypes
<1>4. HeadersFree(u)'
  BY <1>1, <1>2 DEF HeadersFree, MyFile
<1>5. CASE u = t
  <2>1. pc'[u] = to /\ to \notin {"find", "map", "check"}
    BY <1>3, <1>5 DEF Constructing
  <2>2. ImageHasFile(u)'
    BY <1>1, <1>2, <1>5, <2>1 DEF ImageHasFile, Constructing
  <2>3. ImageHasBase(u)'
    BY <1>1, <1>2, <1>5, <2>1 DEF ImageHasBase
  <2>4. QED
    BY <1>4, <2>2, <2>3
<1>6. CASE u # t
  <2>1. pc'[u] = pc[u]
    BY <1>3, <1>6
  <2>2. ImageHasFile(u)'
    BY <1>1, <1>2, <2>1 DEF ImageHasFile
  <2>3. ImageHasBase(u)'
    BY <1>1, <1>2, <2>1 DEF ImageHasBase
  <2>4. QED
    BY <1>4, <2>2, <2>3
<1>7. QED
  BY <1>5, <1>6

(* A step of a thread that begins or ends to ask, or waits for the mutex.     *)
LEMMA AskStep ==
  ASSUME ThreadTypes, \A u \in Threads : ThreadInv(u), NEW t \in Threads,
         pc[t] \notin Constructing \cup {"parse"}, NEW to, to \notin Constructing \cup {"parse"},
         IF t = Loader THEN to \in LoaderStages ELSE to \in WorkerStages,
         image[t].valid => to \in Asking \cup {"built", "ready", "dlopen", "crashed"},
         to = "ready" => image[t].valid,
         NEW q \in Queries, pc' = [pc EXCEPT ![t] = to], query' = [query EXCEPT ![t] = q],
         UNCHANGED <<loaded, image, lock>>,
         QueryInv(t)', to = "look" => image[q.of].parsed /\ lock[q.of] = None
  PROVE  ThreadTypes' /\ \A u \in Threads : ThreadInv(u)'
<1>1. /\ query'[t] = q /\ pc'[t] = to
      /\ \A u \in Threads : u # t => query'[u] = query[u] /\ pc'[u] = pc[u]
  BY DEF ThreadTypes
<1>2. ThreadTypes'
  <2>1. query' \in [Threads -> Queries] /\ pc' \in [Threads -> WorkerStages \cup LoaderStages]
    BY DEF ThreadTypes
  <2>2. pc'[Loader] \in LoaderStages /\ \A w \in Workers : pc'[w] \in WorkerStages
    BY <1>1, ThreadsAre DEF ThreadTypes
  <2>3. QED
    BY <2>1, <2>2 DEF ThreadTypes
<1>3. \A u \in Threads : ImageHasFile(u)' /\ ImageHasBase(u)' /\ HeadersFree(u)'
  <2>1. pc[t] \notin Constructing /\ to \notin Constructing
    OBVIOUS
  <2>2. QED
    BY <2>1, ImagesAreKept
<1>4. ASSUME NEW u \in Threads
      PROVE  QueryInv(u)'
  <2>1. QueryInv(u) /\ image' = image
    BY DEF ThreadInv
  <2>2. CASE u # t
    BY <1>1, <2>1, <2>2 DEF QueryInv
  <2>3. QED
    BY <2>2
<1>5. ASSUME NEW r \in Threads
      PROVE  ParseInv(r)'
  <2>1. ParseInv(r) /\ image' = image /\ lock' = lock /\ lock[r] \in Threads \cup {None}
    BY DEF ThreadInv, ThreadTypes
  <2>2. lock'[r] # None => pc'[lock'[r]] = "parse" /\ query'[lock'[r]].of = r /\ image'[r].parsed
    <3>1. SUFFICES ASSUME lock[r] # None
                   PROVE  pc'[lock[r]] = "parse" /\ query'[lock[r]].of = r /\ image[r].parsed
      BY <2>1
    <3>2. pc[lock[r]] = "parse" /\ query[lock[r]].of = r /\ image[r].parsed /\ lock[r] \in Threads
      BY <2>1, <3>1 DEF ParseInv
    <3>3. lock[r] # t
      BY <3>2
    <3>4. QED
      BY <1>1, <3>2, <3>3
  <2>3. pc'[r] = "parse" => lock'[query'[r].of] = r
    BY <1>1, <2>1 DEF ParseInv, Of
  <2>4. pc'[r] = "look" => image'[query'[r].of].parsed /\ lock'[query'[r].of] = None
    BY <1>1, <2>1 DEF ParseInv, Asked, Of
  <2>5. QED
    BY <2>1, <2>2, <2>3, <2>4 DEF ParseInv, Asked, Of
<1>6. QED
  BY <1>2, <1>3, <1>4, <1>5 DEF ThreadInv

(* What is found as a base is a page.                                       *)
LEMMA BaseIsPage ==
  ASSUME SpaceInv, NEW name, NEW whole
  PROVE  findLibraryBase(Maps, name, whole) \in Nat
<1> DEFINE matching == {m \in Maps : mapMatchesName(m, name)}
           wholeFile(m) == matching # {m} /\ whole # 0 /\ Span(m) = whole
           segments == {m \in matching : m.start >= m.offset /\ ~wholeFile(m)}
<1>1. findLibraryBase(Maps, name, whole) = IF segments = {} THEN 0 ELSE LoadBase(FirstOf(segments))
  BY DEF findLibraryBase
<1>2. \A m \in segments : m.start \in Nat /\ m.offset \in Nat /\ m.start >= m.offset
  BY MapsAreOfFiles
<1> HIDE DEF segments
<1>3. CASE segments = {}
  BY <1>1, <1>3
<1>4. CASE segments # {}
  <2>1. FirstOf(segments) \in segments
    BY <1>2, <1>4, FirstIsLeast
  <2>2. LoadBase(FirstOf(segments)) \in Nat
    BY <1>2, <2>1 DEF LoadBase
  <2>3. QED
    BY <1>1, <1>4, <2>2
<1>5. QED
  BY <1>3, <1>4

(* What the maps are read for follows from what the threads keep to.         *)
LEMMA SpaceIs ==
  ASSUME ThreadTypes, \A u \in Threads : ThreadInv(u)
  PROVE  SpaceInv /\ \A u \in Threads : ImageHasFile(u) /\ ImageHasBase(u) /\ HeadersFree(u)
BY DEF ThreadTypes, ThreadInv, SpaceInv

(* Nobody asks an image that is not valid.                                  *)
LEMMA NobodyAsks ==
  ASSUME \A u \in Threads : ThreadInv(u), NEW t \in Threads, ~image[t].valid
  PROVE  \A u \in Threads : pc[u] \in Asking => query[u].of # t
BY DEF ThreadInv, QueryInv

(* findLibraryBase: elf_util.cpp:416-434.                                    *)
LEMMA FindBaseStep ==
  ASSUME ThreadTypes, \A u \in Threads : ThreadInv(u), Alive, NEW t \in Threads, FindBase(t)
  PROVE  ThreadTypes' /\ \A u \in Threads : ThreadInv(u)'
<1> DEFINE base == findLibraryBase(Maps, MyFile(t).path, MyFile(t).pages)
           new == [image[t] EXCEPT !.base = base]
<1>1. /\ pc[t] = "find" /\ image' = [image EXCEPT ![t] = new] /\ pc' = [pc EXCEPT ![t] = "map"]
      /\ UNCHANGED <<loaded, lock, query>>
  <2>1. image' = [image EXCEPT ![t].base = base]
    BY DEF FindBase
  <2>2. image' = [image EXCEPT ![t] = new]
    BY <2>1
  <2>3. QED
    BY <2>2 DEF FindBase, Go, restVars
<1>2. SpaceInv /\ ImageHasFile(t) /\ ImageHasBase(t) /\ HeadersFree(t)
  BY SpaceIs
<1>3. base \in Nat
  BY <1>2, BaseIsPage
<1>4. image[t] \in Images /\ image[t].file \in Files /\ ~image[t].valid /\ ~image[t].parsed /\ image[t].at = 0
  BY <1>1, <1>2 DEF ImageHasFile, ThreadTypes, Asking, Constructing
<1>5. image[t].steady /\ Elf[image[t].file].type = "dyn" => base = LoadAt[image[t].file]
  BY <1>2, <1>4, BaseIsFound DEF MyFile, ImageHasFile
<1> HIDE DEF base
<1>6. /\ new \in Images /\ new.base = base /\ new.file = image[t].file /\ new.at = image[t].at
      /\ new.valid = image[t].valid /\ new.parsed = image[t].parsed /\ new.steady = image[t].steady
  BY <1>3, <1>4 DEF Images
<1>7. image'[t] = new /\ pc'[t] = "map" /\ loaded' = loaded
  BY <1>1 DEF ThreadTypes
<1> HIDE DEF new
<1>8. ImageHasFile(t)'
  BY <1>2, <1>4, <1>6, <1>7 DEF ImageHasFile
<1>9. ImageHasBase(t)'
  BY <1>5, <1>6, <1>7 DEF ImageHasBase, Constructing
<1>10. HeadersFree(t)'
  BY <1>4, <1>6, <1>7 DEF HeadersFree
<1>11. \A u \in Threads : pc[u] \in Asking => query[u].of # t
  BY <1>4, NobodyAsks
<1>12. /\ pc[t] \notin Asking /\ "map" \notin Asking
       /\ IF t = Loader THEN "map" \in LoaderStages ELSE "map" \in WorkerStages
  BY <1>1 DEF Asking, LoaderStages, WorkerStages, Constructing
<1>13. ~new.parsed
  BY <1>4, <1>6
<1>14. QED
  BY <1>1, <1>6, <1>8, <1>9, <1>10, <1>11, <1>12, <1>13, ImageStep

(* A file is mapped where nothing is, so over no header of a library.        *)
LEMMA MapFileStep ==
  ASSUME ThreadTypes, \A u \in Threads : ThreadInv(u), Alive, NEW t \in Threads, MapFile(t)
  PROVE  ThreadTypes' /\ \A u \in Threads : ThreadInv(u)'
<1>1. pc[t] = "map" /\ UNCHANGED <<loaded, lock, query>>
  BY DEF MapFile, restVars
<1>2. SpaceInv /\ ImageHasFile(t) /\ ImageHasBase(t) /\ HeadersFree(t)
  BY SpaceIs
<1>3. image[t] \in Images /\ image[t].file \in Files /\ ~image[t].valid /\ ~image[t].parsed /\ image[t].at = 0
  BY <1>1, <1>2 DEF ImageHasFile, ThreadTypes, Asking, Constructing
<1>4. \A u \in Threads : pc[u] \in Asking => query[u].of # t
  BY <1>3, NobodyAsks
<1>5. pc[t] \notin Asking
  BY <1>1 DEF Asking
<1>6. CASE \E p \in Places : /\ \A q \in p..(p + MyFile(t).pages - 1) : ~Mapped(q)
                             /\ image' = [image EXCEPT ![t].at = p]
                             /\ pc' = [pc EXCEPT ![t] = "check"]
  <2>1. PICK p \in Places : /\ \A q \in p..(p + MyFile(t).pages - 1) : ~Mapped(q)
                            /\ image' = [image EXCEPT ![t].at = p]
                            /\ pc' = [pc EXCEPT ![t] = "check"]
    BY <1>6
  <2> DEFINE new == [image[t] EXCEPT !.at = p]
  <2>2. p \in Nat /\ p # 0
    BY LoaderAssumption
  <2>3. image' = [image EXCEPT ![t] = new]
    BY <2>1
  <2>4. /\ new \in Images /\ new.base = image[t].base /\ new.file = image[t].file /\ new.at = p
        /\ new.valid = image[t].valid /\ new.parsed = image[t].parsed /\ new.steady = image[t].steady
    BY <1>3, <2>2 DEF Images
  <2>5. image'[t] = new /\ pc'[t] = "check" /\ loaded' = loaded
    BY <1>1, <2>1, <2>3 DEF ThreadTypes
  <2> HIDE DEF new
  <2>6. ImageHasFile(t)'
    BY <1>2, <1>3, <2>2, <2>4, <2>5 DEF ImageHasFile
  <2>7. ImageHasBase(t)'
    BY <1>1, <1>2, <2>4, <2>5 DEF ImageHasBase, Constructing
  <2>8. HeadersFree(t)'
    <3>1. SUFFICES ASSUME NEW f \in loaded, Elf[f].type = "dyn"
                   PROVE  LoadAt[f] \notin p..(p + MyFile(t).pages - 1)
      BY <2>4, <2>5 DEF HeadersFree, MyFile
    <3>2. f \in Files
      BY <1>2 DEF SpaceInv
    <3>3. Mapped(LoadAt[f])
      BY <3>1, <3>2, HeaderIsMapped
    <3>4. QED
      BY <2>1, <3>3
  <2>9. /\ "check" \notin Asking
        /\ IF t = Loader THEN "check" \in LoaderStages ELSE "check" \in WorkerStages
    BY DEF Asking, LoaderStages, WorkerStages, Constructing
  <2>10. ~new.parsed
    BY <1>3, <2>4
  <2>11. pc' = [pc EXCEPT ![t] = "check"]
    BY <2>1
  <2>12. QED
    BY <1>1, <1>4, <1>5, <2>3, <2>4, <2>6, <2>7, <2>8, <2>9, <2>10, <2>11, ImageStep
<1>7. CASE image' = image /\ pc' = [pc EXCEPT ![t] = "built"]
  <2>1. image' = [image EXCEPT ![t] = image[t]]
    BY <1>7 DEF ThreadTypes
  <2>2. image'[t] = image[t] /\ pc'[t] = "built" /\ loaded' = loaded
    BY <1>1, <1>7 DEF ThreadTypes
  <2>3. ImageHasFile(t)'
    BY <1>2, <1>3, <2>2 DEF ImageHasFile, Constructing
  <2>4. ImageHasBase(t)'
    BY <1>3, <2>2 DEF ImageHasBase
  <2>5. HeadersFree(t)'
    BY <1>3, <2>2 DEF HeadersFree
  <2>6. /\ "built" \notin Asking
        /\ IF t = Loader THEN "built" \in LoaderStages ELSE "built" \in WorkerStages
    BY DEF Asking, LoaderStages, WorkerStages
  <2>7. pc' = [pc EXCEPT ![t] = "built"]
    BY <1>7
  <2>8. QED
    BY <1>1, <1>3, <1>4, <1>5, <2>1, <2>3, <2>4, <2>5, <2>6, <2>7, ImageStep
<1>8. QED
  BY <1>6, <1>7 DEF MapFile, Go

(* An image that is steady is found to be what it is.                        *)
LEMMA CheckImageStep ==
  ASSUME ThreadTypes, \A u \in Threads : ThreadInv(u), Alive, NEW t \in Threads, CheckImage(t)
  PROVE  ThreadTypes' /\ \A u \in Threads : ThreadInv(u)'
<1> DEFINE base == image[t].base
           dyn == MyFile(t).type = "dyn"
           valid == ~dyn \/ (base # 0 /\ LooksElf(base))
           bias == Bias(MyFile(t), base)
           new == [image[t] EXCEPT !.valid = valid, !.base = bias]
           to == IF dyn /\ base # 0 /\ ~Mapped(base) THEN "crashed" ELSE "built"
<1>1. /\ pc[t] = "check" /\ image' = [image EXCEPT ![t] = new] /\ pc' = [pc EXCEPT ![t] = to]
      /\ UNCHANGED <<loaded, lock, query>>
  <2>1. image' = [image EXCEPT ![t].valid = valid, ![t].base = bias]
    BY DEF CheckImage
  <2>2. image' = [image EXCEPT ![t] = new]
    BY <2>1 DEF ThreadTypes
  <2>3. QED
    BY <2>2 DEF CheckImage, Go, restVars
<1>2. SpaceInv /\ ImageHasFile(t) /\ ImageHasBase(t) /\ HeadersFree(t)
  BY SpaceIs
<1>3. image[t] \in Images /\ image[t].file \in Files /\ ~image[t].valid /\ ~image[t].parsed /\ image[t].at # 0
  BY <1>1, <1>2 DEF ImageHasFile, ThreadTypes, Asking, Constructing
<1>4. valid \in BOOLEAN /\ bias \in Nat
  BY <1>3 DEF Images, Bias, LooksElf
<1>5. image[t].steady => valid /\ bias = Bias(Elf[image[t].file], LoadAt[image[t].file])
  <2> SUFFICES ASSUME image[t].steady
               PROVE  valid /\ bias = Bias(Elf[image[t].file], LoadAt[image[t].file])
    OBVIOUS
  <2>1. image[t].file \in loaded
    BY <1>2 DEF ImageHasFile
  <2>2. CASE dyn
    <3>1. base = LoadAt[image[t].file] /\ Elf[image[t].file].type = "dyn"
      BY <1>1, <1>2, <2>2 DEF ImageHasBase, MyFile
    <3>2. LoadAt[image[t].file] # 0 /\ LooksElf(LoadAt[image[t].file])
      BY <1>3, <2>1, <3>1, HeaderIsMapped
    <3>3. QED
      BY <3>1, <3>2 DEF MyFile
  <2>3. CASE ~dyn
    BY <2>3 DEF Bias, MyFile
  <2>4. QED
    BY <2>2, <2>3
<1> HIDE DEF valid, bias, base, dyn
<1>6. /\ new \in Images /\ new.base = bias /\ new.file = image[t].file /\ new.at = image[t].at
      /\ new.valid = valid /\ new.parsed = image[t].parsed /\ new.steady = image[t].steady
  BY <1>3, <1>4 DEF Images
<1>7. image'[t] = new /\ pc'[t] = to /\ to \in {"crashed", "built"} /\ loaded' = loaded
  BY <1>1 DEF ThreadTypes
<1> HIDE DEF new, to
<1>8. ImageHasFile(t)'
  BY <1>2, <1>3, <1>6, <1>7 DEF ImageHasFile, Constructing
<1>9. ImageHasBase(t)'
  BY <1>5, <1>6, <1>7 DEF ImageHasBase
<1>10. HeadersFree(t)'
  BY <1>2, <1>6, <1>7 DEF HeadersFree, MyFile
<1>11. \A u \in Threads : pc[u] \in Asking => query[u].of # t
  BY <1>3, NobodyAsks
<1>12. /\ pc[t] \notin Asking /\ to \notin Asking
       /\ IF t = Loader THEN to \in LoaderStages ELSE to \in WorkerStages
  BY <1>1, <1>7 DEF Asking, LoaderStages, WorkerStages
<1>13. ~new.parsed
  BY <1>3, <1>6
<1>14. QED
  BY <1>1, <1>6, <1>8, <1>9, <1>10, <1>11, <1>12, <1>13, ImageStep

(* A thread that makes an image, or has let it go, has none that is wrong.    *)
LEMMA ReleaseStep ==
  ASSUME ThreadTypes, \A u \in Threads : ThreadInv(u), Alive,
         NEW t \in Threads, pc[t] \notin Asking,
         \A u \in Threads : pc[u] \in Asking => query[u].of # t,
         NEW to, to \notin Asking \cup Constructing \cup {"ready"},
         IF t = Loader THEN to \in LoaderStages ELSE to \in WorkerStages,
         image' = [image EXCEPT ![t] = NoImage], pc' = [pc EXCEPT ![t] = to],
         UNCHANGED <<loaded, lock, query>>
  PROVE  ThreadTypes' /\ \A u \in Threads : ThreadInv(u)'
<1>1. image'[t] = NoImage /\ pc'[t] = to
  BY DEF ThreadTypes
<1>2. /\ ~NoImage.steady /\ NoImage.at = 0 /\ ~NoImage.valid /\ ~NoImage.parsed
      /\ NoImage \in Images
  BY NoImageIsImage DEF NoImage
<1>3. ImageHasFile(t)'
  BY <1>1, <1>2 DEF ImageHasFile, Constructing
<1>4. ImageHasBase(t)'
  BY <1>1, <1>2 DEF ImageHasBase
<1>5. HeadersFree(t)'
  BY <1>1, <1>2 DEF HeadersFree
<1>6. to \notin Asking
  OBVIOUS
<1>7. QED
  BY <1>2, <1>3, <1>4, <1>5, <1>6, ImageStep

(* A thread whose image is not touched.                                     *)
LEMMA ImageIsKept ==
  ASSUME ThreadTypes, \A u \in Threads : ThreadInv(u), Alive,
         NEW t \in Threads, pc[t] \notin Asking \cup Constructing,
         \A u \in Threads : pc[u] \in Asking => query[u].of # t,
         NEW to, to \notin Asking \cup Constructing,
         image[t].valid => to \in {"built", "ready", "dlopen"}, to = "ready" => image[t].valid,
         IF t = Loader THEN to \in LoaderStages ELSE to \in WorkerStages,
         pc' = [pc EXCEPT ![t] = to], UNCHANGED <<loaded, image, lock, query>>
  PROVE  ThreadTypes' /\ \A u \in Threads : ThreadInv(u)'
<1>1. image'[t] = image[t] /\ pc'[t] = to /\ loaded' = loaded
  BY DEF ThreadTypes
<1>2. image[t] \in Images /\ image' = [image EXCEPT ![t] = image[t]]
  BY DEF ThreadTypes
<1>3. ImageHasFile(t) /\ ImageHasBase(t) /\ HeadersFree(t)
  BY DEF ThreadInv
<1>4. ImageHasFile(t)'
  BY <1>1, <1>3 DEF ImageHasFile, Constructing
<1>5. ImageHasBase(t)'
  BY <1>1, <1>3 DEF ImageHasBase, Constructing
<1>6. HeadersFree(t)'
  BY <1>1, <1>3 DEF HeadersFree, MyFile
<1>7. pc[t] \notin Asking /\ to \notin Asking
  OBVIOUS
<1>8. QED
  BY <1>2, <1>4, <1>5, <1>6, <1>7, ImageStep

(* A file that is opened is the one that was meant, and a base that is given is  *)
(* that of the file: elf_util.cpp:79-134.                                   *)
LEMMA OpenStep ==
  ASSUME ThreadTypes, \A u \in Threads : ThreadInv(u), Alive,
         NEW t \in Threads, pc[t] \in {"load", "idle"},
         NEW name, NEW base \in Nat,
         base # 0 =>
           \E f \in Files : /\ base = LoadAt[f] /\ name.name = Elf[f].path.name
                            /\ name.dir # NoDir => name = Elf[f].path,
         Open(t, name, base), UNCHANGED <<loaded, lock, query>>
  PROVE  /\ ThreadTypes' /\ \A u \in Threads : ThreadInv(u)'
         /\ pc'[t] \in {"built", "find", "map"} /\ \A u \in Threads : u # t => pc'[u] = pc[u]
<1> DEFINE path == IF name.dir # NoDir THEN name ELSE resolveMapPath(Maps, name)
           files == {f \in Files : Elf[f].path = path}
           to == IF base = 0 THEN "find" ELSE "map"
<1>1. SpaceInv /\ ImageHasFile(t)
  BY SpaceIs
<1>2. ~image[t].valid
  BY <1>1 DEF ImageHasFile, Asking
<1>3. \A u \in Threads : pc[u] \in Asking => query[u].of # t
  BY <1>2, NobodyAsks
<1>4. pc[t] \notin Asking
  BY DEF Asking
<1>5. \/ image' = [image EXCEPT ![t] = NoImage] /\ pc' = [pc EXCEPT ![t] = "built"]
      \/ \E f \in files :
           /\ image' = [image EXCEPT ![t] =
                [NoImage EXCEPT !.file = f, !.base = base, !.steady = f \in loaded]]
           /\ pc' = [pc EXCEPT ![t] = to]
  BY Zenon DEF Open, Go
<1>6. CASE image' = [image EXCEPT ![t] = NoImage] /\ pc' = [pc EXCEPT ![t] = "built"]
  <2>1. /\ "built" \notin Asking \cup Constructing \cup {"ready"}
        /\ IF t = Loader THEN "built" \in LoaderStages ELSE "built" \in WorkerStages
    BY DEF Asking, Constructing, LoaderStages, WorkerStages
  <2>2. ThreadTypes' /\ \A u \in Threads : ThreadInv(u)'
    BY <1>3, <1>4, <1>6, <2>1, ReleaseStep
  <2>3. pc'[t] = "built" /\ \A u \in Threads : u # t => pc'[u] = pc[u]
    BY <1>6 DEF ThreadTypes
  <2>4. QED
    BY <2>2, <2>3
<1>7. ASSUME NEW g \in files,
             image' = [image EXCEPT ![t] =
               [NoImage EXCEPT !.file = g, !.base = base, !.steady = g \in loaded]],
             pc' = [pc EXCEPT ![t] = to]
      PROVE  /\ ThreadTypes' /\ \A u \in Threads : ThreadInv(u)'
             /\ pc'[t] \in {"built", "find", "map"} /\ \A u \in Threads : u # t => pc'[u] = pc[u]
  <2> DEFINE new == [NoImage EXCEPT !.file = g, !.base = base, !.steady = g \in loaded]
  <2>1. g \in Files /\ Elf[g].path = path
    OBVIOUS
  <2>15. base # 0 =>
           \E f \in Files : /\ base = LoadAt[f] /\ name.name = Elf[f].path.name
                            /\ name.dir # NoDir => name = Elf[f].path
    OBVIOUS
  <2>2. base # 0 => base = LoadAt[g]
    <3> SUFFICES ASSUME base # 0 PROVE base = LoadAt[g]
      OBVIOUS
    <3>1. PICK f \in Files : /\ base = LoadAt[f] /\ name.name = Elf[f].path.name
                             /\ name.dir # NoDir => name = Elf[f].path
      BY <2>15, Zenon
    <3>2. CASE name.dir # NoDir
      <4>1. Elf[g].path.name = Elf[f].path.name
        BY <2>1, <3>1, <3>2
      <4>2. g = f
        BY <2>1, <4>1, LoaderAssumption
      <4>3. QED
        BY <3>1, <4>2
    <3>3. CASE name.dir = NoDir
      <4>1. Elf[g].path = resolveMapPath(Maps, name)
        BY <2>1, <3>3
      <4>2. g = f
        BY <1>1, <2>1, <3>1, <3>3, <4>1, PathIsResolved
      <4>3. QED
        BY <3>1, <4>2
    <3>4. QED
      BY <3>2, <3>3
  <2> HIDE DEF path, files
  <2>3. /\ new.file = g /\ new.base = base /\ new.at = 0 /\ ~new.valid /\ ~new.parsed
        /\ new.steady = (g \in loaded)
    BY DEF NoImage
  <2>4. new \in Images
    <3>1. (g \in loaded) \in BOOLEAN /\ g \in Files \cup {None} /\ base \in Nat
      BY <2>1
    <3>2. NoImage \in Images
      BY NoImageIsImage
    <3>3. QED
      BY <3>1, <3>2 DEF Images
  <2>5. image' = [image EXCEPT ![t] = new]
    BY <1>7
  <2> HIDE DEF new
  <2>6. image'[t] = new /\ pc'[t] = to /\ loaded' = loaded
    BY <1>7, <2>5 DEF ThreadTypes
  <2>7. to \in {"find", "map"} /\ (to = "map" => base # 0)
    OBVIOUS
  <2> HIDE DEF to
  <2>8. ImageHasFile(t)'
    BY <2>1, <2>3, <2>6, <2>7 DEF ImageHasFile
  <2>9. ImageHasBase(t)'
    BY <2>2, <2>3, <2>6, <2>7 DEF ImageHasBase, Constructing
  <2>10. HeadersFree(t)'
    BY <2>3, <2>6 DEF HeadersFree
  <2>11. /\ to \notin Asking
         /\ IF t = Loader THEN to \in LoaderStages ELSE to \in WorkerStages
    BY <2>7 DEF Asking, LoaderStages, WorkerStages, Constructing
  <2>12. ThreadTypes' /\ \A u \in Threads : ThreadInv(u)'
    BY <1>3, <1>4, <1>7, <2>3, <2>4, <2>5, <2>8, <2>9, <2>10, <2>11, ImageStep
  <2>13. \A u \in Threads : u # t => pc'[u] = pc[u]
    BY <1>7 DEF ThreadTypes
  <2>14. QED
    BY <2>6, <2>7, <2>12, <2>13
<1> HIDE DEF to, files
<1>8. ASSUME NEW g \in files,
             image' = [image EXCEPT ![t] =
               [NoImage EXCEPT !.file = g, !.base = base, !.steady = g \in loaded]]
             /\ pc' = [pc EXCEPT ![t] = to]
      PROVE  /\ ThreadTypes' /\ \A u \in Threads : ThreadInv(u)'
             /\ pc'[t] \in {"built", "find", "map"} /\ \A u \in Threads : u # t => pc'[u] = pc[u]
  BY <1>7, <1>8, Zenon
<1>9. QED
  BY <1>5, <1>6, <1>8, Zenon

(* newSymbolResolver opens a file, by name or with a base: symbols.cpp:25-40.*)
LEMMA NewSymbolResolverStep ==
  ASSUME ThreadTypes, setting \in Settings, \A u \in Threads : ThreadInv(u), Alive,
         NEW w \in Workers, NewSymbolResolver(w)
  PROVE  ThreadTypes' /\ (\A u \in Threads : ThreadInv(u)') /\ pc'[Loader] = pc[Loader]
<1>1. PICK f \in setting.wanted, short \in BOOLEAN, based \in BOOLEAN :
        Open(w, [Elf[f].path EXCEPT !.dir = IF short THEN NoDir ELSE @],
             IF based THEN LoadAt[f] ELSE 0)
  BY DEF NewSymbolResolver
<1> DEFINE name == [Elf[f].path EXCEPT !.dir = IF short THEN NoDir ELSE @]
           base == IF based THEN LoadAt[f] ELSE 0
<1>2. pc[w] \in {"load", "idle"} /\ UNCHANGED <<loaded, lock, query>>
  BY DEF NewSymbolResolver, restVars
<1>3. f \in Files /\ LoadAt[f] \in Nat
  BY LoaderAssumption
<1>4. Elf[f].path \in [dir : STRING \ {NoDir}, name : STRING]
  BY <1>3, LoaderAssumption DEF IsLoadable
<1>5. base \in Nat /\ (base # 0 => base = LoadAt[f])
  BY <1>3
<1>6. name.name = Elf[f].path.name /\ (name.dir # NoDir => name = Elf[f].path)
  BY <1>4
<1>7. Open(w, name, base)
  BY <1>1
<1> HIDE DEF name, base
<1>8. w \in Threads /\ Loader \in Threads /\ w # Loader
  BY ThreadsAre
<1>9. /\ ThreadTypes' /\ \A u \in Threads : ThreadInv(u)'
      /\ \A u \in Threads : u # w => pc'[u] = pc[u]
  BY <1>2, <1>3, <1>5, <1>6, <1>7, <1>8, OpenStep
<1>10. QED
  BY <1>8, <1>9

(* loadAll takes the next module, or is done.                                *)
LEMMA NextEntryStep ==
  ASSUME IndInv, Alive, NextEntry, UNCHANGED setting
  PROVE  ThreadTypes' /\ (\A u \in Threads : ThreadInv(u)') /\ PlanInv'
<1>1. ThreadTypes /\ PlanTypes /\ PlanInv /\ (\A u \in Threads : ThreadInv(u)) /\ Loader \in Threads
  BY ThreadsAre DEF IndInv, TypeOK
<1>2. pc[Loader] = "load" /\ UNCHANGED <<plan, next, backend, hyos, closed, told, loaded, lock, query>>
  BY DEF NextEntry, restVars, bootVars
<1>3. /\ plan = Sent(setting.plan) /\ next \in 1..(Len(plan.modules) + 1) /\ Obeyed
  BY <1>1, <1>2 DEF PlanInv
<1>4. ASSUME \/ pc'[Loader] = "done" /\ next > Len(plan.modules)
             \/ pc'[Loader] \in {"built", "find", "map"} /\ ~(next > Len(plan.modules))
      PROVE  PlanInv'
  <2>1. Obeyed'
    BY <1>2, <1>3, <1>4 DEF Obeyed, Usable, Call
  <2>2. Len(plan.modules) \in Nat
    BY <1>1, LoaderAssumption, <1>3 DEF Sent, IndInv, TypeOK
  <2>3. ~(next > Len(plan.modules)) => next =< Len(plan.modules)
    BY <1>1, <2>2 DEF PlanTypes
  <2>4. QED
    BY <1>2, <1>3, <1>4, <2>1, <2>3 DEF PlanInv, WithEntry, Constructing, Asking
<1>5. CASE next > Len(plan.modules) /\ image' = image /\ pc' = [pc EXCEPT ![Loader] = "done"]
  <2>1. pc'[Loader] = "done"
    BY <1>1, <1>5 DEF ThreadTypes
  <2>2. PlanInv'
    BY <1>4, <1>5, <2>1
  <2>3. ~image[Loader].valid
    BY <1>1, <1>2 DEF ThreadInv, ImageHasFile, Asking
  <2>4. \A u \in Threads : pc[u] \in Asking => query[u].of # Loader
    BY <1>1, <2>3, NobodyAsks
  <2>5. /\ pc[Loader] \notin Asking \cup Constructing /\ "done" \notin Asking \cup Constructing
        /\ "done" \in LoaderStages
    BY <1>2 DEF Asking, Constructing, LoaderStages
  <2>6. ThreadTypes' /\ \A u \in Threads : ThreadInv(u)'
    BY <1>1, <1>2, <1>5, <2>3, <2>4, <2>5, ImageIsKept
  <2>7. QED
    BY <2>2, <2>6
<1>6. CASE ~(next > Len(plan.modules)) /\ Open(Loader, [dir |-> NoDir, name |-> LinkerName], 0)
  <2>1. 0 \in Nat /\ pc[Loader] \in {"load", "idle"}
    BY <1>2
  <2>2. /\ ThreadTypes' /\ \A u \in Threads : ThreadInv(u)'
        /\ pc'[Loader] \in {"built", "find", "map"}
    BY <1>1, <1>2, <1>6, <2>1, OpenStep
  <2>3. QED
    BY <1>4, <1>6, <2>2
<1>7. QED
  BY <1>5, <1>6 DEF NextEntry, Go

(* newSymbolResolver returns.                                                *)
LEMMA BuiltStep ==
  ASSUME ThreadTypes, \A u \in Threads : ThreadInv(u), Alive, NEW w \in Workers, Built(w)
  PROVE  ThreadTypes' /\ (\A u \in Threads : ThreadInv(u)') /\ pc'[Loader] = pc[Loader]
<1>1. w \in Threads /\ Loader \in Threads /\ w # Loader
  BY ThreadsAre
<1>2. pc[w] = "built" /\ UNCHANGED <<loaded, lock, query>>
  BY DEF Built, restVars
<1>3. CASE image[w].valid /\ image' = image /\ pc' = [pc EXCEPT ![w] = "ready"]
  <2>1. pc[w] \notin Constructing \cup {"parse"} /\ "ready" \notin Constructing \cup {"parse"}
        /\ "ready" \in WorkerStages /\ pc[w] \notin Asking /\ "ready" \notin Asking
    BY <1>2 DEF Constructing, WorkerStages, Asking
  <2>2. query[w] \in Queries /\ query' = [query EXCEPT ![w] = query[w]] /\ query[w] = NoQuery
    BY <1>1, <1>2, <2>1 DEF ThreadTypes, ThreadInv, QueryInv, Alive
  <2>3. QueryInv(w)'
    <3>1. pc'[w] = "ready" /\ query'[w] = NoQuery
      BY <1>1, <1>2, <1>3, <2>2 DEF ThreadTypes
    <3>2. QED
      BY <2>1, <3>1 DEF QueryInv
  <2>4. ThreadTypes' /\ \A u \in Threads : ThreadInv(u)'
    BY <1>1, <1>2, <1>3, <2>1, <2>2, <2>3, AskStep
  <2>5. pc'[Loader] = pc[Loader]
    BY <1>1, <1>3 DEF ThreadTypes
  <2>6. QED
    BY <2>4, <2>5
<1>4. CASE /\ ~image[w].valid /\ image' = [image EXCEPT ![w] = NoImage]
           /\ pc' = [pc EXCEPT ![w] = "idle"]
  <2>1. "idle" \notin Asking \cup Constructing \cup {"ready"} /\ "idle" \in WorkerStages
        /\ pc[w] \notin Asking
    BY <1>2 DEF Constructing, WorkerStages, Asking
  <2>2. \A u \in Threads : pc[u] \in Asking => query[u].of # w
    BY <1>1, <1>4, NobodyAsks
  <2>3. ThreadTypes' /\ \A u \in Threads : ThreadInv(u)'
    BY <1>1, <1>2, <1>4, <2>1, <2>2, ReleaseStep
  <2>4. pc'[Loader] = pc[Loader]
    BY <1>1, <1>4 DEF ThreadTypes
  <2>5. QED
    BY <2>3, <2>4
<1>5. QED
  BY <1>1, <1>3, <1>4 DEF Built, Go, Rest

(* freeSymbolResolver unmaps an image nobody asks.                           *)
LEMMA FreeSymbolResolverStep ==
  ASSUME ThreadTypes, \A u \in Threads : ThreadInv(u), Alive, NEW w \in Workers, FreeSymbolResolver(w)
  PROVE  ThreadTypes' /\ (\A u \in Threads : ThreadInv(u)') /\ pc'[Loader] = pc[Loader]
<1>1. w \in Threads /\ Loader \in Threads /\ w # Loader
  BY ThreadsAre
<1>2. /\ pc[w] = "ready" /\ \A u \in Threads : query[u].of # w
      /\ image' = [image EXCEPT ![w] = NoImage] /\ pc' = [pc EXCEPT ![w] = "idle"]
      /\ UNCHANGED <<loaded, lock, query>>
  BY DEF FreeSymbolResolver, restVars, Go
<1>3. "idle" \notin Asking \cup Constructing \cup {"ready"} /\ "idle" \in WorkerStages
      /\ pc[w] \notin Asking
  BY <1>2 DEF Constructing, WorkerStages, Asking
<1>4. ThreadTypes' /\ \A u \in Threads : ThreadInv(u)'
  BY <1>1, <1>2, <1>3, ReleaseStep
<1>5. pc'[Loader] = pc[Loader]
  BY <1>1, <1>2 DEF ThreadTypes
<1>6. QED
  BY <1>4, <1>5

(* The thread a step leaves where it was, and whom it asks.                  *)
LEMMA WhoIsAsked ==
  ASSUME ThreadTypes, \A u \in Threads : ThreadInv(u), NEW t \in Threads, pc[t] \in Asking
  PROVE  /\ query[t] \in Queries /\ Of(t) \in Threads /\ image[Of(t)].valid /\ query[t].kind # None
         /\ image[Of(t)].at # 0 /\ image[Of(t)].file \in Files /\ pc[Of(t)] \notin Constructing
<1>1. QueryInv(t)
  BY DEF ThreadInv
<1>2. query[t] \in Queries /\ Of(t) \in Threads /\ image[Of(t)].valid /\ query[t].kind # None
  BY <1>1 DEF QueryInv, Of, ThreadTypes
<1>3. ImageHasFile(Of(t))
  BY <1>2 DEF ThreadInv
<1>4. QED
  BY <1>2, <1>3 DEF ImageHasFile, Constructing, Asking

(* ensureParsed takes the mutex of the image, or finds it parsed.            *)
LEMMA BeginParseStep ==
  ASSUME ThreadTypes, \A u \in Threads : ThreadInv(u), Alive, NEW t \in Threads, BeginParse(t)
  PROVE  /\ ThreadTypes' /\ \A u \in Threads : ThreadInv(u)'
         /\ pc' = [pc EXCEPT ![t] = "look"] \/ pc' = [pc EXCEPT ![t] = "parse"]
<1> DEFINE r == Of(t)
<1>1. pc[t] = "lock" /\ lock[r] = None /\ UNCHANGED <<loaded, query>>
  BY DEF BeginParse
<1>2. pc[t] \in Asking
  BY <1>1 DEF Asking
<1>3. /\ query[t] \in Queries /\ r \in Threads /\ image[r].valid /\ query[t].kind # None
      /\ pc[r] \notin Constructing /\ r = query[t].of
  BY <1>2, WhoIsAsked DEF Of
<1>11. QueryInv(t)
  BY DEF ThreadInv
<1> HIDE DEF r
<1>4. CASE image[r].parsed /\ pc' = [pc EXCEPT ![t] = "look"] /\ UNCHANGED <<image, lock>>
  <2>1. /\ pc[t] \notin Constructing \cup {"parse"} /\ "look" \notin Constructing \cup {"parse"}
        /\ "look" \in WorkerStages /\ "look" \in LoaderStages /\ "look" \in Asking
    BY <1>1 DEF Constructing, WorkerStages, LoaderStages, Asking
  <2>2. query' = [query EXCEPT ![t] = query[t]]
    BY <1>1 DEF ThreadTypes
  <2>3. QueryInv(t)'
    <3>1. pc'[t] = "look" /\ query' = query /\ image' = image
      BY <1>1, <1>4 DEF ThreadTypes
    <3>2. QED
      BY <1>2, <1>11, <2>1, <3>1 DEF QueryInv
  <2>4. ThreadTypes' /\ \A u \in Threads : ThreadInv(u)'
    BY <1>1, <1>3, <1>4, <2>1, <2>2, <2>3, AskStep
  <2>5. QED
    BY <1>4, <2>4
<1>5. CASE /\ ~image[r].parsed /\ image' = [image EXCEPT ![r].parsed = TRUE]
           /\ lock' = [lock EXCEPT ![r] = t] /\ pc' = [pc EXCEPT ![t] = "parse"]
  <2>1. /\ \A u \in Threads : u # r => image'[u] = image[u] /\ lock'[u] = lock[u]
        /\ lock'[r] = t /\ image'[r] = [image[r] EXCEPT !.parsed = TRUE]
        /\ pc'[t] = "parse" /\ \A u \in Threads : u # t => pc'[u] = pc[u]
    BY <1>3, <1>5 DEF ThreadTypes
  <2>2. image[r] \in Images
    BY <1>3 DEF ThreadTypes
  <2>3. /\ image'[r].file = image[r].file /\ image'[r].base = image[r].base
        /\ image'[r].at = image[r].at /\ image'[r].steady = image[r].steady
        /\ image'[r].valid = image[r].valid /\ image'[r].parsed /\ image'[r] \in Images
        /\ image'[r].symbols = image[r].symbols
    BY <2>1, <2>2 DEF Images
  <2>4. ThreadTypes'
    <3>1. image' \in [Threads -> Images]
      <4>1. \A u \in Threads : image'[u] \in Images
        BY <2>1, <2>3 DEF ThreadTypes
      <4>2. image' = [u \in Threads |-> image'[u]]
        BY <1>5 DEF ThreadTypes
      <4>3. QED
        BY <4>1, <4>2
    <3>2. lock' \in [Threads -> Threads \cup {None}]
      BY <1>5 DEF ThreadTypes
    <3>3. pc' \in [Threads -> WorkerStages \cup LoaderStages]
      BY <1>5 DEF ThreadTypes, WorkerStages, LoaderStages, Asking
    <3>4. pc'[Loader] \in LoaderStages /\ \A w \in Workers : pc'[w] \in WorkerStages
      BY <2>1, ThreadsAre DEF ThreadTypes, WorkerStages, LoaderStages, Asking
    <3>5. QED
      BY <1>1, <3>1, <3>2, <3>3, <3>4 DEF ThreadTypes
  <2>5. \A u \in Threads : ImageHasFile(u)' /\ ImageHasBase(u)' /\ HeadersFree(u)'
    <3>1. pc[t] \notin Constructing /\ "parse" \notin Constructing /\ "parse" \in Asking /\ "parse" # "ready"
      BY <1>1 DEF Constructing, Asking
    <3>2. \A u \in Threads :
           /\ image'[u].file = image[u].file /\ image'[u].base = image[u].base
           /\ image'[u].at = image[u].at /\ image'[u].steady = image[u].steady
           /\ image'[u].valid = image[u].valid
           /\ image'[u].parsed /\ ~image[u].parsed => pc[u] \notin Constructing
      BY <1>3, <2>1, <2>3
    <3>3. pc' = [pc EXCEPT ![t] = "parse"] /\ loaded' = loaded
      BY <1>1, <1>5
    <3>4. QED
      BY <3>1, <3>2, <3>3, ImagesAreKept
  <2>6. ASSUME NEW u \in Threads
        PROVE  QueryInv(u)'
    <3>1. QueryInv(u) /\ query' = query
      BY <1>1 DEF ThreadInv
    <3>2. pc'[u] \in Asking <=> pc[u] \in Asking
      BY <1>1, <2>1 DEF Asking
    <3>3. \A x \in Threads : image'[x].valid = image[x].valid
      BY <2>1, <2>3
    <3>4. pc[u] = "crashed" => pc'[u] = "crashed"
      BY <1>1, <2>1
    <3>5. QED
      BY <3>1, <3>2, <3>3, <3>4 DEF QueryInv
  <2>7. ASSUME NEW x \in Threads
        PROVE  ParseInv(x)'
    <3>1. ParseInv(x) /\ query' = query /\ lock[x] \in Threads \cup {None}
      BY <1>1 DEF ThreadInv, ThreadTypes
    <3>2. lock'[x] # None => pc'[lock'[x]] = "parse" /\ query'[lock'[x]].of = x /\ image'[x].parsed
      <4>1. CASE x = r
        BY <1>3, <2>1, <2>3, <3>1, <4>1
      <4>2. CASE x # r
        <5>1. lock'[x] = lock[x] /\ image'[x] = image[x]
          BY <2>1, <4>2
        <5>2. lock[x] # None => lock[x] # t /\ lock[x] \in Threads /\ pc[lock[x]] = "parse"
          BY <1>1, <3>1 DEF ParseInv
        <5>3. QED
          BY <2>1, <3>1, <5>1, <5>2 DEF ParseInv
      <4>3. QED
        BY <4>1, <4>2
    <3>3. pc'[x] = "parse" => lock'[query'[x].of] = x
      <4>1. CASE x = t
        BY <1>3, <2>1, <3>1, <4>1
      <4>2. CASE x # t
        <5> SUFFICES ASSUME pc'[x] = "parse" PROVE lock'[query[x].of] = x
          BY <3>1
        <5>1. pc[x] = "parse"
          BY <2>1, <4>2
        <5>2. query[x].of \in Threads
          BY <5>1, WhoIsAsked DEF Asking, Of
        <5>3. lock[query[x].of] = x
          BY <3>1, <5>1 DEF ParseInv, Of
        <5>4. query[x].of # r
          BY <1>1, <5>3, ThreadsAre
        <5>5. QED
          BY <2>1, <5>2, <5>3, <5>4
      <4>3. QED
        BY <4>1, <4>2
    <3>4. pc'[x] = "look" => image'[query'[x].of].parsed /\ lock'[query'[x].of] = None
      <4> SUFFICES ASSUME pc'[x] = "look"
                   PROVE  image'[query[x].of].parsed /\ lock'[query[x].of] = None
        BY <3>1
      <4>1. pc[x] = "look" /\ x # t
        BY <2>1
      <4>2. query[x].of \in Threads
        BY <4>1, WhoIsAsked DEF Asking, Of
      <4>3. image[query[x].of].parsed /\ lock[query[x].of] = None
        BY <3>1, <4>1 DEF ParseInv, Asked, Of
      <4>4. query[x].of # r
        BY <1>5, <4>3
      <4>5. QED
        BY <2>1, <4>2, <4>3, <4>4
    <3>5. image'[x].parsed /\ lock'[x] = None =>
            \E b \in Backends : image'[x].symbols = Symbols(Elf[image'[x].file], image'[x].base, b)
      <4>1. CASE x = r
        BY <2>1, <4>1, ThreadsAre
      <4>2. CASE x # r
        BY <2>1, <3>1, <4>2 DEF ParseInv
      <4>3. QED
        BY <4>1, <4>2
    <3>6. QED
      BY <3>2, <3>3, <3>4, <3>5 DEF ParseInv, Asked, Of
  <2>8. QED
    BY <1>5, <2>4, <2>5, <2>6, <2>7 DEF ThreadInv
<1>6. QED
  BY <1>4, <1>5 DEF BeginParse, Go, Asked, r

(* ensureParsed leaves the symbols of the file behind and the mutex free.    *)
LEMMA EndParseStep ==
  ASSUME ThreadTypes, backend \in Backends, \A u \in Threads : ThreadInv(u), Alive,
         NEW t \in Threads, EndParse(t)
  PROVE  /\ ThreadTypes' /\ \A u \in Threads : ThreadInv(u)'
         /\ pc' = [pc EXCEPT ![t] = "look"]
<1> DEFINE r == Of(t)
           symbols == Symbols(Elf[image[r].file], image[r].base, backend)
<1>1. /\ pc[t] = "parse" /\ image' = [image EXCEPT ![r].symbols = symbols]
      /\ lock' = [lock EXCEPT ![r] = None] /\ pc' = [pc EXCEPT ![t] = "look"]
      /\ UNCHANGED <<loaded, query>>
  BY DEF EndParse, Go, Asked
<1>2. pc[t] \in Asking
  BY <1>1 DEF Asking
<1>3. /\ query[t] \in Queries /\ r \in Threads /\ image[r].valid /\ query[t].kind # None
      /\ pc[r] \notin Constructing /\ r = query[t].of /\ image[r].file \in Files
  BY <1>2, WhoIsAsked DEF Of
<1>4. lock[r] = t
  BY <1>1 DEF ThreadInv, ParseInv
<1>5. image[r].parsed
  BY <1>3, <1>4, ThreadsAre DEF ThreadInv, ParseInv
<1> HIDE DEF r
<1>6. symbols \in SymbolLists
  <2>1. image[r].base \in Nat
    BY <1>3 DEF ThreadTypes, Images
  <2>2. QED
    BY <1>3, <2>1 DEF SymbolLists
<1>7. /\ \A u \in Threads : u # r => image'[u] = image[u] /\ lock'[u] = lock[u]
      /\ lock'[r] = None /\ image'[r] = [image[r] EXCEPT !.symbols = symbols]
      /\ pc'[t] = "look" /\ \A u \in Threads : u # t => pc'[u] = pc[u]
  BY <1>1, <1>3 DEF ThreadTypes
<1>8. image[r] \in Images
  BY <1>3 DEF ThreadTypes
<1>9. symbols = Symbols(Elf[image[r].file], image[r].base, backend)
  OBVIOUS
<1> HIDE DEF symbols
<1>10. /\ image'[r].file = image[r].file /\ image'[r].base = image[r].base
       /\ image'[r].at = image[r].at /\ image'[r].steady = image[r].steady
       /\ image'[r].valid = image[r].valid /\ image'[r].parsed = image[r].parsed
       /\ image'[r] \in Images /\ image'[r].symbols = symbols
  BY <1>6, <1>7, <1>8 DEF Images
<1>11. ThreadTypes'
  <2>1. image' \in [Threads -> Images]
    <3>1. \A u \in Threads : image'[u] \in Images
      BY <1>7, <1>10 DEF ThreadTypes
    <3>2. image' = [u \in Threads |-> image'[u]]
      BY <1>1 DEF ThreadTypes
    <3>3. QED
      BY <3>1, <3>2
  <2>2. lock' \in [Threads -> Threads \cup {None}]
    BY <1>1 DEF ThreadTypes
  <2>3. pc' \in [Threads -> WorkerStages \cup LoaderStages]
    BY <1>1 DEF ThreadTypes, WorkerStages, LoaderStages, Asking
  <2>4. pc'[Loader] \in LoaderStages /\ \A w \in Workers : pc'[w] \in WorkerStages
    BY <1>7, ThreadsAre DEF ThreadTypes, WorkerStages, LoaderStages, Asking
  <2>5. QED
    BY <1>1, <2>1, <2>2, <2>3, <2>4 DEF ThreadTypes
<1>12. \A u \in Threads : ImageHasFile(u)' /\ ImageHasBase(u)' /\ HeadersFree(u)'
  <2>1. pc[t] \notin Constructing /\ "look" \notin Constructing /\ "look" \in Asking /\ "look" # "ready"
    BY <1>1 DEF Constructing, Asking
  <2>2. \A u \in Threads :
         /\ image'[u].file = image[u].file /\ image'[u].base = image[u].base
         /\ image'[u].at = image[u].at /\ image'[u].steady = image[u].steady
         /\ image'[u].valid = image[u].valid
         /\ image'[u].parsed /\ ~image[u].parsed => pc[u] \notin Constructing
    BY <1>3, <1>7, <1>10
  <2>3. pc' = [pc EXCEPT ![t] = "look"] /\ loaded' = loaded
    BY <1>1
  <2>4. QED
    BY <2>1, <2>2, <2>3, ImagesAreKept
<1>13. ASSUME NEW u \in Threads
       PROVE  QueryInv(u)'
  <2>1. QueryInv(u) /\ query' = query
    BY <1>1 DEF ThreadInv
  <2>2. pc'[u] \in Asking <=> pc[u] \in Asking
    BY <1>1, <1>7 DEF Asking
  <2>3. \A x \in Threads : image'[x].valid = image[x].valid
    BY <1>7, <1>10
  <2>4. pc[u] = "crashed" => pc'[u] = "crashed"
    BY <1>1, <1>7
  <2>5. QED
    BY <2>1, <2>2, <2>3, <2>4 DEF QueryInv
<1>14. ASSUME NEW x \in Threads
       PROVE  ParseInv(x)'
  <2>1. ParseInv(x) /\ query' = query /\ lock[x] \in Threads \cup {None}
    BY <1>1 DEF ThreadInv, ThreadTypes
  <2>2. lock'[x] # None => pc'[lock'[x]] = "parse" /\ query'[lock'[x]].of = x /\ image'[x].parsed
    <3> SUFFICES ASSUME lock'[x] # None
                 PROVE  pc'[lock'[x]] = "parse" /\ query'[lock'[x]].of = x /\ image'[x].parsed
      OBVIOUS
    <3>1. x # r /\ lock'[x] = lock[x] /\ image'[x] = image[x]
      BY <1>7
    <3>2. lock[x] \in Threads /\ pc[lock[x]] = "parse" /\ query[lock[x]].of = x /\ image[x].parsed
      BY <2>1, <3>1 DEF ParseInv
    <3>3. lock[x] # t
      BY <1>3, <3>1, <3>2
    <3>4. QED
      BY <1>7, <2>1, <3>1, <3>2, <3>3
  <2>3. pc'[x] = "parse" => lock'[query'[x].of] = x
    <3> SUFFICES ASSUME pc'[x] = "parse" PROVE lock'[query[x].of] = x
      BY <2>1
    <3>1. pc[x] = "parse" /\ x # t
      BY <1>7
    <3>2. query[x].of \in Threads
      BY <3>1, WhoIsAsked DEF Asking, Of
    <3>3. lock[query[x].of] = x
      BY <2>1, <3>1 DEF ParseInv, Of
    <3>4. query[x].of # r
      BY <1>4, <3>1, <3>3
    <3>5. QED
      BY <1>7, <3>2, <3>3, <3>4
  <2>4. pc'[x] = "look" => image'[query'[x].of].parsed /\ lock'[query'[x].of] = None
    <3> SUFFICES ASSUME pc'[x] = "look"
                 PROVE  image'[query[x].of].parsed /\ lock'[query[x].of] = None
      BY <2>1
    <3>1. CASE query[x].of = r
      BY <1>5, <1>7, <1>10, <3>1
    <3>2. CASE query[x].of # r
      <4>1. pc[x] = "look" /\ x # t
        BY <1>3, <1>7, <3>2
      <4>2. query[x].of \in Threads
        BY <4>1, WhoIsAsked DEF Asking, Of
      <4>3. image[query[x].of].parsed /\ lock[query[x].of] = None
        BY <2>1, <4>1 DEF ParseInv, Asked, Of
      <4>4. QED
        BY <1>7, <3>2, <4>2, <4>3
    <3>3. QED
      BY <3>1, <3>2
  <2>5. image'[x].parsed /\ lock'[x] = None =>
          \E b \in Backends : image'[x].symbols = Symbols(Elf[image'[x].file], image'[x].base, b)
    <3>1. CASE x = r
      BY <1>9, <1>10, <3>1
    <3>2. CASE x # r
      BY <1>7, <2>1, <3>2 DEF ParseInv
    <3>3. QED
      BY <3>1, <3>2
  <2>6. QED
    BY <2>2, <2>3, <2>4, <2>5 DEF ParseInv, Asked, Of
<1>15. QED
  BY <1>1, <1>11, <1>12, <1>13, <1>14 DEF ThreadInv

(* A thread that asks nobody afterwards.                                    *)
LEMMA AnswerStep ==
  ASSUME ThreadTypes, \A u \in Threads : ThreadInv(u), Alive, NEW t \in Threads,
         pc[t] \in {"look", "built", "idle", "ready"}, NEW to, to \in {"dlopen", "ready", "idle", "crashed"},
         IF t = Loader THEN to \in {"dlopen"} ELSE to # "dlopen",
         image[t].valid => to # "idle", to = "ready" => image[t].valid,
         pc' = [pc EXCEPT ![t] = to], query' = [query EXCEPT ![t] = NoQuery],
         UNCHANGED <<loaded, image, lock>>
  PROVE  ThreadTypes' /\ \A u \in Threads : ThreadInv(u)'
<1>1. /\ pc[t] \notin Constructing \cup {"parse"} /\ to \notin Constructing \cup {"parse"}
      /\ IF t = Loader THEN to \in LoaderStages ELSE to \in WorkerStages
  BY DEF Constructing, WorkerStages, LoaderStages
<1>2. NoQuery \in Queries
  BY DEF NoQuery, Queries
<1>3. QueryInv(t)'
  <2>1. pc'[t] = to /\ query'[t] = NoQuery /\ to \notin Asking
    BY DEF ThreadTypes, Asking
  <2>2. QED
    BY <2>1 DEF QueryInv
<1>4. image[t].valid => to \in Asking \cup {"built", "ready", "dlopen", "crashed"}
  OBVIOUS
<1>5. QED
  BY <1>1, <1>2, <1>3, <1>4, AskStep

(* Where a thread is after a call.                                           *)
LEMMA RestIs ==
  ASSUME NEW t \in Threads
  PROVE  /\ Rest(t) \in {"dlopen", "ready", "idle"}
         /\ IF t = Loader THEN Rest(t) \in {"dlopen"} ELSE Rest(t) # "dlopen"
         /\ image[t].valid => Rest(t) # "idle"
         /\ Rest(t) = "ready" => image[t].valid
BY DEF Rest

(* lookup and forEach return.                                                *)
LEMMA LookStep ==
  ASSUME ThreadTypes, \A u \in Threads : ThreadInv(u), Alive, NEW t \in Threads, Look(t)
  PROVE  /\ ThreadTypes' /\ \A u \in Threads : ThreadInv(u)'
         /\ pc[t] = "look" /\ pc' = [pc EXCEPT ![t] = Rest(t)]
<1>1. /\ pc[t] = "look" /\ pc' = [pc EXCEPT ![t] = Rest(t)]
      /\ query' = [query EXCEPT ![t] = NoQuery] /\ UNCHANGED <<loaded, image, lock>>
  BY DEF Look, Answer, Go
<1>2. ThreadTypes' /\ \A u \in Threads : ThreadInv(u)'
  BY <1>1, RestIs, AnswerStep
<1>3. QED
  BY <1>1, <1>2

(* A thread begins to ask for something.                                    *)
LEMMA LaterStep ==
  ASSUME ThreadTypes, \A u \in Threads : ThreadInv(u), Alive, NEW t \in Threads,
         pc[t] \in {"built", "idle", "ready"}, NEW q \in Queries,
         q.of \in Threads, image[q.of].valid, q.kind # None, q.of = Loader <=> t = Loader,
         pc' = [pc EXCEPT ![t] = "lock"], query' = [query EXCEPT ![t] = q],
         UNCHANGED <<loaded, image, lock>>
  PROVE  ThreadTypes' /\ \A u \in Threads : ThreadInv(u)'
<1>1. /\ pc[t] \notin Constructing \cup {"parse"} /\ "lock" \notin Constructing \cup {"parse"}
      /\ "lock" \in LoaderStages /\ "lock" \in WorkerStages /\ "lock" \in Asking
      /\ "lock" # "ready" /\ "lock" # "look"
  BY DEF Constructing, WorkerStages, LoaderStages, Asking
<1>2. QueryInv(t)'
  <2>1. pc'[t] = "lock" /\ query'[t] = q /\ image' = image
    BY DEF ThreadTypes
  <2>2. QED
    BY <1>1, <2>1 DEF QueryInv
<1>3. QED
  BY <1>1, <1>2, AskStep

(* The loader asks the linker's image, or none.                              *)
LEMMA ResolveDlopenExtStep ==
  ASSUME ThreadTypes, \A u \in Threads : ThreadInv(u), Alive, ResolveDlopenExt
  PROVE  /\ ThreadTypes' /\ \A u \in Threads : ThreadInv(u)'
         /\ pc[Loader] \in WithEntry /\ pc'[Loader] \in WithEntry
<1> DEFINE q == [of |-> Loader, kind |-> "exact", name |-> DlopenExt]
<1>1. pc[Loader] = "built" /\ UNCHANGED <<loaded, image, lock>> /\ Loader \in Threads
  BY ThreadsAre DEF ResolveDlopenExt
<1>2. CASE /\ image[Loader].valid /\ query' = [query EXCEPT ![Loader] = q]
           /\ pc' = [pc EXCEPT ![Loader] = "lock"]
  <2>1. q \in Queries /\ q.of = Loader /\ q.kind # None
    BY <1>1 DEF Queries, None
  <2> HIDE DEF q
  <2>2. ThreadTypes' /\ \A u \in Threads : ThreadInv(u)'
    BY <1>1, <1>2, <2>1, LaterStep
  <2>3. pc'[Loader] = "lock"
    BY <1>1, <1>2 DEF ThreadTypes
  <2>4. QED
    BY <1>1, <2>2, <2>3 DEF WithEntry, Asking
<1>3. CASE ~image[Loader].valid /\ pc' = [pc EXCEPT ![Loader] = "dlopen"] /\ query' = query
  <2>1. pc[Loader] \notin Asking
    BY <1>1 DEF Asking
  <2>2. query[Loader] = NoQuery
    BY <1>1, <2>1 DEF ThreadInv, QueryInv, Alive
  <2>3. query' = [query EXCEPT ![Loader] = NoQuery]
    BY <1>1, <1>3, <2>2 DEF ThreadTypes
  <2>4. ThreadTypes' /\ \A u \in Threads : ThreadInv(u)'
    BY <1>1, <1>3, <2>3, AnswerStep
  <2>5. pc'[Loader] = "dlopen"
    BY <1>1, <1>3 DEF ThreadTypes
  <2>6. QED
    BY <1>1, <2>4, <2>5 DEF WithEntry
<1>4. QED
  BY <1>2, <1>3 DEF ResolveDlopenExt, Go

(* symbolLookup and forEachSymbols: answered at once, or to be looked for in *)
(* the file.                                                                 *)
LEMMA SymbolLookupStep ==
  ASSUME ThreadTypes, \A u \in Threads : ThreadInv(u), Alive, NEW w \in Workers, SymbolLookup(w)
  PROVE  ThreadTypes' /\ (\A u \in Threads : ThreadInv(u)') /\ pc'[Loader] = pc[Loader]
<1>1. w \in Threads /\ Loader \in Threads /\ w # Loader
  BY ThreadsAre
<1>2. pc[w] \in {"idle", "ready"} /\ UNCHANGED <<loaded, image, lock>>
  BY DEF SymbolLookup
<1>3. ~(pc[w] \in Asking)
  BY <1>2 DEF Asking
<1>4. query[w] = NoQuery
  BY <1>1, <1>3 DEF ThreadInv, QueryInv, Alive
<1>5. query = [query EXCEPT ![w] = NoQuery]
  BY <1>1, <1>4 DEF ThreadTypes
<1>6. image[w].valid => pc[w] = "ready"
  BY <1>1, <1>2 DEF ThreadInv, ImageHasFile, Asking
<1>7. PICK r \in Workers, kind \in {"exact", "prefix", "each"}, name \in Names \cup {<<>>} :
        LET q == [of |-> r, kind |-> kind, name |-> name]
            later == query' = [query EXCEPT ![w] = q] /\ pc' = [pc EXCEPT ![w] = "lock"]
        IN /\ image[r].valid
           /\ \/ pc' = [pc EXCEPT ![w] = "crashed"] /\ UNCHANGED query
              \/ pc' = [pc EXCEPT ![w] = Rest(w)] /\ UNCHANGED query
              \/ later
  BY DEF SymbolLookup, Go, Answer
<1> DEFINE q == [of |-> r, kind |-> kind, name |-> name]
<1>8. CASE pc' = [pc EXCEPT ![w] = "crashed"] /\ UNCHANGED query
  <2>1. query' = [query EXCEPT ![w] = NoQuery] /\ pc[w] \in {"look", "built", "idle", "ready"}
    BY <1>2, <1>5, <1>8
  <2>2. ThreadTypes' /\ \A u \in Threads : ThreadInv(u)'
    <3> DEFINE to == "crashed"
    <3>1. /\ to \in {"dlopen", "ready", "idle", "crashed"} /\ (image[w].valid => to # "idle")
          /\ (to = "ready" => image[w].valid) /\ to # "dlopen" /\ pc' = [pc EXCEPT ![w] = to]
      BY <1>8
    <3> HIDE DEF to
    <3>2. QED
      BY <1>1, <1>2, <2>1, <3>1, AnswerStep
  <2>3. QED
    BY <1>1, <1>8, <2>2 DEF ThreadTypes
<1>9. CASE pc' = [pc EXCEPT ![w] = Rest(w)] /\ UNCHANGED query
  <2>1. query' = [query EXCEPT ![w] = NoQuery] /\ pc[w] \in {"look", "built", "idle", "ready"}
    BY <1>2, <1>5, <1>9
  <2>2. ThreadTypes' /\ \A u \in Threads : ThreadInv(u)'
    BY <1>1, <1>2, <1>9, <2>1, RestIs, AnswerStep
  <2>3. QED
    BY <1>1, <1>9, <2>2 DEF ThreadTypes
<1>10. CASE query' = [query EXCEPT ![w] = q] /\ pc' = [pc EXCEPT ![w] = "lock"]
  <2>1. r \in Threads /\ r # Loader /\ image[r].valid
    BY <1>7, ThreadsAre
  <2>2. q \in Queries /\ q.of = r /\ q.kind # None
    BY <2>1 DEF Queries, None
  <2> HIDE DEF q
  <2>3. ThreadTypes' /\ \A u \in Threads : ThreadInv(u)'
    BY <1>1, <1>2, <1>10, <2>1, <2>2, LaterStep
  <2>4. QED
    BY <1>1, <1>10, <2>3 DEF ThreadTypes
<1>11. QED
  <2>1. ThreadTypes' /\ \A u \in Threads : ThreadInv(u)'
    BY <1>7, <1>8, <1>9, <1>10
  <2>2. pc'[Loader] = pc[Loader]
    BY <1>1, <1>7 DEF ThreadTypes
  <2>3. QED
    BY <2>1, <2>2

(* pltHook returns.                                                          *)
LEMMA PltHookAtStep ==
  ASSUME ThreadTypes, \A u \in Threads : ThreadInv(u), Alive, NEW w \in Workers, PltHookAt(w)
  PROVE  ThreadTypes' /\ (\A u \in Threads : ThreadInv(u)') /\ pc'[Loader] = pc[Loader]
<1>1. w \in Threads /\ Loader \in Threads /\ w # Loader
  BY ThreadsAre
<1>2. /\ pc[w] = "ready" /\ UNCHANGED <<loaded, image, lock, query>>
      /\ pc' = [pc EXCEPT ![w] = Rest(w)]
  BY DEF PltHookAt, Answer, Go
<1>3. ~(pc[w] \in Asking)
  BY <1>2 DEF Asking
<1>4. query[w] = NoQuery
  BY <1>1, <1>3 DEF ThreadInv, QueryInv, Alive
<1>5. query' = [query EXCEPT ![w] = NoQuery]
  BY <1>1, <1>2, <1>4 DEF ThreadTypes
<1>6. ThreadTypes' /\ \A u \in Threads : ThreadInv(u)'
  BY <1>1, <1>2, <1>5, RestIs, AnswerStep
<1>7. pc'[Loader] = pc[Loader]
  BY <1>1, <1>2 DEF ThreadTypes
<1>8. QED
  BY <1>6, <1>7

(* What comes is loaded beside what is mapped.                               *)
LEMMA LoadStep ==
  ASSUME setting \in Settings, ThreadTypes, \A u \in Threads : ThreadInv(u), Alive,
         NEW f \in Files, Load(f)
  PROVE  ThreadTypes' /\ (\A u \in Threads : ThreadInv(u)') /\ pc' = pc
<1>1. loaded' = loaded \cup {f} /\ UNCHANGED <<pc, image, lock, query>>
  BY DEF Load
<1>2. ThreadTypes'
  BY <1>1 DEF ThreadTypes
<1>3. ASSUME NEW u \in Threads
      PROVE  ThreadInv(u)'
  <2>1. ImageHasFile(u) /\ ImageHasBase(u) /\ HeadersFree(u) /\ QueryInv(u) /\ ParseInv(u)
    BY DEF ThreadInv
  <2>2. ImageHasFile(u)'
    BY <1>1, <2>1 DEF ImageHasFile
  <2>3. ImageHasBase(u)'
    BY <1>1, <2>1 DEF ImageHasBase
  <2>4. QueryInv(u)'
    BY <1>1, <2>1 DEF QueryInv
  <2>5. ParseInv(u)'
    BY <1>1, <2>1 DEF ParseInv, Asked, Of
  <2>6. ASSUME Elf[f].type = "dyn", image[u].at # 0,
               LoadAt[f] \in image[u].at..(image[u].at + MyFile(u).pages - 1)
        PROVE  FALSE
    <3>1. Header(f) \in Elf[f].segments /\ Header(f).vaddr = 0 /\ Header(f).pages \in Nat \ {0}
      BY <2>6, HeaderIs
    <3>2. LoadAt[f] \in Nat
      BY LoaderAssumption
    <3>3. LoadAt[f] \in (LoadAt[f] + Header(f).vaddr)..(LoadAt[f] + Header(f).vaddr + Header(f).pages - 1)
      BY <3>1, <3>2
    <3>4. ~Mapped(LoadAt[f])
      BY <3>1, <3>3 DEF Load
    <3> DEFINE m == Mapping(image[u].file, image[u].at, MyFile(u).pages, 0)
    <3>5. Whole(m, u)
      BY <2>6 DEF Whole
    <3>6. /\ m.start = image[u].at /\ m.end = image[u].at + MyFile(u).pages
          /\ image[u].at \in Nat /\ MyFile(u).pages \in Nat
      BY <2>1, <3>5, WholeIs DEF ThreadTypes
    <3> HIDE DEF m
    <3>7. Covers(m, LoadAt[f])
      BY <2>6, <3>2, <3>6 DEF Covers
    <3>8. m \in Maps
      BY <3>5, WhatIsMapped
    <3>9. QED
      BY <3>4, <3>7, <3>8 DEF Mapped
  <2>7. HeadersFree(u)'
    BY <1>1, <2>1, <2>6 DEF HeadersFree, MyFile
  <2>8. QED
    BY <2>2, <2>3, <2>4, <2>5, <2>7 DEF ThreadInv
<1>4. QED
  BY <1>1, <1>2, <1>3

(* The linker unloads a library; the images of it are steady no more.        *)
LEMMA UnloadStep ==
  ASSUME ThreadTypes, \A u \in Threads : ThreadInv(u), Alive, NEW f \in Files, Unload(f)
  PROVE  ThreadTypes' /\ (\A u \in Threads : ThreadInv(u)') /\ pc' = pc
<1>1. /\ loaded' = loaded \ {f} /\ UNCHANGED <<pc, lock, query>>
      /\ image' = [t \in Threads |->
           IF image[t].file = f THEN [image[t] EXCEPT !.steady = FALSE] ELSE image[t]]
  BY DEF Unload
<1>2. ASSUME NEW u \in Threads
      PROVE  /\ image'[u].file = image[u].file /\ image'[u].base = image[u].base
             /\ image'[u].at = image[u].at /\ image'[u].valid = image[u].valid
             /\ image'[u].parsed = image[u].parsed /\ image'[u].symbols = image[u].symbols
             /\ image'[u].steady => image[u].steady /\ image[u].file # f
             /\ image'[u] \in Images
  <2>1. image[u] \in Images
    BY DEF ThreadTypes
  <2>2. image'[u] = IF image[u].file = f THEN [image[u] EXCEPT !.steady = FALSE] ELSE image[u]
    BY <1>1
  <2>3. CASE image[u].file = f
    BY <2>1, <2>2, <2>3 DEF Images
  <2>4. CASE image[u].file # f
    BY <2>1, <2>2, <2>4
  <2>5. QED
    BY <2>3, <2>4
<1>3. ThreadTypes'
  <2>1. image' \in [Threads -> Images]
    <3>1. image' = [u \in Threads |-> image'[u]]
      BY <1>1
    <3>2. QED
      BY <1>2, <3>1
  <2>2. QED
    BY <1>1, <2>1 DEF ThreadTypes
<1>4. ASSUME NEW u \in Threads
      PROVE  ThreadInv(u)'
  <2>1. ImageHasFile(u) /\ ImageHasBase(u) /\ HeadersFree(u) /\ QueryInv(u) /\ ParseInv(u)
    BY DEF ThreadInv
  <2>2. ImageHasFile(u)'
    BY <1>1, <1>2, <2>1 DEF ImageHasFile
  <2>3. ImageHasBase(u)'
    BY <1>1, <1>2, <2>1 DEF ImageHasBase
  <2>4. HeadersFree(u)'
    BY <1>1, <1>2, <2>1 DEF HeadersFree, MyFile
  <2>5. QueryInv(u)'
    BY <1>1, <1>2, <2>1 DEF QueryInv
  <2>6. ParseInv(u)'
    <3>1. lock[u] # None => pc[lock[u]] = "parse" /\ query[lock[u]].of = u /\ image'[u].parsed
      BY <1>2, <2>1 DEF ParseInv
    <3>2. pc[u] = "look" => image'[query[u].of].parsed /\ lock[query[u].of] = None
      <4>1. SUFFICES ASSUME pc[u] = "look"
                     PROVE  image'[query[u].of].parsed /\ lock[query[u].of] = None
        OBVIOUS
      <4>2. query[u].of \in Threads
        BY <4>1, WhoIsAsked DEF Asking, Of
      <4>3. QED
        BY <1>2, <2>1, <4>1, <4>2 DEF ParseInv, Asked, Of
    <3>3. image'[u].parsed /\ lock[u] = None =>
            \E b \in Backends : image'[u].symbols = Symbols(Elf[image'[u].file], image'[u].base, b)
      BY <1>2, <2>1 DEF ParseInv
    <3>4. pc[u] = "parse" => lock[query[u].of] = u
      BY <2>1 DEF ParseInv, Of
    <3>5. QED
      BY <1>1, <3>1, <3>2, <3>3, <3>4 DEF ParseInv, Asked, Of
  <2>7. QED
    BY <2>2, <2>3, <2>4, <2>5, <2>6 DEF ThreadInv
<1>5. QED
  BY <1>1, <1>3, <1>4

(* What is known of the plan of a setting.                                   *)
LEMMA SettingIs ==
  ASSUME setting \in Settings
  PROVE  /\ IsPlan(setting.plan) /\ DOMAIN setting.plan.modules = 1..Len(setting.plan.modules)
         /\ Len(setting.plan.modules) \in Nat
         /\ \A i \in 1..Len(setting.plan.modules) : setting.plan.modules[i] \in PlanModules
         /\ Sent(setting.plan).modules = setting.plan.modules
         /\ Sent(setting.plan).nonce = setting.plan.nonce /\ Sent(setting.plan) # Rejected
<1>1. setting.plan.modules \in Seq(PlanModules)
  BY LoaderAssumption DEF PlanModules
<1>2. IsPlan(setting.plan)
  BY <1>1, LoaderAssumption DEF IsPlan
<1>3. Sent(setting.plan) # Rejected
  <2>1. "nonce" \in DOMAIN Sent(setting.plan) /\ "nonce" \notin DOMAIN Rejected
    BY DEF Sent, Rejected
  <2>2. QED
    BY <2>1
<1>4. PICK modules \in Seq(PlanModules) : modules = setting.plan.modules
  BY <1>1
<1>5. /\ DOMAIN modules = 1..Len(modules) /\ Len(modules) \in Nat
      /\ \A i \in 1..Len(modules) : modules[i] \in PlanModules
  OBVIOUS
<1>6. QED
  BY <1>2, <1>3, <1>4, <1>5 DEF Sent

(* The loader reads the plan before it does anything else.                    *)
LEMMA BootStep ==
  ASSUME IndInv, Alive, Boot, UNCHANGED setting
  PROVE  ThreadTypes' /\ (\A u \in Threads : ThreadInv(u)') /\ PlanInv' /\ PlanTypes'
<1>1. /\ ThreadTypes /\ PlanTypes /\ PlanInv /\ (\A u \in Threads : ThreadInv(u)) /\ Loader \in Threads
      /\ setting \in Settings
  BY ThreadsAre DEF IndInv, TypeOK
<1> DEFINE parsed == Parse([Encode(setting.plan) EXCEPT !.version = setting.version])
           to == IF parsed = Rejected THEN "done" ELSE "load"
<1>2. /\ pc[Loader] = "boot" /\ Encode(setting.plan) # Rejected /\ plan' = parsed
      /\ pc' = [pc EXCEPT ![Loader] = to]
      /\ UNCHANGED <<next, closed, told, loaded, image, lock, query>>
      /\ \/ UNCHANGED <<backend, hyos>>
         \/ /\ backend' = resolveDebugDataBackend(backend, parsed.debugdata)
            /\ hyos' = (exeName(setting.exe) = "hyos_spawner")
  BY DEF Boot, Go
<1>3. parsed = IF setting.version = PlanVersion THEN Sent(setting.plan) ELSE Rejected
  BY <1>1, <1>2, SettingIs, PlanArrives
<1> HIDE DEF parsed
<1>4. /\ to \in {"done", "load"} /\ to \notin Asking \cup Constructing /\ to \in LoaderStages
      /\ pc[Loader] \notin Asking \cup Constructing
  BY <1>2 DEF Asking, Constructing, LoaderStages
<1>5. to = "done" <=> parsed = Rejected
  OBVIOUS
<1> HIDE DEF to
<1>6. pc'[Loader] = to
  BY <1>1, <1>2 DEF ThreadTypes
<1>7. ThreadTypes' /\ \A u \in Threads : ThreadInv(u)'
  <2>1. ~image[Loader].valid
    BY <1>1, <1>2 DEF ThreadInv, ImageHasFile, Asking
  <2>2. \A u \in Threads : pc[u] \in Asking => query[u].of # Loader
    BY <1>1, <2>1, NobodyAsks
  <2>3. to # "ready"
    BY <1>4
  <2>4. QED
    BY <1>1, <1>2, <1>4, <2>1, <2>2, <2>3, ImageIsKept
<1>8. /\ next = 1 /\ told = <<>> /\ closed = [i \in DOMAIN setting.plan.modules |-> 0]
  <2>1. pc[Loader] # "done"
    BY <1>2
  <2>2. QED
    BY <1>1, <1>2, <2>1 DEF PlanInv
<1>9. PlanInv'
  <2>1. CASE setting.version # PlanVersion
    BY <1>2, <1>3, <1>5, <1>6, <2>1 DEF PlanInv
  <2>2. CASE setting.version = PlanVersion
    <3>1. parsed = Sent(setting.plan) /\ to = "load"
      BY <1>1, <1>3, <1>4, <1>5, <2>2, SettingIs
    <3>2. Obeyed'
      <4>1. closed' = [i \in DOMAIN setting'.plan.modules |-> IF i < next' THEN 1 ELSE 0]
        <5>1. \A i \in DOMAIN setting.plan.modules : ~(i < 1)
          BY <1>1, SettingIs
        <5>2. QED
          BY <1>2, <1>8, <5>1
      <4>2. DOMAIN told' = {}
        BY <1>2, <1>8
      <4>3. \A i \in DOMAIN closed' : ~(i < next')
        BY <1>1, <1>2, <1>8, SettingIs
      <4> DEFINE order == [k \in DOMAIN told' |-> k]
      <4>4. order \in [DOMAIN told' -> {i \in DOMAIN closed' : i < next' /\ Usable(i)'}]
        BY <4>2
      <4>5. QED
        BY <4>1, <4>2, <4>3, <4>4 DEF Obeyed
    <3>3. 1 \in 1..(Len(setting.plan.modules) + 1)
      BY <1>1, SettingIs
    <3>4. to \notin WithEntry
      BY <3>1 DEF WithEntry, Constructing, Asking
    <3>5. /\ plan' = Sent(setting'.plan) /\ plan'.modules = setting.plan.modules /\ next' = 1
      BY <1>1, <1>2, <1>8, <3>1, SettingIs
    <3>6. next' \in 1..(Len(plan'.modules) + 1)
      BY <3>3, <3>5
    <3>7. pc'[Loader] \notin WithEntry /\ pc'[Loader] # "done" /\ pc'[Loader] # "boot"
      BY <1>6, <3>1, <3>4
    <3>8. QED
      BY <3>2, <3>5, <3>6, <3>7 DEF PlanInv
  <2>3. QED
    BY <2>1, <2>2
<1>10. PlanTypes'
  <2>1. backend' \in Backends
    BY <1>1, <1>2 DEF PlanTypes, resolveDebugDataBackend
  <2>2. hyos' \in BOOLEAN
    BY <1>1, <1>2 DEF PlanTypes
  <2>3. QED
    BY <1>1, <1>2, <2>1, <2>2 DEF PlanTypes
<1>11. QED
  BY <1>7, <1>9, <1>10

(* The next module is done with: called, if it can be, after those before it.   *)
LEMMA EntryIsObeyed ==
  ASSUME setting \in Settings, plan = Sent(setting.plan), next \in 1..Len(plan.modules),
         told \in Seq(Calls), Obeyed, UNCHANGED <<setting, plan, hyos>>, next' = next + 1,
         closed' = [closed EXCEPT ![next] = @ + 1],
         LET m == setting.modules[next]
         IN told' = IF Callable(m) THEN Append(told, Call(plan.modules[next], m)) ELSE told
  PROVE  Obeyed' /\ told' \in Seq(Calls) /\ closed' \in [DOMAIN setting'.plan.modules -> Nat]
<1> DEFINE D == DOMAIN setting.plan.modules
           m == setting.modules[next]
           call == Call(plan.modules[next], m)
<1>1. D = 1..Len(plan.modules) /\ next \in D /\ next \in Nat /\ plan.modules = setting.plan.modules
  BY SettingIs
<1>2. closed = [i \in D |-> IF i < next THEN 1 ELSE 0]
  BY DEF Obeyed
<1>3. \A i \in D : i \in Nat
  BY <1>1
<1> HIDE DEF D
<1>4. closed' = [i \in D |-> IF i < next + 1 THEN 1 ELSE 0]
  <2>1. closed[next] = 0
    BY <1>1, <1>2
  <2>2. \A i \in D : (i < next + 1) <=> (i < next \/ i = next)
    BY <1>1, <1>3
  <2>3. \A i \in D : closed'[i] = IF i < next + 1 THEN 1 ELSE 0
    BY <1>1, <1>2, <2>1, <2>2
  <2>4. QED
    BY <1>2, <2>3
<1>5. DOMAIN closed = D /\ DOMAIN closed' = D
  BY <1>2, <1>4
<1>6. closed' \in [D -> Nat]
  <2>1. \A i \in D : closed'[i] \in Nat
    <3>1. \A i \in D : closed'[i] = IF i < next + 1 THEN 1 ELSE 0
      BY <1>4
    <3>2. QED
      BY <3>1
  <2>2. QED
    BY <1>4, <2>1
<1>7. call \in Calls
  <2>1. plan.modules[next] \in PlanModules
    BY <1>1, SettingIs DEF D
  <2>2. plan.nonce \in {s.plan.nonce : s \in Settings}
    BY SettingIs
  <2>3. call.api \subseteq {"hook", "symbols", "companion", "runtime"}
    BY DEF Call, apiForVersion
  <2>4. call = [index |-> plan.modules[next].index, path |-> plan.modules[next].path,
                companion |-> plan.modules[next].companion,
                nonce |-> IF plan.modules[next].companion THEN plan.nonce ELSE None,
                api |-> call.api]
    BY DEF Call
  <2> HIDE DEF call
  <2>5. QED
    BY <2>1, <2>2, <2>3, <2>4 DEF Calls, PlanModules
<1>8. PICK order \in [DOMAIN told -> {i \in D : i < next /\ Usable(i)}] :
        /\ \A i \in D : i < next /\ Usable(i) => \E k \in DOMAIN told : order[k] = i
        /\ \A k \in DOMAIN told :
             /\ \A j \in 1..(k - 1) : order[j] < order[k]
             /\ told[k] = Call(setting.plan.modules[order[k]], setting.modules[order[k]])
  BY <1>5, ZenonT(30) DEF Obeyed
<1>9. \A i \in D : Usable(i)' <=> Usable(i)
  BY DEF Usable
<1>10. \A e, x : Call(e, x)' = Call(e, x)
  BY DEF Call
<1> SUFFICES Obeyed' /\ told' \in Seq(Calls)
  BY <1>6 DEF D
<1>11. CASE Callable(m)
  <2>1. told' = Append(told, call)
    BY <1>11
  <2>2. Usable(next)
    BY <1>11 DEF Usable
  <2>3. PICK t \in Seq(Calls), c \in Calls : t = told /\ c = call
    BY <1>7
  <2>4. /\ DOMAIN t = 1..Len(t) /\ Len(t) \in Nat /\ DOMAIN Append(t, c) = 1..(Len(t) + 1)
        /\ \A k \in DOMAIN t : Append(t, c)[k] = t[k]
        /\ Append(t, c)[Len(t) + 1] = c /\ Append(t, c) \in Seq(Calls)
    OBVIOUS
  <2>5. call = Call(setting.plan.modules[next], setting.modules[next])
    BY <1>1
  <2> HIDE DEF call, m
  <2> DEFINE n == Len(told)
  <2>6. /\ DOMAIN told = 1..n /\ n \in Nat /\ DOMAIN told' = 1..(n + 1)
        /\ \A k \in 1..n : told'[k] = told[k]
        /\ told'[n + 1] = call /\ told' \in Seq(Calls)
    BY <2>1, <2>3, <2>4
  <2> HIDE DEF n
  <2>7. PICK order2 : order2 = [k \in 1..(n + 1) |-> IF k = n + 1 THEN next ELSE order[k]]
    OBVIOUS
  <2>8. /\ order2[n + 1] = next
        /\ \A k \in 1..n : /\ order2[k] = order[k] /\ order[k] \in D
                           /\ order[k] < next /\ Usable(order[k])
    BY <1>8, <2>6, <2>7
  <2>9. \A k \in 1..(n + 1) : k \in 1..n \/ k = n + 1
    BY <2>6
  <2>10. \A i \in D : i < next + 1 <=> i < next \/ i = next
    BY <1>1, <1>3
  <2>11. order2 \in [1..(n + 1) -> {i \in D : i < next + 1 /\ Usable(i)}]
    <3>1. ASSUME NEW k \in 1..(n + 1)
          PROVE  order2[k] \in {i \in D : i < next + 1 /\ Usable(i)}
      BY <1>1, <2>2, <2>8, <2>9, <2>10
    <3>2. QED
      BY <2>7, <3>1
  <2>12. ASSUME NEW i \in D, i < next + 1, Usable(i)
         PROVE  \E k \in 1..(n + 1) : order2[k] = i
    <3>1. CASE i = next
      BY <2>6, <2>8, <3>1
    <3>2. CASE i < next
      <4>1. PICK k \in 1..n : order[k] = i
        BY <1>8, <2>6, <2>12, <3>2
      <4>2. k \in 1..(n + 1) /\ order2[k] = i
        BY <2>6, <2>8, <4>1
      <4>3. QED
        BY <4>2
    <3>3. QED
      BY <2>10, <2>12, <3>1, <3>2
  <2>13. ASSUME NEW k \in 1..(n + 1)
         PROVE  /\ \A j \in 1..(k - 1) : order2[j] < order2[k]
                /\ told'[k] = Call(setting.plan.modules[order2[k]], setting.modules[order2[k]])
    <3>1. CASE k = n + 1
      <4>1. \A j \in 1..(k - 1) : j \in 1..n
        BY <2>6, <3>1
      <4>2. QED
        BY <2>5, <2>6, <2>8, <3>1, <4>1
    <3>2. CASE k \in 1..n
      <4>1. \A j \in 1..(k - 1) : j \in 1..n
        BY <2>6, <3>2
      <4>2. \A j \in 1..(k - 1) : order[j] < order[k]
        BY <1>8, <2>6, <3>2
      <4>3. told'[k] = Call(setting.plan.modules[order[k]], setting.modules[order[k]])
        BY <1>8, <2>6, <3>2
      <4>4. QED
        BY <2>8, <3>2, <4>1, <4>2, <4>3
    <3>3. QED
      BY <2>9, <3>1, <3>2
  <2>14. QED
    <3>1. order2 \in [DOMAIN told' -> {i \in DOMAIN closed' : i < next' /\ Usable(i)'}]
      BY <1>5, <1>9, <2>6, <2>11
    <3>2. \A i \in DOMAIN closed' : i < next' /\ Usable(i)' => \E k \in DOMAIN told' : order2[k] = i
      BY <1>5, <1>9, <2>6, <2>12
    <3>3. \A k \in DOMAIN told' :
            /\ \A j \in 1..(k - 1) : order2[j] < order2[k]
            /\ told'[k] = Call(setting.plan.modules[order2[k]], setting.modules[order2[k]])'
      BY <1>10, <2>6, <2>13
    <3>4. closed' = [i \in DOMAIN setting'.plan.modules |-> IF i < next' THEN 1 ELSE 0]
      BY <1>4 DEF D
    <3>5. QED
      BY <2>6, <3>1, <3>2, <3>3, <3>4, ZenonT(30) DEF Obeyed
<1>12. CASE ~Callable(m)
  <2>1. told' = told
    BY <1>12
  <2>2. ~Usable(next)
    BY <1>12 DEF Usable
  <2>3. \A i \in D : i < next + 1 <=> i < next \/ i = next
    BY <1>1, <1>3
  <2>4. \A i \in D : i < next' /\ Usable(i)' <=> i < next /\ Usable(i)
    BY <1>9, <2>2, <2>3
  <2>5. {i \in D : i < next' /\ Usable(i)'} = {i \in D : i < next /\ Usable(i)}
    BY <2>4
  <2>6. order \in [DOMAIN told' -> {i \in DOMAIN closed' : i < next' /\ Usable(i)'}]
    BY <1>5, <2>1, <2>5
  <2>7. \A i \in DOMAIN closed' : i < next' /\ Usable(i)' => \E k \in DOMAIN told' : order[k] = i
    BY <1>5, <1>8, <2>1, <2>4
  <2>8. \A k \in DOMAIN told' :
          /\ \A j \in 1..(k - 1) : order[j] < order[k]
          /\ told'[k] = Call(setting.plan.modules[order[k]], setting.modules[order[k]])'
    BY <1>8, <1>10, <2>1
  <2>9. closed' = [i \in DOMAIN setting'.plan.modules |-> IF i < next' THEN 1 ELSE 0]
    BY <1>4 DEF D
  <2>10. QED
    BY <2>1, <2>6, <2>7, <2>8, <2>9 DEF Obeyed
<1>13. QED
  BY <1>11, <1>12

(* loadEntry, after the image of the linker is gone: loader.cpp:43-87.       *)
LEMMA LoadEntryStep ==
  ASSUME IndInv, Alive, LoadEntry, UNCHANGED setting
  PROVE  ThreadTypes' /\ (\A u \in Threads : ThreadInv(u)') /\ PlanInv' /\ PlanTypes'
<1>1. /\ ThreadTypes /\ PlanTypes /\ PlanInv /\ (\A u \in Threads : ThreadInv(u)) /\ Loader \in Threads
      /\ setting \in Settings
  BY ThreadsAre DEF IndInv, TypeOK
<1>2. /\ pc[Loader] = "dlopen" /\ image' = [image EXCEPT ![Loader] = NoImage]
      /\ LET m == setting.modules[next]
         IN /\ closed' = [closed EXCEPT ![next] = @ + 1]
            /\ told' = IF Callable(m) THEN Append(told, Call(plan.modules[next], m)) ELSE told
      /\ next' = next + 1 /\ pc' = [pc EXCEPT ![Loader] = "load"]
      /\ UNCHANGED <<plan, backend, hyos, loaded, lock, query>>
  BY DEF LoadEntry, Go
<1>3. /\ "load" \notin Asking \cup Constructing \cup {"ready"} /\ "load" \in LoaderStages
      /\ pc[Loader] \notin Asking /\ "load" \notin WithEntry
  BY <1>2 DEF Asking, Constructing, LoaderStages, WithEntry
<1>4. \A u \in Threads : pc[u] \in Asking => query[u].of # Loader
  BY <1>1, <1>3 DEF ThreadInv, QueryInv
<1>5. ThreadTypes' /\ \A u \in Threads : ThreadInv(u)'
  BY <1>1, <1>2, <1>3, <1>4, ReleaseStep
<1>6. /\ plan = Sent(setting.plan) /\ next \in 1..(Len(plan.modules) + 1)
      /\ next =< Len(plan.modules) /\ Obeyed
  <2>1. pc[Loader] \in WithEntry
    BY <1>2 DEF WithEntry
  <2>2. QED
    BY <1>1, <1>2, <2>1 DEF PlanInv
<1>7. Len(plan.modules) \in Nat
  BY <1>1, <1>6, SettingIs
<1>8. next \in 1..Len(plan.modules) /\ next + 1 \in 1..(Len(plan.modules) + 1) /\ next + 1 \in Nat
  BY <1>6, <1>7
<1>9. told \in Seq(Calls)
  BY <1>1 DEF PlanTypes
<1>10. Obeyed' /\ told' \in Seq(Calls) /\ closed' \in [DOMAIN setting'.plan.modules -> Nat]
  BY <1>1, <1>2, <1>6, <1>8, <1>9, EntryIsObeyed
<1>11. PlanTypes'
  BY <1>1, <1>2, <1>8, <1>10 DEF PlanTypes
<1>12. pc'[Loader] = "load"
  BY <1>1, <1>2 DEF ThreadTypes
<1>13. PlanInv'
  BY <1>2, <1>3, <1>6, <1>8, <1>10, <1>12 DEF PlanInv
<1>14. QED
  BY <1>5, <1>11, <1>13

(* What a step answers, if it does.                                          *)
AnswersFit == AnswersAreRight /\ HooksItsLibrary

(* A step without an answer.                                                 *)
LEMMA SilentIsRight ==
  ASSUME Silent
  PROVE  AnswersFit'
<1>1. ~answer'.steady
  BY DEF Silent, NoAnswer
<1>2. QED
  BY <1>1 DEF AnswersFit, AnswersAreRight, HooksItsLibrary

(* A step with one.                                                          *)
LEMMA AnswerFits ==
  ASSUME NEW q, NEW f, NEW steady, NEW is,
         answer' = [query |-> q, file |-> f, steady |-> steady, is |-> is],
         steady => RightAnswer(q, f, is) /\ (q.kind = "hook" => is = LoadAt[f])
  PROVE  AnswersFit'
<1>1. answer'.query = q /\ answer'.file = f /\ answer'.steady = steady /\ answer'.is = is
  OBVIOUS
<1>2. AnswersAreRight'
  BY <1>1 DEF AnswersAreRight, RightAnswer
<1>3. HooksItsLibrary'
  BY <1>1 DEF HooksItsLibrary
<1>4. QED
  BY <1>2, <1>3 DEF AnswersFit

(* An image that can be asked has the base of its library.                    *)
LEMMA AskedImageIs ==
  ASSUME ThreadTypes, \A u \in Threads : ThreadInv(u), NEW r \in Threads,
         image[r].valid, image[r].steady
  PROVE  /\ image[r].file \in Files /\ image[r].file \in loaded
         /\ image[r].base = Bias(Elf[image[r].file], LoadAt[image[r].file])
<1>1. ImageHasFile(r) /\ ImageHasBase(r)
  BY DEF ThreadInv
<1>2. image[r].at # 0 /\ pc[r] \in Asking \cup {"built", "ready", "dlopen", "crashed"}
  BY <1>1 DEF ImageHasFile
<1>3. pc[r] \notin Constructing
  BY <1>2 DEF Asking, Constructing
<1>4. QED
  BY <1>1, <1>2, <1>3 DEF ImageHasFile, ImageHasBase

(* A lookup after the file has been parsed.                                   *)
LEMMA LookIsRight ==
  ASSUME ThreadTypes, \A u \in Threads : ThreadInv(u), NEW t \in Threads, Look(t)
  PROVE  AnswersFit'
<1> DEFINE r == Of(t)
           q == query[t]
           f == image[r].file
           symbols == image[r].symbols
           is == IF q.kind = "each" THEN symbols ELSE lookup(symbols, q.name, q.kind = "prefix")
<1>1. /\ pc[t] = "look"
      /\ answer' = [query |-> q, file |-> image[q.of].file, steady |-> image[q.of].steady, is |-> is]
  BY DEF Look, Answer, Asked
<1>2. pc[t] \in Asking
  BY <1>1 DEF Asking
<1>3. q \in Queries /\ r \in Threads /\ image[r].valid /\ q.kind # None /\ r = q.of
  BY <1>2, WhoIsAsked DEF Of
<1>4. q.kind \in {"exact", "prefix", "each"}
  BY <1>3 DEF Queries
<1>5. image[r].parsed /\ lock[r] = None
  BY <1>1 DEF ThreadInv, ParseInv, Asked
<1>6. PICK b \in Backends : symbols = Symbols(Elf[f], image[r].base, b)
  BY <1>3, <1>5 DEF ThreadInv, ParseInv
<1>7. ASSUME image[r].steady
      PROVE  RightAnswer(q, f, is)
  <2>1. f \in Files /\ image[r].base = Bias(Elf[f], LoadAt[f])
    BY <1>3, <1>7, AskedImageIs
  <2> HIDE DEF f, symbols
  <2>2. symbols = Symbols(Elf[f], Bias(Elf[f], LoadAt[f]), b)
    BY <1>6, <2>1
  <2>3. IsSeq(symbols) /\ IsInjective(symbols) /\ ToSet(symbols) = Definitions(f)
    BY <2>1, <2>2, ImageHasDefinitions
  <2> HIDE DEF q
  <2>4. CASE q.kind = "each"
    BY <2>3, <2>4 DEF RightAnswer
  <2>5. CASE q.kind \in {"exact", "prefix"}
    <3>1. is = lookup(symbols, q.name, q.kind = "prefix")
      BY <2>5
    <3>2. QED
      BY <2>3, <2>5, <3>1, LookupIsRight
  <2>6. QED
    BY <1>4, <2>4, <2>5
<1>8. q.kind # "hook"
  BY <1>4
<1> HIDE DEF is, r, q
<1>9. QED
  BY <1>1, <1>3, <1>7, <1>8, AnswerFits

(* A lookup in the loaded image, before anything is parsed.                    *)
LEMMA SymbolLookupIsRight ==
  ASSUME ThreadTypes, \A u \in Threads : ThreadInv(u), NEW w \in Workers, SymbolLookup(w)
  PROVE  AnswersFit'
<1>1. PICK r \in Workers, kind \in {"exact", "prefix", "each"}, name \in Names \cup {<<>>} :
        LET q == [of |-> r, kind |-> kind, name |-> name]
        IN /\ image[r].valid
           /\ \/ Silent
              \/ kind = "exact" /\ \E is \in Found(image[r], name) : is # NoSymbol /\ Answer(w, q, is)
  BY ZenonT(30) DEF SymbolLookup
<1> DEFINE q == [of |-> r, kind |-> kind, name |-> name]
           f == image[r].file
<1>2. CASE Silent
  BY <1>2, SilentIsRight
<1>3. CASE kind = "exact" /\ \E is \in Found(image[r], name) : is # NoSymbol /\ Answer(w, q, is)
  <2>1. PICK is \in Found(image[r], name) : is # NoSymbol /\ Answer(w, q, is)
    BY <1>3
  <2>2. answer' = [query |-> q, file |-> f, steady |-> image[r].steady, is |-> is]
    BY <2>1 DEF Answer
  <2>3. q.kind = "exact" /\ q.name = name
    BY <1>3
  <2>4. ASSUME image[r].steady
        PROVE  RightAnswer(q, f, is)
    <3>1. f \in Files /\ f \in loaded /\ image[r].base = Bias(Elf[f], LoadAt[f])
      BY <1>1, <2>4, AskedImageIs, ThreadsAre
    <3>2. image[r].base # 0 => image[r].base = LoadAt[f]
      BY <3>1 DEF Bias
    <3>3. is = LoadedLookup(Elf[f], image[r].base, name)
      BY <2>1, <3>1, <3>2 DEF Found
    <3>4. image[r].base # 0
      <4>1. \A base : base = 0 => LoadedLookup(Elf[f], base, name) = NoSymbol
        BY ZenonT(30) DEF LoadedLookup
      <4>2. QED
        BY <2>1, <3>3, <4>1
    <3> HIDE DEF f, q
    <3>5. QED
      BY <2>1, <2>3, <3>1, <3>3, <3>4, LoadedIsRight
  <2> HIDE DEF q, f
  <2>5. q.kind # "hook"
    BY <2>3
  <2>6. QED
    BY <2>2, <2>4, <2>5, AnswerFits
<1>4. QED
  BY <1>1, <1>2, <1>3

(* The hook of a resolver whose library stays loaded.                        *)
LEMMA HookIsRight ==
  ASSUME ThreadTypes, \A u \in Threads : ThreadInv(u), NEW w \in Workers, PltHookAt(w)
  PROVE  AnswersFit'
<1> DEFINE hit == findMapping(Maps, image[w].base)
           q == [of |-> w, kind |-> "hook", name |-> <<>>]
           f == image[w].file
           is == IF hit = NoMapping THEN 0 ELSE firstMappingOfFile(Maps, hit).start
<1>1. /\ pc[w] = "ready" /\ image[w].base # 0
      /\ answer' = [query |-> q, file |-> f, steady |-> image[w].steady, is |-> is]
  BY DEF PltHookAt, Answer
<1>2. q.kind = "hook"
  OBVIOUS
<1>3. image[w].valid
  BY <1>1, ThreadsAre DEF ThreadInv, ImageHasFile
<1>4. ASSUME image[w].steady
      PROVE  is = LoadAt[f]
  <2>1. f \in Files /\ f \in loaded /\ image[w].base = Bias(Elf[f], LoadAt[f])
    BY <1>3, <1>4, AskedImageIs, ThreadsAre
  <2>2. Elf[f].type = "dyn" /\ image[w].base = LoadAt[f]
    BY <1>1, <2>1 DEF Bias
  <2>3. SpaceInv /\ \A u \in Threads : HeadersFree(u)
    BY SpaceIs
  <2>4. hit = findMapping(Maps, LoadAt[f])
    BY <2>2
  <2> HIDE DEF f, hit
  <2>5. hit # NoMapping /\ firstMappingOfFile(Maps, hit).start = LoadAt[f]
    BY <2>1, <2>2, <2>3, <2>4, HookIsOnHeader
  <2>6. QED
    BY <2>5
<1> HIDE DEF is, f, q
<1>5. RightAnswer(q, f, is)
  BY <1>2 DEF RightAnswer
<1>6. QED
  BY <1>1, <1>4, <1>5, AnswerFits

(***************************************************************************)
(* The theorems.                                                           *)
(***************************************************************************)

(* What holds in every state of the loader and of the threads of its modules.   *)
Inv == IndInv /\ AnswersFit

(* It holds when the loader is called.                                       *)
LEMMA InvInit ==
  ASSUME Init
  PROVE  Inv
<1>1. /\ setting \in Settings /\ loaded = setting.loaded
      /\ plan = Rejected /\ next = 1 /\ backend = "lzma" /\ hyos = FALSE /\ told = <<>>
      /\ closed = [i \in DOMAIN setting.plan.modules |-> 0]
      /\ pc = [t \in Threads |-> IF t = Loader THEN "boot" ELSE "idle"]
      /\ image = [t \in Threads |-> NoImage] /\ lock = [t \in Threads |-> None]
      /\ query = [t \in Threads |-> NoQuery] /\ answer = NoAnswer
  BY DEF Init
<1>2. PlanTypes
  <2>1. closed \in [DOMAIN setting.plan.modules -> Nat]
    BY <1>1
  <2>2. told \in Seq(Calls)
    BY <1>1
  <2>3. next \in Nat /\ backend \in Backends /\ hyos \in BOOLEAN
    BY <1>1 DEF Backends
  <2>4. QED
    BY <2>1, <2>2, <2>3 DEF PlanTypes
<1>3. NoQuery \in Queries
  BY DEF NoQuery, Queries
<1>4. ThreadTypes
  <2>1. loaded \subseteq Files
    BY <1>1, LoaderAssumption
  <2>2. pc[Loader] = "boot" /\ \A w \in Workers : pc[w] = "idle"
    BY <1>1, ThreadsAre
  <2>3. "boot" \in LoaderStages /\ "idle" \in WorkerStages
    BY DEF LoaderStages, WorkerStages
  <2>4. pc \in [Threads -> WorkerStages \cup LoaderStages]
    BY <1>1, <2>3
  <2>5. image \in [Threads -> Images]
    BY <1>1, NoImageIsImage
  <2>6. QED
    BY <1>1, <1>3, <2>1, <2>2, <2>3, <2>4, <2>5 DEF ThreadTypes
<1>5. PlanInv
  BY <1>1, ThreadsAre DEF PlanInv
<1>6. ASSUME NEW t \in Threads
      PROVE  ThreadInv(t)
  <2>1. /\ ~image[t].steady /\ image[t].at = 0 /\ ~image[t].valid /\ ~image[t].parsed
        /\ lock[t] = None /\ query[t] = NoQuery /\ pc[t] \in {"boot", "idle"}
    BY <1>1 DEF NoImage
  <2>2. pc[t] \notin Constructing /\ pc[t] \notin Asking
    BY <2>1 DEF Constructing, Asking
  <2>3. ImageHasFile(t)
    BY <2>1, <2>2 DEF ImageHasFile
  <2>4. ImageHasBase(t)
    BY <2>1 DEF ImageHasBase
  <2>5. HeadersFree(t)
    BY <2>1 DEF HeadersFree
  <2>6. QueryInv(t)
    BY <2>1, <2>2 DEF QueryInv
  <2>7. ParseInv(t)
    BY <2>1 DEF ParseInv
  <2>8. QED
    BY <2>3, <2>4, <2>5, <2>6, <2>7 DEF ThreadInv
<1>7. AnswersFit
  <2>1. ~answer.steady
    BY <1>1 DEF NoAnswer
  <2>2. QED
    BY <2>1 DEF AnswersFit, AnswersAreRight, HooksItsLibrary
<1>8. QED
  BY <1>1, <1>2, <1>4, <1>5, <1>6, <1>7 DEF Inv, IndInv, TypeOK

(* A step of a thread leaves what the loader has done with the plan alone.     *)
LEMMA ThreadsMove ==
  ASSUME IndInv, ThreadTypes', \A u \in Threads : ThreadInv(u)', UNCHANGED <<setting, bootVars>>,
         \/ pc'[Loader] = pc[Loader]
         \/ pc[Loader] \in WithEntry /\ pc'[Loader] \in WithEntry \cup {"crashed"}
  PROVE  IndInv'
<1>1. UNCHANGED <<setting, plan, next, backend, hyos, closed, told>>
  BY DEF bootVars
<1>2. PlanInv'
  BY <1>1, PlanIsKept DEF IndInv
<1>3. setting' \in Settings /\ PlanTypes'
  BY <1>1 DEF IndInv, TypeOK, PlanTypes
<1>4. \A u \in Threads : ThreadInv(u)'
  OBVIOUS
<1>5. QED
  BY <1>2, <1>3, <1>4 DEF IndInv, TypeOK

(* The loader goes on with its module, or another thread moves.              *)
LEMMA LoaderMoves ==
  ASSUME ThreadTypes, NEW t \in Threads, NEW to, pc' = [pc EXCEPT ![t] = to],
         t = Loader => pc[t] \in WithEntry /\ to \in WithEntry \cup {"crashed"}
  PROVE  \/ pc'[Loader] = pc[Loader]
         \/ pc[Loader] \in WithEntry /\ pc'[Loader] \in WithEntry \cup {"crashed"}
BY ThreadsAre DEF ThreadTypes

(* The constructor of ElfImage keeps it.                                     *)
LEMMA ConstructKeeps ==
  ASSUME IndInv, Alive, UNCHANGED setting, NEW t \in Threads, Construct(t)
  PROVE  Inv'
<1>1. ThreadTypes /\ \A u \in Threads : ThreadInv(u)
  BY DEF IndInv, TypeOK
<1>2. Silent /\ UNCHANGED bootVars
  BY DEF Construct, FindBase, MapFile, CheckImage, restVars
<1>3. ThreadTypes' /\ \A u \in Threads : ThreadInv(u)'
  BY <1>1, FindBaseStep, MapFileStep, CheckImageStep DEF Construct
<1>4. /\ pc[t] \in {"find", "map", "check"}
      /\ \E to \in {"map", "check", "built", "crashed"} : pc' = [pc EXCEPT ![t] = to]
  BY DEF Construct, FindBase, MapFile, CheckImage, Go
<1>5. \A to \in {"map", "check", "built", "crashed"} : to \in WithEntry \cup {"crashed"}
  BY DEF WithEntry, Constructing
<1>6. pc[t] \in WithEntry
  BY <1>4 DEF WithEntry, Constructing
<1>7. \/ pc'[Loader] = pc[Loader]
      \/ pc[Loader] \in WithEntry /\ pc'[Loader] \in WithEntry \cup {"crashed"}
  BY <1>1, <1>4, <1>5, <1>6, LoaderMoves
<1>8. IndInv'
  BY <1>2, <1>3, <1>7, ThreadsMove
<1>9. QED
  BY <1>2, <1>8, SilentIsRight DEF Inv

(* ensureParsed, lookup and forEach keep it.                                 *)
LEMMA LookupKeeps ==
  ASSUME IndInv, Alive, UNCHANGED setting, NEW t \in Threads, Lookup(t)
  PROVE  Inv'
<1>1. ThreadTypes /\ (\A u \in Threads : ThreadInv(u)) /\ backend \in Backends
  BY DEF IndInv, TypeOK, PlanTypes
<1>2. UNCHANGED bootVars
  BY DEF Lookup, BeginParse, EndParse, Look, bootVars
<1>3. AnswersFit'
  <2>1. BeginParse(t) \/ EndParse(t) => Silent
    BY DEF BeginParse, EndParse
  <2>2. QED
    BY <1>1, <2>1, SilentIsRight, LookIsRight DEF Lookup
<1>4. ThreadTypes' /\ \A u \in Threads : ThreadInv(u)'
  BY <1>1, BeginParseStep, EndParseStep, LookStep DEF Lookup
<1>5. \E to \in {"look", "parse", Rest(t)} : pc' = [pc EXCEPT ![t] = to]
  BY <1>1, BeginParseStep, EndParseStep, LookStep DEF Lookup
<1>6. t = Loader => Rest(t) = "dlopen"
  BY DEF Rest
<1>7. pc[t] \in WithEntry
  <2>1. pc[t] \in {"lock", "parse", "look"}
    BY DEF Lookup, BeginParse, EndParse, Look
  <2>2. QED
    BY <2>1 DEF WithEntry, Asking
<1>8. "look" \in WithEntry /\ "parse" \in WithEntry /\ "dlopen" \in WithEntry
  BY DEF WithEntry, Asking
<1>9. \/ pc'[Loader] = pc[Loader]
      \/ pc[Loader] \in WithEntry /\ pc'[Loader] \in WithEntry \cup {"crashed"}
  <2>1. PICK to \in {"look", "parse", Rest(t)} : pc' = [pc EXCEPT ![t] = to]
    BY <1>5
  <2>2. t = Loader => to \in WithEntry
    BY <1>6, <1>8, <2>1
  <2>3. QED
    BY <1>1, <1>7, <2>1, <2>2, LoaderMoves
<1>10. IndInv'
  BY <1>2, <1>4, <1>9, ThreadsMove
<1>11. QED
  BY <1>3, <1>10 DEF Inv

(* The calls of a module's thread keep it.                                   *)
LEMMA WorkerKeeps ==
  ASSUME IndInv, Alive, UNCHANGED setting, NEW w \in Workers, WorkerStep(w)
  PROVE  Inv'
<1>1. ThreadTypes /\ (\A u \in Threads : ThreadInv(u)) /\ setting \in Settings
  BY DEF IndInv, TypeOK
<1>2. ThreadTypes' /\ (\A u \in Threads : ThreadInv(u)') /\ pc'[Loader] = pc[Loader]
  BY <1>1, NewSymbolResolverStep, BuiltStep, FreeSymbolResolverStep, SymbolLookupStep, PltHookAtStep
     DEF WorkerStep
<1>3. AnswersFit'
  <2>1. NewSymbolResolver(w) \/ Built(w) \/ FreeSymbolResolver(w) => Silent
    BY DEF NewSymbolResolver, Built, FreeSymbolResolver
  <2>2. QED
    BY <1>1, <2>1, SilentIsRight, SymbolLookupIsRight, HookIsRight DEF WorkerStep
<1>4. UNCHANGED bootVars
  BY DEF WorkerStep, NewSymbolResolver, Built, FreeSymbolResolver, SymbolLookup, PltHookAt,
         restVars, bootVars
<1>5. IndInv'
  BY <1>2, <1>4, ThreadsMove
<1>6. QED
  BY <1>3, <1>5 DEF Inv

(* The steps of znn_loader_init keep it.                                     *)
LEMMA LoaderKeeps ==
  ASSUME IndInv, Alive, UNCHANGED setting, Boot \/ NextEntry \/ ResolveDlopenExt \/ LoadEntry
  PROVE  Inv'
<1>1. ThreadTypes /\ \A u \in Threads : ThreadInv(u)
  BY DEF IndInv, TypeOK
<1>2. Silent
  BY DEF Boot, NextEntry, ResolveDlopenExt, LoadEntry
<1>3. setting' \in Settings
  BY DEF IndInv, TypeOK
<1>4. CASE Boot
  <2>1. ThreadTypes' /\ (\A u \in Threads : ThreadInv(u)') /\ PlanInv' /\ PlanTypes'
    BY <1>4, BootStep
  <2>2. IndInv'
    BY <1>3, <2>1 DEF IndInv, TypeOK
  <2>3. QED
    BY <1>2, <2>2, SilentIsRight DEF Inv
<1>5. CASE LoadEntry
  <2>1. ThreadTypes' /\ (\A u \in Threads : ThreadInv(u)') /\ PlanInv' /\ PlanTypes'
    BY <1>5, LoadEntryStep
  <2>2. IndInv'
    BY <1>3, <2>1 DEF IndInv, TypeOK
  <2>3. QED
    BY <1>2, <2>2, SilentIsRight DEF Inv
<1>6. CASE NextEntry
  <2>1. PlanTypes'
    BY <1>6 DEF NextEntry, restVars, bootVars, IndInv, TypeOK, PlanTypes
  <2>2. ThreadTypes' /\ (\A u \in Threads : ThreadInv(u)') /\ PlanInv'
    BY <1>6, NextEntryStep
  <2>3. IndInv'
    BY <1>3, <2>1, <2>2 DEF IndInv, TypeOK
  <2>4. QED
    BY <1>2, <2>3, SilentIsRight DEF Inv
<1>7. CASE ResolveDlopenExt
  <2>1. UNCHANGED bootVars
    BY <1>7 DEF ResolveDlopenExt, bootVars
  <2>2. /\ ThreadTypes' /\ \A u \in Threads : ThreadInv(u)'
        /\ pc[Loader] \in WithEntry /\ pc'[Loader] \in WithEntry
    BY <1>1, <1>7, ResolveDlopenExtStep
  <2>3. IndInv'
    BY <2>1, <2>2, ThreadsMove
  <2>4. QED
    BY <1>2, <2>3, SilentIsRight DEF Inv
<1>8. QED
  BY <1>4, <1>5, <1>6, <1>7

(* What the linker loads and unloads keeps it.                               *)
LEMMA LinkerKeeps ==
  ASSUME IndInv, Alive, UNCHANGED setting, NEW f \in Files, Load(f) \/ Unload(f)
  PROVE  Inv'
<1>1. ThreadTypes /\ (\A u \in Threads : ThreadInv(u)) /\ setting \in Settings
  BY DEF IndInv, TypeOK
<1>2. Silent /\ UNCHANGED bootVars
  BY DEF Load, Unload
<1>3. ThreadTypes' /\ (\A u \in Threads : ThreadInv(u)') /\ pc' = pc
  BY <1>1, LoadStep, UnloadStep
<1>4. IndInv'
  BY <1>2, <1>3, ThreadsMove
<1>5. QED
  BY <1>2, <1>4, SilentIsRight DEF Inv

(* Every step keeps it.                                                      *)
LEMMA InvNext ==
  ASSUME Inv, [Next]_<<vars, setting>>
  PROVE  Inv'
<1>1. IndInv
  BY DEF Inv
<1>2. CASE Next
  <2>1. Alive /\ UNCHANGED setting
    BY <1>2 DEF Next, Alive
  <2>2. \/ \E f \in Files : Load(f) \/ Unload(f)
        \/ \E t \in Threads : Construct(t) \/ Lookup(t)
        \/ Boot \/ NextEntry \/ ResolveDlopenExt \/ LoadEntry
        \/ \E w \in Workers : WorkerStep(w)
    BY <1>2 DEF Next
  <2>3. QED
    BY <1>1, <2>1, <2>2, ConstructKeeps, LookupKeeps, WorkerKeeps, LoaderKeeps, LinkerKeeps
<1>3. CASE UNCHANGED <<vars, setting>>
  <2>1. /\ UNCHANGED <<setting, plan, next, backend, hyos, closed, told, loaded, pc, image, lock, query>>
        /\ answer' = answer /\ UNCHANGED bootVars
    BY <1>3 DEF vars, bootVars
  <2>2. ThreadTypes'
    BY <1>1, <2>1 DEF IndInv, TypeOK, ThreadTypes
  <2>3. ASSUME NEW t \in Threads
        PROVE  ThreadInv(t)'
    BY <1>1, <2>1 DEF IndInv, ThreadInv, ImageHasFile, ImageHasBase, HeadersFree, MyFile, QueryInv,
                      ParseInv, Asked, Of
  <2>4. IndInv'
    BY <1>1, <2>1, <2>2, <2>3, ThreadsMove
  <2>5. AnswersFit'
    BY <2>1 DEF Inv, AnswersFit, AnswersAreRight, HooksItsLibrary
  <2>6. QED
    BY <2>4, <2>5 DEF Inv
<1>4. QED
  BY <1>2, <1>3

(* The invariant holds in every state: whatever the linker loads and unloads *)
(* and whichever threads come between.                                       *)
THEOREM Invariance == Spec => []Inv
<1>1. Init => Inv
  BY InvInit
<1>2. Inv /\ [Next]_<<vars, setting>> => Inv'
  BY InvNext
<1>3. QED
  BY <1>1, <1>2, PTL DEF Spec

(* Every variable has its type.                                              *)
THEOREM TypesAreRight == Spec => []TypeOK
<1>1. Inv => TypeOK
  BY DEF Inv, IndInv
<1>2. QED
  BY <1>1, Invariance, PTL

(* A resolver of a library that stays loaded is valid and has its base,      *)
(* however many others have the file mapped and wherever the kernel put it:  *)
(* elf_util.cpp:416-434.                                                     *)
THEOREM ResolversFindTheirLibraries == Spec => []FindsItsLibrary
<1>1. Inv => FindsItsLibrary
  <2>1. SUFFICES ASSUME Inv, NEW t \in Threads,
                        pc[t] \in {"built", "ready"}, image[t].steady, image[t].at # 0
                 PROVE  /\ image[t].valid
                        /\ image[t].base = Bias(Elf[image[t].file], LoadAt[image[t].file])
    BY DEF FindsItsLibrary
  <2>2. ImageHasBase(t)
    BY <2>1 DEF Inv, IndInv, ThreadInv
  <2>3. pc[t] \notin Constructing
    BY <2>1 DEF Constructing
  <2>4. QED
    BY <2>1, <2>2, <2>3 DEF ImageHasBase
<1>2. QED
  BY <1>1, Invariance, PTL

(* symbolLookup and forEachSymbols answer what the library defines, for      *)
(* every file, every decoder and any number of threads that ask first:       *)
(* symbols.cpp:53-82, elf_util.cpp:174-251.                                  *)
THEOREM LookupsAreRight == Spec => []AnswersAreRight
<1>1. Inv => AnswersAreRight
  BY DEF Inv, AnswersFit
<1>2. QED
  BY <1>1, Invariance, PTL

(* A plt hook with the base of a resolver is made on the header of its       *)
(* library, not on a file that is only mapped: hook/plt.cpp:34-56.           *)
THEOREM HooksAreRight == Spec => []HooksItsLibrary
<1>1. Inv => HooksItsLibrary
  BY DEF Inv, AnswersFit
<1>2. QED
  BY <1>1, Invariance, PTL

(* Every plan that can be sent arrives as it was written, and every module   *)
(* of it that can be used is called once, in order, with its own index,      *)
(* channel and API: plan.rs:79-131, plan.cpp:47-114, loader.cpp:43-87.       *)
THEOREM PlansAreObeyed == Spec => []PlanIsObeyed
<1>1. ASSUME Inv
      PROVE  PlanIsObeyed
  <2>1. PlanInv /\ setting \in Settings /\ next \in Nat
    BY <1>1 DEF Inv, IndInv, TypeOK, PlanTypes
  <2>2. SUFFICES ASSUME pc[Loader] = "done", setting.version = PlanVersion
                 PROVE  PlanIsObeyed
    BY DEF PlanIsObeyed
  <2>3. /\ plan = Sent(setting.plan) /\ next > Len(plan.modules) /\ Obeyed
    BY <2>1, <2>2 DEF PlanInv
  <2>4. /\ plan # Rejected
        /\ plan.nonce = setting.plan.nonce /\ plan.inline_engine = setting.plan.inline_engine
        /\ plan.plt_engine = setting.plan.plt_engine /\ plan.debugdata = setting.plan.debugdata
    BY <2>1, <2>3, SettingIs DEF Sent
  <2>5. \A i \in DOMAIN setting.plan.modules : i < next
    BY <2>1, <2>3, SettingIs
  <2>6. /\ DOMAIN closed = DOMAIN setting.plan.modules
        /\ \A i \in DOMAIN closed : closed[i] = 1 /\ i < next
    BY <2>3, <2>5 DEF Obeyed
  <2> DEFINE usable == {i \in DOMAIN closed : Callable(setting.modules[i])}
  <2>7. {i \in DOMAIN closed : i < next /\ Usable(i)} = usable
    BY <2>6 DEF Usable
  <2>8. \E order \in [DOMAIN told -> usable] :
          /\ \A i \in usable : \E k \in DOMAIN told : order[k] = i
          /\ \A k \in DOMAIN told :
               /\ \A j \in 1..(k - 1) : order[j] < order[k]
               /\ told[k] = Call(setting.plan.modules[order[k]], setting.modules[order[k]])
    BY <2>3, <2>6, <2>7 DEF Obeyed, Usable
  <2>9. QED
    BY <2>4, <2>6, <2>8 DEF PlanIsObeyed
<1>2. QED
  BY <1>1, Invariance, PTL
=============================================================================
