----------------------------- MODULE ElfSymbols -----------------------------
(***************************************************************************)
(* The symbols of an ELF file: utils/elf_util.cpp from isElf to forEach, and   *)
(* the decompression of its .gnu_debugdata, utils/debugdata.cpp.             *)
(*                                                                         *)
(* A file is a record: its type, the symbols its dynamic segment shows when   *)
(* it is loaded, and its sections in order.  A section is sound when the       *)
(* checks of its place, its link and its entry size hold.  A debug data         *)
(* section holds a stream that may have a prefix of four bytes, and the         *)
(* stream another ELF file.  A name is a sequence of parts, so that some begin  *)
(* like others.  Sizes of decompressed data are in units of kInitialOutputSize. *)
(***************************************************************************)
EXTENDS Naturals, Sequences, SequencesExt, FiniteSets, FiniteSetsExt

CONSTANTS
  MaxDecompressed   \* kMaxDecompressedSize

ASSUME ElfAssumption == MaxDecompressed \in Nat \ {0}

InitialOutput == 1
NoSymbol == 0
Unknown == 0       \* a declared size that says nothing

(***************************************************************************)
(* utils/debugdata.cpp.                                                    *)
(***************************************************************************)

Backends == {"lzma", "xz"}

backendName(b) == IF b = "xz" THEN <<"x", "z">> ELSE <<"l", "z", "m", "a">>

\* parseBackend, keeping the backend there was when the name is of none.
resolveDebugDataBackend(backend, name) ==
  LET parsed == {b \in Backends : backendName(b) = name}
  IN IF parsed = {} THEN backend ELSE CHOOSE b \in parsed : TRUE

\* A bug: the output grows once.
FitsGrowingOnce(length) == length =< Min({InitialOutput * 2, MaxDecompressed})

\* The output doubles until the stream ends in it or the limit is reached.
FitsGrowing(length) ==
  LET fits[capacity \in InitialOutput..MaxDecompressed] ==
        \/ length =< capacity
        \/ capacity < MaxDecompressed /\ fits[Min({capacity * 2, MaxDecompressed})]
  IN fits[InitialOutput]

lzmaAlone(stream) ==
  /\ stream.format = "lzma" /\ stream.whole
  /\ IF stream.declared # Unknown
     THEN stream.declared =< MaxDecompressed /\ stream.length = stream.declared
     ELSE FitsGrowing(stream.length)

xzStream(stream) ==
  /\ stream.format = "xz" /\ stream.whole
  /\ FitsGrowing(stream.length)

tryBackend(backend, stream) == IF backend = "xz" THEN xzStream(stream) ELSE lzmaAlone(stream)

\* A bug: the configured backend is the only one.
decompressPreferred(backend, stream) == tryBackend(backend, stream)

\* The configured backend, then the other.
decompress(backend, stream) ==
  \E candidate \in {backend} \cup (Backends \ {backend}) : tryBackend(candidate, stream)

(***************************************************************************)
(* utils/elf_util.cpp.                                                     *)
(***************************************************************************)

\* What parseSymbols takes of a table: the symbols that are defined and named.
parseSymbols(syms, bias) ==
  FlattenSeq([i \in DOMAIN syms |->
    IF syms[i].defined /\ syms[i].name # <<>>
    THEN <<[name |-> syms[i].name, addr |-> bias + syms[i].value]>> ELSE <<>>])

\* A bug: offset 4 alone is tried, the prefix being taken for granted.
parseGnuDebugDataPrefixed(backend, sh) ==
  sh.prefixed /\ decompress(backend, sh.stream) /\ sh.stream.elf

\* The stream is looked for after a prefix of four bytes and at the beginning;
\* neither is recognised at the place of the other.
parseGnuDebugData(backend, sh) ==
  \E prefixed \in {TRUE, FALSE} :
    sh.prefixed = prefixed /\ decompress(backend, sh.stream) /\ sh.stream.elf

\* The symbols of the tables of some kinds, in the order of the sections.
TableSymbols(sections, kinds, bias) ==
  FlattenSeq([i \in DOMAIN sections |->
    IF sections[i].kind \in kinds /\ sections[i].sound
    THEN parseSymbols(sections[i].syms, bias) ELSE <<>>])

\* The first of each name and address.
Unique(symbols) ==
  FlattenSeq([i \in DOMAIN symbols |->
    IF \A j \in 1..(i - 1) : symbols[j] # symbols[i] THEN <<symbols[i]>> ELSE <<>>])

Bias(file, base) == IF file.type = "dyn" THEN base ELSE 0

\* What ensureParsed leaves in symbols_.
Symbols(file, base, backend) ==
  LET bias == Bias(file, base)
      debug == {i \in DOMAIN file.sections : LET sh == file.sections[i] IN
                 sh.kind = "debugdata" /\ sh.sound /\ parseGnuDebugData(backend, sh)}
  IN Unique(TableSymbols(file.sections, {"symtab", "dynsym"}, bias)
              \o IF debug = {} THEN <<>>
                 ELSE TableSymbols(file.sections[Max(debug)].stream.sections, {"symtab"}, bias))

lookup(symbols, name, prefix) ==
  LET found == {i \in DOMAIN symbols :
                 IF prefix THEN IsPrefix(name, symbols[i].name) ELSE symbols[i].name = name}
  IN IF found = {} THEN NoSymbol ELSE symbols[Min(found)].addr

\* A bug: an import is taken for a definition.
LoadedLookupImports(file, base, name) ==
  LET found == {i \in DOMAIN file.loaded : file.loaded[i].name = name}
  IN IF base = 0 \/ found = {} THEN NoSymbol ELSE base + file.loaded[Min(found)].value

\* runtimeLookup where the file is loaded at base.
LoadedLookup(file, base, name) ==
  LET found == {i \in DOMAIN file.loaded : LET s == file.loaded[i] IN
                 s.defined /\ s.value # 0 /\ s.name = name}
  IN IF base = 0 \/ found = {} THEN NoSymbol ELSE base + file.loaded[Min(found)].value

(***************************************************************************)
(* What a file defines, and the files linkers write.                         *)
(***************************************************************************)

\* The symbols that sections of some kinds describe.
Described(sections, kinds) ==
  {s \in UNION {ToSet(sh.syms) : sh \in {s \in ToSet(sections) : s.kind \in kinds /\ s.sound}} :
     s.defined /\ s.name # <<>>}

\* The symbols a file defines, wherever they are described: in a section of its own
\* or in debug data that can be decompressed.
DefinedSymbols(file) ==
  LET readable(stream) == stream.whole /\ stream.elf /\ stream.length =< MaxDecompressed
      debug == {sh \in ToSet(file.sections) : sh.kind = "debugdata" /\ sh.sound /\ readable(sh.stream)}
  IN Described(file.sections, {"symtab", "dynsym"})
       \cup UNION {Described(sh.stream.sections, {"symtab"}) : sh \in debug}

IsSeq(s) == s \in Seq(ToSet(s))

HasTables(sections) ==
  /\ IsSeq(sections)
  /\ \A sh \in ToSet(sections) : sh.kind \in {"symtab", "dynsym"} => IsSeq(sh.syms)

\* A stream is of one of the two formats, and says its length or nothing.
IsDebugData(sh) ==
  /\ sh.prefixed \in BOOLEAN
  /\ sh.stream.whole \in BOOLEAN /\ sh.stream.elf \in BOOLEAN
  /\ sh.stream.format \in Backends /\ sh.stream.length \in Nat
  /\ sh.stream.declared \in {Unknown, sh.stream.length}
  /\ HasTables(sh.stream.sections)

\* A file has debug data once, and what its dynamic segment shows is in its tables.
WellFormed(file) ==
  /\ HasTables(file.sections) /\ IsSeq(file.loaded)
  /\ \A i, j \in DOMAIN file.sections :
       file.sections[i].kind = "debugdata" /\ file.sections[j].kind = "debugdata" => i = j
  /\ \A sh \in ToSet(file.sections) : sh.kind = "debugdata" => IsDebugData(sh)
  /\ {s \in ToSet(file.loaded) : s.defined /\ s.value # 0}
       \subseteq Described(file.sections, {"symtab", "dynsym"})
=============================================================================
