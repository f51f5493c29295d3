---------------------------- MODULE LoaderRuntime ---------------------------
(***************************************************************************)
(* The loader in a target, from the boot plan it is called with (entry.cpp)    *)
(* over the modules it loads (module/loader.cpp, utils/dlext.cpp) to the        *)
(* symbol resolvers their threads make (api/table.cpp, api/symbols.cpp,         *)
(* utils/elf_util.cpp).  The loader uses ElfImage like the modules do: for      *)
(* each module it looks up the linker's dlopen.  Meanwhile the rest of the       *)
(* process loads and unloads libraries, and the maps hold both the segments     *)
(* that are loaded and the files that resolvers have mapped whole.            *)
(***************************************************************************)
EXTENDS BootPlan, MemoryMaps, ElfSymbols

CONSTANTS
  Loader,      \* the thread that is in znn_loader_init
  Workers,     \* threads of modules
  ModuleOf,    \* ModuleOf[w]: the place in the plan of the module w belongs to
  Files,       \* the ELF files
  Elf,         \* Elf[f]: the path, inode, pages, segments and symbols of f
  LoadAt,      \* LoadAt[f]: the page the linker loads f at
  Places,      \* pages the kernel may map a whole file at
  LinkerName,  \* "linker64"
  DlopenExt,   \* "__loader_android_dlopen_ext"
  Names,       \* the symbols modules ask for
  Settings     \* the plan, the modules, the program, the libraries of a run

Threads == {Loader} \cup Workers
None == "none"

\* A library has more than one segment, the first shorter than its file in pages:
\* where it is as long, it is taken for the file as a whole (elf_util.cpp:427).
IsLoadable(file) ==
  /\ file.path \in [dir : STRING \ {NoDir}, name : STRING]
  /\ file.ino # 0 /\ file.pages \in Nat \ {0}
  /\ file.segments \subseteq [vaddr : Nat, offset : Nat, pages : Nat \ {0}]
  /\ file.type = "dyn" =>
       \E s \in file.segments : /\ s.offset = 0 /\ s.vaddr = 0 /\ s.pages < file.pages
                                /\ \A r \in file.segments \ {s} : r.vaddr > 0

\* The name of a file tells it from the others, and the linker does not load two
\* things at a place, or at 0.  The plan is what the daemon's types let it be.
ASSUME LoaderAssumption ==
  /\ Loader \notin Workers /\ None \notin Threads \cup Files
  /\ Places \subseteq Nat \ {0}
  /\ \A f \in Files : IsLoadable(Elf[f]) /\ WellFormed(Elf[f]) /\ LoadAt[f] \in Nat \ {0}
  /\ \A f, g \in Files : Elf[f].path.name = Elf[g].path.name => f = g
  /\ \A f, g \in Files : \A s \in Elf[g].segments :
       LoadAt[f] \in (LoadAt[g] + s.vaddr)..(LoadAt[g] + s.vaddr + s.pages - 1)
         => f = g /\ s.vaddr = 0
  /\ \A s \in Settings :
       /\ s.plan.modules \in Seq([fd : Nat, companion : BOOLEAN, index : Nat, path : Seq(STRING)])
       /\ {s.plan.inline_engine, s.plan.plt_engine, s.plan.debugdata} \subseteq Seq(STRING)
       /\ s.loaded \cup s.comes \cup s.wanted \subseteq Files

VARIABLES
  setting,   \* one of Settings, for good
  plan,      \* what parsePlan made of it
  next,      \* the module loadAll is at
  backend,   \* g_backend
  hyos,      \* hyos::active()
  closed,    \* how often the descriptor of each module was closed
  told,      \* the calls of onModuleLoaded
  loaded,    \* the files the linker has loaded
  pc,        \* per thread: what it is about to do
  image,     \* per thread: its ElfImage, and whether its file has been loaded all along
  lock,      \* per thread: who has parse_mutex_ of its image
  query,     \* per thread: the lookup it is in
  answer     \* the answer to a lookup, in the state in which it is given

vars == <<plan, next, backend, hyos, closed, told, loaded, pc, image, lock, query, answer>>
bootVars == <<plan, next, backend, hyos, closed, told>>

NoImage == [file |-> None, base |-> 0, at |-> 0, valid |-> FALSE,
            parsed |-> FALSE, symbols |-> <<>>, steady |-> FALSE]
NoQuery == [of |-> None, kind |-> None, name |-> <<>>]
NoAnswer == [query |-> NoQuery, file |-> None, steady |-> FALSE, is |-> NoSymbol]

Init ==
  /\ setting \in Settings
  /\ plan = Rejected /\ next = 1 /\ backend = "lzma" /\ hyos = FALSE
  /\ closed = [i \in DOMAIN setting.plan.modules |-> 0]
  /\ told = <<>>
  /\ loaded = setting.loaded
  /\ pc = [t \in Threads |-> IF t = Loader THEN "boot" ELSE "idle"]
  /\ image = [t \in Threads |-> NoImage]
  /\ lock = [t \in Threads |-> None]
  /\ query = [t \in Threads |-> NoQuery]
  /\ answer = NoAnswer

\* No lookup is answered in this step.
Silent == answer' = NoAnswer

(***************************************************************************)
(* The address space.                                                      *)
(***************************************************************************)

Mapping(f, start, pages, offset) ==
  [start |-> start, end |-> start + pages, offset |-> offset,
   path |-> Elf[f].path, ino |-> Elf[f].ino, readable |-> TRUE]

MyFile(t) == Elf[image[t].file]

Maps ==
  (UNION {{Mapping(f, LoadAt[f] + s.vaddr, s.pages, s.offset) : s \in Elf[f].segments} : f \in loaded})
    \cup {Mapping(image[t].file, image[t].at, MyFile(t).pages, 0) :
            t \in {u \in Threads : image[u].at # 0}}

Mapped(page) == \E m \in Maps : Covers(m, page)

\* The page is the first one of a file, with its ELF header.
LooksElf(page) == \E m \in Maps : Covers(m, page) /\ page - m.start + m.offset = 0

\* The linker loads a library where nothing is mapped, and unloads it.
Load(f) ==
  /\ f \in setting.comes \ loaded
  /\ \A s \in Elf[f].segments :
       \A q \in (LoadAt[f] + s.vaddr)..(LoadAt[f] + s.vaddr + s.pages - 1) : ~Mapped(q)
  /\ loaded' = loaded \cup {f}
  /\ Silent /\ UNCHANGED <<bootVars, pc, image, lock, query>>

Unload(f) ==
  /\ f \in setting.comes \cap loaded
  /\ loaded' = loaded \ {f}
  /\ image' = [t \in Threads |->
       IF image[t].file = f THEN [image[t] EXCEPT !.steady = FALSE] ELSE image[t]]
  /\ Silent /\ UNCHANGED <<bootVars, pc, lock, query>>

(***************************************************************************)
(* The constructor of ElfImage, in the steps others can come between.       *)
(***************************************************************************)

restVars == <<bootVars, loaded, lock, query>>
Go(t, to) == pc' = [pc EXCEPT ![t] = to]

\* The name is opened, or else the path of the first mapping of that name.
Open(t, name, base) ==
  LET path == IF name.dir # NoDir THEN name ELSE resolveMapPath(Maps, name)
      files == {f \in Files : Elf[f].path = path}
  IN \/ /\ files = {}
        /\ image' = [image EXCEPT ![t] = NoImage]
        /\ Go(t, "built")
     \/ \E f \in files :
          /\ image' = [image EXCEPT ![t] =
               [NoImage EXCEPT !.file = f, !.base = base, !.steady = f \in loaded]]
          /\ Go(t, IF base = 0 THEN "find" ELSE "map")

FindBase(t) ==
  /\ pc[t] = "find"
  /\ image' = [image EXCEPT ![t].base = findLibraryBase(Maps, MyFile(t).path, MyFile(t).pages)]
  /\ Go(t, "map")
  /\ Silent /\ UNCHANGED restVars

\* mmap, which may fail.
MapFile(t) ==
  /\ pc[t] = "map"
  /\ \/ /\ \E p \in Places :
             /\ \A q \in p..(p + MyFile(t).pages - 1) : ~Mapped(q)
             /\ image' = [image EXCEPT ![t].at = p]
        /\ Go(t, "check")
     \/ /\ setting.mapFails
        /\ Go(t, "built")
        /\ UNCHANGED image
  /\ Silent /\ UNCHANGED restVars

\* What is at base is looked at: it is an ELF header, or something else, or is not
\* there any more and the process ends.
CheckImage(t) ==
  /\ pc[t] = "check"
  /\ LET base == image[t].base
         dyn == MyFile(t).type = "dyn"
     IN /\ image' = [image EXCEPT ![t].valid = ~dyn \/ (base # 0 /\ LooksElf(base)),
                                  ![t].base = Bias(MyFile(t), base)]
        /\ Go(t, IF dyn /\ base # 0 /\ ~Mapped(base) THEN "crashed" ELSE "built")
  /\ Silent /\ UNCHANGED restVars

(***************************************************************************)
(* ensureParsed and the lookups, of any thread in the image of query.of.     *)
(***************************************************************************)

Of(t) == query[t].of
Asked(t) == image[Of(t)]

\* After a call, a thread that has a resolver is "ready".
Rest(t) == IF t = Loader THEN "dlopen" ELSE IF image[t].valid THEN "ready" ELSE "idle"

Answer(t, q, is) ==
  /\ answer' = [query |-> q, file |-> image[q.of].file, steady |-> image[q.of].steady, is |-> is]
  /\ Go(t, Rest(t))

\* A bug: parsed_ is looked at before the mutex is taken.
BeginParseUnlocked(t) ==
  /\ pc[t] = "lock"
  /\ \/ Asked(t).parsed /\ Go(t, "look") /\ UNCHANGED <<image, lock>>
     \/ /\ ~Asked(t).parsed /\ lock[Of(t)] = None
        /\ image' = [image EXCEPT ![Of(t)].parsed = TRUE]
        /\ lock' = [lock EXCEPT ![Of(t)] = t]
        /\ Go(t, "parse")
  /\ Silent /\ UNCHANGED <<bootVars, loaded, query>>

BeginParse(t) ==
  /\ pc[t] = "lock" /\ lock[Of(t)] = None
  /\ \/ Asked(t).parsed /\ Go(t, "look") /\ UNCHANGED <<image, lock>>
     \/ /\ ~Asked(t).parsed
        /\ image' = [image EXCEPT ![Of(t)].parsed = TRUE]
        /\ lock' = [lock EXCEPT ![Of(t)] = t]
        /\ Go(t, "parse")
  /\ Silent /\ UNCHANGED <<bootVars, loaded, query>>

EndParse(t) ==
  /\ pc[t] = "parse"
  /\ image' = [image EXCEPT ![Of(t)].symbols = Symbols(Elf[Asked(t).file], Asked(t).base, backend)]
  /\ lock' = [lock EXCEPT ![Of(t)] = None]
  /\ Go(t, "look")
  /\ Silent /\ UNCHANGED <<bootVars, loaded, query>>

\* lookup and forEach.
Look(t) ==
  /\ pc[t] = "look"
  /\ Answer(t, query[t],
       IF query[t].kind = "each" THEN Asked(t).symbols
       ELSE lookup(Asked(t).symbols, query[t].name, query[t].kind = "prefix"))
  /\ query' = [query EXCEPT ![t] = NoQuery]
  /\ UNCHANGED <<bootVars, loaded, image, lock>>

(***************************************************************************)
(* znn_loader_init: entry.cpp, module/loader.cpp, utils/dlext.cpp.            *)
(***************************************************************************)

\* The link to the program ends in " (deleted)" when its file is gone.
exePath(link) == [dir |-> link.dir, name |-> link.name]
exeName(link) == exePath(link).name

Boot ==
  LET raw == [Encode(setting.plan) EXCEPT !.version = setting.version]
      parsed == Parse(raw)
  IN /\ pc[Loader] = "boot" /\ Encode(setting.plan) # Rejected
     /\ plan' = parsed
     /\ IF parsed = Rejected
        THEN Go(Loader, "done") /\ UNCHANGED <<backend, hyos>>
        ELSE /\ backend' = resolveDebugDataBackend(backend, parsed.debugdata)
             /\ hyos' = (exeName(setting.exe) = "hyos_spawner")
             /\ Go(Loader, "load")
     /\ Silent /\ UNCHANGED <<next, closed, told, loaded, image, lock, query>>

\* loadAll; dlopenFd looks the linker up.  The process is one of 64 bits: it has no
\* "linker", which is tried next.
NextEntry ==
  /\ pc[Loader] = "load"
  /\ IF next > Len(plan.modules)
     THEN Go(Loader, "done") /\ UNCHANGED image
     ELSE Open(Loader, [dir |-> NoDir, name |-> LinkerName], 0)
  /\ Silent /\ UNCHANGED restVars

\* resolveLibrarySymbol does not ask the loaded image, but the file.  Without an
\* image, dlsym has the function.
ResolveDlopenExt ==
  LET q == [of |-> Loader, kind |-> "exact", name |-> DlopenExt]
  IN /\ pc[Loader] = "built"
     /\ IF image[Loader].valid
        THEN query' = [query EXCEPT ![Loader] = q] /\ Go(Loader, "lock") /\ Silent
        ELSE Go(Loader, "dlopen") /\ Silent /\ UNCHANGED query
     /\ UNCHANGED <<bootVars, loaded, image, lock>>

apiForVersion(v) ==
  CASE v = 1 -> {"hook"}
    [] v = 2 -> {"hook", "symbols"}
    [] v = 3 -> {"hook", "symbols", "companion"}
    [] OTHER -> {"hook", "symbols", "companion", "runtime"}

\* A module is called when it opens, has a zn_module and is of a version we know.
Callable(m) == m.opens /\ m.exports /\ m.version \in 1..4

\* What it is called with: its handle and what its API does, getRuntime having
\* nothing to return where hyos is not active.
Call(entry, m) ==
  [index |-> entry.index, path |-> entry.path,
   companion |-> entry.companion, nonce |-> IF entry.companion THEN plan.nonce ELSE None,
   api |-> apiForVersion(m.version) \ (IF hyos THEN {} ELSE {"runtime"})]

\* A bug: the descriptor is closed when the library has been opened.
LoadEntryLeaking ==
  /\ pc[Loader] = "dlopen"
  /\ image' = [image EXCEPT ![Loader] = NoImage]
  /\ LET m == setting.modules[next]
     IN /\ closed' = [closed EXCEPT ![next] = @ + IF m.opens THEN 1 ELSE 0]
        /\ told' = IF Callable(m) THEN Append(told, Call(plan.modules[next], m)) ELSE told
  /\ next' = next + 1
  /\ Go(Loader, "load")
  /\ Silent /\ UNCHANGED <<plan, backend, hyos, loaded, lock, query>>

\* A bug: a module that cannot be used ends the loading.
LoadEntryOrStop ==
  /\ pc[Loader] = "dlopen"
  /\ image' = [image EXCEPT ![Loader] = NoImage]
  /\ LET m == setting.modules[next]
     IN /\ closed' = [closed EXCEPT ![next] = @ + 1]
        /\ told' = IF Callable(m) THEN Append(told, Call(plan.modules[next], m)) ELSE told
        /\ next' = IF Callable(m) THEN next + 1 ELSE Len(plan.modules) + 1
  /\ Go(Loader, "load")
  /\ Silent /\ UNCHANGED <<plan, backend, hyos, loaded, lock, query>>

\* The rest of loadEntry, after the image of the linker is gone.  Where the linker's
\* file does not have it, dlsym does.
LoadEntry ==
  /\ pc[Loader] = "dlopen"
  /\ image' = [image EXCEPT ![Loader] = NoImage]
  /\ LET m == setting.modules[next]
     IN /\ closed' = [closed EXCEPT ![next] = @ + 1]
        /\ told' = IF Callable(m) THEN Append(told, Call(plan.modules[next], m)) ELSE told
  /\ next' = next + 1
  /\ Go(Loader, "load")
  /\ Silent /\ UNCHANGED <<plan, backend, hyos, loaded, lock, query>>

(***************************************************************************)
(* The API in a thread of a module.                                         *)
(***************************************************************************)

Has(w, part) ==
  \E i \in DOMAIN told : /\ told[i].path = setting.plan.modules[ModuleOf[w]].path
                         /\ part \in told[i].api

NewSymbolResolver(w) ==
  /\ pc[w] = "idle" /\ Has(w, "symbols")
  /\ \E f \in setting.wanted, short, based \in BOOLEAN :
       /\ based => f \in loaded
       /\ Open(w, [Elf[f].path EXCEPT !.dir = IF short THEN NoDir ELSE @],
                  IF based THEN LoadAt[f] ELSE 0)
  /\ Silent /\ UNCHANGED restVars

\* newSymbolResolver returns; an image that is not valid is unmapped.
Built(w) ==
  /\ pc[w] = "built"
  /\ image' = IF image[w].valid THEN image ELSE [image EXCEPT ![w] = NoImage]
  /\ Go(w, Rest(w))
  /\ Silent /\ UNCHANGED restVars

\* A module does not free a resolver one of its threads is using.
FreeSymbolResolver(w) ==
  /\ pc[w] = "ready"
  /\ \A t \in Threads : query[t].of # w
  /\ image' = [image EXCEPT ![w] = NoImage]
  /\ Go(w, "idle")
  /\ Silent /\ UNCHANGED restVars

\* What runtimeLookup finds in the memory at the base of an image.  Where its file
\* is not loaded, that is another thing or, in the file as a whole, other bytes.
Found(img, name) ==
  IF img.base = 0 \/ (img.file \in loaded /\ img.base = LoadAt[img.file])
  THEN {LoadedLookup(Elf[img.file], img.base, name)}
  ELSE {NoSymbol} \cup {img.base + s.value : s \in ToSet(Elf[img.file].loaded)}

\* symbolLookup and forEachSymbols, of w's resolver or another thread's.
SymbolLookup(w) ==
  /\ pc[w] \in {"idle", "ready"} /\ Has(w, "symbols")
  /\ \E r \in Workers, kind \in {"exact", "prefix", "each"} :
       \E name \in IF kind = "each" THEN {<<>>} ELSE Names :
         LET q == [of |-> r, kind |-> kind, name |-> name]
             later == query' = [query EXCEPT ![w] = q] /\ Go(w, "lock") /\ Silent
         IN /\ image[r].valid /\ pc[r] # "built"
            /\ IF kind = "exact" /\ image[r].base # 0 /\ ~Mapped(image[r].base)
               THEN Go(w, "crashed") /\ Silent /\ UNCHANGED query
               ELSE IF kind = "exact"
               THEN \E is \in Found(image[r], name) :
                      \/ is = NoSymbol /\ later
                      \/ is # NoSymbol /\ Answer(w, q, is) /\ UNCHANGED query
               ELSE later
  /\ UNCHANGED <<bootVars, loaded, image, lock>>

\* pltHook with the base of a resolver: the mapping it makes the hook on.
PltHookAt(w) ==
  /\ pc[w] = "ready" /\ Has(w, "hook") /\ image[w].base # 0
  /\ LET hit == findMapping(Maps, image[w].base)
         q == [of |-> w, kind |-> "hook", name |-> <<>>]
     IN Answer(w, q, IF hit = NoMapping THEN 0 ELSE firstMappingOfFile(Maps, hit).start)
  /\ UNCHANGED <<bootVars, loaded, image, lock, query>>

Construct(t) == FindBase(t) \/ MapFile(t) \/ CheckImage(t)
Lookup(t) == BeginParse(t) \/ EndParse(t) \/ Look(t)

WorkerStep(w) ==
  NewSymbolResolver(w) \/ Built(w) \/ FreeSymbolResolver(w) \/ SymbolLookup(w) \/ PltHookAt(w)

Next ==
  /\ \A t \in Threads : pc[t] # "crashed"
  /\ \/ \E f \in Files : Load(f) \/ Unload(f)
     \/ \E t \in Threads : Construct(t) \/ Lookup(t)
     \/ Boot \/ NextEntry \/ ResolveDlopenExt \/ LoadEntry
     \/ \E w \in Workers : WorkerStep(w)
  /\ UNCHANGED setting

Spec == Init /\ [][Next]_<<vars, setting>>

(***************************************************************************)
(* Properties.                                                             *)
(***************************************************************************)

\* A resolver whose library has been loaded all along, and whose file could be
\* mapped, is valid and has the base the library is loaded at, although other
\* resolvers have the file mapped as well: elf_util.cpp:423-433.
FindsItsLibrary ==
  \A t \in Threads : LET img == image[t] IN
    (pc[t] \in {"built", "ready"} /\ img.steady /\ img.at # 0)
      => img.valid /\ img.base = Bias(Elf[img.file], LoadAt[img.file])

\* The symbols a file defines, and where they are when it is loaded.
Definitions(f) ==
  {[name |-> s.name, addr |-> Bias(Elf[f], LoadAt[f]) + s.value] : s \in DefinedSymbols(Elf[f])}

\* A lookup in such a resolver answers where a symbol of that name or prefix is
\* defined, and with none only when there is none; forEachSymbols goes over every
\* definition, and over none twice.  This holds whichever decoder is configured, and
\* when two threads are the first to ask: symbols.cpp:53-82, elf_util.cpp:174-251.
AnswersAreRight ==
  LET a == answer
      asked == {d \in Definitions(a.file) :
        IF a.query.kind = "prefix" THEN IsPrefix(a.query.name, d.name) ELSE d.name = a.query.name}
  IN a.steady =>
       /\ a.query.kind \in {"exact", "prefix"} =>
            IF asked = {} THEN a.is = NoSymbol ELSE \E d \in asked : a.is = d.addr
       /\ a.query.kind = "each" => ToSet(a.is) = Definitions(a.file) /\ IsInjective(a.is)

\* A plt hook with the base of such a resolver is made on the header of the loaded
\* image, not on a file that is only mapped: hook/plt.cpp:34-56.
HooksItsLibrary ==
  LET a == answer IN
    a.steady /\ a.query.kind = "hook" => a.is = LoadAt[a.file]

\* A plan of the loader's own version arrives as it was written: every module that
\* can be used is called once, in the order of the plan, with its own index, channel
\* and API, whatever becomes of those before it, and every descriptor is closed once:
\* loader.cpp:43-87, plan.cpp:47-114.
PlanIsObeyed ==
  (pc[Loader] = "done" /\ setting.version = PlanVersion) =>
    /\ plan # Rejected
    /\ plan.nonce = setting.plan.nonce /\ plan.inline_engine = setting.plan.inline_engine
    /\ plan.plt_engine = setting.plan.plt_engine /\ plan.debugdata = setting.plan.debugdata
    /\ \A i \in DOMAIN closed : closed[i] = 1
    /\ LET usable == {i \in DOMAIN closed : Callable(setting.modules[i])}
       IN \E order \in [DOMAIN told -> usable] :
            /\ \A i \in usable : \E k \in DOMAIN told : order[k] = i
            /\ \A k \in DOMAIN told :
                 /\ \A j \in 1..(k - 1) : order[j] < order[k]
                 /\ told[k] = Call(setting.plan.modules[order[k]], setting.modules[order[k]])
=============================================================================
