--------------------------- MODULE MCLoaderRuntime --------------------------
(* A linker and a library whose second segment is not loaded at its offset, and *)
(* a program at fixed addresses.                                           *)
EXTENDS LoaderRuntime

CONSTANTS w1, w2, linker, library, program

Sym(name, value) == [name |-> name, value |-> value, defined |-> TRUE]
Import(name) == [name |-> name, value |-> 0, defined |-> FALSE]
Seg(vaddr, offset, pages) == [vaddr |-> vaddr, offset |-> offset, pages |-> pages]
Table(kind, syms) == [kind |-> kind, sound |-> TRUE, syms |-> syms]
Debug(prefixed, format, declared, length, syms) ==
  [kind |-> "debugdata", sound |-> TRUE, prefixed |-> prefixed,
   stream |-> [format |-> format, whole |-> TRUE, elf |-> TRUE, declared |-> declared,
               length |-> length, sections |-> <<Table("symtab", syms)>>]]

\* Names: a symbol that is exported, one that begins like it, an imported one.
Foo == <<"foo">>
FooImpl == <<"foo", "impl">>
Bar == <<"bar">>
Dlopen == <<"__loader_android_dlopen_ext">>

linkerElf == [path |-> [dir |-> "/apex", name |-> "linker64"], ino |-> 1, pages |-> 2, type |-> "dyn",
           segments |-> {Seg(0, 0, 1), Seg(1, 1, 1)},
           loaded |-> <<Sym(Dlopen, 1)>>,
           sections |-> <<Table("dynsym", <<Sym(Dlopen, 1)>>), Table("symtab", <<Sym(Dlopen, 1)>>)>>]

libraryElf ==
          [path |-> [dir |-> "/lib", name |-> "libx.so"], ino |-> 2, pages |-> 3, type |-> "dyn",
           segments |-> {Seg(0, 0, 1), Seg(2, 1, 2)},
           loaded |-> <<Import(Bar), Sym(Foo, 1)>>,
           sections |-> <<Table("dynsym", <<Import(Bar), Sym(Foo, 1)>>),
                        Debug(TRUE, "xz", 0, 3, <<Sym(FooImpl, 2), Sym(Foo, 1)>>)>>]

programElf == [path |-> [dir |-> "/bin", name |-> "app"], ino |-> 3, pages |-> 2, type |-> "exec",
            segments |-> {Seg(0, 0, 2)},
            loaded |-> <<Sym(Foo, 31)>>,
            sections |-> <<Table("dynsym", <<Sym(Foo, 31)>>),
                           Debug(FALSE, "lzma", 0, 4, <<Sym(FooImpl, 30)>>)>>]

MCElf == [f \in Files |-> CASE f = linker -> linkerElf [] f = library -> libraryElf [] f = program -> programElf]
MCLoadAt == [f \in Files |-> CASE f = linker -> 10 [] f = library -> 20 [] f = program -> 30]
MCPlaces == {1, 5, 40}
MCNames == {Foo, FooImpl, Bar}
MCModuleOf == [w \in Workers |-> IF w = w1 THEN 1 ELSE 2]

Module(index, path, companion) ==
  [fd |-> 7, index |-> index, path |-> path, companion |-> companion]
Plan(modules, debugdata) ==
  [modules |-> modules, inline_engine |-> <<"d">>, plt_engine |-> <<>>,
   debugdata |-> debugdata, nonce |-> "nonce"]
Is(opens, exports, version) == [opens |-> opens, exports |-> exports, version |-> version]

App(name, deleted) == [dir |-> "/bin", name |-> name, deleted |-> deleted]

MCSettings == {
  \* A thread of the first module resolves while the second one is loaded.
  [plan |-> Plan(<<Module(0, <<"a">>, TRUE), Module(1, <<"b">>, FALSE)>>, <<"x", "z">>), version |-> 3,
   modules |-> <<Is(TRUE, TRUE, 2), Is(TRUE, TRUE, 4)>>, exe |-> App("app", FALSE),
   loaded |-> {linker, library}, comes |-> {}, wanted |-> {linker, library}, mapFails |-> FALSE],
  \* A library that comes and goes, and mmap that may fail; the other modules cannot
  \* be used, and the plan is as long as it may be.
  [plan |-> Plan(<<Module(2, <<"a", "a">>, FALSE), Module(0, <<"b">>, TRUE), Module(1, <<"c">>, FALSE)>>,
                 <<"l", "z", "m", "a">>), version |-> 3,
   modules |-> <<Is(TRUE, TRUE, 3), Is(FALSE, TRUE, 4), Is(TRUE, FALSE, 4)>>, exe |-> App("hyos_spawner", TRUE),
   loaded |-> {linker}, comes |-> {library}, wanted |-> {library}, mapFails |-> TRUE],
  \* A program at fixed addresses; modules of unknown and of old versions.
  [plan |-> Plan(<<Module(0, <<"a">>, FALSE), Module(1, <<"b">>, TRUE), Module(2, <<"c">>, TRUE)>>, <<"?">>),
   version |-> 3,
   modules |-> <<Is(TRUE, TRUE, 5), Is(TRUE, TRUE, 4), Is(TRUE, TRUE, 1)>>, exe |-> App("hyos_spawner", FALSE),
   loaded |-> {linker, program}, comes |-> {}, wanted |-> {program, linker}, mapFails |-> FALSE],
  \* A loader that is newer than the daemon.
  [plan |-> Plan(<<Module(0, <<"a">>, FALSE)>>, <<>>), version |-> 4,
   modules |-> <<Is(TRUE, TRUE, 4)>>, exe |-> App("app", FALSE),
   loaded |-> {linker}, comes |-> {}, wanted |-> {}, mapFails |-> FALSE] }
=============================================================================
