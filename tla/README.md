# A verification project for ZNNext

ZNNext injects native modules into Android system processes. A root daemon
(`injector/`, Rust) finds the processes a module targets, takes them with
ptrace and loads a C++ loader (`loader/`) into them, which loads the module
libraries and offers them hooks. A KernelPatch module (`kpm/`, C) and other
kernel interfaces report executions; a WebUI (`webui/`, Vue) shows the state
through a control client that is the same binary as the daemon.

This directory holds TLA+ modules about that code, TLC configurations that
check them on small instances, and proofs that TLAPS checks. `PROJECT.json`
maps every definition to the lines it models, names a mutant for each property
(a plausible bug that the property catches) and lists the hazards of the code
with the properties that cover them.

    tlc -config Injection_x86.cfg MCInjection        # each run takes a few minutes at most
    tlapm InjectionProofs.tla                        # a few minutes at most, as each of the eight ...Proofs

## 1. Inventory

| Component | Source | State | Operations | What is hard | What makes it correct |
|---|---|---|---|---|---|
| Tracee state machine | `injector/src/trace.rs`, `ptrace_ops.rs`, `sys/ptrace.rs` | `tracees`: state, breakpoint, saved registers, files left | the handler of each stop, `release_tracee`, `give_up` | stops of many processes in any order, deaths, forks with the breakpoint in them, failures half way | a process is put back as it was on every way out; the loader is loaded once; the record is true |
| Seizing, expiring, releasing | `injector/src/mode.rs` | `done`, deadlines | `seize_and_stop`, `expire_pending`, `release_tracees`, `hand_over_init` | waits of 200 ms that consume whatever stop comes first; stops that come too late | as above; every injection ends; a shutdown leaves nobody on a breakpoint |
| Finding targets | `injector/src/kernel.rs`, `mode.rs` | `done`, `ignored`, `candidates`, `deferred`, `recheck` | kernel events, passes over `/proc`, retries, pruning | execs and exits between two looks, events of several sources out of order, foreign tracers | each target is settled, once; what is gone is forgotten |
| Mode selection | `injector/src/mode.rs`, `daemon.rs` | `mode`, `requested_mode`, `yielded` | `select_mode`, `apply_requested_mode`, the five-second check | modes that fail to start, a loader that appears later | the mode that runs is one that works |
| Daemon instance, control client | `injector/src/main.rs`, `ctl.rs`, `procfs.rs` | the processes, the pid in the state file | start, restart, exit | no lock: the scan of `/proc` races with processes that start and stop | one daemon serves; a successor does serve |
| Configuration, state | `config.rs`, `fileio.rs`, `state.rs`, `targets.rs` | files | `replace_file`, snapshots, records | two writers, crashes between record and snapshot | no torn or lost file |
| KernelPatch module and its reader | `kpm/src/znn.c`, `injector/src/kernel_kpm.rs` | hooks, a ring of 64 records, the counter of the reader | note an exec, read since, load, unload | writers and readers of the ring without a lock; buffers that are too small | what is read is true, once, and nothing is skipped |
| Other kernel sources | `kernel_*.rs`, `sys/netlink.rs`, `sys/fanotify.rs` | buffers | `drain` | partial lines, lost events | an event is a whole one |
| Boot plan | `plan.rs`, `loader/src/module/plan.cpp` | - | encode, decode | bounds, offsets, versions | decode is the inverse of encode |
| Companion processes and channel | `companion.rs`, `loader/src/ipc/channel.cpp`, `api/companion.cpp` | the helper, its two sockets, the handle and its channel | listen, connect with retries, hand over, serve | two ways to the helper, threads and forked children on one handle without a lock, lateness, death | a returned descriptor reaches the companion once; a call fails only without a helper |
| Inline hooks | `loader/src/api/hook.cpp`, `hook/engine.cpp`, `hook/backend/` | `g_hooked`, the engine and how it started, books of the backends | hook, unhook, choose, start and replace an engine | claims inside the lock, work outside it; three books of one fact | a call happens at one moment; the books agree |
| PLT hooks | `loader/src/hook/plt.cpp`, `hook/backend/` | slots, records, marks | hook and unhook (one call) | backends that patch without their lock or patch everything on each commit | the slot, the record and the module agree; an unhook is taken for one |
| Loader runtime | `loader/src/entry.cpp`, `module/`, `api/` | modules, API tables, resolvers | boot, load a module, make, ask and free a resolver | unusable modules; libraries that come and go under a resolver | the plan is obeyed; a resolver answers for the library that is loaded |
| ELF, maps, debug data | `loader/src/utils`, `injector/src/elf.rs`, `maps.rs` | an image: base, header, symbols | find the mappings, the sections, the symbols; decompress | whole-file mappings beside loaded segments; lazy parsing by two threads | a lookup answers where the symbol is |
| HyOS spawn support | `loader/src/hyos/` | registered modules, hooks, a captured name; copied by fork | register, hook, fork, name, `setcontext`, deliver | state copied into children, threads of one app, hooks that come late | the modules are told once per app, with its own name |
| Zygisk Next toggle | `zn.rs` | a module's `disable` file | `apply-zn` | runs while the device boots | the setting is applied |
| WebUI state | `webui/src/composables` | refs, generation | load, apply | answers out of order | a stale answer does not replace a setting |
| Reports, scripts | `system.rs`, `machikado.rs`, `module/src` | - | - | - | - |

The daemon is one thread. Its loop (`daemon.rs`, `run`) polls for targets,
collects the stops of its tracees, expires, rechecks and prunes. It talks to
processes through ptrace alone, to the KernelPatch module through `prctl`, to the
loader through the boot plan it writes into the process, to companions by forking
them, and to the client through signals and the state file. In a target, the
loader runs once and its API is called by the threads of the modules from then on,
in the process and in those it forks.

## 2. Modules

| Module | Extends | Models |
|---|---|---|
| `Injection`, `InjectionProofs` | | ptrace injection of a process, over all of `trace.rs` and the seizing in `mode.rs` |
| `Tracking`, `DaemonProofs` | | how targets are found, in the modes kernel, late and proc |
| `DaemonInstance`, `DaemonProofs` | | start, stop and succession of daemons; the control client |
| `KpmRing`, `KpmRingProofs` | | the KernelPatch module and its reader |
| `HookEngines` | | the choice of the engines, for both kinds of hooks |
| `HookOwnership` | | abstract: what inlineHook and inlineUnhook promise |
| `InlineHook`, `InlineHookProofs` | `HookEngines` | the inline hooks; implements `HookOwnership` |
| `PltHook`, `PltHookProofs` | `HookEngines` | the PLT hooks over four backends |
| `CompanionChannel`, `CompanionChannelProofs` | | a target, its child and the helper of a module |
| `HyosSpawn`, `HyosSpawnProofs` | | the spawner, the processes forked from it and the modules that are told |
| `BootPlan` | | the encoder of the daemon and the parser of the loader |
| `MemoryMaps`, `ElfSymbols` | | `elf_util.cpp`, `debugdata.cpp` as operators over maps and files |
| `LoaderRuntime`, `LoaderRuntimeProofs` | `BootPlan`, `MemoryMaps`, `ElfSymbols` | the loader: the plan, the modules, resolvers and libraries |
| `MC...` | the module of that name | constants of the runs |

`Settings` in `Tracking`, `KpmRing`, `CompanionChannel` and `LoaderRuntime` is a set
of configurations. `Init` chooses one and no step changes it, so that one run
covers all of them.

### Injection

What a process executes (`pc`), its registers, the breakpoints in its text, its
tracer and its pending stop are the kernel's side (external); `tracees`, `done`,
the record (`outcome`) and `task` (the handler or wait the daemon is in) are the
daemon's. The program counter is abstracted to places: the linker, the entry
point, the program (`main`), after a breakpoint (`past`, on x86), and the injected
calls. Addresses, register files and file contents are left out.

* `Reap` is the `waitpid` of `reap_traces`, `Handle...` and `Trap...` are
  `handle_event` and the handlers of `trace.rs`. A handler is one step. Between
  `Reap` and the handler the process can be killed, so every request of a
  handler is modelled for a dead process too.
* `Seize`, `SeizedStopped` and `SeizeTimeout` are `seize_and_stop` with
  `seize_target` and `seize_late_target`; the wait between them is a state in
  which processes run, and whatever stop comes first ends it. `Expire...` and
  `Release...` are `expire_pending` and `release_tracees` in the same way.
* The five `Disturbances` (signals, SIGTRAPs that no breakpoint has raised, waits that time
  out, SIGTERM, `done` losing a process) are a constant, so that each run has those its
  question needs. A SIGTRAP can come in an injected call too (`StrayTrap`); the daemon takes
  it for the return of the call, since only `trap_at_entry` looks at the program counter.

Abstracted: group stops (a stopped process is left alone by both sides), the
threads of a process, the delivery of a signal to its process, and a foreign
tracer (Tracking has it). A successful exec replaces the image, so the loader and
the breakpoints in it are gone. Libraries called during an injection do not fork.
Signals are not real-time ones: the stop of one is consumed by `waitpid` of nix, which then
reports an error (`sys/wait.rs:75`), so `reap_traces` logs it and leaves its loop
(`daemon.rs:293-301`) and the process stays stopped; the model collects every stop.
Two things that an exec between two looks can do are left out: `restore_entry` writing its
old bytes to the image of an exec that was not reported (`trace.rs:929`), and an entry point
looked up before the seizing (`mode.rs:640-665`) that is no longer that of the image.

### Tracking

The five sets and maps of `Daemon` that remember processes, and the outcome for
each target. `ConsiderKernelEvent`, `RecheckPending`, `RetryDeferred`, `BeginPass`
to `EndPass`, `Abandon` and `Prune` are the functions of those names. A pass
over `/proc` is not atomic: the list is taken, then one process after the
other is looked at. The kernel's sources differ in when they report an exec and
whether they report exits; each is a queue, and queues are drained independently.
Seizing is one step here with three outcomes, since Injection has the rest.
A service forks from init and executes once; pids are not reused. Deadlines can
pass at any time.

### DaemonInstance

Daemons and control clients as processes. `Look` is one process of the scan in
`find_daemon_pid`; `Visible` is `is_daemon_alive`, true of a zombie and false of
a child that has not executed yet. `VerifyModule` to `StopServing` are `main`
and `Daemon::run`, the client's actions are `start_daemon` and `signal_daemon`.
Other processes that look like a daemon for a moment (a zombie client, a
companion before it renames itself) are left out: they can delay a daemon,
not let a second one in. The boot scripts that start a daemon are `Boot`.

### KpmRing

The hooks of `znn_init` are set and taken out one by one (`HookNext`, `UnhookNext`).
`Claim` is the atomic addition of `znn_note_exec` and `Store` one plain store of it,
in any order; `BeginSince`, `LoadField` and `Return` are a `prctl` of the daemon,
`BeginRead` the control call, with plain loads in any order. A field of a record holds
the number of the execution it is about, so that a mixed line can be told from a true
one. `clean` and `lapped` are history. The number that `prctl` returns moves
`since`, as in `kernel_kpm.rs`. Unloading waits for callbacks that run.

### HookEngines, HookOwnership, InlineHook

`Call` to `NotUnhooked` are the parts of `inlineHook` and `inlineUnhook` between their
locks, `EnsureReady` and `FallBack` are `ensureInlineEngineReady`, and
`BackendHooks`, `NoteStub`, `BackendUnhooks`, `UnhookStub` and `DropStub` the
backends, each lock with what it guards in one step. The libraries are external: they may
refuse. A hook that is in place is a numbered stub at an address.
`HookOwnership` has a set of addresses and calls that take effect at one moment; a
call of `InlineHook` takes effect when the library patches or restores
(`Effective`), and the refinement maps the code of the process to the set.

### PltHook

A slot holds a handler; `Call` begins the one call of the API for both hooking and
unhooking. lsplt looks at its record, patches and writes the record with the lock released
in between (`LspltLookUp`, `LspltCommit`, `LspltRecord`). bytehook marks the slot
as pending and patches without the lock. xhook and plti hold it all along; xhook patches every
slot that is recorded on each commit. A module unhooks only what it has hooked and passes what it was given.
`Serialised` names the engines for which the modules are assumed to call one after the
other for one slot: `plt_race` assumes it of lsplt and `plt_lsplt` shows why.

### CompanionChannel

The helper loads, binds its name, makes the control connection and serves
(`HelperStep`, `ServeControl`, `ServeDirect`); the target opens its listener and its threads go through
`connectCompanion`: the channel of the handle, the listener for up to two seconds (`Poll`),
the connection (`Accept`), its nonce, then the direct connections. The listener
blocks, so a call that saw the helper's one connection and lost it to another thread or process
is `"blocked"` in `accept4`. A direct connection is made first (`ConnectDirect`) and proved by its
token later (`SendToken`); the helper waits for the token two seconds, and what comes while it
closes the connection is lost (`DropDirect`). A fork copies the handle and the descriptors.
Faults are a helper that is killed, that cannot bind, or a connection that breaks. A
setting that is `strained` has a target that runs out of descriptors or is late with its token.
The nonce separates targets and is taken to do so; frames are the numbers of the
calls.

### HyosSpawn

The state of `runtime.cpp` and `hooks.cpp` per process, and what each thread is doing.
`Fork` copies the state of its process as the handlers of `pthread_atfork` leave it
(`AtForkPrepare`, `AtForkChild`). A thread that returns from the hooked fork reads
`g_reinstall`, resets it and tries the hooks again in three steps (`ForkReturns`,
`InstallAgain`), between which other threads fork; `todo` is history. `installHooks` itself is
one step, although two threads could be in it at once, and a fork does not fail. The name is
written by one thread and read by another, so it can be half written
(`Torn`). A name is the process and the thread it belongs to.

### BootPlan, MemoryMaps, ElfSymbols, LoaderRuntime

`encode` and `parsePlan` work on a header, records and a blob of strings with their
offsets; `LoaderRuntime` boots from the encoded plan, so `PlanIsObeyed` relates
what the daemon wrote to what the modules see.
`LoaderRuntime` has the loaded libraries and the whole-file mappings as entries of
`/proc/self/maps`; `MemoryMaps` picks the mapping of a path from them, and
`ElfSymbols` finds the symbols of a file from its sections and its debug data, with a
decoder that follows the configured order. The loader is a user of the resolvers itself,
because it looks up the linker's dlopen for every module. Addresses are pages; a name is a
sequence of parts. `LoaderAssumption` says what the linker and the daemon's types guarantee:
the name of a file tells it from the others, no segment of a library covers the place another
is loaded at, a shared library begins with a segment that has its header and is shorter than
its file, a file has debug data once, and its dynamic segment shows what its tables have. A
library is loaded only where nothing is mapped (`Load`), as the kernel maps nothing over
something else.

`FindsItsLibrary`, `AnswersAreRight` and `HooksItsLibrary` are about images that are `steady`:
the library was loaded when the file was opened and has not been unloaded since. Of any other
image the code promises nothing. `PlanIsObeyed` says that there is an `order` of the modules
that can be used, ascending and complete, in which they were called.

## 3. Runs

Runs that set `CHECK_DEADLOCK FALSE` may stop: the processes are dead, the daemon or
the clients are done, or nothing is left to ask. The hooks and HyOS never stop.

| Run | Instance | What it shows |
|---|---|---|
| `Injection_x86` | 1 process, up to 2 modules, all five disturbances, `X86` | whatever happens, a process that is not traced is intact (`UntracedIntact`), an initialised loader is recorded (`InitIsRecorded`), a success is recorded only in or after the call of the initialisation (`SuccessMeansInit`), nothing but a SIGTRAP or death cuts a call short while the daemon is up (`CallsComplete`), and every injection ends if the process stops in time for an expiry from some time on (`InjectionEnds`, fair) |
| `Injection_forks` | a service and its fork, SIGTERM | `UntracedIntact` and `LoadedOnce` when a process forks with the breakpoint in its text; `OwnedIsTraced`; `NobodyLeftParked` after a shutdown |
| `Tracking_modes` | 2 processes, 4 settings of mode, sources and foreign tracer | targets are settled, once (`SettledOnce`, `TargetsSettled`), forgotten when they are gone, and reported when they are held |
| `Tracking_held` | kernel mode, one held for good | **violation**: the held target is dropped without a record |
| `DaemonInstance_race` | 3 daemons (one running, one booted), 2 clients, all commands | `OneDaemon`, `RecordedServes`; `SuccessorServes`, under fairness |
| `kpm_race` | 2 tasks, a ring of 2, a buffer of 1 line | what is read is true, is read once, and nothing is skipped; the channel answers only while both system calls are observed; the reader arrives (`Drained`, fair) |
| `inline_race` | 3 threads, 2 addresses, 5 engines | the calls implement `HookOwnership` (`KeepsPromise`); the books agree; the engine works |
| `plt_race` | 3 modules, 2 slots and an absent one, 5 engines | the slot, the record and the modules agree; an unhook is recognised |
| `plt_lsplt` | 2 modules, lsplt, the same at once | **violation**: two modules hook a slot and one cannot unhook |
| `companion_threads` | 2 threads and one of the child, up to 2 calls each, in settings without and with faults or a strained target | each descriptor is served once; a call that is not strained fails only without a helper; a helper leaves nothing behind; descriptors reach the companion (fair); a call returns, or lost the one connection to another call and is in `accept4` (fair) |
| `hyos_race` | the spawner and 2 forks, 2 threads each, room for 1 of 2 modules | told once, with a whole name of the process; also when its parent was told before; what could not be hooked is tried again after a fork, whichever threads share the flag (`HooksRetried`) |
| `loader_resolve` | 4 plans, 3 files, 2 threads of modules | a resolver finds its library, answers rightly and hooks its image; the plan is obeyed |

Bounds. One process is enough for whatever the daemon does to a process, since
the handlers share only `done` and the daemon's one thread; two are needed for
a fork. Waits that time out, and SIGTRAPs, while two processes are in an injection are in no
run, which would be too large: the proofs of section 4 cover them. In Tracking the
processes do not interact, but two are needed for a pass that is interrupted between
them and for queues with events of both. Three daemons let two start while a third
is stopping; two clients let a start race with a restart or an exit. A ring of two
is lapped by three executions, and a buffer of one line needs two calls for two
records. Three threads are the fewest with two that hook and one that unhooks; two
addresses show that a step for one leaves the other alone. Three slots are a hooked
one, one that xhook patches along with it, and an absent one. Two callers of the parent
meet on one handle, and the child has a copy. Two forks are the fewest for a
process whose parent is not the spawner. The files of `loader_resolve` are one whose
segments are not at their offsets, one with compressed symbols and one at fixed
addresses; each plan ends in a module that makes a difference to those after it.

Fairness. `Injection`: the kernel schedules a process and delivers interrupts, the
loop comes back to collecting and expiring, and a handler returns; strong
fairness where a signal, a death or a wait for another process can disable the
step again and again. It assumes that the injected calls return: the code has
no deadline for them. `InjectionEnds` is conditional: a process that misses the 200 ms of
every expiry is asked again for ever. `Tracking`: each part of the loop runs again and
again; an exec that has begun ends; a tracer in `Released` lets go. Strong
fairness of `Abandon` says that the clock passes the five seconds. Nothing makes a
process fork, exit or die. `DaemonInstance`: processes are scheduled; nobody has
to give a command. `Prompt` says that a daemon that was told to stop is gone within
the three seconds its successor waits: its budget for releasing is 0.8 seconds.
`KpmRing`: the daemon asks again whenever there is something to ask for (strong, as a
module may be unloaded and loaded between), and its calls run. `CompanionChannel`:
the waits of a call have a timeout in the code, so a caller steps on, all but that of
`accept4` on a listener without a connection, from which there is no step; the helper
polls until it ends. Nobody has to call, hook, fork or fail.

### Disagreements

* `mode.rs:431` says a target that a foreign tracer never lets go of is
  "reported instead of being dropped in silence". That holds in proc and late mode
  (`Tracking_modes`). In kernel mode `observe_target` drops `Seizure::Retry`, no
  event comes again, and the target is neither injected nor reported
  (`Tracking_held`).
* `zygisk_next_api.h:27` says that a plt hook is taken away by a call with the original as
  the handler. `lsplt.cpp:57` patches between two locks and marks nothing, so of two
  modules that hook a slot at once both succeed and one of them cannot unhook
  (`plt_lsplt`). bytehook keeps a mark for that and xhook holds its lock.

Read in the code and not shown by a violated property:

* `zygisk_next_api.h:84-88` says that `connectCompanion` returns a descriptor and "otherwise -1
  is returned". `acceptChannel` polls the listener and accepts in two calls
  (`channel.cpp:182-187`) on a socket that blocks (`channel.cpp:156`): of two threads, or a parent and
  its child, that see the helper's one connection, one stays in `accept4`. `Returns` has this as its
  only exception.
* `ctl.rs:225` says a daemon that cannot come up is "reported instead of being
  announced as running". The client answers at the first poll at which the child is
  visible, before it has verified anything (`ctl.rs:228`).
* With `ReuseStubs`, `KeepsPromise` fails: `shadowhook.cpp:79` looks the stub up under
  its lock and uses it after, so the second of two unhooks of an address can take
  away the hook that has got the memory of the freed stub.
* A resolver for a library that is not loaded is valid while another resolver has the
  file mapped as a whole; its base is that mapping's, and is left over when it
  is freed (`elf_util.cpp:103`). A library that is unloaded leaves the bases of its
  resolvers behind as well.
* `elf_util.cpp:428` compares with 4096: on pages of 16 KB a whole mapping can be taken
  for the library. A library whose first segment spans the whole file is
  taken for a mapping, and a path with symbolic links does not match the maps.
* When the call of `znn_loader_init` cannot be set up, the companions started for it stay
  (`trace.rs:709`). A SIGTRAP that something else raises during a call is taken for its return
  (`trace.rs:164`, `285-305`), in the state Init for a success; `CallsComplete` and
  `SuccessMeansInit` except it. Two daemons that start together may both give up (`main.rs:72`).
  Two writers of a file share its temporary name (`fileio.rs:26`). A plan that is rejected
  leaves the descriptors of its modules open (`loader.cpp`).

## 4. Proofs

`InjectionProofs` proves of `Injection`, for any set of processes and services, any
number of modules, both kinds of breakpoint and any disturbances:
`TypeCorrect` (`[]TypeOK`), `DetachedIntact` (`[]UntracedIntact`) and
`TrackedIsTraced` (`[]OwnedIsTraced`). The only assumption is
`InjectionAssumption`, the types of the constants.

`UntracedIntact` is not inductive: whether a release puts a process back depends on
what the tracee saved when it was armed. `IndInv` (at the end of `Injection`)
adds, for each process, what the map knows about it. A tracee in state `Entry`
has its own registers and a breakpoint it can undo (`EntryArmed`); one where
the text already held a breakpoint when it was armed, copied by a fork,
is past its entry. A tracee in a call has saved the place of its breakpoint
(`CallUnderWay`). A process without an injection is intact even while it is
traced. A stop that was collected keeps the process stopped, and an exec
stop has a fresh image. `IndInv` is a conjunction over processes, so each action
has a lemma that shows it for the process it touches, and `Frame` keeps the
others. `IndInv => UntracedIntact /\ OwnedIsTraced` is then immediate.

The second half of the module is about what an injection does to the image of a process,
which `IndInv` says nothing of. `AttemptInv` says which call a tracee in a given state is in
(`CallOf`), that the breakpoint it returns to is still there (`InCall`), that the image is clean
until dlopen is called, that no call but the last initialises it, and that an initialised
image is recorded or about to be (`AttemptOk`). It is inductive together with `IndInv`: what a
handler restores is needed to know where the process goes on. From it follow
`LoadsOnce` (`LoadedOnce`), `SuccessIsInit` (`SuccessMeansInit`), `InitRecorded`
(`[]InitIsRecorded`) and `CallsAreNotCutShort` (`CallsComplete`), for any disturbances.
`SuccessMeansInit` and `CallsComplete` except what the code does not tell from a return, a
SIGTRAP in the call, and nothing else. It also proves
`ExitLeavesNobody` (`[]NobodyLeftParked`) with `ASSUME "timeout" \notin Disturbances`. That
assumption is what the comment on SIGTERM in `daemon.rs` takes for granted: a process that
does not stop when it is interrupted is left as it is when the budget of the release is spent.

`DaemonProofs` proves of `DaemonInstance`, for any number of daemons
and clients, `InstanceTypes`, `AtMostOneServes` (`[]OneDaemon`) and
`RecordIsOfServer` (`[]RecordedServes`), from `DaemonInstanceAssumption`. Of two
daemons that trust their scan, the one that began it last has been visible to the
other's, or began it when the other was visible: `OneSeesTheOther` says that not
both have missed each other, and is inductive because a scan begins empty and a
process is only missed while it is not visible. A daemon that serves has missed
everybody (`ServesAlone`), so two cannot.

`InlineHookProofs` proves of `InlineHook`, for any architecture, threads, addresses and
number of hooks, from `ArchAssumption` and `InlineHookAssumption`: `TypeCorrect` and
`EnginesWork` (`[]EngineWorks`); and, with `ASSUME ~ReuseStubs`, `BooksInAgreement`
(`[]BooksAgree`) and `Refinement` (`Spec => KeepsPromise`). The inductive
invariant has a part for each thing the code relies on without saying so. `ClaimInv`: a
thread that hooks between its claim and its answer, and one that unhooks between the
library's restoring and the removal from the set, own their address, one
thread at a time (`Claims`); what is in the set is hooked or owned. `StubInv`: a
stub stands for the address it was made for, also after it was looked up or
freed, and a stub not yet noted is known to one thread; this is what fails
when stubs are reused. `BookInv`: the backend's book differs from the hooks in place by
the stubs about to be noted or dropped. `EngineInv`: a thread that falls back has seen the
engine fail or replaced. `StepCases` sorts the steps by what they do to the hooks in
place; each part of the invariant is kept by each of these cases. The refinement follows from
the claims: the address a library patches was not hooked, that of a library that restores was.

`PltHookProofs` proves of `PltHook`, for any modules, slots and engines, from
`PltHookAssumption` and with `ASSUME "lsplt" \in Serialised`: `TypeCorrect`,
`SlotsAndBooks` (`[]SlotsAgree`) and `UnhooksAreRecognised` (`[]UnhookIsRecognised`). The
assumption is the one the run `plt_lsplt` shows to be needed. `SlotsAgree` speaks of
slots no call is under way for; the inductive invariant says what a slot is in between:
free, held by one module, or patched by one call that has not told the record yet
(`SlotOk`), and what each call knows of its slot at each of its steps (`CallOk`). Two
calls never work on one slot (`OneWorks`): with bytehook because a slot being hooked is
pending (`PendingInv`), with lsplt by the assumption, which covers a call that begins
while bytehook may still fail to start (`EngineInv`), and xhook and plti do a call in one
step under their lock (`AtOnce`). In xhook that step registers every record again, and
changes no other slot because all of them are settled (`XhookSettled`). A step touches one
slot, so `Keeps` carries the invariant over for the other slots and calls.

`DaemonProofs` proves of `Tracking`, for any processes and settings, from
`TrackingAssumption`: `TypeCorrect` and `FirstAnswerIsLast` (`SettledOnce`). The daemon forgets
a process on an event of its exit, at the end of a pass that did not list it, and when it prunes,
and each of these can be late. The invariant says of a settled process that it is in
`done` while it lives and never deferred (`Settled`), that a pass has on its list what was remembered
when it took the list (`Seen`), and that an exit is reported of a process that is gone
(`ExitsAreOver`), so that none of the three forgets one that lives. `Modes` keeps the three apart: a pass is
made only where no events are read, and only late mode defers. Process ids are not reused in the
model, which the proof relies on.

`KpmRingProofs` proves of `KpmRing`, for a ring of any size, any tasks and any buffer of the
reader, from `KpmRingAssumption`: `TypeCorrect`, `ObservedWhenAsked` (`[]ChannelObserves`),
`EachNumberOnce` (`[]ReadOnce`), `NothingIsSkipped` (`[]NothingSkipped`) and
`UntouchedLinesAreTrue` (`[]CleanLinesAreTrue`). Nothing in the code is locked, so the argument is
about numbers. Two numbers less than the size of the ring apart have different slots
(`OtherSlot`), so into the slot of the newest number only its own writer stores, and a
field is either stored or still to be stored by it (`InRing`). What was settled when a call
began stays so until its slot is taken again, and what was loaded of it is true
(`Loading`). The lines of a call are new, below its next number and without a gap that is still in the
ring (`Reading`). `Hooking` ties the hooks to how far `znn_init` or `znn_exit` is.

`CompanionChannelProofs` proves of `CompanionChannel`, for any callers, any number of calls
and with or without faults, from `CompanionAssumption`: `TypeCorrect`, `ToldOfEachCallOnce`
(`[]ServedOnce`), `FailsWithoutHelper` (`FailsOnlyWithoutHelper`) and `GoesWithNothingLeft`
(`GoesWhenDone`). A call that has not returned has no result (`CallsPending`). One that
has returned a descriptor is in one place at most: in the channel, in the queue of the name, or served
(`InOnePlace`). A descriptor is sent only over a channel the helper has
proved itself on, or to a name it has bound (`SentToHelper`), so a helper that ends by itself has had it.
Without strain the helper drops a connection only of a process that has ended (`Tokens`), so a token
that is sent finds its connection. The
lemmas on sequences without a repetition (`AppendNew`, `HeadFirst`, `ConcatDisjoint`) carry a
descriptor from one place to the next.

`HyosSpawnProofs` proves of `HyosSpawn`, for any processes, threads, modules and libraries
that come late, from `HyosAssumption`: `TypeCorrect`, `OneDelivery` (`[]ToldOnce`), `OwnName`
(`[]NameIsOwn`), `HooksAreRetried` (`HooksRetried`) and `NoAppIsLeftOut` (`AppIsTold`). The
properties are about one process, but a fork copies a state that was made for
another one. `ChildOk` says that whoever is a child, is hooked or has a module has the handlers of
`pthread_atfork`, so what must not be inherited is cleared in every child that could
inherit it. `ThreadOk` says that a thread about to tell the modules is alone with that, and
`ToldOk` that `fired` means told or being told. `RetryOk` says of a thread that has forked, with
something left to hook, that the flag is set or the thread that found it set has not tried
yet; resetting the flag before trying keeps it, resetting after would not.

`LoaderRuntimeProofs` proves of `LoaderRuntime`, for any files, threads, names, places of
mappings and plans, from `LoaderAssumption`, `BootPlanAssumption` and `ElfAssumption`: `TypesAreRight`,
`ResolversFindTheirLibraries` (`[]FindsItsLibrary`), `LookupsAreRight` (`[]AnswersAreRight`),
`HooksAreRight` (`[]HooksItsLibrary`) and `PlansAreObeyed` (`[]PlanIsObeyed`). Its first parts
are about the operators:

* `FlattenSeq` is a fold, and no theorem of the libraries says what it computes. `FlattenJoins` does,
  by induction: the library's theorems on induction take an operator and cannot be used, but
  a set of numbers has a least one because `<` is well founded (`LeastNumber`), so a
  set that holds 0 and the successor of whatever it holds has them all (`InductionOver`).
* `SymbolsAreDefinitions`: the symbols that are parsed, without those that come twice, are
  what the sections and the debug data describe, whichever decoder is tried first and
  however often its output has to grow (`GrowsUntilItFits`).
* `PlanArrives`: `Parse` of what `Encode` wrote is the plan. A string stands in the blob after those before
  it, with its NUL (`StringArrives`).
* `BaseIsFound`, `PathIsResolved` and `HookIsOnHeader`: of the mappings of a name, those of whole files
  are passed over or not the lowest, and the others are segments of the one library.

`IndInv` says of every thread where its image comes from and how far it is made
(`ImageHasFile`, `ImageHasBase`), that no file is mapped over the header of a loaded library
(`HeadersFree`, which `HooksItsLibrary` rests on), that a thread asks only
images that are valid and the loader only its own (`QueryInv`), and that the mutex of an image is held
by the one thread that parses it, its symbols being there when the flag is set and the mutex free
(`ParseInv`). Of the loader it says which modules it has done with (`Obeyed`). Each action has a
lemma that keeps it, and most follow from a few: a step on one's own image while nobody asks it
(`ImageStep`), and a step that begins or ends to ask (`AskStep`). The answers are given in a step and not
kept, so they are right because the state before the step was (`LookIsRight`, `SymbolLookupIsRight`,
`HookIsRight`).

Only model-checked:

* liveness under fairness, which is out of the provers' reach: `InjectionEnds`,
  `TargetsSettled`, `GoneAreForgotten`, `HeldAreReported`, `SuccessorServes`, `Drained`,
  `Reaches` and `Returns`.

Every invariant and every other action property that a passing run checks is proved.

## 5. Not modelled

* Mode selection and the handover of init between modes: `Tracking` takes a mode
  as given, and `Injection` has the handover that a switch leads to. The mode is chosen from
  what the kernel offers.
* Configuration, state files and the registry of modules: values read and replaced
  as wholes in the file system; matching a path is a pure function over strings.
* The other kernel sources: `Tracking` takes their events as given, early or late, in
  any order between sources. Lost events are not modelled.
* The toggle of Zygisk Next, the WebUI, system reports, properties, the verification of
  files (its verdict is a choice in `DaemonInstance`), scripts and build files: input,
  output and presentation.
* The ELF reader of the injector (`elf.rs`, `maps.rs`): what it finds is a choice in
  `Injection`. The libraries behind the hook backends and the decoders of the
  debug data are vendored; they are modelled from how the loader calls them.
* Within the modelled parts: group stops, signal delivery and real-time signals in `Injection`; the
  check of tokens and credentials, a `connect` that blocks on a full backlog and a socket
  buffer that is full in `CompanionChannel`, tokens in `BootPlan`; the SIGHUP reload and
  the rescan of modules in `DaemonInstance`; unhooking of symbols, reading
  of the context, two threads in `installHooks` and forks that fail in `HyosSpawn`; numbers formatted into lines and the caller check in `KpmRing`;
  files that change while they are mapped, and pages larger than 4 KB, in `LoaderRuntime`.

## 6. Plan

Next: mode selection with its handover of init, and the files of the daemon with two
writers and crashes against an atomic file. Then what a resolver of a library that comes and goes may
still be asked, for which `LoaderRuntime` has the states and no property.
