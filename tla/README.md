# NyaZygisk in TLA+

TLA+ models of NyaZygisk's concurrent and stateful parts, model-checked with TLC, and
theorems about them proved with TLAPS. Line numbers refer to the sources under `src/`.

## The system

NyaZygisk loads a library into Android's zygote, so that *modules* can run code in every
process zygote forks.

* **The init monitor** (`loader/src/ptracer/monitor_impl.cpp`, `zygote_abi.cpp`) is one
  thread with an event loop. It ptraces init, notices the zygotes init execs, stops each of
  them with SIGSTOP and hands it to an injector. It starts and watches the daemon, obeys
  datagrams (`START`, `STOP`, `EXIT`, `REARM`, the daemon's reports) and publishes a status
  file.
* **The injector** (`ptracer.cpp`, `utils.cpp`, `main.cpp`) is a short-lived process that
  seizes one target, makes it call `dlopen`, `dlsym` and `entry`, puts its registers back and
  lets it go.
* **zygiskd** (`zygiskd/src/`) is the daemon: module descriptors, process flags, mount
  namespaces and *companions* (privileged processes, one per module), over a Unix socket.
* **The flag cache** is a table in shared memory that zygiskd writes and zygote reads without
  a lock.
* **The exclusion list** (`exclude.rs`) resolves the packages chosen in the WebUI
  (`config.prop`) to app ids, through `packages.list`.
* **The injected library** (`loader/src/injector/`) hooks fork and specialisation: it asks
  for flags before a fork, and in the child loads modules, picks a mount namespace and unloads
  itself.
* **The custom linker** (`loader/src/linker/`) maps and relocates modules without the system
  linker's knowledge; when it refuses a file, `module_loader.cpp` falls back to the system
  linker and the traces of that are scrubbed later: the dynamic linker's list and counters, libc's
  array of exit handlers (`atexit.cpp`) and the names of module mappings (`clean.cpp`).
* **Zygisk Next modules** (`zn_loader.cpp`, `zn_api.cpp`) are loaded by zygote and by HyperOS's
  `hyos_spawner` from a plan the daemon makes. They hook functions inline, and in processes of the
  spawner a small runtime tells them when the process has become an app.
* **The WebUI** (`module/src/webroot/script.js`) edits `config.prop` through a root shell.

The monitor hands targets to the injector; the injected library asks the daemon; the daemon
fills the flag cache and reports to the monitor; the injector of a new zygote tells the daemon
that zygote restarted (`main.cpp:273`), and the daemon then drops its companions. The WebUI and the
daemon share nothing but `config.prop`.

## Inventory

| part | sources | module | status |
|---|---|---|---|
| init monitor | `monitor_impl.cpp`, `zygote_abi.cpp`, `event_loop.cpp` | `Monitor`, `MonitorProofs` | modelled |
| ptrace injector | `ptracer.cpp`, `utils.cpp`, `main.cpp` | `Tracer`, `TracerProofs` | partly: address lookup in maps and ELF files is left out |
| process flag cache | `zygiskd.rs` 1125-1229, `daemon.cpp` 130-180 | `ShmCache`, `FlagMap`, `ShmCacheProofs` | modelled |
| exclusion list | `exclude.rs`, flags handler and watcher of `zygiskd.rs` | `Exclusion`, composed with `WebUi`, `WebUiProofs` | modelled |
| daemon requests | `zygiskd.rs` | `Zygiskd`; plan, reports and state file of ZN modules in `Zn`, `ZygiskdProofs` | partly: requests that change no state are left out |
| companions | `companion.rs`, `zn_companion.rs` | `Zygiskd`, `ZygiskdProofs` | modelled |
| daemon client | `daemon.cpp`, `socket_utils.cpp` | in the modules above | partly: framing is left out |
| fork and specialisation | `module.cpp`, `hook.cpp`, `system_server.cpp` | `Specialize` | partly: JNI plumbing and the sanitising of descriptors are left out |
| mount namespaces | `unmount.cpp`, `mount.rs` | `Specialize` | modelled |
| hook installation | `hook.cpp`, `entry.cpp` | `Hooks`, used by `Specialize` | partly: spoofed properties and tracked descriptors are left out |
| custom linker | `linker.cpp`, `relocate.cpp`, `interpose.cpp`, `module_loader.cpp` | `Linker` | partly: symbol hashing, `dladdr`, BTI, CFI are left out |
| trace hiding | `clean.cpp`, `solist.cpp`, `atexit.cpp`, `fossil.cpp`, `tracer_pid.cpp`, `seccomp.cpp` | `Linker` (list and counters), `Atexit`, `Maps` | partly |
| Zygisk Next modules, HyperOS runtime | `zn_api.cpp`, `zn_loader.cpp` | `Zn`, `ZnProofs` | partly: PLT hooks, symbol resolver and `connectCompanion` are left out |
| root implementations | `root_impl/` | | stateless queries, inputs of the models |
| ELF and maps helpers | `common/` | | pure parsing |
| WebUI | `script.js`, `kernelsu.js` | `WebUi`, `WebUiProofs` | partly: rendering, translations and the shell bridge are left out |
| boot scripts | `module/src/*.sh` | | what they send is input of the models |

## The modules

In `Monitor`, `Tracer`, `Zygiskd`, `Zn`, `Specialize` and `Linker` one variable (`world`,
`failures`, `operations`, `device.world`) is chosen in `Init` from the constant `Worlds` and
never changes. It says what may happen around the component, so that one run explores several
environments. The `MC*` modules define the worlds.

### ShmCache, FlagMap

`FlagMap` is what the cache promises: an atomic map from uids to flags with `Put`, `Flush` and
`Lookup`. `ShmCache` has the table (`entry_uid`, `entry_flags`), the seqlock word `version`,
one writer (both write sections hold the same mutex) and any number of readers. Every step is
one access to shared memory: `Probe`, `StoreFlags`, `ClearUid`, `ClearFlags` and `EndSection`
of `cache_process_flags` and `invalidate_process_flag_cache`; `ReadUid`, `ReadFlags`,
`Validate` and `AskDaemon` of `GetProcessFlags`. `published` is history: what the last
completed section left. `drift` is history too: how many version steps a lookup was overtaken
by; `MaxOvertakes` bounds it.

### Monitor

A step is one datagram (`HandleMessage`) or one wait status (`HandleInit`, `HandleChild`),
handled to its end, `update_status` included. `proc` is what the kernel and the injectors know
of each process: program, stop, parent, tracing, injector on its way, library mapped. The
environment forks, execs, signals, kills, exits, reports from the daemon, injects and sends
commands. `burst` is history: hand-offs since the crash-loop window last restarted. `written` is
the text `update_status` remembers beside what is in the file, because it remembers before it
writes and the write may fail. init has one trap: a fork or a signal of init takes the place of a
trap that PTRACE_INTERRUPT asked for (`TakesTrap`), and `taken` is the history of that.

### Tracer

`pc` walks through `trace_target`: seize or attach, interrupt, wait, `inject_before_start`
or late injection, the remote calls, the SIGCONT dance, the GKI wait, detach. The target is a
record: stop state, pending stop, the place of its program counter, the AT_ENTRY word, how
often `entry` ran. Each failure kind (`seize`, `interrupt`, `regs`, `write`, `lookup`,
`dlopen`, `crash`, `signal`, `kill`, `sigint`, `die`) may strike wherever the code can meet it;
`kill` ends the target, `die` the tracer itself between any two of its steps.

### Exclusion

`reload` is one step per system call and lock operation (sample two modification times, read
two files, publish); handler threads and the watcher interleave with edits of both files.
Modification times are counters, so two edits never share one.

### WebUi

`WebUi` extends `Exclusion` by the page. A behaviour is either the daemon under arbitrary edits or
(`ui.on`) the page as the only editor, beside the daemon's watcher; both start from `Exclusion`'s
`Init` and share its variables. `ui` holds the page's globals: `excludedApps`, `savedExcluded`, the
switch, the chain of writes on `configWrite`, and where `refresh` stands between its awaits. Actions
run from one await to the next: `toggleApp`, `saveToggle`, `setConfigValue` (the shell command),
`WriteEnds` (what follows the await, the next link of the chain included), `refresh`,
`RefreshReads`, `RefreshApplies`, `loadApps`. Each command may fail. Which write was last chained is
`queued`, a counter, which stands for the identity of the promise that `refresh` compares.
`hasty` is history: a tap was made at one of the two moments the page handles wrongly (see *Other
disagreements*).

### Zygiskd

Snapshots of the module list are sequences of names in any order (`read_dir` promises none); an
`Arc` keeps old ones alive, so a slot is a pair of snapshot and index. Handlers, the accept loop,
companions and clients are separate actors; a slot's mutex is held from `LockSlot` to the end of
the set-up handshake, as in the code. A zygote restart takes every companion, one mutex at a time.

### Specialize

A mount namespace is the set of root traces mounted in it; a trace is a mount that both the
zygote's scan (`unmount.cpp:169`) and the daemon's (`mount.rs:197`) recognise. The zygote's
`HookContext` is copied into each child at its fork. `device` fixes the traces at boot, whether an
overlay is among them, what may fail, which imports are missing and whether the library was injected
late. Among the faults are unmounts that fail in the zygote and in the daemon's child
(`CleanNamespaces`), a data directory that cannot be examined (`stat`) and native methods that cannot
be restored (`natives`). A module may ask for the unmount of the deny list (`forced`). A zygote that
calls a null original or a native method in unmapped memory is `crashed` and not followed further.

### Hooks

`HookContext` as a record and its operations as functions on it: `hook_plt`, `hook_unloader`,
`new_strdup`, `new_property_get`, `new_fork`, `Torn` (the end of `~ZygiskContext` in a child, whose
restoring of the native methods may fail unnoticed) and `restore_plt_hook`. `Specialize` applies them
in the zygote before it may fork and in each child. A slot is one import of one library. An import
that is missing, `hook_zygote_jni` finding nothing and a slot that cannot be restored are inputs.

### Linker

Memory is a function from addresses to words with protections, per image. `ReadHeaders` to
`CallConstructors` are the steps of `Image::Load`, each of which may fail; `MapSegments` is the
reservation (`ReserveSegments`) and then a step per segment (`MapSegment`), so that a load can fail
with some segments in place, and `Unmapped` is what `~Image` knows of it by then. Relocation decodes
RELR bitmaps, the packed APS2 stream and plain RELA or REL tables over the real layout rules.
A walker thread runs `dl_iterate_phdr` beside loading and unloading. What the dynamic linker
itself does (counting, `solist`) is external, as `module_loader.cpp` and `solist.cpp` use it.
`Linker` composes the two modules that follow: its modules register exit handlers when loaded and
run them when unloaded; in `run_modules_post` `scrubFingerprint` comes first (`CleanLibc`), then the
scrub of the linker's list and counters (`Scrub`), and `spoof_module_maps` last. The scrub is left
out without a `HookContext` (`module.cpp:390`) and gives up without the linker's symbols.

### Atexit

libc's array as a sequence of handlers and holes with its two counters, the protection of its pages,
and the mutex. bionic's half (`UserLocks` to `UserCloses` for `__cxa_atexit`, `PassBegins` to
`PassEnds` for `__cxa_finalize`, which releases the lock around each handler) is external, as
`atexit.cpp` and the layout in `atexit.hpp` describe it. `scrubFingerprint` is one step per lock
attempt, `mprotect` and group of stores. `handlers` is history: what was registered and has not run.
The handlers a pass runs may register others; `user.rewound` says that the scrub rewound
`total_appends_` while one ran, and `user.left` that the pass ended with a handler of its library in
the array.
The lock may be held by a thread the process did not inherit over `fork`.

### Maps

A mapping has a protection, a name, whether it is private, and contents. `spoof_virtual_maps` reads
the list; `anonymize_ranges` is one step per `mmap`, `memcpy`, `mprotect` and `mremap`, each of which
may fail. Threads of the module may store to writable mappings between any two steps.

### Zn

`proc` is the memory a fork copies: the runtime's list of modules, the hooks it has, the captured
name, the registry of hooked addresses and Dobby's patches (external). `thread` are module threads
inside `api_inlineHook` or `api_inlineUnhook`, which change the registry under a mutex and the code
outside it. `load` is `loadAllModules` of each process with a plan, `states`, `report` and `restart`
are the daemon's counters, the report handler and the accept thread. The file written by both is
modelled as the file system does it: one staging name, opened and truncated, written, renamed.
`due`, `own` and `told` are history. A raw `clone`, which runs no fork
handler, is an action beside `Fork`.

## Runs

| run | checks | what it shows |
|---|---|---|
| `shm_cache` | `HitIsPublished`, `MissIsReal`, `IndInv`, `LookupReturns`, `ImplementsFlagMap` | a lookup that validates returns what the last completed section left; an undisturbed lookup misses only what is absent; the table implements `FlagMap` |
| `monitor_safe` | `StatusCurrent`, `InitTracing`, `DaemonTracked`, `CrashLoopBounded`, `TraceesKnown` | status file, trace of init, daemon, crash-loop bound and tracee tables agree with the kernel's state under commands, crashes, signals, kills, failing forks, writes and seizes |
| `monitor_live` | `StopCompletes`, `StopsEnd`, `TracingEnds` | a stop request completes unless another stop of init took its trap; nothing stays in a ptrace stop; a process that exec'ed does not stay traced |
| `tracer` | `SuccessIntact`, `LateRestored`, `TargetResumes`, `DeathScoped` | what a successful and a failed injection leave of the target; that it runs again; a tracer that dies takes a hijacked spawn target with it and no process that was running before |
| `exclusion` | `StateCoherent`, `FreshAfterFlush`, `EditFlushed`, `ShownIsEnforced` | the resolved list is that of the files whose times it carries; a request after a flush caches nothing older; every edit is flushed; what the page shows in the end is what the daemon enforces |
| `zygiskd` | `ReplyConsistent`, `CompanionMatchesModule`, `RestartDrops`, `RetiredExit`, `RestartEnds` | a reply is of one snapshot; indices stay valid across a zygote restart; no companion survives it; companions without a holder exit; the accept loop gets past a restart |
| `zn` | `AppsTold`, `NameIsOwn`, `HookedOnce`, `StateFileSound` | which modules an app tells, once, and under which name; the registry of hooked addresses and the patched code agree; the state file says what was counted since the last restart |
| `specialize` | `DenylistClean`, `ExcludedNeverLoads`, `UnloadSafe`, `ForkOnce` | what a process on the deny list sees, who loads modules, when the library may go, and that each fork the zygote asks for makes one process |
| `linker` | `MappedAsLinked`, `NeverFaults`, `NothingLeaks`, `ScrubRestores`, `AtexitIntact`, `SpoofFaithful` | the image is the one the link editor described; no access faults, nothing leaks, the system linker's counters are restored; libc's exit handlers survive the scrub; mappings are replaced by faithful copies |
| `exclusion_stale` | `FlushedIsCurrent` (violated) | finding 1 |
| `zygiskd_index` | `CompanionMatchesModule` (violated) | finding 2 |
| `specialize_isolated` | `IsolatedNeverLoads` (violated) | finding 3 |

`IndInv` contains the type invariant of `ShmCache`. Those of the other state machines describe the
shape of their state, hold on the same instances and are not part of a run. For each property of a
passing run a mutant of the code's model breaks it; the mutants stand beside the definitions they
change.

### Findings

1. `zygiskd.rs:607`: a handler computes flags, replies and then caches them. If the watcher
   flushes in between, the old answer enters the cache after the flush and stays until the next
   edit, against the comment at `zygiskd.rs:1102`.
2. `zygiskd.rs:245`: `RefreshModules` replaces the module list while processes hold indices into
   the old one, so a process can be connected to another module's companion. The comment at
   `zygiskd.rs:232` calls the zygote restart the only safe point to swap the set.
3. `module.cpp:430`: the flags of an isolated service are asked for with its isolated uid; after
   the uid is corrected they are not asked for again, so an excluded app's isolated service loads
   modules, against `module.cpp:446`.

### Bounds

* `shm_cache`: three uids compete for two slots, so the table fills, probes wrap and flushed slots
  are reused; one reader; versions modulo 8, a lookup overtaken by at most two sections. The
  theorems cover every size and any number of readers.
* `monitor_safe`: three pids (symmetric), one queued datagram, three attempts before the
  crash-loop stop. Its four worlds are commands against a crashing zygote, the process tree
  under signals and kills, rearm with system_server and failing forks, and every command while
  writes of the file and the seizing of init fail. `monitor_live` has two pids, a daemon and a
  target, once with exits, signals, kills and failing forks and once without.
* `tracer`: all modes with all failures together; the model has no other bound.
* `exclusion`: two edits of `config.prop`, one of `packages.list`, one handler and the watcher. The
  races need one edit between two steps; the second edit covers a flush in progress. With the page:
  two packages that share an app id or do not, two taps, any number of reloads, so a tap and a write
  can overlap a second write and a reload.
* `zygiskd`: two modules, two clients, two companions (a regular and a ZN one), two snapshots and one
  restart, spread over four worlds.
* `zn`: two forked processes, two threads, four libraries, one of which targets an API that is too
  new; the runtime's table holds two (16 in the code), so it fills up. The run has worlds for hooks
  that come late, for the hook API, and for reports across up to two restarts.
* `specialize`: two children at a time and two traces, one app of each kind the flags tell apart,
  five unmounts as in the code; in one world only unmounts fail, in another everything does. In four
  more worlds, early or late and with native methods that can or cannot be restored, any imports but
  `fork` and `unshare` are missing.
* `linker`: four words to a page, three slots to a bitmap, two places for a reservation. The
  layouts have a segment ending inside a page, `.bss` beginning inside one and spanning more, an
  over-aligned segment, RELRO, own resolvers, symbols of every scope, a needed library, and the
  three kinds of module the linker refuses: thread-local storage, its relocations and text
  relocations. Each step of a load, and each precondition of the scrub, fails in some world. For `Atexit` a page holds two entries, the lock is tried twice and the other thread
  registers two handlers; for `Maps` at most three ranges of a name are replaced, which one world
  exceeds.

### Fairness

* The cache: a section that holds the mutex and a lookup are straight-line code; weak fairness.
* The monitor: the loop serves both descriptors and reaps every child that has a status; weak
  fairness per kind of event. Strong fairness of `Leave`: senders do not refill the socket each time
  it runs dry. The kernel takes a pending trap of an init that runs on (weak: a fork or a signal may
  take its place again and again). An injector ends.
* The injector: its steps wait only for the target; code run in the target returns, faults or meets
  a system call.
* The exclusion list: threads are scheduled, and the mutex, held for a few system calls, does not
  starve the watcher. The page needs none: its property is about states at rest.
* The daemon: threads and companions are scheduled and a mutex is handed on. `RestartEnds` also
  assumes `LoadsEnd`: a module's library loads, fails or crashes. The code has no timeout there.

`Zn`, `Specialize` and `Linker` have safety properties only; `zn` does not check deadlock, because with everything loaded, forked and
restarted nothing is left to do.

## Proofs

Each theorem states a property the runs check, for every value of the constants that satisfies the
named assumptions of the module. None is inductive by itself; each module of proofs states the
invariant that is, proves that `Init` implies it and that every action keeps it (a lemma per action or
per group of actions), and draws the theorems from it.

| module | theorems | properties |
|---|---|---|
| `ShmCacheProofs` | `SeqlockHit`, `UndisturbedMiss`, `UniqueSlot`, `CacheInvariant`, `Refinement` | `HitIsPublished`, `MissIsReal`, `OneSlotPerUid`, `IndInv`, `ImplementsFlagMap` |
| `MonitorProofs` | `StatusFileCurrent`, `InitKnown`, `OneDaemon`, `CrashLoopStops`, `NoLostTracee` | `StatusCurrent`, `InitTracing`, `DaemonTracked`, `CrashLoopBounded`, `TraceesKnown` |
| `TracerProofs` | `FailureRestores`, `SuccessLeavesIntact`, `DeathIsScoped` | `LateRestored`, `SuccessIntact`, `DeathScoped` |
| `WebUiProofs` | `DaemonCoherent`, `CacheFresh`, `PageShows` | `StateCoherent`, `FreshAfterFlush`, `ShownIsEnforced` |
| `ZygiskdProofs` | `RepliesWhole`, `RestartsDrop` | `ReplyConsistent`, `RestartDrops` |
| `ZnProofs` | `RegistryAgrees`, `NamesAreOwn`, `StateFileIsSound`, `AppsAreTold` | `HookedOnce`, `NameIsOwn`, `StateFileSound`, `AppsTold` |

### The cache

Assumptions: uids, flags and the two reserved values are distinct naturals, the table has a slot, the
modulus is even and a lookup is overtaken by fewer sections than would bring the version word around
(`2 * MaxOvertakes + 2 < VersionMod`; in the code the modulus is 2^32). The last one is needed: a
seqlock whose counter wraps within one lookup validates wrongly.

`IndInv` adds to the properties:

* `LockInv`: the version is odd exactly inside a section;
* `ChainInv`: every slot between a uid's home slot and its own slot is taken, which is why a probe
  that meets an empty slot may stop;
* `WriterInv`: what a half-done section has established so far;
* `PublishedInv`: where the table already agrees with `published`;
* `DriftInv`: the version a lookup started from and the steps since add up to the present version;
  with the bound, equal versions mean no step in between;
* `ReaderInv`: what a lookup nobody overtook has read is still there.

### The monitor

For any pids, any crash-loop limit above 0 and any world. `Sane` says what a process can look like to
the kernel (only a tracee is in a ptrace stop, a free pid carries nothing over), `Placed` where it
stands in the monitor's tables, `StatusInv` that `daemon_pid` is set only with the flags that make its
exit noticed, and `CountInv` that every hand-off of a burst was counted. `FileInv` says that the text
remembered is the present one and that the file has it or its write failed. That the daemon is unique
needs the tables, and the other way round; that is why the properties are proved together.

### The injector

For any set of modes and of failures. `HoldInv` says when the tracer has its target stopped and that a
spawned one it traces has the kill-on-exit option as soon as it is attached, `EnterInv` how often the
library's entry may have run, `LateInv` where a late target's program counter is, `SoundInv` what has
been achieved when no register access fails. All moves of the target are abstracted by one relation,
`Drifts`, so that each step of the tracer is checked against it once. `DeathIsScoped` is an action
property: it is drawn from the invariants and what the one step of the tracer's death does
(`TornOff`).

### Exclusion list and page

For any packages, files, handler threads, edits and taps. `DaemonInv`: `reload` runs under the lock;
nothing sampled or stored is from the future or older than what was known before it (`TimeInv`); what
was read is what the sampled time belongs to, or the file has changed since (`ReadInv`). The two
theorems about the daemon hold beside the page as well. What `PageShows` needs is kept as long as
`hasty` is false, that is, as long as no tap came at one of the two moments the page handles wrongly
(see *Other disagreements*). The invariant follows the chain of writes: what a reload read is current
unless a write was chained since, and `excludedApps` differs from `config.prop` only by writes still
queued.

### The daemon

For any modules, clients, companions, refreshes and restarts. A reply under way has sent the beginning
of one snapshot (`ReplyInv`); a handler past the lock holds its slot's mutex (`LockInv`); a companion
in a slot the accept loop has passed since the restart, or about to be put into one, is of the present
generation (`SlotInv`). `CompanionMatchesModule` is not proved: a refresh breaks it (finding 2).

### Zygisk Next modules

For any processes, threads, libraries, names and plan. `AddressInv`: at most one thread is about to
patch or erase an address, and while it is no module's patch is there, so the registry and the code
agree although the code is patched outside the mutex. `MemoryInv`: what a process has in its memory,
in particular that a child with modules due has the hook that tells them. `PlanInv`: the rest of a
plan names no library twice, and none that is registered. `FileInv`: what a rename would publish is
sound whenever one may come.

### Lists

The library's induction theorems take an operator as a parameter, which the provers cannot
instantiate. `ZnProofs` uses an induction lemma whose parameter is a set instead (the numbers for
which the claim holds), proved from the least element of its complement. With it the module shows what
the plan of a process contains.

### Only model-checked

All liveness properties, and the safety properties of `Specialize` and `Hooks` and of `Linker`,
`Atexit` and `Maps`. Liveness under fairness, and what the decoders of relocation tables compute for
every input (induction over data), are beyond TLAPS here. `CompanionMatchesModule` holds without
refreshes and is refuted with them (finding 2).

## Other disagreements met while modelling

The models take these paths; no run lists them as violations.

Monitor
* A handed-off pid stays in `process_` (`monitor_impl.cpp:683`, comment at 681): the blocking
  `waitpid` replaced the status tested afterwards.
* A target stays parked without an injector when another signal is reported in place of the SIGSTOP
  (`monitor_impl.cpp:774`), or when the second fork of `fork_dont_care` fails (`utils.cpp:624`);
  793 handles only the first fork's failure. So no property says that a handed-off target runs again.
* A trap that a fork event or a signal of init takes the place of is lost (`monitor_impl.cpp:584`): the
  monitor stays STOPPING and init traced until a start or a rearm, and a second stop is ignored.
  `InitTracing` and `StopCompletes` except the case (`taken`).
* A status whose write failed is not written again while it does not change (`monitor_impl.cpp:132-137`);
  `StatusCurrent` excepts it (`written.lost`).
* The result of seizing init is not looked at (`monitor_impl.cpp:280`), so the monitor may say TRACING
  of an init it does not trace.
* A repeated `REARM` can inject twice while the first injector starts (`zygote_abi.cpp:231`), and a
  mapped library whose entry installed no hooks counts as injected (226).

Injector
* When `inject_before_start` fails after the entry point was replaced, the target is resumed with it
  (`ptracer.cpp:346`, `main.cpp:291`).
* A signal during a remote call ends the call as failed (`utils.cpp:570-580`).
* `errno` is tested after calls that may have changed it (`ptracer.cpp:720`, set at 703). A second
  attach may then call the library's entry twice; the properties leave out the failure (`regs`) that
  leads there.
* `handle_interrupt` (`main.cpp:152-161`) detaches a target that may be hijacked, and a target of unknown
  state that is attached to is not set to die with the tracer (`ptracer.cpp:671`).

Daemon
* A module library that hangs while loading blocks the accept loop at the next zygote restart
  (`zygiskd.rs:222`, comment at 193).
* A companion exits when its acknowledgement cannot be written (`companion.rs:89`).
* Root grants and `packages.list` changes reach the cache only with the next edit of `config.prop`
  (`zygiskd.rs:588`).

Specialisation
* `new_unshare` ignores the result of the switch (`hook.cpp:187`); the Root namespace is the
  zygote's own, because only Clean is unshared (`mount.rs:119`).
* A failed fork is treated like the child's side (`module.hpp:307`, `module.cpp:298`).
* Without the import of `fork` the pointer to the original is null when `fork_pre` calls it
  (`module.cpp:301`); `MCSpecialize` leaves that world out.
* `g_hook` is deleted also when a slot could not be restored (`hook.cpp:256`), so a later call
  through that slot reads it after that, against `hook.cpp:88`, "HookContext lives as long as Zygisk
  is loaded in memory."
* An app forked by a late-injected zygote before the namespaces are cached stays in the zygote's.
* The daemon caches the Clean namespace also when an `umount2` in it failed (`mount.rs:213`), against
  `README.md:115`. `DenylistClean` excepts what is left in it, asks for a daemon that answers and
  caches and for switches that succeed, and speaks of the traces of boot (`hook.cpp:179` says that
  later ones may be missed).
* Nobody looks at whether the native methods were restored (`hook.cpp:543`, and `FindClass` at 503). If
  not, they lead into the library after it is gone, and a zygote torn down by a failed fork forks twice.
  `UnloadSafe` and `ForkOnce` except this fault in their statements.
* `trigger_zygote_hooks` calls the replacements of `strdup` and `property_get` in a running zygote
  whether or not these imports were hooked; if one was not, its original is null (`hook.cpp:166`, 228).

Linker
* The addends of `DT_ANDROID_REL` are lost: `android_is_rela_` (`linker.cpp:306`) is never read, and
  `relocate.cpp:34` ignores the addend. `MappedAsLinked` fails with such a module; `MCLinker` leaves
  it out.
* Constructors run before the image is registered, so an unwinder cannot see them yet.
* `Dlsym` and `dladdr` use an image after giving up the lock (`linker.cpp:878`), and a
  `dl_iterate_phdr` callback that calls the linker again meets its own lock.
* A system-loaded module without an entry point is not counted for the scrub (`module.cpp:377`).
* `dropSoPath` unloads the record of a module that stays (`solist.cpp:223`), and with it the libraries
  only this module brought in, under the running module. `NothingLeaks` counts the users the linker
  lists.
* If `initialize()` of `solist.cpp` fails after it found the head of the list, the next call does not
  try again and works with default offsets. The model's `initialize` fails as a whole or not at all.

Trace hiding
* A handler that a `__cxa_finalize` callback registers is missed when the scrub rewinds
  `total_appends_` meanwhile (`atexit.cpp:196`): the pass compares equal counts and is not restarted,
  against `atexit.hpp:125`, "Track the number of appends so we restart concurrent __cxa_finalize
  passes." TLC reaches the case, and `AtexitIntact` excepts it: a handler is left behind only if one was
  registered from a handler and the count was rewound meanwhile.
* `atexit.hpp:140` promises that every obstacle leaves libc's state as it was; `kLeftWritable` leaves
  pages writable, which `AtexitIntact` allows for.
* A store of a module's thread between `memcpy` and `mremap` is lost (`clean.cpp:317-345`).
  `SpoofFaithful` compares contents only in worlds without stores.
* A range that is writable and executable but not readable keeps both bits, and its copy has them too:
  only ranges of all three lose the write bit (`clean.cpp:296`).

Zygisk Next
* `inlineHookRaw` (`zn_api.cpp:187`) patches without the registry. While one thread's hook of such an
  address is refused by Dobby and not yet erased, another thread's unhook finds the address registered
  and destroys the runtime's hook; both then erase it, and a hook installed between the two is no longer
  registered, against `zygisk_next_api.h:36`. `HookedOnce` leaves these addresses out; without that TLC
  finds the case with two threads.
* A hook is live before its original is stored (`zn_api.cpp:334`).
* A module that registers with the runtime twice is told twice: `api_hyos_registerModule` does not look
  for it (`zn_api.cpp:375`). The modules of `AppsTold` register once.
* Only libraries that loaded completely count as loaded by the system linker, so the scrub may be
  left out after one that had no entry point (comment at `zn_loader.cpp:109`).

WebUI
* `ShownIsEnforced` is about pages without two kinds of tap (`hasty`). A switch tapped while the first status command runs
  makes the page drop what the command read (`script.js:754`); nothing reads it again, and
  `excludedApps` stays empty though `config.prop` lists apps, against `script.js:208`. And a tap while a
  reload awaits an earlier write is taken for a write the reload has waited for, against
  `script.js:733`, "Never read config.prop while a write is still in flight."
* A package installed later with a shared app id makes the page show as excluded an app the daemon
  does not exclude, because the daemon wants every package of the id listed. In the page's
  behaviours the list of packages does not change.
* A `chmod` that fails after the `mv` reports a failed write though the file is replaced.

## Not modelled

* The CFI shadow, the fossil on the stack (`fossil.cpp`), the descriptor pool of `tracer_pid.cpp`,
  spoofed properties, and `spoof_fd_maps` and `spoof_loaded_object_maps`, which nothing calls.
* `api_pltHook`, the symbol resolver and `connectCompanion` of `zn_api.cpp`, which hand the call on.
* Symbol hashing, `dladdr`, the BTI note; ELF and maps parsing: pure functions of a file.
* The root implementations: stateless queries, whose answers are inputs.
* The framing of requests on the daemon's socket, the JNI argument structures, and which descriptors
  `sanitize_fds` closes and exempts.
* The shell bridge `kernelsu.js`: after 1200 ms without an answer it repeats a command
  (`kernelsu.js:96-112`); the model's commands run once. Rendering and translations of the page.
* The boot scripts, which run once, one after the other.

## Plan

1. **Proofs**: `SpecializeProofs` (`UnloadSafe`, from an invariant of the hooks that can be undone; `ForkOnce`;
   `ExcludedNeverLoads`),
   `LinkerProofs` (`NothingLeaks`, `ScrubRestores`, `AtexitIntact`, `SpoofFaithful`).
2. **Composition**: monitor and injector over one target, with `Tracer` as the refinement of the
   injector actions of `Monitor`.
3. **Trace hiding**: the descriptor pool of `tracer_pid.cpp`.
