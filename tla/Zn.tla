---------------------------------- MODULE Zn ----------------------------------
(***************************************************************************)
(* Zygisk Next modules: the plan the daemon makes for a process, the       *)
(* loading of the plan and the report on every library, the inline hooks   *)
(* the modules install, and the HyperOS runtime, which tells the modules   *)
(* of hyos_spawner when a process it forked has become an app.             *)
(*                                                                         *)
(* The runtime's globals, the registry of hooked addresses and Dobby's     *)
(* patches are the memory of a process: a fork copies all of them.  The    *)
(* plan and the state file are the daemon's.                               *)
(***************************************************************************)
EXTENDS Naturals, Sequences, FiniteSetsExt

CONSTANTS Kids, Threads,     \* forked processes; threads of modules in the spawner
          Libs, Lines,       \* libraries; the lines of every zn_modules.txt, in the order read
          Api, Hyos,         \* per library: target_api_version, and that of the HYOS module it
                             \* registers, 0 when it registers none
          Names, NoName,
          Worlds,            \* what is fixed in a run, see world
          MaxHyosModules     \* 16 in the code

ZYGISK_NEXT_API_VERSION == 4
ZYGISK_NEXT_HYOS_API_VERSION == 1

Spawner == "spawner"
Zygote == "zygote"
Loaders == {Spawner, Zygote}
Symbols == {"setcontext", "setname"}
Targets == Symbols \cup {"other"}
Exe == <<"plt", "exe">>   \* the executable is found in the maps
Ways == {Exe} \cup ({"plt", "inline"} \X Symbols)
NoLib == "nolib"
Files == 1..3             \* the state file, and one for each writer; 0 is none

LineSet == [for: SUBSET Loaders, companion: BOOLEAN, lib: Libs, usable: BOOLEAN]

ASSUME ZnAssumption ==
  /\ Lines \in Seq(LineSet)
  /\ Api \in [Libs -> Nat] /\ Hyos \in [Libs -> Nat]
  /\ Worlds \subseteq [ways: SUBSET Ways, faults: SUBSET {"open", "connect", "dobby"},
                       threads: Nat, targets: SUBSET Targets, kids: Nat, restarts: Nat,
                       loaders: SUBSET Loaders, late: SUBSET Libs, later: SUBSET Ways,
                       anon: BOOLEAN]
  /\ NoName \notin Names /\ NoLib \notin Libs /\ Spawner \notin Kids
  /\ MaxHyosModules \in Nat \ {0}

VARIABLES
  world,    \* chosen once: the ways to hook that work at first, what may fail, how many threads
            \* use the hook API and on which addresses, how many processes are forked, how often
            \* the zygote restarts, who loads the plan, which libraries register after loading,
            \* which ways to hook work later, and whether anonymous memory is configured
  ways,     \* the ways to hook that work now
  proc,     \* the spawner and the processes forked from it
  thread,   \* the module threads of the spawner, inside the hook API
  load,     \* loadAllModules of each process that loads a plan
  states,   \* zn_states of the daemon: injected and failed, per library
  report,   \* who holds its mutex, the step of fs::write and rename, the file written to
  disk,     \* the lines in each file
  staging,  \* the file named zn_modules_state.tmp: {} when there is none
  file,     \* the file named zn_modules_state, likewise
  restart   \* the accept thread: its step, the file written to, and the restarts to come

vars == <<world, ways, proc, thread, load, states, report, disk, staging, file, restart>>

Procs == {Spawner} \cup Kids
Fails(kind) == kind \in world.faults

NoProc == [run |-> FALSE, gen |-> 0, app |-> FALSE, runtime |-> FALSE,
           modules |-> <<>>, fired |-> FALSE, cap |-> NoName, atfork |-> FALSE, inode |-> FALSE,
           orig |-> [s \in Symbols |-> "none"],
           hooked |-> {}, inline |-> [a \in Targets |-> "none"],
           told |-> <<>>, own |-> NoName, due |-> <<>>]

Idle == [pc |-> "idle", target |-> "other"]

Init ==
  /\ world \in Worlds /\ ways = world.ways
  /\ proc = [p \in Procs |-> NoProc]
  /\ thread = [t \in Threads |-> Idle]
  /\ load = [l \in Loaders |-> [pc |-> "off", left |-> <<>>, sys |-> 0, lib |-> NoLib,
                                injected |-> FALSE, scrubbed |-> FALSE]]
  /\ states = [l \in Libs |-> <<0, 0>>] /\ report = [by |-> "free", pc |-> "idle", fd |-> 0]
  /\ disk = [i \in Files |-> {}] /\ staging = {} /\ file = {}
  /\ restart = [pc |-> "idle", fd |-> 0, left |-> world.restarts]

-----------------------------------------------------------------------------
(* The daemon's plan. *)

Added(plan, line, l) ==
  IF l \in line.for /\ line.usable /\ ~\E i \in 1..Len(plan) : plan[i].lib = line.lib
  THEN Append(plan, line) ELSE plan

\* The lines that name the process, in order; a library is taken once, from the first line
\* that can be used: inside the module's directory, of the daemon's word size, and readable.
scan_zn_modules_for_target(l) ==
  LET plan[n \in 0..Len(Lines)] == IF n = 0 THEN <<>> ELSE Added(plan[n - 1], Lines[n], l)
  IN plan[Len(Lines)]

-----------------------------------------------------------------------------
(* The hooks of the HyperOS runtime, in the memory r of a process. *)

\* gen counts the forks since the spawner.
hyosInChild(r) == r.gen > 0

\* An address is patched once (Dobby).
DobbyHook(r, a, owner) == [r EXCEPT !.inline[a] = owner]

pltHookSpawner(r, s) ==
  IF r.inode /\ r.orig[s] = "none" /\ <<"plt", s>> \in ways
  THEN [r EXCEPT !.orig[s] = "plt"] ELSE r

inlineHookRaw(r, s) ==
  IF r.orig[s] = "none" /\ <<"inline", s>> \in ways /\ r.inline[s] = "none"
  THEN [DobbyHook(r, s, "runtime") EXCEPT !.orig[s] = "inline"] ELSE r

\* The PLT of the executable first, then the functions themselves; what is already hooked
\* is left alone.
hyosInstallHooks(r) ==
  LET found == [r EXCEPT !.inode = @ \/ Exe \in ways]
      plt == pltHookSpawner(pltHookSpawner(found, "setcontext"), "setname")
  IN inlineHookRaw(inlineHookRaw(plt, "setcontext"), "setname")

\* Mutant: hooks that could not be installed are not tried again.
NoRetry(r) == r

hyosAtForkPrepare(r) ==
  IF r.atfork /\ r.modules # <<>> /\ \E s \in Symbols : r.orig[s] = "none"
  THEN hyosInstallHooks(r) ELSE r

Accepted(r, m) == Hyos[m] \in 1..ZYGISK_NEXT_HYOS_API_VERSION /\ Len(r.modules) < MaxHyosModules

api_hyos_registerModule(r, m) ==
  IF ~Accepted(r, m) THEN r
  ELSE LET added == [r EXCEPT !.modules = Append(@, m)]
       IN IF hyosInChild(r) THEN added ELSE hyosInstallHooks([added EXCEPT !.atfork = TRUE])

\* getApiForVersion: only modules of API 4 are given the runtime of the process, if it has one.
getRuntime(r, m) == Api[m] >= 4 /\ r.runtime

-----------------------------------------------------------------------------
(* Loading. *)

\* entry: the spawner, which becomes the HyperOS runtime, or a zygote whose daemon answers.
\* A plan that cannot be asked for is empty.
Entry(l) ==
  /\ l \in world.loaders /\ load[l].pc = "off"
  /\ \/ load' = [load EXCEPT ![l].pc = "load", ![l].left = scan_zn_modules_for_target(l)]
     \/ Fails("connect") /\ load' = [load EXCEPT ![l].pc = "load"]
  /\ proc' = IF l = Spawner THEN [proc EXCEPT ![l].run = TRUE, ![l].runtime = TRUE] ELSE proc
  /\ UNCHANGED <<world, ways, thread, states, report, disk, staging, file, restart>>

\* ReportZnModule waits for the daemon's answer, and gives up when it cannot connect.
ReportZnModule(l, injected, sys) ==
  LET rest == [load[l] EXCEPT !.left = Tail(@), !.sys = @ + sys]
      told == [rest EXCEPT !.pc = "report", !.lib = Head(load[l].left).lib, !.injected = injected]
  IN \/ load' = [load EXCEPT ![l] = told]
     \/ Fails("connect") /\ load' = [load EXCEPT ![l] = rest]

\* A library that cannot be opened, or has no zn_module.
LoadFails(l) ==
  /\ load[l].pc = "load" /\ load[l].left # <<>>
  /\ Fails("open")
  /\ ReportZnModule(l, FALSE, 0)
  /\ UNCHANGED <<world, ways, proc, thread, states, report, disk, staging, file, restart>>

\* loadEntry: by the system's linker (sys = 1) or by the loader's own.
loadEntry(l, sys) ==
  /\ load[l].pc = "load" /\ load[l].left # <<>>
  /\ LET m == Head(load[l].left).lib
     IN IF Api[m] > ZYGISK_NEXT_API_VERSION
        THEN ReportZnModule(l, FALSE, 0) /\ UNCHANGED proc
        ELSE /\ ReportZnModule(l, TRUE, sys)
             /\ proc' = IF l = Spawner /\ getRuntime(proc[l], m) /\ m \notin world.late
                        THEN [proc EXCEPT ![l] = api_hyos_registerModule(@, m)] ELSE proc
  /\ UNCHANGED <<world, ways, thread, states, report, disk, staging, file, restart>>

\* The end of loadAllModules.
LoadingDone(l) ==
  /\ load[l].pc = "load" /\ load[l].left = <<>>
  /\ load' = [load EXCEPT ![l].pc = "done", ![l].scrubbed = load[l].sys > 0 /\ world.anon]
  /\ UNCHANGED <<world, ways, proc, thread, states, report, disk, staging, file, restart>>

\* A module that is loaded registers later, in the spawner or in a process forked from it.
RegisterLater(p, m) ==
  /\ load[Spawner].pc = "done" /\ proc[p].run
  /\ m \in world.late /\ getRuntime(proc[p], m)
  /\ ~\E i \in 1..Len(proc[p].modules) : proc[p].modules[i] = m
  /\ proc' = [proc EXCEPT ![p] = api_hyos_registerModule(@, m)]
  /\ UNCHANGED <<world, ways, thread, load, states, report, disk, staging, file, restart>>

\* A way to hook that did not work works now: a library is loaded, memory is to be had.
WayAppears(w) ==
  /\ proc[Spawner].run /\ w \in world.later \ ways
  /\ ways' = ways \cup {w}
  /\ UNCHANGED <<world, proc, thread, load, states, report, disk, staging, file, restart>>

-----------------------------------------------------------------------------
(* Processes of the spawner. *)

\* Whether a call of s goes through the runtime: a module may have destroyed its inline hook.
Leads(r, s) == r.orig[s] = "plt" \/ r.inline[s] = "runtime"

\* Whether hyosInstallHooks would hook setcontext.
Hookable(r) ==
  /\ r.orig["setcontext"] = "none"
  /\ \/ {Exe, <<"plt", "setcontext">>} \subseteq ways
     \/ <<"inline", "setcontext">> \in ways /\ r.inline["setcontext"] = "none"

\* The copy of r in a new process.  A child of the spawner is due to tell the modules that
\* are registered, if the hook is there.
Kid(p, r, hook) ==
  [r EXCEPT !.gen = @ + 1, !.own = NoName, !.due = IF p = Spawner /\ hook THEN r.modules ELSE <<>>]

CanFork(p, q) ==
  /\ load[Spawner].pc = "done"
  /\ proc[p].run /\ (p = Spawner \/ proc[p].app) /\ ~proc[q].run
  /\ Cardinality({k \in Kids : proc[k].run}) < world.kids

\* fork() of libc runs the prepare handler in the parent.
Fork(p, q) ==
  /\ CanFork(p, q)
  /\ LET r == hyosAtForkPrepare(proc[p])
     IN proc' = [proc EXCEPT ![p] = r,
                             ![q] = Kid(p, r, Hookable(proc[p]) \/ Leads(proc[p], "setcontext"))]
  /\ UNCHANGED <<world, ways, thread, load, states, report, disk, staging, file, restart>>

\* A raw clone() runs no handler.
Clone(p, q) ==
  /\ CanFork(p, q)
  /\ proc' = [proc EXCEPT ![q] = Kid(p, proc[p], Leads(proc[p], "setcontext"))]
  /\ UNCHANGED <<world, ways, thread, load, states, report, disk, staging, file, restart>>

Deliver(r) ==
  [r EXCEPT !.fired = TRUE,
            !.told = @ \o [i \in DOMAIN r.modules |->
                             [module |-> r.modules[i], name |-> r.cap, own |-> r.own]]]

\* Every module, in the order of registration, with the captured name; NoName stands for what
\* /proc or prctl says instead.
hyosDeliverAppSpecialized(r) ==
  IF ~hyosInChild(r) \/ r.fired \/ r.modules = <<>> THEN r ELSE Deliver(r)

\* selinux_android_setcontext, through the hook if there is one.  It fails, or makes a
\* child of the spawner an app; what an app forks does not call it.
Setcontext(p, ok) ==
  /\ proc[p].run /\ proc[p].gen <= 1 /\ load[Spawner].pc = "done"
  /\ LET done == [proc[p] EXCEPT !.app = @ \/ (ok /\ hyosInChild(proc[p]))]
     IN proc' = [proc EXCEPT ![p] =
                   IF ok /\ Leads(done, "setcontext")
                   THEN hyosDeliverAppSpecialized(done) ELSE done]
  /\ UNCHANGED <<world, ways, thread, load, states, report, disk, staging, file, restart>>

\* Mutant: the name is captured in the spawner, too.
CaptureAnywhere(r, n, self) == r.cap = NoName /\ ~r.fired /\ n # NoName /\ self

\* The first name a forked process gives its own thread is its name.
Captures(r, n, self) ==
  r.cap = NoName /\ ~r.fired /\ n # NoName /\ self /\ hyosInChild(r)

\* pthread_setname_np on the caller's own thread or on another; NoName is the empty name.
Setname(p, n, self) ==
  /\ proc[p].run /\ load[Spawner].pc = "done"
  /\ Leads(proc[p], "setname")
  /\ LET r == [proc[p] EXCEPT !.own = IF @ = NoName /\ self /\ ~proc[p].fired THEN n ELSE @]
     IN proc' = [proc EXCEPT ![p] = IF Captures(r, n, self) THEN [r EXCEPT !.cap = n] ELSE r]
  /\ UNCHANGED <<world, ways, thread, load, states, report, disk, staging, file, restart>>

-----------------------------------------------------------------------------
(* The hook API: the registry is changed under its mutex, the code is patched outside. *)

Busy == {t \in Threads : thread[t].pc # "idle"}
Act(t, pc) == thread' = [thread EXCEPT ![t].pc = pc]
Patch(r) == proc' = [proc EXCEPT ![Spawner] = r]
HookVars == <<world, ways, load, states, report, disk, staging, file, restart>>

Begin(t, a, pc) ==
  /\ thread[t].pc = "idle" /\ proc[Spawner].run /\ load[Spawner].pc = "done"
  /\ Cardinality(Busy) < world.threads /\ a \in world.targets
  /\ thread' = [thread EXCEPT ![t] = [pc |-> pc, target |-> a]]

\* Mutant: the registry is not asked first.
HookAnyway(t, a) ==
  /\ Begin(t, a, "hook")
  /\ Patch([proc[Spawner] EXCEPT !.hooked = @ \cup {a}])
  /\ UNCHANGED HookVars

\* api_inlineHook up to the end of its critical section; an address in the registry is refused.
api_inlineHook(t, a) ==
  /\ a \notin proc[Spawner].hooked
  /\ Begin(t, a, "hook")
  /\ Patch([proc[Spawner] EXCEPT !.hooked = @ \cup {a}])
  /\ UNCHANGED HookVars

\* DobbyHook, which fails on a patched address and may fail on any.
InlineHookPatch(t) ==
  /\ thread[t].pc = "hook"
  /\ LET a == thread[t].target
     IN \/ /\ proc[Spawner].inline[a] = "none" /\ Act(t, "idle")
           /\ Patch(DobbyHook(proc[Spawner], a, "module"))
        \/ /\ proc[Spawner].inline[a] # "none" \/ Fails("dobby")
           /\ Act(t, "undo") /\ UNCHANGED proc
  /\ UNCHANGED HookVars

\* The address is taken out of the registry: after a failed DobbyHook, or a DobbyDestroy.
Erase(t) ==
  /\ thread[t].pc \in {"undo", "erase"}
  /\ Patch([proc[Spawner] EXCEPT !.hooked = @ \ {thread[t].target}])
  /\ Act(t, "idle") /\ UNCHANGED HookVars

api_inlineUnhook(t, a) ==
  /\ a \in proc[Spawner].hooked
  /\ Begin(t, a, "unhook")
  /\ UNCHANGED proc /\ UNCHANGED HookVars

\* DobbyDestroy, which fails on an address that is not patched.
InlineUnhookPatch(t) ==
  /\ thread[t].pc = "unhook"
  /\ LET a == thread[t].target
     IN IF proc[Spawner].inline[a] = "none" THEN Act(t, "idle") /\ UNCHANGED proc
        ELSE Act(t, "erase") /\ Patch([proc[Spawner] EXCEPT !.inline[a] = "none"])
  /\ UNCHANGED HookVars

-----------------------------------------------------------------------------
(* The daemon's record of what was loaded. *)

StateOf(s) == IF s[2] > 0 THEN "failed" ELSE "injected"

\* The lines of write_zn_state_file: a library that failed once is failed.
Rendered(s) == {<<l, StateOf(s[l])>> : l \in {x \in Libs : s[x] # <<0, 0>>}}

Counted(s, l, injected) ==
  [s EXCEPT ![l] = IF injected THEN <<@[1] + 1, @[2]>> ELSE <<@[1], @[2] + 1>>]

\* fs::write opens the staging file of that name and empties it, or makes one, and then
\* writes; nothing keeps two writers apart.
Opens(fd) ==
  /\ fd = IF staging = {} THEN Min(Files \ (file \cup {report.fd, restart.fd})) ELSE Min(staging)
  /\ staging' = {fd} /\ disk' = [disk EXCEPT ![fd] = {}]

\* The rename publishes whatever the staging file is, or fails when it is gone.
Renamed ==
  /\ staging' = {}
  /\ file' = IF staging = {} THEN file ELSE staging
  /\ disk' = [i \in Files |-> IF i \in file \ file' THEN {} ELSE disk[i]]

\* handle_report_zn_module counts, writes the file with the mutex held, and answers.
handle_report_zn_module(l, fd) ==
  /\ load[l].pc = "report" /\ report.by = "free"
  /\ states' = Counted(states, load[l].lib, load[l].injected)
  /\ Opens(fd) /\ report' = [by |-> l, pc |-> "write", fd |-> fd]
  /\ UNCHANGED <<world, ways, proc, thread, load, file, restart>>

ReportWrites ==
  /\ report.pc = "write"
  /\ disk' = [disk EXCEPT ![report.fd] = Rendered(states)]
  /\ report' = [report EXCEPT !.pc = "rename", !.fd = 0]
  /\ UNCHANGED <<world, ways, proc, thread, load, states, staging, file, restart>>

ReportRenames ==
  /\ report.pc = "rename" /\ Renamed
  /\ report' = [report EXCEPT !.pc = "idle", !.by = "free"]
  /\ load' = [load EXCEPT ![report.by].pc = "load"]
  /\ UNCHANGED <<world, ways, proc, thread, states, restart>>

\* Mutant: the lists are cleared, the file is left.
RestartKeepsFile ==
  /\ restart.pc = "idle" /\ restart.left > 0 /\ report.by = "free"
  /\ states' = [l \in Libs |-> <<0, 0>>]
  /\ restart' = [restart EXCEPT !.left = @ - 1]
  /\ UNCHANGED <<world, ways, proc, thread, load, report, disk, staging, file>>

\* ZygoteRestart on the accept thread: the counters are cleared under the mutex, and the empty
\* file is written without it.
RestartClears ==
  /\ restart.pc = "idle" /\ restart.left > 0 /\ report.by = "free"
  /\ states' = [l \in Libs |-> <<0, 0>>]
  /\ restart' = [restart EXCEPT !.pc = "cleared", !.left = @ - 1]
  /\ UNCHANGED <<world, ways, proc, thread, load, report, disk, staging, file>>

RestartOpens(fd) ==
  /\ restart.pc = "cleared" /\ Opens(fd)
  /\ restart' = [restart EXCEPT !.pc = "opened", !.fd = fd]
  /\ UNCHANGED <<world, ways, proc, thread, load, states, report, file>>

\* Its one line break lands on the first letter of what a report wrote there meanwhile: that
\* line says nothing any more.
RestartWrites ==
  /\ restart.pc = "opened"
  /\ \E lost \in SUBSET disk[restart.fd] :
       /\ Cardinality(lost) = IF disk[restart.fd] = {} THEN 0 ELSE 1
       /\ disk' = [disk EXCEPT ![restart.fd] = @ \ lost]
  /\ restart' = [restart EXCEPT !.pc = "written", !.fd = 0]
  /\ UNCHANGED <<world, ways, proc, thread, load, states, report, staging, file>>

RestartRenames ==
  /\ restart.pc = "written" /\ Renamed
  /\ restart' = [restart EXCEPT !.pc = "idle"]
  /\ UNCHANGED <<world, ways, proc, thread, load, states, report>>

Next ==
  \/ \E l \in Loaders :
       \/ Entry(l) \/ LoadFails(l) \/ LoadingDone(l) \/ \E sys \in 0..1 : loadEntry(l, sys)
       \/ \E fd \in Files : handle_report_zn_module(l, fd)
  \/ \E p \in Procs :
       \/ \E m \in Libs : RegisterLater(p, m)
       \/ \E q \in Kids : Fork(p, q) \/ Clone(p, q)
       \/ \E ok \in BOOLEAN : Setcontext(p, ok)
       \/ \E n \in Names \cup {NoName}, self \in BOOLEAN : Setname(p, n, self)
  \/ \E w \in Ways : WayAppears(w)
  \/ \E t \in Threads :
       \/ \E a \in Targets : api_inlineHook(t, a) \/ api_inlineUnhook(t, a)
       \/ InlineHookPatch(t) \/ InlineUnhookPatch(t) \/ Erase(t)
  \/ ReportWrites \/ ReportRenames
  \/ RestartClears \/ (\E fd \in Files : RestartOpens(fd)) \/ RestartWrites \/ RestartRenames

Spec == Init /\ [][Next]_vars

-----------------------------------------------------------------------------
Memories ==
  [run: BOOLEAN, gen: Nat, app: BOOLEAN, runtime: BOOLEAN, modules: Seq(Libs), fired: BOOLEAN,
   cap: Names \cup {NoName}, atfork: BOOLEAN, inode: BOOLEAN,
   orig: [Symbols -> {"none", "plt", "inline"}], hooked: SUBSET Targets,
   inline: [Targets -> {"none", "module", "runtime"}],
   told: Seq([module: Libs, name: Names \cup {NoName}, own: Names \cup {NoName}]),
   own: Names \cup {NoName}, due: Seq(Libs)]

TypeOK ==
  /\ world \in Worlds /\ ways \subseteq Ways /\ proc \in [Procs -> Memories]
  /\ load \in [Loaders -> [pc: {"off", "load", "report", "done"}, left: Seq(LineSet), sys: Nat,
                            lib: Libs \cup {NoLib}, injected: BOOLEAN, scrubbed: BOOLEAN]]
  /\ \A l \in Loaders : load[l].pc = "report" => load[l].lib \in Libs
  /\ thread \in [Threads -> [pc: {"idle", "hook", "undo", "unhook", "erase"}, target: Targets]]
  /\ states \in [Libs -> Nat \X Nat] /\ disk \in [Files -> SUBSET (Libs \X {"failed", "injected"})]
  /\ staging \subseteq Files /\ file \subseteq Files
  /\ report \in [by: Loaders \cup {"free"}, pc: {"idle", "write", "rename"}, fd: {0} \cup Files]
  /\ restart \in [pc: {"idle", "cleared", "opened", "written"}, fd: {0} \cup Files, left: Nat]

ToldModules(r) == [i \in DOMAIN r.told |-> r.told[i].module]

\* zn_api.cpp, hyosAtForkPrepare and hyosDeliverAppSpecialized: an app of the spawner has told
\* every module that was registered when it was forked, in that order, if setcontext was
\* hooked by then or could be on the way into fork(), however often hooking failed before.  No
\* module is told twice, whatever calls fail and are repeated and whatever the app forks, and
\* the spawner tells none.  Modules register once, from their entry: api_hyos_registerModule
\* does not look for a module that is registered already.
AppsTold ==
  /\ proc[Spawner].told = <<>>
  /\ \A p \in Kids : LET told == ToldModules(proc[p])
                        due == proc[p].due
                    IN /\ IsInjective(told)
                       /\ proc[p].app => Len(due) <= Len(told) /\ SubSeq(told, 1, Len(due)) = due

\* zn_api.cpp, hyosSetnameHook: the process name a module is told is the first the new process
\* gave to its own thread, never one of the spawner or of a thread it named.
NameIsOwn == \A p \in Kids : \A i \in DOMAIN proc[p].told : proc[p].told[i].name = proc[p].told[i].own

InFlight(a) == \E t \in Threads : thread[t].target = a /\ thread[t].pc \in {"hook", "undo", "erase"}

RuntimeHooked(r, a) == a \in Symbols /\ r.orig[a] = "inline"

\* zygisk_next_api.h:36: "an address can only hook once, so the module can't hook an address
\* which is already hooked by an another module, except that the module unhooked it": the
\* registry and the patched code agree, but for the address a thread is about to patch or to
\* erase, although neither of them is done under the mutex.  Addresses that the runtime patched
\* are left out: it does not use the registry.
HookedOnce ==
  LET r == proc[Spawner]
  IN \A a \in Targets : ~RuntimeHooked(r, a) =>
       /\ (r.inline[a] = "module" => a \in r.hooked)
       /\ (a \in r.hooked /\ r.inline[a] # "module" => InFlight(a))

\* zygiskd.rs, write_zn_state_file: what zn_modules_state says of a library is what the daemon
\* counted since the last zygote restart, although the restart writes it without the mutex and
\* both use one staging file.  Only the restart under way may still have to empty it.
StateFileSound ==
  restart.pc = "idle" /\ report.by = "free" =>
    \A i \in file : \A line \in disk[i] :
      LET count == states[line[1]]
      IN IF line[2] = "failed" THEN count[2] > 0 ELSE count[1] > 0 /\ count[2] = 0
=============================================================================
