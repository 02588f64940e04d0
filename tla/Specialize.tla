------------------------------ MODULE Specialize ------------------------------
(***************************************************************************)
(* The life of a forked process under the injected library: what the       *)
(* zygote does before it forks (query the flags, unmount its own traces),  *)
(* what the child does while it specializes (correct its uid, load the     *)
(* modules, choose its mount namespace), and how the library leaves it.    *)
(* The zygote first hooks itself (Hooks).  The daemon caches the two       *)
(* namespaces on behalf of system_server.                                  *)
(*                                                                         *)
(* A mount namespace is the set of root traces mounted in it.  A child is  *)
(* in the zygote's namespace until it unshares; the cached Root namespace  *)
(* is that namespace itself, because save_mount_namespace unshares only    *)
(* for Clean.  A child works on the copies of the hook state it was forked *)
(* with.                                                                   *)
(***************************************************************************)
EXTENDS Naturals, FiniteSets, Hooks

CONSTANTS Children, Traces,
          Apps,           \* [uid, owner, kind]: owner is the uid of the data directory
          ProcessFlags,   \* per uid: the flags the daemon answers
          NoApp, NoNs,
          Worlds,         \* what is fixed at boot, see device
          MaxUnmounts     \* 5 in the code

FaultKinds == {"connect", "cache", "setns", "umount", "fork", "restore", "mount", "jni", "stat",
               "natives"}
Kinds == {"app", "isolated", "webview"}
FlagNames == {"granted", "denied", "excluded", "manager", "root"}
Server == [uid |-> 0, owner |-> 0, kind |-> "server"]

ASSUME SpecializeAssumption ==
  /\ Worlds \subseteq [faults: SUBSET FaultKinds, late: BOOLEAN, room: Nat,
                      apps: SUBSET Apps, traces: SUBSET Traces,
                      missing: SUBSET (RuntimeSlots \cup LibSlots \cup {Unloader})]
  /\ MaxUnmounts \in Nat
  /\ \A a \in Apps : /\ a.kind \in Kinds /\ a.uid \in DOMAIN ProcessFlags
                     /\ a.owner \in DOMAIN ProcessFlags
                     /\ a.kind # "isolated" => a.owner = a.uid
  /\ \A u \in DOMAIN ProcessFlags : ProcessFlags[u] \subseteq FlagNames
  /\ NoApp \notin Apps \cup {Server} /\ \A T \in SUBSET Traces : NoNs # T

VARIABLES
  mounts,   \* the traces in the zygote's namespace
  device,   \* chosen once: the traces at boot, whether one is a font or /product overlay,
            \* what may fail, whether system_server was running when the zygote was injected,
            \* how many processes there are at a time, of which apps, and the imports that
            \* may be missing
  hook,     \* the zygote's HookContext (h), its counters, and where it is and (history)
            \* the processes the last fork made
  server,   \* system_server: "none", "forked", "live"
  caching,  \* its CacheMountNamespace request waits for the daemon
  clean,    \* the cached Clean namespace, or NoNs
  root,     \* whether Root, the zygote's own namespace, is cached
  child     \* the forked processes

vars == <<mounts, device, hook, server, caching, clean, root, child>>

Fails(kind) == kind \in device.world.faults

NoChild == [pc |-> "free", pool |-> FALSE, app |-> NoApp, info |-> {}, times |-> 0, traces |-> {},
            revert |-> FALSE, forced |-> FALSE, modules |-> FALSE, ns |-> "zygote",
            own |-> {}, h |-> HookContext, gone |-> FALSE, skipped |-> FALSE]

Init ==
  /\ device \in [boot: SUBSET Traces, overlay: BOOLEAN, world: Worlds]
  /\ device.boot \subseteq device.world.traces /\ (device.overlay => device.world.traces # {})
  /\ mounts = device.boot
  /\ hook = [times |-> 0, traces |-> {}, modules |-> FALSE, h |-> HookContext, gone |-> FALSE,
             at |-> "java", forks |-> 1]
  /\ server = IF device.world.late THEN "live" ELSE "none"
  /\ caching = FALSE /\ clean = NoNs /\ root = FALSE
  /\ child = [c \in Children |-> NoChild]

Free(c) ==
  child[c].pc = "free"
  /\ Cardinality({d \in Children : child[d].pc # "free"}) < device.world.room

\* zygiskd::GetProcessFlags: 0 when the daemon cannot be reached.
GetProcessFlags(uid) == {ProcessFlags[uid]} \cup (IF Fails("connect") THEN {{}} ELSE {})

\* check_zygote_traces: nothing unless the root implementation is known.
check_zygote_traces(info) == IF "root" \in info THEN mounts ELSE {}

abort_zygote_unmount(traces) == traces = {} \/ device.overlay

-----------------------------------------------------------------------------
(* The zygote hooks itself. *)

zygoteOnly == <<mounts, device, server, caching, clean, root, child>>
Hooked(h) == hook' = [hook EXCEPT !.h = h] /\ UNCHANGED zygoteOnly

hook_entry ==
  /\ ~hook.h.entered
  /\ \E missing \in SUBSET device.world.missing : Hooked(hook_plt(hook.h, missing))

AfterStrdup(h) == {new_strdup(h, fails) : fails \in {FALSE} \cup {Fails("jni")}}
AfterPropertyGet(h) ==
  UNION {{new_property_get(h, missing, stays) : stays \in {FALSE} \cup {Fails("restore")}} :
           missing \in SUBSET ({Unloader} \cap device.world.missing)}

\* AndroidRuntime::start, on its way to ZygoteInit.
Strdup ==
  /\ ~device.world.late /\ "strdup" \in hook.h.plt /\ ~hook.h.zygote_hooked
  /\ \E h \in AfterStrdup(hook.h) : Hooked(h)
PropertyGet ==
  /\ ~device.world.late /\ "property_get" \in hook.h.plt /\ ~hook.h.unloader_triggered
  /\ \E h \in AfterPropertyGet(hook.h) : Hooked(h)

\* A zygote that was already running: the replacements are called whether or not their
\* imports were there to hook, and go on to call the originals.
trigger_zygote_hooks ==
  /\ device.world.late /\ hook.h.entered /\ hook.at = "java" /\ ~hook.h.zygote_hooked
  /\ IF {"strdup", "property_get"} \subseteq hook.h.plt
     THEN \E h \in UNION {AfterPropertyGet(g) : g \in AfterStrdup(hook.h)} : Hooked(h)
     ELSE hook' = [hook EXCEPT !.at = "crashed"] /\ UNCHANGED zygoteOnly

\* Java code runs, and no fork is under way.
Java ==
  /\ hook.h.entered /\ hook.at = "java"
  /\ IF device.world.late THEN hook.h.zygote_hooked
     ELSE /\ "strdup" \in hook.h.plt => hook.h.zygote_hooked
          /\ "property_get" \in hook.h.plt => hook.h.unloader_triggered

\* The zygote's native methods lead into the library.
NativesHooked == Java /\ hook.h.jni /\ ~hook.gone

\* They still do when it is no longer there.
ZygoteCrashes ==
  /\ Java /\ hook.h.jni /\ hook.gone
  /\ hook' = [hook EXCEPT !.at = "crashed"] /\ UNCHANGED zygoteOnly

\* What init does about it is another story.
Crashed == hook.at = "crashed" /\ UNCHANGED vars

-----------------------------------------------------------------------------
(* The zygote forks. *)

\* fork_pre: the process is made before the original method is called.
Forking(z) == [z EXCEPT !.h.ctx = "forked", !.at = "original", !.forks = 1]
Forked(app, info, z) ==
  [NoChild EXCEPT !.pc = "pre", !.app = app, !.info = info, !.times = z.times,
                  !.traces = z.traces, !.h = [z.h EXCEPT !.ctx = "forked"]]

\* The original method calls fork; the parent's way out is ~ZygiskContext.
OriginalForks ==
  /\ hook.at = "original"
  /\ hook' = [hook EXCEPT !.at = "java", !.forks = IF new_fork(hook.h) THEN @ + 1 ELSE @,
                          !.h.ctx = "none"]
  /\ UNCHANGED zygoteOnly

\* The zygote's own unmount, with the flags it asked for: the traces that cannot be
\* unmounted are kept.
Unmounts(info) ==
  LET found == check_zygote_traces(info)
  IN IF abort_zygote_unmount(found)
     THEN {[info |-> info, hook |-> [hook EXCEPT !.traces = found], mounts |-> mounts]}
     ELSE {[info |-> info, hook |-> [hook EXCEPT !.traces = kept, !.times = @ + 1],
            mounts |-> (mounts \ found) \cup kept] :
             kept \in IF Fails("umount") THEN SUBSET found ELSE {{}}}

\* nativeForkAndSpecialize_pre up to the fork.
BeforeFork(app) ==
  IF hook.times < MaxUnmounts /\ hook.traces = {}
  THEN UNION {Unmounts(info) : info \in GetProcessFlags(app.uid)}
  ELSE {[info |-> {}, hook |-> hook, mounts |-> mounts]}

nativeForkAndSpecialize(c, app) ==
  /\ NativesHooked /\ server = "live" /\ Free(c)
  /\ \E r \in BeforeFork(app) :
       /\ hook' = Forking(r.hook) /\ mounts' = r.mounts
       /\ child' = [child EXCEPT ![c] = Forked(app, r.info, r.hook)]
  /\ UNCHANGED <<device, server, caching, clean, root>>

\* A pool process is forked unseen and specializes later (nativeSpecializeAppProcess).
ForkPoolProcess(c, app) ==
  /\ NativesHooked /\ server = "live" /\ Free(c)
  /\ child' = [child EXCEPT ![c] = [Forked(app, {}, hook) EXCEPT !.pool = TRUE, !.h.ctx = "unforked"]]
  /\ UNCHANGED <<mounts, device, hook, server, caching, clean, root>>

\* A zygote without its hooks forks processes the library knows nothing of.
ForkUnhooked(c) ==
  /\ Java /\ ~hook.h.jni /\ Free(c)
  /\ child' = [child EXCEPT ![c].pc = "plain"]
  /\ UNCHANGED <<mounts, device, hook, server, caching, clean, root>>

\* A root mount made later propagates into the zygote's namespace.
MountAppears(t) ==
  /\ Fails("mount") /\ t \in device.world.traces \ (mounts \cup device.boot)
  /\ mounts' = mounts \cup {t}
  /\ UNCHANGED <<device, hook, server, caching, clean, root, child>>

nativeForkSystemServer(c) ==
  /\ NativesHooked /\ server = "none" /\ Free(c)
  /\ server' = "forked" /\ hook' = Forking(hook)
  /\ child' = [child EXCEPT ![c] = Forked(Server, {}, hook)]
  /\ UNCHANGED <<mounts, device, caching, clean, root>>

-----------------------------------------------------------------------------
(* The child, before the original method. *)

\* The uid the child asks about: an isolated service's owner, if its data directory is known.
CorrectedUid(app) ==
  IF app.kind = "isolated" THEN {app.owner} \cup (IF Fails("stat") THEN {app.uid} ELSE {})
  ELSE {app.uid}

\* Mutant: the flags of the process are not asked for.
LoadsAlways(info) == TRUE

\* Flags the zygote asked for are not asked for again.
Known(app, info) ==
  IF info = {} THEN UNION {GetProcessFlags(uid) : uid \in CorrectedUid(app)} ELSE {info}

Loads(info) == "excluded" \notin info

\* The modules are loaded into child c, and one may ask for the unmount of the deny list.
LoadModules(c, loads, next) ==
  \E force \in {FALSE, loads} :
    child' = [child EXCEPT ![c] = [next EXCEPT !.modules = loads, !.pc = "native",
                                               !.forced = force, !.revert = @ \/ force]]

app_specialize_pre(c) ==
  /\ child[c].pc = "pre" /\ child[c].app.kind # "server"
  /\ \E info \in Known(child[c].app, child[c].info) :
       LoadModules(c, Loads(info),
         [child[c] EXCEPT !.info = info,
                          !.revert = "denied" \in info \/ child[c].app.kind = "webview"])
  /\ UNCHANGED <<mounts, device, hook, server, caching, clean, root>>

\* An isolated process that may not connect goes on without flags and modules.
skip_zygiskd(c) ==
  /\ child[c].pc = "pre" /\ child[c].app.kind = "isolated" /\ Fails("connect")
  /\ LoadModules(c, FALSE, [child[c] EXCEPT !.revert = "denied" \in child[c].info])
  /\ UNCHANGED <<mounts, device, hook, server, caching, clean, root>>

\* server_specialize_pre and CacheMountNamespace, which does not wait for the daemon.
server_specialize_pre(c) ==
  /\ child[c].pc = "pre" /\ child[c].app.kind = "server"
  /\ LoadModules(c, TRUE, child[c])
  /\ server' = "live"
  /\ \/ caching' = TRUE
     \/ Fails("connect") /\ UNCHANGED caching
  /\ UNCHANGED <<mounts, device, hook, clean, root>>

\* run_system_server_hooks, in a system_server that was injected late.
run_system_server_hooks ==
  /\ device.world.late /\ ~caching /\ ~root
  /\ \/ caching' = TRUE
     \/ Fails("connect") /\ UNCHANGED caching
  /\ UNCHANGED <<mounts, device, hook, server, clean, root, child>>

\* ~ZygiskContext in a child: nobody looks at whether the native methods are restored.
TornDown(h) == {Torn(h, stays) : stays \in {FALSE} \cup {Fails("natives")}}

\* fork() returned -1, which is_child() takes for the child: the zygote loads the modules,
\* its fork hook forks again, and on the way out it restores its JNI methods and arms the
\* unloader; the child of the second fork does the same.
ForkFails(c, app) ==
  /\ Fails("fork") /\ NativesHooked /\ server = "live" /\ Free(c)
  /\ \E r \in BeforeFork(app) : \E info \in Known(app, r.info), again \in BOOLEAN :
       /\ mounts' = r.mounts
       /\ \E h \in TornDown(r.hook.h) : hook' = [r.hook EXCEPT !.modules = Loads(info), !.h = h]
       /\ child' = IF again
                   THEN [child EXCEPT ![c] = [Forked(app, info, r.hook) EXCEPT
                           !.pc = "native", !.modules = Loads(info),
                           !.revert = "denied" \in info \/ app.kind = "webview", !.h.ctx = "unforked"]]
                   ELSE child
  /\ UNCHANGED <<device, server, caching, clean, root>>

-----------------------------------------------------------------------------
(* The daemon: Clean is a private copy of system_server's namespace without the traces
   that could be unmounted there, Root the namespace itself.  A failure ends the request. *)

\* save_mount_namespace for Clean, which is kept whatever clean_mount_namespace left in it.
CleanNamespaces ==
  IF clean # NoNs THEN {clean} ELSE IF Fails("umount") THEN SUBSET mounts ELSE {{}}

CacheMountNamespace ==
  /\ caching /\ caching' = FALSE
  /\ \/ clean' \in CleanNamespaces /\ root' = TRUE
     \/ Fails("cache") /\ clean = NoNs /\ UNCHANGED <<clean, root>>
     \/ Fails("cache") /\ ~root /\ clean' \in CleanNamespaces /\ UNCHANGED root
  /\ UNCHANGED <<mounts, device, hook, server, child>>

-----------------------------------------------------------------------------
(* The original method in the child: unshare, then the way out. *)

Visible(c) == IF child[c].ns = "own" THEN child[c].own ELSE mounts

\* Mutant: an unmount that was tried counts as done.
IsZygoteCleanOnceTried(p) == p.times > 0

\* new_unshare's choice between the namespaces, by the flags and the copies of the zygote's
\* counters.
ShouldUnmount(p) == {"manager", "granted"} \cap p.info = {} /\ p.revert
IsZygoteClean(p) == p.times > 0 /\ p.traces = {}

Wanted(p) ==
  IF ShouldUnmount(p) THEN IF IsZygoteClean(p) THEN "zygote" ELSE "clean"
  ELSE IF p.times > 0 THEN "root" ELSE "zygote"

\* handle_update_mount_namespace: the namespace of that kind, if it was cached.
handle_update_mount_namespace(kind) ==
  IF kind = "clean" THEN clean ELSE IF root THEN mounts ELSE NoNs

UpdateMountNamespace(kind) ==
  {handle_update_mount_namespace(kind)} \cup (IF Fails("connect") THEN {NoNs} ELSE {})

\* update_mount_namespace leaves the process where it is when there is no namespace to enter
\* or setns fails.
update_mount_namespace(kind) ==
  {IF ns = NoNs THEN mounts ELSE ns : ns \in UpdateMountNamespace(kind)}
  \cup (IF Fails("setns") THEN {mounts} ELSE {})

Entered(p) == IF Wanted(p) = "zygote" THEN {mounts} ELSE update_mount_namespace(Wanted(p))

\* The result of the switch is not looked at.  The daemon answers after the requests that
\* came before.
new_unshare(c) ==
  /\ child[c].pc = "native" /\ child[c].app.kind # "server" /\ ~caching
  /\ \E m \in Entered(child[c]) :
       child' = [child EXCEPT ![c].ns = "own", ![c].own = m, ![c].pc = "post"]
  /\ UNCHANGED <<mounts, device, hook, server, caching, clean, root>>

\* system_server never unshares.
KeepNamespace(c) ==
  /\ child[c].pc = "native" /\ child[c].app.kind = "server"
  /\ child' = [child EXCEPT ![c].pc = "post"]
  /\ UNCHANGED <<mounts, device, hook, server, caching, clean, root>>

\* run_modules_post and ~ZygiskContext: the JNI methods are restored and should_unmap set.
SpecializePost(c) ==
  /\ child[c].pc = "post"
  /\ \E h \in TornDown(child[c].h) : child' = [child EXCEPT ![c].pc = "run", ![c].h = h]
  /\ UNCHANGED <<mounts, device, hook, server, caching, clean, root>>

\* The app forks.
AppForks(c) ==
  /\ child[c].pc = "run"
  /\ child' = [child EXCEPT ![c].skipped = ~new_fork(child[c].h)]
  /\ UNCHANGED <<mounts, device, hook, server, caching, clean, root>>

\* new_pthread_attr_setstacksize on the main thread: the hooks are undone and the library
\* unmapped; when a hook cannot be undone the library stays.
CalledToUnload(h) == Unloader \in h.plt /\ h.unmap
Undone(h) ==
  {restore_plt_hook(h, failed) :
     failed \in {{}} \cup IF Fails("restore") THEN {h.backup} \cup {{s} : s \in h.backup} ELSE {}}

Unload(c) ==
  /\ child[c].pc = "run" /\ CalledToUnload(child[c].h)
  /\ \E h \in Undone(child[c].h) :
       child' = [child EXCEPT ![c].h = h, ![c].gone = h.unmap,
                              ![c].pc = IF h.unmap THEN "run" ELSE "stuck"]
  /\ UNCHANGED <<mounts, device, hook, server, caching, clean, root>>

\* The zygote after a fork that failed.
ZygoteUnloads ==
  /\ hook.at = "java" /\ ~hook.gone /\ CalledToUnload(hook.h)
  /\ \E h \in Undone(hook.h) : hook' = [hook EXCEPT !.h = h, !.gone = h.unmap]
  /\ UNCHANGED zygoteOnly

\* system_server stays, and is of no interest once it runs.
ChildExits(c) ==
  /\ child[c].pc # "free"
  /\ child[c].app # Server \/ child[c].pc \in {"run", "stuck"}
  /\ child' = [child EXCEPT ![c] = NoChild]
  /\ UNCHANGED <<mounts, device, hook, server, caching, clean, root>>

Next ==
  \/ \E c \in Children :
       \/ \E app \in device.world.apps : \/ nativeForkAndSpecialize(c, app) \/ ForkPoolProcess(c, app)
                                         \/ ForkFails(c, app)
       \/ ForkUnhooked(c) \/ nativeForkSystemServer(c) \/ app_specialize_pre(c) \/ skip_zygiskd(c)
       \/ server_specialize_pre(c) \/ new_unshare(c) \/ KeepNamespace(c)
       \/ SpecializePost(c) \/ AppForks(c) \/ Unload(c) \/ ChildExits(c)
  \/ hook_entry \/ Strdup \/ PropertyGet \/ trigger_zygote_hooks
  \/ OriginalForks \/ ZygoteUnloads \/ ZygoteCrashes \/ Crashed
  \/ \E t \in Traces : MountAppears(t)
  \/ run_system_server_hooks \/ CacheMountNamespace

Spec == Init /\ [][Next]_vars

-----------------------------------------------------------------------------
TypeOK ==
  /\ mounts \subseteq Traces /\ device \in [boot: SUBSET Traces, overlay: BOOLEAN, world: Worlds]
  /\ hook.times \in 0..MaxUnmounts /\ hook.traces \subseteq Traces /\ hook.forks \in 0..2
  /\ server \in {"none", "forked", "live"} /\ caching \in BOOLEAN
  /\ clean \in {NoNs} \cup SUBSET Traces /\ root \in BOOLEAN
  /\ \A c \in Children :
       /\ child[c].pc \in {"free", "pre", "native", "post", "run", "stuck", "plain"}
       /\ child[c].app \in Apps \cup {NoApp, Server}
       /\ child[c].own \subseteq Traces

Reachable == {"connect", "cache", "setns"} \cap device.world.faults = {}
Specialized(c) == child[c].pc \in {"post", "run", "stuck"} /\ child[c].app.kind \in {"app", "webview"}
OwnerFlags(c) == ProcessFlags[child[c].app.owner]
Denied(c) ==
  \/ child[c].app.kind = "webview"
  \/ ("denied" \in OwnerFlags(c) \/ child[c].forced)
     /\ {"granted", "manager"} \cap OwnerFlags(c) = {}

\* README.md:107: an app on the deny list, or one for which a module asked for it, has a
\* "Clean, unmodified mount namespace", by the zygote's unmount or by the cached one
\* (README.md:115), whatever the zygote did between the fork of the process and its unshare.
\* Three things are asked for: the daemon answers and could cache the namespaces; the traces
\* were there at boot (hook.cpp:179); and what the daemon itself could not unmount is
\* excepted, for mount.rs:213 logs the failure and caches the namespace with the trace in it.
Unremoved == IF clean = NoNs THEN {} ELSE clean
DenylistClean ==
  Reachable => \A c \in Children :
    Specialized(c) /\ Denied(c) => Visible(c) \cap device.boot \subseteq Unremoved

\* An app process whose uid is excluded loads no module, although the flags were asked for
\* on behalf of the zygote in one fork and by the process itself in another.
ExcludedNeverLoads ==
  \A c \in Children :
    child[c].app \in Apps /\ child[c].app.kind = "app" /\ ~Fails("connect")
      => ("excluded" \in OwnerFlags(c) => ~child[c].modules)

\* module.cpp:446: "User apps picked in the WebUI never load any module.", nor do their
\* isolated services, for which module.cpp:414 corrects the uid.
IsolatedNeverLoads ==
  \A c \in Children :
    child[c].app \in Apps /\ child[c].app.kind = "isolated" /\ ~Fails("connect")
      => ("excluded" \in OwnerFlags(c) => ~child[c].modules)

\* hook.cpp new_pthread_attr_setstacksize: once the library is unmapped, in a child or in the
\* zygote, no import leads into it, whichever imports were there to hook, whoever called
\* property_get first and whichever import cannot be undone.  No native method does either,
\* as long as restore_zygote_hook works: its failure (the class not found, RegisterNatives)
\* is not looked at and keeps nothing in memory.
NoneLead(h) == h.plt = {} /\ (h.jni => Fails("natives"))
UnloadSafe ==
  /\ \A c \in Children : child[c].gone => NoneLead(child[c].h)
  /\ hook.gone => NoneLead(hook.h)

\* hook.cpp:169, "Skip actual fork and return cached result if applicable": a request to fork
\* makes one process, although the library and the original method both fork, and a process
\* that has specialized forks for itself.  A zygote that tore its hooks down after a failed
\* fork and could not restore its native methods is excepted: its next fork is made twice,
\* by the library that is left and by the original method, whose import is its own again.
ForkOnce ==
  /\ hook.forks = 1 \/ Fails("natives")
  /\ \A c \in Children : ~child[c].skipped
=============================================================================
