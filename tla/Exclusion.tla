------------------------------ MODULE Exclusion ------------------------------
(***************************************************************************)
(* The per-app exclusion list of zygiskd: config.prop and packages.list,   *)
(* the state exclude.rs keeps of them, the handlers that answer            *)
(* GetProcessFlags from it, and the watcher that flushes the shared flag   *)
(* cache when config.prop changes.                                         *)
(*                                                                         *)
(* The cache is the atomic map that ShmCache is shown to implement         *)
(* (FlagMap).  A file is its content and a modification time every write   *)
(* advances.  Of a process's flags only the exclusion is kept.             *)
(***************************************************************************)
EXTENDS Naturals

CONSTANTS Packages, AppIds, NoApp,
          Configs,    \* contents of config.prop: [packages, unmount]
          Lists,      \* contents of packages.list: [Packages -> AppIds \cup {NoApp}]
          Threads,    \* handler threads of the daemon
          Nobody,     \* no holder of a lock
          ReadFails,  \* whether a file that has a modification time may be unreadable
          MaxConfig, MaxList  \* bounds on the writes of the two files

Watcher == "watcher"
Actors == Threads \cup {Watcher}

ASSUME ExclusionAssumption ==
  /\ NoApp \notin AppIds /\ Nobody \notin Actors /\ Watcher \notin Threads
  /\ Configs \subseteq [packages: SUBSET Packages, unmount: BOOLEAN]
  /\ Lists \subseteq [Packages -> AppIds \cup {NoApp}]
  /\ ReadFails \in BOOLEAN /\ MaxConfig \in Nat /\ MaxList \in Nat

VARIABLES
  config, config_mtime,  \* config.prop
  list, list_mtime,      \* packages.list
  state,                 \* STATE of exclude.rs
  lock,                  \* the holder of its mutex
  cache,                 \* the flag cache, per app id
  pc,                    \* per actor
  job,                   \* per actor: app id, sampled times, packages read, flags found
                         \* (read, floor and seen are for the properties)
  last,                  \* the watcher's last modification time
  flushed                \* config.prop's time at the last flush (for the properties)

files == <<config, config_mtime, list, list_mtime>>
vars == <<files, state, lock, cache, pc, job, last, flushed>>

NoFlags == "none"
Flags == {"plain", "excluded", "excluded_unmounted"}

\* An app id is excluded when every package that shares it is, and there is one.
resolve_app_ids(packages, l) ==
  {a \in AppIds : /\ \E p \in Packages : l[p] = a
                  /\ \A p \in Packages : l[p] = a => p \in packages}

\* lookup's answer and the flags handle_get_process_flags makes of it.
FlagsOf(app_ids, unmount, a) ==
  IF a \notin app_ids THEN "plain" ELSE IF unmount THEN "excluded_unmounted" ELSE "excluded"

Unloaded == [loaded |-> FALSE, config_mtime |-> 0, list_mtime |-> 0, app_ids |-> {},
             packages |-> {}, unmount |-> TRUE, read |-> TRUE]
NoJob == [app |-> NoApp, config_mtime |-> 0, list_mtime |-> 0, packages |-> {},
          unmount |-> TRUE, read |-> TRUE, flags |-> NoFlags, floor |-> 0, seen |-> 0]

Init ==
  /\ config \in Configs /\ list \in Lists /\ config_mtime = 0 /\ list_mtime = 0
  /\ state = Unloaded /\ lock = Nobody
  /\ cache = [a \in AppIds |-> NoFlags]
  /\ pc = [x \in Actors |-> "idle"] /\ job = [x \in Actors |-> NoJob]
  /\ last = 0 /\ flushed = 0

Goes(x, next) == pc' = [pc EXCEPT ![x] = next]

-----------------------------------------------------------------------------
(* The WebUI and the package manager. *)

WriteConfig ==
  /\ config_mtime < MaxConfig
  /\ config' \in Configs
  /\ config_mtime' = config_mtime + 1
  /\ UNCHANGED <<list, list_mtime, state, lock, cache, pc, job, last, flushed>>

WriteList ==
  /\ list_mtime < MaxList
  /\ list' \in Lists
  /\ list_mtime' = list_mtime + 1
  /\ UNCHANGED <<config, config_mtime, state, lock, cache, pc, job, last, flushed>>

-----------------------------------------------------------------------------
(* reload, entered with the lock taken: by refresh for the watcher, by lookup for a
   handler.  Both modification times are sampled before either content is read. *)

TakeLock(x) ==
  /\ pc[x] = "lock" /\ lock = Nobody
  /\ lock' = x
  /\ Goes(x, "config_mtime")
  /\ UNCHANGED <<files, state, cache, job, last, flushed>>

SampleConfig(x) ==
  /\ pc[x] = "config_mtime"
  /\ job' = [job EXCEPT ![x].config_mtime = config_mtime]
  /\ Goes(x, "list_mtime")
  /\ UNCHANGED <<files, state, lock, cache, last, flushed>>

UnchangedListOnly(m) == state.loaded /\ state.list_mtime = m.list_mtime

Unchanged(m) ==
  state.loaded /\ state.config_mtime = m.config_mtime /\ state.list_mtime = m.list_mtime

SampleList(x) ==
  /\ pc[x] = "list_mtime"
  /\ job' = [job EXCEPT ![x].list_mtime = list_mtime]
  /\ Goes(x, IF Unchanged([job[x] EXCEPT !.list_mtime = list_mtime]) THEN "loaded"
             ELSE "read_config")
  /\ UNCHANGED <<files, state, lock, cache, last, flushed>>

ReadConfig(x) ==
  /\ pc[x] = "read_config"
  /\ \/ job' = [job EXCEPT ![x].packages = config.packages, ![x].unmount = config.unmount,
                            ![x].read = TRUE]
     \/ ReadFails /\ job' = [job EXCEPT ![x].packages = {}, ![x].unmount = TRUE,
                                         ![x].read = FALSE]
  /\ Goes(x, "read_list")
  /\ UNCHANGED <<files, state, lock, cache, last, flushed>>

\* The modification times as they are once the contents have been read.
StoreStateLate(x, m, app_ids) ==
  state' = [loaded |-> TRUE, config_mtime |-> config_mtime, list_mtime |-> list_mtime,
            app_ids |-> app_ids, packages |-> m.packages, unmount |-> m.unmount, read |-> m.read]

StoreState(x, m, app_ids) ==
  state' = [loaded |-> TRUE, config_mtime |-> m.config_mtime, list_mtime |-> m.list_mtime,
            app_ids |-> app_ids, packages |-> m.packages, unmount |-> m.unmount, read |-> m.read]

ReadList(x) ==
  /\ pc[x] = "read_list"
  /\ \/ StoreState(x, job[x], resolve_app_ids(job[x].packages, list))
     \/ ReadFails /\ StoreState(x, [job[x] EXCEPT !.read = FALSE], {})
  /\ Goes(x, "loaded")
  /\ UNCHANGED <<files, lock, cache, job, last, flushed>>

-----------------------------------------------------------------------------
(* handle_get_process_flags for a root peer; any other peer gets 0 and nothing is cached. *)

Asked(x, a) ==
  /\ pc[x] = "idle" /\ x \in Threads
  /\ job' = [job EXCEPT ![x] = [NoJob EXCEPT !.app = a, !.floor = flushed]]
  /\ Goes(x, "lock")
  /\ UNCHANGED <<files, state, lock, cache, last, flushed>>

\* lookup answers and releases the lock; the flags are written to the stream.
Answer(x) ==
  /\ pc[x] = "loaded" /\ x \in Threads
  /\ lock' = Nobody
  /\ job' = [job EXCEPT ![x].flags = FlagsOf(state.app_ids, state.unmount, job[x].app),
                        ![x].seen = state.config_mtime]
  /\ Goes(x, "cache")
  /\ UNCHANGED <<files, state, cache, last, flushed>>

\* The client has gone: write_u32 fails and nothing is cached.
ReplyFails(x) ==
  /\ pc[x] = "cache"
  /\ job' = [job EXCEPT ![x] = NoJob]
  /\ Goes(x, "idle")
  /\ UNCHANGED <<files, state, lock, cache, last, flushed>>

\* cache_process_flags.
CacheFlags(x) ==
  /\ pc[x] = "cache"
  /\ cache' = [cache EXCEPT ![job[x].app] = job[x].flags]
  /\ job' = [job EXCEPT ![x] = NoJob]
  /\ Goes(x, "idle")
  /\ UNCHANGED <<files, state, lock, last, flushed>>

(* spawn_config_watcher: once a second. *)

PollsOnce ==
  /\ pc[Watcher] = "idle" /\ config_mtime # last /\ last = 0
  /\ last' = config_mtime
  /\ Goes(Watcher, "lock")
  /\ UNCHANGED <<files, state, lock, cache, job, flushed>>

Polls ==
  /\ pc[Watcher] = "idle" /\ config_mtime # last
  /\ last' = config_mtime
  /\ Goes(Watcher, "lock")
  /\ UNCHANGED <<files, state, lock, cache, job, flushed>>

\* refresh returns, then invalidate_process_flag_cache.
Refreshed ==
  /\ pc[Watcher] = "loaded"
  /\ lock' = Nobody
  /\ Goes(Watcher, "flush")
  /\ UNCHANGED <<files, state, cache, job, last, flushed>>

Flush ==
  /\ pc[Watcher] = "flush"
  /\ cache' = [a \in AppIds |-> NoFlags]
  /\ flushed' = last
  /\ job' = [job EXCEPT ![Watcher] = NoJob]
  /\ Goes(Watcher, "idle")
  /\ UNCHANGED <<files, state, lock, last>>

Reload(x) ==
  TakeLock(x) \/ SampleConfig(x) \/ SampleList(x) \/ ReadConfig(x) \/ ReadList(x)
Handler(x) == Reload(x) \/ Answer(x) \/ CacheFlags(x) \/ ReplyFails(x)
WatcherStep == Reload(Watcher) \/ Polls \/ Refreshed \/ Flush

Next ==
  \/ WriteConfig \/ WriteList \/ WatcherStep
  \/ \E x \in Threads : Handler(x) \/ \E a \in AppIds : Asked(x, a)

Spec == Init /\ [][Next]_vars

\* Threads are scheduled, and std's mutex does not starve the watcher: a handler holds it
\* for a few system calls and then works without it.
Fairness == /\ WF_vars(WatcherStep) /\ SF_vars(TakeLock(Watcher))
            /\ \A x \in Threads : WF_vars(Handler(x))
FairSpec == Spec /\ Fairness

-----------------------------------------------------------------------------
Jobs == [app: AppIds \cup {NoApp}, config_mtime: Nat, list_mtime: Nat,
         packages: SUBSET Packages, unmount: BOOLEAN, read: BOOLEAN,
         flags: Flags \cup {NoFlags}, floor: Nat, seen: Nat]

TypeOK ==
  /\ config \in [packages: SUBSET Packages, unmount: BOOLEAN] /\ list \in Lists
  /\ config_mtime \in Nat /\ list_mtime \in Nat
  /\ last \in Nat /\ flushed \in Nat
  /\ state \in [loaded: BOOLEAN, config_mtime: Nat, list_mtime: Nat,
                app_ids: SUBSET AppIds, packages: SUBSET Packages, unmount: BOOLEAN,
                read: BOOLEAN]
  /\ lock \in Actors \cup {Nobody}
  /\ cache \in [AppIds -> Flags \cup {NoFlags}]
  /\ pc \in [Actors -> {"idle", "lock", "config_mtime", "list_mtime", "read_config",
                        "read_list", "loaded", "cache", "flush"}]
  /\ job \in [Actors -> Jobs]

\* exclude.rs reload: a state whose modification times are the files' own was resolved from
\* the files' present contents, whatever was written between the samples and the reads; unless
\* one of them could not be read, which leaves its default until the file changes again.
StateCoherent ==
  state.loaded /\ state.read /\ state.config_mtime = config_mtime /\ state.list_mtime = list_mtime =>
    /\ state.app_ids = resolve_app_ids(config.packages, list)
    /\ state.unmount = config.unmount

\* zygiskd.rs:1113: "Re-read first so a miss right after the flush sees the new list."  What
\* a request that arrived after a flush puts into the cache was found in a configuration at
\* least as new as the one the flush was for.
FreshAfterFlush == \A x \in Threads : pc[x] = "cache" => job[x].seen >= job[x].floor

\* zygiskd.rs:1104: every rewrite of config.prop is noticed and flushed, however busy the
\* handlers keep the lock.
EditFlushed == (last # config_mtime) ~> (flushed = config_mtime)

\* zygiskd.rs:1102: "Flushes the flag cache whenever the WebUI rewrites `config.prop`;
\* otherwise a cached answer would keep serving the old exclusion list until the daemon
\* restarts."  Once the flush for the present config.prop is done, no cached answer is from
\* an older one.
FlushedIsCurrent ==
  flushed = config_mtime /\ pc[Watcher] = "idle" =>
    \A a \in AppIds :
      cache[a] \in {NoFlags,
                    FlagsOf(resolve_app_ids(config.packages, list), config.unmount, a)}
=============================================================================
