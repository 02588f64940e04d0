----------------------------- MODULE WebUiProofs -----------------------------
(***************************************************************************)
(* Proofs about Exclusion and WebUi, for any packages, app ids, contents   *)
(* of the files, handler threads, and any number of edits and taps.        *)
(***************************************************************************)
EXTENDS WebUi, TLAPS

-----------------------------------------------------------------------------
(* The daemon. *)

InReload(x) == pc[x] \in {"config_mtime", "list_mtime", "read_config", "read_list", "loaded"}
Sampled(x) == pc[x] \in {"list_mtime", "read_config", "read_list"}

\* reload runs with the lock held.
LockInv == \A x \in Actors : InReload(x) => lock = x

\* What was sampled, stored and answered is not from the future, and not older than what the
\* state, the watcher and the caller of a handler already knew.
TimeInv ==
  /\ flushed <= last /\ last <= config_mtime
  /\ state.config_mtime <= config_mtime /\ state.list_mtime <= list_mtime
  /\ \A x \in Actors :
       /\ job[x].floor <= flushed
       /\ Sampled(x) => /\ job[x].config_mtime <= config_mtime
                        /\ state.config_mtime <= job[x].config_mtime
                        /\ job[x].floor <= job[x].config_mtime
       /\ pc[x] \in {"read_config", "read_list"} => job[x].list_mtime <= list_mtime
       /\ pc[x] = "loaded" => job[x].floor <= state.config_mtime
       /\ pc[x] = "cache" => job[x].floor <= job[x].seen

\* The contents that were read are those of the sampled time, or the file has changed since.
ReadInv ==
  \A x \in Actors :
    pc[x] = "read_list" /\ job[x].read /\ job[x].config_mtime = config_mtime
      => job[x].packages = config.packages /\ job[x].unmount = config.unmount

\* When the watcher has refreshed the state, it is at least as new as the edit it noticed.
WatchInv ==
  /\ Sampled(Watcher) => last <= job[Watcher].config_mtime
  /\ pc[Watcher] \in {"idle", "loaded", "flush"} => last <= state.config_mtime

DaemonInv == TypeOK /\ LockInv /\ TimeInv /\ ReadInv /\ WatchInv /\ StateCoherent

\* The invariant holds when the daemon starts.
LEMMA DaemonInit == Init => DaemonInv
<1> USE ExclusionAssumption
<1> SUFFICES ASSUME Init PROVE DaemonInv
  OBVIOUS
<1> USE DEF Init, Unloaded, NoJob, Actors
<1>1. TypeOK
  BY Zenon DEF TypeOK, Jobs, Flags
<1>2. LockInv /\ ReadInv
  BY Zenon DEF LockInv, ReadInv, InReload
<1>3. TimeInv /\ WatchInv
  BY DEF TimeInv, WatchInv, Sampled
<1>4. QED
  BY Zenon, <1>1, <1>2, <1>3 DEF DaemonInv, StateCoherent

\* config.prop is rewritten, by whomever.
ConfigWritten ==
  /\ config' \in [packages: SUBSET Packages, unmount: BOOLEAN]
  /\ config_mtime' = config_mtime + 1
  /\ UNCHANGED daemonOnly

\* A configuration write of the page or of the shell.
LEMMA ConfigStep == DaemonInv /\ ConfigWritten => DaemonInv'
<1> USE ExclusionAssumption
<1> SUFFICES ASSUME DaemonInv, ConfigWritten PROVE DaemonInv'
  OBVIOUS
<1> USE DEF ConfigWritten, daemonOnly, DaemonInv
<1>1. TypeOK'
  BY DEF TypeOK, Jobs
<1>2. LockInv' /\ WatchInv'
  BY Zenon DEF LockInv, WatchInv, InReload, Sampled
<1>3. TimeInv'
  BY DEF TimeInv, TypeOK, Jobs, Sampled
<1>4. ReadInv' /\ StateCoherent'
  BY DEF ReadInv, StateCoherent, TimeInv, TypeOK, Jobs, Sampled
<1>5. QED
  BY Zenon, <1>1, <1>2, <1>3, <1>4

\* A write of the exclusion list.
LEMMA ListStep == DaemonInv /\ WriteList => DaemonInv'
<1> USE ExclusionAssumption
<1> SUFFICES ASSUME DaemonInv, WriteList PROVE DaemonInv'
  OBVIOUS
<1> USE DEF WriteList, DaemonInv
<1>1. TypeOK'
  BY DEF TypeOK, Jobs
<1>2. LockInv' /\ WatchInv' /\ ReadInv'
  BY Zenon DEF LockInv, WatchInv, ReadInv, InReload, Sampled
<1>3. TimeInv' /\ StateCoherent'
  BY DEF TimeInv, StateCoherent, TypeOK, Jobs, Sampled
<1>4. QED
  BY Zenon, <1>1, <1>2, <1>3

\* Jobs stay jobs when a field is assigned.
LEMMA JobUpdates ==
  ASSUME NEW m \in Jobs
  PROVE  /\ \A ps \in SUBSET Packages : [m EXCEPT !.packages = ps] \in Jobs
         /\ \A b \in BOOLEAN : [m EXCEPT !.unmount = b] \in Jobs
         /\ \A b \in BOOLEAN : [m EXCEPT !.read = b] \in Jobs
         /\ \A f \in Flags : [m EXCEPT !.flags = f] \in Jobs
         /\ \A k \in Nat : [m EXCEPT !.seen = k] \in Jobs
  BY Zenon DEF Jobs

\* reload, step by step: the actor that holds the lock is the only one inside.
LEMMA ReloadStep == ASSUME NEW x \in Actors PROVE DaemonInv /\ Reload(x) => DaemonInv'
<1> USE ExclusionAssumption
<1> SUFFICES ASSUME DaemonInv, Reload(x) PROVE DaemonInv'
  OBVIOUS
<1> USE DEF DaemonInv, Goes, files
<1>1. CASE TakeLock(x)
  <2> USE <1>1 DEF TakeLock
  <2>1. TypeOK'
    BY Zenon DEF TypeOK, Jobs
  <2>2. LockInv' /\ ReadInv'
    BY Zenon DEF LockInv, ReadInv, InReload, TypeOK, Jobs
  <2>3. TimeInv' /\ WatchInv'
    BY DEF TimeInv, WatchInv, Sampled, TypeOK, Jobs
  <2>4. QED
    BY Zenon, <2>1, <2>2, <2>3 DEF StateCoherent
<1>2. CASE SampleConfig(x)
  <2> USE <1>2 DEF SampleConfig
  <2>1. TypeOK'
    BY SMTT(30) DEF TypeOK, Jobs
  <2>2. LockInv' /\ ReadInv'
    BY Zenon DEF LockInv, ReadInv, InReload, TypeOK, Jobs
  <2>3. TimeInv' /\ WatchInv'
    BY DEF TimeInv, WatchInv, Sampled, TypeOK, Jobs
  <2>4. QED
    BY Zenon, <2>1, <2>2, <2>3 DEF StateCoherent
<1>3. CASE SampleList(x)
  <2> USE <1>3 DEF SampleList
  <2>1. TypeOK'
    BY SMTT(30) DEF TypeOK, Jobs
  <2>2. LockInv' /\ ReadInv'
    BY Zenon DEF LockInv, ReadInv, InReload, TypeOK, Jobs
  <2>3. TimeInv' /\ WatchInv'
    BY DEF TimeInv, WatchInv, Sampled, TypeOK, Jobs, Unchanged
  <2>4. QED
    BY Zenon, <2>1, <2>2, <2>3 DEF StateCoherent
<1>4. CASE ReadConfig(x)
  <2>1. PICK m \in Jobs :
          /\ job' = [job EXCEPT ![x] = m]
          /\ m.floor = job[x].floor /\ m.config_mtime = job[x].config_mtime
          /\ m.list_mtime = job[x].list_mtime
          /\ m.read => m.packages = config.packages /\ m.unmount = config.unmount
    <3>1. ASSUME NEW ps \in SUBSET Packages, NEW u \in BOOLEAN, NEW r \in BOOLEAN
          PROVE  [job[x] EXCEPT !.packages = ps, !.unmount = u, !.read = r] \in Jobs
      BY JobUpdates, Zenon DEF TypeOK
    <3>2. CASE job' = [job EXCEPT ![x].packages = config.packages, ![x].unmount = config.unmount,
                                  ![x].read = TRUE]
      <4> DEFINE n == [job[x] EXCEPT !.packages = config.packages, !.unmount = config.unmount,
                                     !.read = TRUE]
      <4>1. n \in Jobs
        BY <3>1, Zenon DEF TypeOK, Jobs
      <4>2. job' = [job EXCEPT ![x] = n]
        BY <3>2, Zenon DEF TypeOK, Jobs
      <4>3. QED
        BY <4>1, <4>2, Zenon DEF TypeOK, Jobs
    <3>3. CASE job' = [job EXCEPT ![x].packages = {}, ![x].unmount = TRUE, ![x].read = FALSE]
      <4> DEFINE n == [job[x] EXCEPT !.packages = {}, !.unmount = TRUE, !.read = FALSE]
      <4>1. n \in Jobs
        BY <3>1, Zenon
      <4>2. job' = [job EXCEPT ![x] = n]
        BY <3>3, Zenon DEF TypeOK, Jobs
      <4>3. QED
        BY <4>1, <4>2, Zenon DEF TypeOK, Jobs
    <3>4. QED
      BY <1>4, <3>2, <3>3, Zenon DEF ReadConfig
  <2>2. pc[x] = "read_config" /\ pc' = [pc EXCEPT ![x] = "read_list"]
        /\ UNCHANGED <<files, state, lock, cache, last, flushed>>
    BY Zenon, <1>4 DEF ReadConfig
  <2>3. TypeOK'
    BY Zenon, <2>1, <2>2 DEF TypeOK, Jobs
  <2>4. LockInv' /\ ReadInv'
    BY Zenon, <2>1, <2>2 DEF LockInv, ReadInv, InReload, TypeOK, Jobs
  <2>5. TimeInv' /\ WatchInv'
    BY <2>1, <2>2 DEF TimeInv, WatchInv, Sampled, TypeOK, Jobs
  <2>6. QED
    BY Zenon, <2>2, <2>3, <2>4, <2>5 DEF StateCoherent
<1>5. CASE ReadList(x)
  <2> USE <1>5 DEF ReadList
  <2>1. /\ state'.loaded /\ state'.config_mtime = job[x].config_mtime
        /\ state'.list_mtime = job[x].list_mtime /\ state'.unmount = job[x].unmount
        /\ state'.read => /\ job[x].read
                          /\ state'.app_ids = resolve_app_ids(job[x].packages, list)
    BY DEF StoreState, TypeOK, Jobs
  <2>2. TypeOK'
    <3>1. resolve_app_ids(job[x].packages, list) \subseteq AppIds
      BY Zenon DEF resolve_app_ids
    <3>2. CASE StoreState(x, job[x], resolve_app_ids(job[x].packages, list))
      BY Zenon, <3>1, <3>2 DEF StoreState, TypeOK, Jobs
    <3>3. CASE StoreState(x, [job[x] EXCEPT !.read = FALSE], {})
      BY <3>3 DEF StoreState, TypeOK, Jobs
    <3>4. QED
      BY Zenon, <3>2, <3>3
  <2>3. LockInv' /\ ReadInv'
    BY Zenon DEF LockInv, ReadInv, InReload, TypeOK, Jobs
  <2>4. TimeInv' /\ WatchInv'
    BY <2>1 DEF TimeInv, WatchInv, Sampled, TypeOK, Jobs, LockInv, InReload
  <2>5. StateCoherent'
    BY <2>1, Zenon DEF StateCoherent, ReadInv, TypeOK, Jobs
  <2>6. QED
    BY Zenon, <2>2, <2>3, <2>4, <2>5
<1>6. QED
  BY Zenon, <1>1, <1>2, <1>3, <1>4, <1>5 DEF Reload

\* A handler is asked for the flags of an app id.
LEMMA AskedStep ==
  ASSUME NEW x \in Threads, NEW a \in AppIds
  PROVE  DaemonInv /\ Asked(x, a) => DaemonInv'
<1> USE ExclusionAssumption
<1> SUFFICES ASSUME DaemonInv, Asked(x, a) PROVE DaemonInv'
  OBVIOUS
<1> USE DEF DaemonInv, Goes, files, NoJob, Asked
<1> x \in Actors /\ x # Watcher
  BY Zenon DEF Actors
<1>1. TypeOK'
  BY Zenon DEF TypeOK, Jobs
<1>2. LockInv' /\ ReadInv' /\ StateCoherent'
  BY Zenon DEF LockInv, ReadInv, InReload, TypeOK, Jobs, StateCoherent
<1>3. TimeInv'
  BY DEF TimeInv, Sampled, TypeOK, Jobs
<1>4. WatchInv'
  BY DEF WatchInv, Sampled, TypeOK, Jobs
<1>5. QED
  BY Zenon, <1>1, <1>2, <1>3, <1>4

\* A handler outside reload.
LEMMA HandlerStep ==
  ASSUME NEW x \in Threads, DaemonInv,
         Answer(x) \/ CacheFlags(x) \/ ReplyFails(x)
  PROVE  DaemonInv'
<1> USE ExclusionAssumption
<1> USE DEF DaemonInv, Goes, files, NoJob
<1> x \in Actors /\ x # Watcher
  BY Zenon DEF Actors
<1>1. CASE Answer(x)
  <2>1. PICK m \in Jobs : /\ job' = [job EXCEPT ![x] = m]
                          /\ m.floor = job[x].floor /\ m.seen = state.config_mtime
    <3> DEFINE n == [job[x] EXCEPT !.flags = FlagsOf(state.app_ids, state.unmount, job[x].app),
                                   !.seen = state.config_mtime]
    <3>1. FlagsOf(state.app_ids, state.unmount, job[x].app) \in Flags
      BY Zenon DEF FlagsOf, Flags
    <3>2. n \in Jobs
      BY <3>1, JobUpdates, Zenon DEF TypeOK
    <3>3. job' = [job EXCEPT ![x] = n]
      BY <1>1, Zenon DEF Answer, TypeOK, Jobs
    <3>4. QED
      BY <3>2, <3>3, Zenon DEF TypeOK, Jobs
  <2>2. pc[x] = "loaded" /\ lock' = Nobody /\ pc' = [pc EXCEPT ![x] = "cache"]
        /\ UNCHANGED <<files, state, cache, last, flushed>>
    BY Zenon, <1>1 DEF Answer
  <2>3. TypeOK'
    BY Zenon, <2>1, <2>2 DEF TypeOK, Jobs
  <2>4. LockInv' /\ ReadInv' /\ StateCoherent'
    BY <2>1, <2>2, SMTT(30) DEF LockInv, ReadInv, InReload, TypeOK, Jobs, StateCoherent
  <2>5. TimeInv' /\ WatchInv'
    BY Zenon, <2>1, <2>2 DEF TimeInv, WatchInv, Sampled, TypeOK, Jobs, Actors
  <2>6. QED
    BY Zenon, <2>3, <2>4, <2>5
<1>2. CASE CacheFlags(x) \/ ReplyFails(x)
  <2>1. pc[x] = "cache" /\ pc' = [pc EXCEPT ![x] = "idle"] /\ job' = [job EXCEPT ![x] = NoJob]
        /\ UNCHANGED <<files, state, lock, last, flushed>>
    BY Zenon, <1>2 DEF CacheFlags, ReplyFails
  <2>2. cache' \in [AppIds -> Flags \cup {NoFlags}]
    BY <1>2, SMTT(30) DEF CacheFlags, ReplyFails, TypeOK, Jobs
  <2>3. TypeOK'
    BY Zenon, <2>1, <2>2 DEF TypeOK, Jobs
  <2>4. LockInv' /\ ReadInv' /\ StateCoherent'
    BY <2>1, ZenonT(60) DEF LockInv, ReadInv, InReload, TypeOK, Jobs, StateCoherent
  <2>5. TimeInv' /\ WatchInv'
    BY <2>1 DEF TimeInv, WatchInv, Sampled, TypeOK, Jobs
  <2>6. QED
    BY Zenon, <2>3, <2>4, <2>5
<1>3. QED
  BY Zenon, <1>1, <1>2

\* The watcher outside reload.
LEMMA WatcherRest == DaemonInv /\ (Polls \/ Refreshed \/ Flush) => DaemonInv'
<1> USE ExclusionAssumption
<1> SUFFICES ASSUME DaemonInv, Polls \/ Refreshed \/ Flush PROVE DaemonInv'
  OBVIOUS
<1> USE DEF DaemonInv, Goes, files, NoJob
<1> Watcher \in Actors
  BY Zenon DEF Actors
<1>1. CASE Polls
  <2> USE <1>1 DEF Polls
  <2>1. TypeOK' /\ LockInv' /\ ReadInv' /\ StateCoherent'
    BY Zenon DEF LockInv, ReadInv, InReload, TypeOK, Jobs, StateCoherent
  <2>2. TimeInv' /\ WatchInv'
    BY DEF TimeInv, WatchInv, Sampled, TypeOK, Jobs
  <2>3. QED
    BY Zenon, <2>1, <2>2
<1>2. CASE Refreshed
  <2> USE <1>2 DEF Refreshed
  <2>1. TypeOK' /\ LockInv' /\ ReadInv' /\ StateCoherent'
    BY Zenon DEF LockInv, ReadInv, InReload, TypeOK, Jobs, StateCoherent
  <2>2. TimeInv' /\ WatchInv'
    BY Zenon DEF TimeInv, WatchInv, Sampled, TypeOK, Jobs
  <2>3. QED
    BY Zenon, <2>1, <2>2
<1>3. CASE Flush
  <2> USE <1>3 DEF Flush
  <2>1. TypeOK' /\ LockInv' /\ ReadInv' /\ StateCoherent'
    BY Zenon DEF LockInv, ReadInv, InReload, TypeOK, Jobs, StateCoherent
  <2>2. TimeInv' /\ WatchInv'
    BY DEF TimeInv, WatchInv, Sampled, TypeOK, Jobs
  <2>3. QED
    BY Zenon, <2>1, <2>2
<1>4. QED
  BY Zenon, <1>1, <1>2, <1>3

-----------------------------------------------------------------------------
(* The page. *)

\* The packages of an app id that only user packages share are in s together.
Uniform(s) ==
  \A x, y \in Packages :
    /\ list[x] = list[y] /\ list[x] \in AppIds
    /\ \A z \in Packages : list[z] = list[x] => z \in UserPackages
    => (x \in s <=> y \in s)

Pending(key) == \E k \in DOMAIN ui.queue : ui.queue[k].key = key
\* The exclusion list is being written, and no later write of it is queued.
LastList ==
  /\ ui.running.at # "rest" /\ ui.queue[1].key = "exclude_apps"
  /\ \A k \in DOMAIN ui.queue : k > 1 => ui.queue[k].key # "exclude_apps"

\* One write is under way while any is queued, and a switch has at most one.
QueueInv ==
  /\ ui.running.at = "rest" <=> ui.queue = <<>>
  /\ \A j, k \in DOMAIN ui.queue :
       ui.queue[j].key = "exclude_unmount" /\ ui.queue[k].key = "exclude_unmount" => j = k

\* The list of packages does not change, and packages that share an app id stay together.
GroupInv ==
  /\ list_mtime = 0 /\ ui.list \in {<<>>, list} /\ (ui.apps = "ready" => ui.list = list)
  /\ Uniform(config.packages) /\ Uniform(ui.excluded) /\ Uniform(ui.saved)
  /\ Uniform(ui.running.packages)

\* What a refresh read is what config.prop still holds, unless a write was chained since.
RefreshInv ==
  LET r == ui.refresh IN
    /\ r.before <= ui.queued
    /\ r.at = "wait" => r.before = ui.queued
    /\ r.at \in {"read", "apply"} /\ (~ui.initial \/ r.before = ui.queued) =>
         r.before = ui.queued /\ ui.queue = <<>>
    /\ r.at = "apply" => r.config \in Contents
    /\ r.at = "apply" /\ r.before = ui.queued => r.config = config
    /\ r.at = "apps" \/ ui.apps = "ready" => ui.initial

\* Once a snapshot was applied: savedExcluded is what config.prop holds, but for the write
\* that has just ended; excludedApps differs from it only while a write of it is queued.
ShownInv ==
  ui.initial =>
    /\ config.packages = IF ui.running.at = "ok" /\ ui.queue[1].key = "exclude_apps"
                         THEN ui.running.packages ELSE ui.saved
    /\ ~Pending("exclude_apps") => ui.excluded \cap UserPackages = ui.saved \cap UserPackages
    /\ LastList => ui.running.packages = ui.excluded \cap UserPackages

\* Likewise for the switch.
SwitchInv ==
  ui.initial =>
    /\ ~Pending("exclude_unmount") => ui.unmount = config.unmount
    /\ \A k \in DOMAIN ui.queue : ui.queue[k].key = "exclude_unmount" =>
         /\ ui.unmount = ui.queue[k].enabled
         /\ config.unmount = IF k = 1 /\ ui.running.at = "ok" THEN ui.unmount ELSE ~ui.unmount

\* Without the page nothing of it moves.
PageInv ==
  /\ ~ui.on => ui.running.at = "rest" /\ ui.refresh.at = "idle"
  /\ ui.on => QueueInv /\ GroupInv /\ RefreshInv /\ ShownInv /\ SwitchInv
UiInv == DaemonInv /\ ui \in Pages /\ PageInv

\* A page stays a page when a field is assigned.
LEMMA PageUpdates ==
  ASSUME NEW u \in Pages
  PROVE  /\ \A s \in SUBSET Packages : [u EXCEPT !.excluded = s] \in Pages
         /\ \A s \in SUBSET Packages : [u EXCEPT !.saved = s] \in Pages
         /\ \A b \in BOOLEAN : [u EXCEPT !.unmount = b] \in Pages
         /\ \A a \in {"loading", "ready", "failed"} : [u EXCEPT !.apps = a] \in Pages
         /\ \A l \in Lists \cup {<<>>} : [u EXCEPT !.list = l] \in Pages
         /\ \A q \in Seq(Writes) : [u EXCEPT !.queue = q] \in Pages
         /\ \A r \in Runs : [u EXCEPT !.running = r] \in Pages
         /\ \A n \in Nat : [u EXCEPT !.queued = n] \in Pages
         /\ \A r \in Refreshes : [u EXCEPT !.refresh = r] \in Pages
         /\ \A b \in BOOLEAN : [u EXCEPT !.initial = b] \in Pages
         /\ \A b \in BOOLEAN : [u EXCEPT !.opened = b] \in Pages
  BY Zenon DEF Pages

\* What the operators of the page make of it, field by field.
LEMMA StartsFacts ==
  ASSUME NEW u \in Pages
  PROVE  /\ Starts(u) \in Pages
         /\ Starts(u).running =
              IF u.queue = <<>> \/ u.running.at # "rest" THEN u.running
              ELSE [at |-> "start", packages |-> u.excluded \cap UserPackages]
         /\ Starts(u).on = u.on /\ Starts(u).excluded = u.excluded /\ Starts(u).saved = u.saved
         /\ Starts(u).unmount = u.unmount /\ Starts(u).apps = u.apps /\ Starts(u).list = u.list
         /\ Starts(u).queue = u.queue /\ Starts(u).queued = u.queued
         /\ Starts(u).refresh = u.refresh /\ Starts(u).initial = u.initial
         /\ Starts(u).opened = u.opened
<1>1. CASE u.queue = <<>> \/ u.running.at # "rest"
  BY Zenon, <1>1 DEF Starts
<1>2. CASE ~(u.queue = <<>> \/ u.running.at # "rest")
  <2> DEFINE r == [at |-> "start", packages |-> u.excluded \cap UserPackages]
  <2>1. r \in Runs
    BY Zenon DEF Runs, Pages
  <2>2. Starts(u) = [u EXCEPT !.running = r]
    BY Zenon, <1>2 DEF Starts, Written
  <2> HIDE DEF r
  <2>3. [u EXCEPT !.running = r] \in Pages
    BY <2>1, PageUpdates, Zenon
  <2>4. QED
    BY <1>2, <2>2, <2>3, Zenon DEF Pages, r
<1>3. QED
  BY Zenon, <1>1, <1>2

\* queueConfigWrite appends a write, and starts it if none runs.
LEMMA QueueFacts ==
  ASSUME NEW u \in Pages, NEW key \in {"exclude_apps", "exclude_unmount"}, NEW b \in BOOLEAN,
         NEW v, v = queueConfigWrite(u, key, b)
  PROVE  /\ v \in Pages
         /\ v.queue = Append(u.queue, [key |-> key, enabled |-> b]) /\ v.queued = u.queued + 1
         /\ v.running = IF u.running.at # "rest" THEN u.running
                        ELSE [at |-> "start", packages |-> u.excluded \cap UserPackages]
         /\ v.on = u.on /\ v.excluded = u.excluded /\ v.saved = u.saved /\ v.unmount = u.unmount
         /\ v.apps = u.apps /\ v.list = u.list /\ v.refresh = u.refresh
         /\ v.initial = u.initial /\ v.opened = u.opened
<1> DEFINE w == [key |-> key, enabled |-> b]
           a == [u EXCEPT !.queue = Append(@, w), !.queued = @ + 1]
<1>1. w \in Writes
  BY Zenon DEF Writes
<1>2. u.queue \in Seq(Writes) /\ u.queued \in Nat
  BY Zenon DEF Pages
<1> HIDE DEF w
<1>3. Append(u.queue, w) \in Seq(Writes) /\ Append(u.queue, w) # <<>>
  BY <1>1, <1>2
<1>4. [u EXCEPT !.queue = Append(@, w)] \in Pages
  BY <1>3, PageUpdates, Zenon
<1>5. a \in Pages
  <2> DEFINE c == [u EXCEPT !.queue = Append(@, w)]
  <2>1. a = [c EXCEPT !.queued = u.queued + 1]
    BY Zenon DEF Pages
  <2>2. c \in Pages
    BY Zenon, <1>4
  <2>3. u.queued + 1 \in Nat
    BY <1>2
  <2> HIDE DEF c, a
  <2>4. QED
    BY <2>1, <2>2, <2>3, PageUpdates, Zenon
<1>6. /\ a.queue = Append(u.queue, w) /\ a.queued = u.queued + 1
      /\ a.running = u.running
      /\ a.on = u.on /\ a.excluded = u.excluded /\ a.saved = u.saved /\ a.unmount = u.unmount
      /\ a.apps = u.apps /\ a.list = u.list /\ a.refresh = u.refresh
      /\ a.initial = u.initial /\ a.opened = u.opened
  BY Zenon DEF Pages
<1>7. v = Starts(a)
  BY Zenon DEF queueConfigWrite, w
<1> HIDE DEF a
<1>8. QED
  BY <1>3, <1>5, <1>6, <1>7, StartsFacts DEF w

\* Steps of the page that leave config.prop alone leave the daemon alone.
LEMMA DaemonStutter == DaemonInv /\ UNCHANGED vars => DaemonInv'
  BY SMTT(30) DEF DaemonInv, vars, files, TypeOK, LockInv, TimeInv, ReadInv, WatchInv, StateCoherent,
         InReload, Sampled, resolve_app_ids

\* A tap on an app, at a moment the page handles.
LEMMA ToggleStep ==
  ASSUME ~Hasty, NEW p \in UserPackages, UiInv, toggleApp(p)
  PROVE  UiInv'
<1>1. /\ ui \in Pages /\ DaemonInv /\ QueueInv /\ GroupInv /\ RefreshInv /\ ShownInv /\ SwitchInv
      /\ ui.on /\ ui.apps = "ready" /\ ui.list = list /\ ui.initial /\ ui.refresh.at # "wait"
      /\ ~isLocked(p) /\ UNCHANGED vars
  BY Zenon DEF UiInv, PageInv, toggleApp, MayTap, Hasty, GroupInv, RefreshInv, PageOnly
<1> DEFINE s == IF p \in ui.excluded THEN ui.excluded \ Group(p) ELSE ui.excluded \cup Group(p)
           u == [ui EXCEPT !.excluded = s]
<1>2. p \in Packages /\ Group(p) \subseteq Packages
  BY Zenon, WebUiAssumption DEF Group
<1>3. s \in SUBSET Packages
  BY Zenon, <1>1, <1>2 DEF Pages
<1>4. Uniform(s)
  BY Zenon, <1>1, <1>2 DEF GroupInv, Uniform, Group
<1>5. ui' = queueConfigWrite(u, "exclude_apps", TRUE)
  BY Zenon DEF toggleApp
<1> HIDE DEF s
<1>6. u \in Pages
  BY <1>1, <1>3, PageUpdates, Zenon
<1>7. /\ u.queue = ui.queue /\ u.queued = ui.queued /\ u.running = ui.running
      /\ u.on = ui.on /\ u.excluded = s /\ u.saved = ui.saved /\ u.unmount = ui.unmount
      /\ u.apps = ui.apps /\ u.list = ui.list /\ u.refresh = ui.refresh
      /\ u.initial = ui.initial /\ u.opened = ui.opened
  BY <1>1, Zenon DEF Pages
<1> HIDE DEF u
<1>8. /\ ui' \in Pages
      /\ ui'.queue = Append(ui.queue, [key |-> "exclude_apps", enabled |-> TRUE])
      /\ ui'.queued = ui.queued + 1
      /\ ui'.running = IF ui.running.at # "rest" THEN ui.running
                       ELSE [at |-> "start", packages |-> s \cap UserPackages]
      /\ ui'.on /\ ui'.excluded = s /\ ui'.saved = ui.saved /\ ui'.unmount = ui.unmount
      /\ ui'.apps = ui.apps /\ ui'.list = ui.list /\ ui'.refresh = ui.refresh /\ ui'.initial
  <2>1. PICK b \in BOOLEAN : b = TRUE
    BY Zenon
  <2>2. /\ ui' \in Pages
        /\ ui'.queue = Append(u.queue, [key |-> "exclude_apps", enabled |-> b])
        /\ ui'.queued = u.queued + 1
        /\ ui'.running = IF u.running.at # "rest" THEN u.running
                         ELSE [at |-> "start", packages |-> u.excluded \cap UserPackages]
        /\ ui'.on = u.on /\ ui'.excluded = u.excluded /\ ui'.saved = u.saved
        /\ ui'.unmount = u.unmount /\ ui'.apps = u.apps /\ ui'.list = u.list
        /\ ui'.refresh = u.refresh /\ ui'.initial = u.initial
    <3>1. ui' = queueConfigWrite(u, "exclude_apps", b)
      BY Zenon, <1>5, <2>1
    <3>2. QED
      BY ONLY <1>6, <3>1, b \in BOOLEAN, QueueFacts
  <2>3. QED
    BY Zenon, <1>1, <1>7, <2>1, <2>2
<1>9. PICK q \in Seq(Writes) : q = ui.queue
  BY Zenon, <1>1 DEF Pages
<1>10. /\ ui'.queue # <<>> /\ DOMAIN ui'.queue = 1 .. Len(q) + 1 /\ DOMAIN q = 1 .. Len(q)
       /\ Len(q) \in Nat
       /\ \A k \in 1 .. Len(q) : ui'.queue[k] = q[k]
       /\ ui'.queue[Len(q) + 1] = [key |-> "exclude_apps", enabled |-> TRUE]
  BY <1>8, <1>9, SMTT(30)
<1>11. QueueInv'
  BY <1>1, <1>8, <1>9, <1>10, SMTT(30) DEF QueueInv
<1>12. GroupInv'
  BY <1>1, <1>4, <1>8, SMTT(30) DEF GroupInv, Uniform, vars, files
<1>13. RefreshInv'
  BY <1>1, <1>8, SMTT(30) DEF RefreshInv, vars, files, Pages, Refreshes
<1>14. ShownInv'
  <2>1. Pending("exclude_apps")'
    BY <1>8, <1>9, <1>10, SMTT(30) DEF Pending
  <2>2. CASE q = <<>>
    BY <1>1, <1>8, <1>9, <1>10, <2>1, <2>2, SMTT(30) DEF ShownInv, QueueInv, LastList, vars, files
  <2>3. CASE q # <<>>
    <3>1. Len(q) >= 1
      BY <2>3
    <3>2. ~LastList' /\ ui'.queue[1] = q[1]
      BY <3>1, <1>10 DEF LastList
    <3>3. QED
      BY Zenon, <1>1, <1>8, <1>9, <2>1, <2>3, <3>2 DEF ShownInv, QueueInv, vars, files
  <2>4. QED
    BY Zenon, <2>2, <2>3
<1>15. SwitchInv'
  <2>1. config' = config /\ ui'.unmount = ui.unmount /\ "exclude_apps" # "exclude_unmount"
    BY Zenon, <1>1, <1>8 DEF vars, files
  <2>2. \A k \in DOMAIN ui'.queue : ui'.queue[k].key = "exclude_unmount" =>
          k \in DOMAIN ui.queue /\ ui'.queue[k] = ui.queue[k]
    BY <1>9, <1>10, SMTT(30)
  <2>3. ui.queue # <<>> => ui'.running = ui.running
    BY Zenon, <1>1, <1>8 DEF QueueInv
  <2>4. Pending("exclude_unmount") => Pending("exclude_unmount")'
    BY <1>9, <1>10, SMTT(30) DEF Pending
  <2>5. QED
    BY <1>1, <2>1, <2>2, <2>3, <2>4, SMTT(30) DEF SwitchInv
<1>16. QED
  BY Zenon, <1>1, <1>8, <1>11, <1>12, <1>13, <1>14, <1>15, DaemonStutter DEF UiInv, PageInv

\* A tap on the switch, at a moment the page handles.
LEMMA SwitchStep ==
  ASSUME ~Hasty, UiInv, saveToggle
  PROVE  UiInv'
<1>1. /\ ui \in Pages /\ DaemonInv /\ QueueInv /\ GroupInv /\ RefreshInv /\ ShownInv /\ SwitchInv
      /\ ui.on /\ ui.refresh.at # "wait" /\ (ui.initial \/ ui.refresh.at = "idle")
      /\ ~Pending("exclude_unmount") /\ UNCHANGED vars
  BY Zenon DEF UiInv, PageInv, saveToggle, MayTap, Hasty, PageOnly, Pending
<1>2. PICK b \in BOOLEAN : b = ~ui.unmount
  BY Zenon
<1> DEFINE u == [ui EXCEPT !.unmount = b]
<1>3. ui' = queueConfigWrite(u, "exclude_unmount", b)
  BY <1>2, Zenon DEF saveToggle
<1>4. u \in Pages
  BY <1>1, PageUpdates, Zenon
<1>5. /\ u.queue = ui.queue /\ u.queued = ui.queued /\ u.running = ui.running
      /\ u.on = ui.on /\ u.excluded = ui.excluded /\ u.saved = ui.saved /\ u.unmount = b
      /\ u.apps = ui.apps /\ u.list = ui.list /\ u.refresh = ui.refresh
      /\ u.initial = ui.initial /\ u.opened = ui.opened
  BY <1>1, Zenon DEF Pages
<1> HIDE DEF u
<1>6. /\ ui' \in Pages
      /\ ui'.queue = Append(ui.queue, [key |-> "exclude_unmount", enabled |-> b])
      /\ ui'.queued = ui.queued + 1
      /\ ui'.running = IF ui.running.at # "rest" THEN ui.running
                       ELSE [at |-> "start", packages |-> ui.excluded \cap UserPackages]
      /\ ui'.on = ui.on /\ ui'.excluded = ui.excluded /\ ui'.saved = ui.saved
      /\ ui'.unmount = b /\ ui'.apps = ui.apps /\ ui'.list = ui.list
      /\ ui'.refresh = ui.refresh /\ ui'.initial = ui.initial
  <2>1. /\ ui' \in Pages
        /\ ui'.queue = Append(u.queue, [key |-> "exclude_unmount", enabled |-> b])
        /\ ui'.queued = u.queued + 1
        /\ ui'.running = IF u.running.at # "rest" THEN u.running
                         ELSE [at |-> "start", packages |-> u.excluded \cap UserPackages]
        /\ ui'.on = u.on /\ ui'.excluded = u.excluded /\ ui'.saved = u.saved
        /\ ui'.unmount = u.unmount /\ ui'.apps = u.apps /\ ui'.list = u.list
        /\ ui'.refresh = u.refresh /\ ui'.initial = u.initial
    BY ONLY <1>3, <1>4, b \in BOOLEAN, QueueFacts
  <2>2. QED
    BY Zenon, <1>5, <2>1
<1>7. PICK q \in Seq(Writes) : q = ui.queue
  BY Zenon, <1>1 DEF Pages
<1>8. /\ ui'.queue # <<>> /\ DOMAIN ui'.queue = 1 .. Len(q) + 1 /\ DOMAIN q = 1 .. Len(q)
      /\ Len(q) \in Nat /\ (q = <<>> <=> Len(q) = 0)
      /\ \A k \in 1 .. Len(q) : ui'.queue[k] = q[k]
      /\ ui'.queue[Len(q) + 1] = [key |-> "exclude_unmount", enabled |-> b]
  BY <1>6, <1>7, SMTT(30)
<1>9. "exclude_unmount" # "exclude_apps" /\ config' = config /\ list' = list
      /\ list_mtime' = list_mtime
  BY Zenon, <1>1 DEF vars, files
<1>10. QueueInv'
  BY <1>1, <1>6, <1>7, <1>8, SMTT(30) DEF QueueInv, Pending
<1>11. GroupInv'
  BY <1>1, <1>6, <1>9, SMTT(30) DEF GroupInv, Uniform
<1>12. RefreshInv'
  BY <1>1, <1>6, <1>9, SMTT(30) DEF RefreshInv, Pages, Refreshes
<1>13. ShownInv'
  <2>1. Pending("exclude_apps")' <=> Pending("exclude_apps")
    <3>1. ASSUME NEW k \in 1 .. Len(q) + 1, ui'.queue[k].key = "exclude_apps"
          PROVE  k \in 1 .. Len(q) /\ q[k].key = "exclude_apps"
      BY <3>1, <1>8, <1>9, SMTT(30)
    <3>2. ASSUME NEW k \in 1 .. Len(q), q[k].key = "exclude_apps"
          PROVE  k \in 1 .. Len(q) + 1 /\ ui'.queue[k].key = "exclude_apps"
      BY <3>2, <1>8, SMTT(30)
    <3>3. QED
      BY Zenon, <1>7, <1>8, <3>1, <3>2 DEF Pending
  <2>2. CASE q = <<>>
    <3>1. ~LastList' /\ ui'.queue[1].key # "exclude_apps"
      BY <2>2, <1>8, <1>9 DEF LastList
    <3>2. ui.running.at = "rest"
      BY Zenon, <1>1, <1>7, <2>2 DEF QueueInv
    <3>3. QED
      BY Zenon, <1>1, <1>6, <1>9, <2>1, <3>1, <3>2 DEF ShownInv
  <2>3. CASE q # <<>>
    <3>1. ui'.running = ui.running /\ ui'.queue[1] = ui.queue[1]
      BY <1>1, <1>6, <1>7, <1>8, <2>3, SMTT(30) DEF QueueInv
    <3>2. LastList' => LastList
      BY <1>7, <1>8, <2>3, <3>1, SMTT(30) DEF LastList
    <3>3. QED
      BY Zenon, <1>1, <1>6, <1>9, <2>1, <3>1, <3>2 DEF ShownInv
  <2>4. QED
    BY Zenon, <2>2, <2>3
<1>14. SwitchInv'
  <2>1. Pending("exclude_unmount")'
    BY <1>8 DEF Pending
  <2>2. \A k \in DOMAIN ui'.queue : ui'.queue[k].key = "exclude_unmount" =>
          k = Len(q) + 1 /\ ui'.queue[k].enabled = b
    BY <1>1, <1>7, <1>8, SMTT(30) DEF Pending
  <2>3. Len(q) + 1 = 1 => ui'.running.at # "ok"
    BY <1>1, <1>6, <1>7, <1>8, SMTT(30) DEF QueueInv
  <2>4. ui.initial => config.unmount = ui.unmount
    BY Zenon, <1>1 DEF SwitchInv
  <2>5. ui.initial => config.unmount = ~b
    BY <1>1, <1>2, <2>4, Zenon DEF Pages
  <2>6. QED
    BY Zenon, <1>6, <1>9, <2>1, <2>2, <2>3, <2>5 DEF SwitchInv
<1>15. QED
  BY Zenon, <1>1, <1>6, <1>10, <1>11, <1>12, <1>13, <1>14, DaemonStutter DEF UiInv, PageInv

\* The result of a write is taken, and the write leaves the chain.
Ended(u) == [Settled(u) EXCEPT !.queue = Tail(@), !.running = Resting]

\* A write that ends leaves the queue, and a failed one is rolled back.
LEMMA SettledFacts ==
  ASSUME NEW u \in Pages, u.queue # <<>>, NEW done,
         done = Ended(u)
  PROVE  /\ done \in Pages /\ done.queue = Tail(u.queue) /\ done.running = Resting
         /\ done.saved = IF u.running.at = "ok" /\ u.queue[1].key = "exclude_apps"
                         THEN u.running.packages ELSE u.saved
         /\ done.excluded = IF u.running.at # "ok" /\ u.queue[1].key = "exclude_apps"
                            THEN u.saved ELSE u.excluded
         /\ u.running.at # "ok" /\ u.queue[1].key = "exclude_unmount"
              => done.unmount = ~u.queue[1].enabled
         /\ u.running.at = "ok" \/ u.queue[1].key = "exclude_apps" => done.unmount = u.unmount
         /\ done.on = u.on /\ done.apps = u.apps /\ done.list = u.list /\ done.queued = u.queued
         /\ done.refresh = u.refresh /\ done.initial = u.initial /\ done.opened = u.opened
<1> DEFINE s == Settled(u)
           t == [s EXCEPT !.queue = Tail(s.queue)]
<1>1. /\ u.queue \in Seq(Writes) /\ u.running \in Runs /\ u.saved \in SUBSET Packages
      /\ u.excluded \in SUBSET Packages /\ u.unmount \in BOOLEAN
  BY Zenon DEF Pages
<1>2. Head(u.queue) = u.queue[1] /\ u.queue[1] \in Writes /\ Tail(u.queue) \in Seq(Writes)
  BY <1>1
<1>3. /\ u.queue[1].key \in {"exclude_apps", "exclude_unmount"}
      /\ u.queue[1].enabled \in BOOLEAN /\ u.running.packages \in SUBSET Packages
  BY Zenon, <1>1, <1>2 DEF Writes, Runs
<1>4. /\ s \in Pages /\ s.queue = u.queue /\ s.running = u.running
      /\ s.saved = IF u.running.at = "ok" /\ u.queue[1].key = "exclude_apps"
                   THEN u.running.packages ELSE u.saved
      /\ s.excluded = IF u.running.at # "ok" /\ u.queue[1].key = "exclude_apps"
                      THEN u.saved ELSE u.excluded
      /\ u.running.at # "ok" /\ u.queue[1].key = "exclude_unmount"
           => s.unmount = ~u.queue[1].enabled
      /\ u.running.at = "ok" \/ u.queue[1].key = "exclude_apps" => s.unmount = u.unmount
      /\ s.on = u.on /\ s.apps = u.apps /\ s.list = u.list /\ s.queued = u.queued
      /\ s.refresh = u.refresh /\ s.initial = u.initial /\ s.opened = u.opened
  <2>1. CASE u.queue[1].key = "exclude_apps" /\ u.running.at = "ok"
    <3>1. s = [u EXCEPT !.saved = u.running.packages]
      BY Zenon, <2>1, <1>2 DEF Settled
    <3>2. [u EXCEPT !.saved = u.running.packages] \in Pages
      BY <1>3, PageUpdates, Zenon
    <3>3. QED
      BY <2>1, <3>1, <3>2, Zenon DEF Pages
  <2>2. CASE u.queue[1].key = "exclude_apps" /\ u.running.at # "ok"
    <3>1. s = [u EXCEPT !.excluded = u.saved]
      BY Zenon, <2>2, <1>2 DEF Settled
    <3>2. [u EXCEPT !.excluded = u.saved] \in Pages
      BY <1>1, PageUpdates, Zenon
    <3>3. QED
      BY Zenon, <2>2, <3>1, <3>2 DEF Pages
  <2>3. CASE u.queue[1].key = "exclude_unmount" /\ u.running.at = "ok"
    BY Zenon, <2>3, <1>2 DEF Settled
  <2>4. CASE u.queue[1].key = "exclude_unmount" /\ u.running.at # "ok"
    <3>1. PICK b \in BOOLEAN : b = ~u.queue[1].enabled
      BY Zenon
    <3>2. s = [u EXCEPT !.unmount = b]
      <4>1. Head(u.queue).key # "exclude_apps"
        BY Zenon, <2>4, <1>2
      <4>2. s = [u EXCEPT !.unmount = ~Head(u.queue).enabled]
        BY <2>4, <4>1, Zenon DEF Settled
      <4>3. QED
        BY <4>2, <3>1, <1>2, Zenon
    <3>3. [u EXCEPT !.unmount = b] \in Pages
      BY PageUpdates, Zenon
    <3>4. QED
      BY Zenon, <2>4, <3>1, <3>2, <3>3 DEF Pages
  <2>5. QED
    BY <1>3, <2>1, <2>2, <2>3, <2>4, Zenon
<1> HIDE DEF s
<1>5. t \in Pages /\ t.queue = Tail(u.queue)
  <2>1. Tail(s.queue) \in Seq(Writes)
    BY Zenon, <1>2, <1>4
  <2>2. t \in Pages
    BY <1>4, <2>1, PageUpdates, Zenon
  <2>3. QED
    BY <1>4, <2>2, Zenon DEF Pages
<1>6. /\ t.saved = s.saved /\ t.excluded = s.excluded /\ t.unmount = s.unmount /\ t.on = s.on
      /\ t.apps = s.apps /\ t.list = s.list /\ t.queued = s.queued /\ t.refresh = s.refresh
      /\ t.initial = s.initial /\ t.opened = s.opened
  BY Zenon, <1>4 DEF Pages
<1>7. done = [t EXCEPT !.running = Resting]
  BY Zenon, <1>4 DEF s, Pages, Ended
<1> HIDE DEF t
<1>8. done \in Pages
  <2>1. Resting \in Runs
    BY Zenon DEF Resting, Runs
  <2>2. [t EXCEPT !.running = Resting] \in Pages
    BY <1>5, <2>1, PageUpdates, Zenon
  <2>3. QED
    BY Zenon, <1>7, <2>2
<1>9. /\ done.queue = t.queue /\ done.running = Resting
      /\ done.saved = t.saved /\ done.excluded = t.excluded /\ done.unmount = t.unmount
      /\ done.on = t.on /\ done.apps = t.apps /\ done.list = t.list /\ done.queued = t.queued
      /\ done.refresh = t.refresh /\ done.initial = t.initial /\ done.opened = t.opened
  BY Zenon, <1>5, <1>7 DEF Pages
<1>10. QED
  BY Zenon, <1>4, <1>5, <1>6, <1>8, <1>9

\* A refresh waits, and the writes it waits for have ended.
Awaited(u) == u.refresh.at = "wait" /\ u.queued - Len(u.queue) >= u.refresh.before

\* A refresh that waited for the writes goes on when they are done.
LEMMA ResumesFacts ==
  ASSUME NEW u \in Pages, NEW v, v = Resumes(u)
  PROVE  /\ v \in Pages
         /\ Awaited(u) =>
              v.refresh.at = "read" /\ v.refresh.before = u.queued
         /\ ~Awaited(u) => v.refresh = u.refresh
         /\ v.on = u.on /\ v.excluded = u.excluded /\ v.saved = u.saved /\ v.unmount = u.unmount
         /\ v.apps = u.apps /\ v.list = u.list /\ v.queue = u.queue /\ v.queued = u.queued
         /\ v.running = u.running /\ v.initial = u.initial /\ v.opened = u.opened
<1>1. CASE Awaited(u)
  <2> DEFINE r == [u.refresh EXCEPT !.at = "read", !.before = u.queued]
  <2>1. r \in Refreshes /\ r.at = "read" /\ r.before = u.queued
    BY Zenon DEF Pages, Refreshes
  <2>2. v = [u EXCEPT !.refresh = r]
    BY <1>1, Zenon DEF Awaited, Resumes, Pages
  <2> HIDE DEF r
  <2>3. [u EXCEPT !.refresh = r] \in Pages
    BY <2>1, PageUpdates, Zenon
  <2>4. QED
    BY Zenon, <1>1, <2>1, <2>2, <2>3 DEF Pages
<1>2. CASE ~Awaited(u)
  BY Zenon, <1>2 DEF Awaited, Resumes
<1>3. QED
  BY Zenon, <1>1, <1>2

\* What is written is as uniform as what is shown.
LEMMA UniformWritten ==
  ASSUME NEW s, Uniform(s)
  PROVE  Uniform(s \cap UserPackages)
  BY Zenon DEF Uniform

\* The chain without its first write.
LEMMA TailFacts ==
  ASSUME NEW S, NEW q \in Seq(S), q # <<>>
  PROVE  \E n \in Nat : /\ DOMAIN q = 1 .. n + 1 /\ DOMAIN Tail(q) = 1 .. n
                        /\ Len(q) = n + 1 /\ Len(Tail(q)) = n
                        /\ (Tail(q) = <<>> <=> n = 0) /\ \A k \in 1 .. n : Tail(q)[k] = q[k + 1]
<1> DEFINE n == Len(q) - 1
<1>1. n \in Nat /\ Len(q) = n + 1 /\ DOMAIN q = 1 .. Len(q)
  OBVIOUS
<1>2. Tail(q) \in Seq(S) /\ Len(Tail(q)) = n /\ DOMAIN Tail(q) = 1 .. n
  BY <1>1
<1>3. \A k \in 1 .. n : Tail(q)[k] = q[k + 1]
  BY <1>1
<1>4. Tail(q) = <<>> <=> n = 0
  <2>1. CASE n = 0
    BY <2>1, <1>2
  <2>2. CASE n # 0
    BY <2>2, <1>1, <1>2, Zenon
  <2>3. QED
    BY Zenon, <2>1, <2>2
<1> HIDE DEF n
<1>5. QED
  BY Zenon, <1>1, <1>2, <1>3, <1>4

\* A write ends: its result is taken, a refresh that waited goes on, the next write starts.
LEMMA EndsStep ==
  ASSUME UiInv, ui.on, WriteEnds
  PROVE  UiInv'
<1>1. /\ ui \in Pages /\ DaemonInv /\ QueueInv /\ GroupInv /\ RefreshInv /\ ShownInv /\ SwitchInv
      /\ ui.running.at \in {"ok", "failed"} /\ ui.queue # <<>> /\ UNCHANGED vars
  BY Zenon DEF UiInv, PageInv, WriteEnds, PageOnly, QueueInv
<1>2. PICK done, next : done = Ended(ui) /\ next = Resumes(done) /\ ui' = Starts(next)
  BY Zenon DEF WriteEnds, Ended
<1>3. /\ done \in Pages /\ done.queue = Tail(ui.queue) /\ done.running = Resting
      /\ done.saved = IF ui.running.at = "ok" /\ ui.queue[1].key = "exclude_apps"
                      THEN ui.running.packages ELSE ui.saved
      /\ done.excluded = IF ui.running.at # "ok" /\ ui.queue[1].key = "exclude_apps"
                         THEN ui.saved ELSE ui.excluded
      /\ ui.running.at # "ok" /\ ui.queue[1].key = "exclude_unmount"
           => done.unmount = ~ui.queue[1].enabled
      /\ ui.running.at = "ok" \/ ui.queue[1].key = "exclude_apps" => done.unmount = ui.unmount
      /\ done.on = ui.on /\ done.apps = ui.apps /\ done.list = ui.list
      /\ done.queued = ui.queued /\ done.refresh = ui.refresh /\ done.initial = ui.initial
  BY ONLY ZenonT(60), <1>1, <1>2, SettledFacts
<1>4. /\ next \in Pages
      /\ Awaited(done) =>
           next.refresh.at = "read" /\ next.refresh.before = done.queued
      /\ ~Awaited(done) => next.refresh = done.refresh
      /\ next.on = done.on /\ next.excluded = done.excluded /\ next.saved = done.saved
      /\ next.unmount = done.unmount /\ next.apps = done.apps /\ next.list = done.list
      /\ next.queue = done.queue /\ next.queued = done.queued /\ next.running = done.running
      /\ next.initial = done.initial
  BY ONLY <1>2, <1>3, ResumesFacts, SMTT(30)
<1>5. /\ ui' \in Pages
      /\ ui'.running = IF next.queue = <<>> \/ next.running.at # "rest" THEN next.running
                       ELSE [at |-> "start", packages |-> next.excluded \cap UserPackages]
      /\ ui'.on = next.on /\ ui'.excluded = next.excluded /\ ui'.saved = next.saved
      /\ ui'.unmount = next.unmount /\ ui'.apps = next.apps /\ ui'.list = next.list
      /\ ui'.queue = next.queue /\ ui'.queued = next.queued
      /\ ui'.refresh = next.refresh /\ ui'.initial = next.initial
  BY ONLY Zenon, <1>2, <1>4, StartsFacts
<1>6. /\ ui'.queue = Tail(ui.queue) /\ ui'.on /\ ui'.queued = ui.queued
      /\ ui'.apps = ui.apps /\ ui'.list = ui.list /\ ui'.initial = ui.initial
      /\ ui'.saved = done.saved /\ ui'.excluded = done.excluded /\ ui'.unmount = done.unmount
      /\ ui'.running = IF ui'.queue = <<>> THEN Resting
                       ELSE [at |-> "start", packages |-> ui'.excluded \cap UserPackages]
  <2>1. /\ ui'.queue = Tail(ui.queue) /\ ui'.on /\ ui'.queued = ui.queued
        /\ ui'.apps = ui.apps /\ ui'.list = ui.list /\ ui'.initial = ui.initial
        /\ ui'.saved = done.saved /\ ui'.excluded = done.excluded /\ ui'.unmount = done.unmount
    BY <1>3, <1>4, <1>5, Zenon
  <2>2. next.running = Resting /\ next.queue = ui'.queue /\ next.excluded = ui'.excluded
    BY <1>3, <1>4, <1>5, Zenon
  <2>3. next.running.at = "rest"
    BY ONLY <2>2 DEF Resting
  <2>4. ui'.running = IF next.queue = <<>> \/ next.running.at # "rest" THEN next.running
                       ELSE [at |-> "start", packages |-> next.excluded \cap UserPackages]
    BY <1>5, Zenon
  <2>5. ui'.running = IF ui'.queue = <<>> THEN Resting
                       ELSE [at |-> "start", packages |-> ui'.excluded \cap UserPackages]
    BY ONLY Zenon, <2>2, <2>3, <2>4
  <2>6. QED
    BY <2>1, <2>5, Zenon
<1>7. PICK q \in Seq(Writes) : q = ui.queue
  BY Zenon, <1>1 DEF Pages
<1>8. PICK n \in Nat : /\ DOMAIN q = 1 .. n + 1 /\ DOMAIN ui'.queue = 1 .. n
                       /\ Len(ui'.queue) = n /\ (ui'.queue = <<>> <=> n = 0)
                       /\ \A k \in 1 .. n : ui'.queue[k] = q[k + 1]
  BY <1>1, <1>6, <1>7, TailFacts, SMTT(30)
<1>9. /\ \A k \in 1 .. n + 1 : q[k].key \in {"exclude_apps", "exclude_unmount"}
      /\ config' = config /\ list' = list /\ list_mtime' = list_mtime
  <2>1. \A k \in 1 .. n + 1 : q[k] \in Writes
    BY <1>7, <1>8, SMTT(30)
  <2>2. QED
    BY Zenon, <1>1, <2>1 DEF vars, files, Writes
<1>10. QueueInv'
  <2>1. ui'.running.at = "rest" <=> ui'.queue = <<>>
    BY <1>6 DEF Resting
  <2>2. ASSUME NEW j \in 1 .. n, NEW k \in 1 .. n,
               ui'.queue[j].key = "exclude_unmount", ui'.queue[k].key = "exclude_unmount"
        PROVE  j = k
    <3>1. /\ j + 1 \in 1 .. n + 1 /\ k + 1 \in 1 .. n + 1
          /\ q[j + 1].key = "exclude_unmount" /\ q[k + 1].key = "exclude_unmount"
      BY <2>2, <1>8, SMTT(30)
    <3>2. j + 1 = k + 1
      <4>1. DOMAIN ui.queue = 1 .. n + 1 /\ QueueInv
        BY <1>1, <1>7, <1>8, Zenon
      <4>2. QED
        BY <1>7, <3>1, <4>1, Zenon DEF QueueInv
    <3>3. QED
      BY <2>2, <3>2, SMTT(30)
  <2>3. QED
    BY Zenon, <1>8, <2>1, <2>2 DEF QueueInv
<1>11. GroupInv'
  <2>1. /\ Uniform(ui'.saved) /\ Uniform(ui'.excluded) /\ Uniform(config.packages)
    BY Zenon, <1>1, <1>3, <1>6 DEF GroupInv
  <2>2. Uniform(ui'.excluded \cap UserPackages) /\ Uniform({})
    BY Zenon, <2>1, UniformWritten DEF Uniform
  <2>3. Uniform(ui'.running.packages)
    BY <1>6, <2>2, SMTT(30) DEF Resting
  <2>4. list_mtime' = 0 /\ ui'.list \in {<<>>, list'} /\ (ui'.apps = "ready" => ui'.list = list')
    BY Zenon, <1>1, <1>6, <1>9 DEF GroupInv
  <2>5. QED
    BY Zenon, <1>9, <2>1, <2>3, <2>4 DEF GroupInv, Uniform
<1>12. RefreshInv'
  <2>1. /\ ui.queued \in Nat /\ ui.refresh.before \in Nat
    BY Zenon, <1>1 DEF Pages, Refreshes
  <2>2. CASE ui.refresh.at = "wait" /\ n = 0
    <3>1. ui'.refresh.at = "read" /\ ui'.refresh.before = ui'.queued /\ ui'.queue = <<>>
      <4>1. ui.refresh.before = ui.queued
        BY Zenon, <1>1, <2>2 DEF RefreshInv
      <4>2. /\ done.refresh.at = "wait" /\ done.queued = ui.queued /\ Len(done.queue) = 0
            /\ done.refresh.before = ui.queued
        BY Zenon, <1>3, <1>6, <1>8, <2>2, <4>1
      <4>3. next.refresh.at = "read" /\ next.refresh.before = ui.queued
        BY <1>4, <2>1, <4>2, SMTT(30) DEF Awaited
      <4>4. QED
        BY Zenon, <1>5, <1>6, <1>8, <2>2, <4>3
    <3>2. ui'.apps = "ready" => ui'.initial
      BY Zenon, <1>1, <1>6 DEF RefreshInv
    <3>3. QED
      <4> DEFINE r == ui'.refresh
      <4>1. r.before <= ui'.queued
        BY <1>6, <2>1, <3>1
      <4>2. r.at = "apps" \/ ui'.apps = "ready" => ui'.initial
        BY Zenon, <3>1, <3>2
      <4>3. ~(r.at = "wait") /\ ~(r.at = "apply") /\ r.before = ui'.queued /\ ui'.queue = <<>>
        BY Zenon, <3>1
      <4>4. QED
        BY ONLY <4>1, <4>2, <4>3, Zenon DEF RefreshInv
  <2>3. CASE ~(ui.refresh.at = "wait" /\ n = 0)
    <3>1. ui'.refresh = ui.refresh
      <4>1. ui.refresh.at = "wait" => ui.refresh.before = ui.queued
        BY Zenon, <1>1 DEF RefreshInv
      <4>2. /\ done.refresh = ui.refresh /\ done.queued = ui.queued /\ Len(done.queue) = n
        BY <1>3, <1>6, <1>8, Zenon
      <4>3. ~Awaited(done)
        BY <1>8, <2>1, <2>3, <4>1, <4>2, SMTT(30) DEF Awaited
      <4>4. QED
        BY Zenon, <1>4, <1>5, <4>2, <4>3
    <3>2. QED
      BY Zenon, <1>1, <1>6, <1>9, <3>1 DEF RefreshInv
  <2>4. QED
    BY Zenon, <2>2, <2>3
<1>13. ShownInv'
  <2> SUFFICES ASSUME ui.initial PROVE ShownInv'
    BY <1>6, Zenon DEF ShownInv
  <2>1. ui'.running.at # "ok" /\ (LastList' => ui'.running.packages = ui'.excluded \cap UserPackages)
    BY <1>6, SMTT(30) DEF Resting, LastList
  <2>2. config.packages = ui'.saved
    BY Zenon, <1>1, <1>3, <1>6 DEF ShownInv
  <2>3. ~Pending("exclude_apps")' => ui'.excluded \cap UserPackages = ui'.saved \cap UserPackages
    <3> SUFFICES ASSUME ~Pending("exclude_apps")'
                 PROVE  ui'.excluded \cap UserPackages = ui'.saved \cap UserPackages
      OBVIOUS
    <3>1. \A k \in 1 .. n + 1 : k > 1 => q[k].key # "exclude_apps"
      <4>1. SUFFICES ASSUME NEW k \in 1 .. n + 1, k > 1 PROVE q[k].key # "exclude_apps"
        OBVIOUS
      <4>2. k - 1 \in 1 .. n /\ (k - 1) + 1 = k
        BY <4>1, <1>8
      <4>3. ui'.queue[k - 1].key # "exclude_apps"
        BY <4>2, <1>8, Zenon DEF Pending
      <4>4. QED
        BY Zenon, <4>2, <4>3, <1>8
    <3>2. CASE ui.queue[1].key = "exclude_apps" /\ ui.running.at = "ok"
      <4>1. LastList
        BY Zenon, <1>1, <1>7, <1>8, <3>1, <3>2 DEF LastList
      <4>2. ui.running.packages = ui.excluded \cap UserPackages
        BY Zenon, <1>1, <4>1 DEF ShownInv
      <4>3. QED
        BY Zenon, <1>3, <1>6, <3>2, <4>2
    <3>3. CASE ui.queue[1].key = "exclude_apps" /\ ui.running.at # "ok"
      BY Zenon, <1>3, <1>6, <3>3
    <3>4. CASE ui.queue[1].key # "exclude_apps"
      <4>1. ~Pending("exclude_apps")
        BY <1>7, <1>8, <3>1, <3>4 DEF Pending
      <4>2. QED
        BY Zenon, <1>1, <1>3, <1>6, <3>4, <4>1 DEF ShownInv
    <3>5. QED
      BY Zenon, <3>2, <3>3, <3>4
  <2>4. QED
    BY Zenon, <1>9, <2>1, <2>2, <2>3 DEF ShownInv
<1>14. SwitchInv'
  <2> SUFFICES ASSUME ui.initial PROVE SwitchInv'
    BY <1>6, Zenon DEF SwitchInv
  <2>1. ui'.running.at # "ok"
    BY <1>6, SMTT(30) DEF Resting
  <2>2. CASE ui.queue[1].key = "exclude_unmount"
    <3>1. ui'.unmount = config.unmount
      <4>1. 1 \in DOMAIN ui.queue
        BY <1>7, <1>8, SMTT(30)
      <4>2. /\ ui.unmount = ui.queue[1].enabled
            /\ config.unmount = IF ui.running.at = "ok" THEN ui.unmount ELSE ~ui.unmount
        BY Zenon, <1>1, <2>2, <4>1 DEF SwitchInv
      <4>3. CASE ui.running.at = "ok"
        BY Zenon, <1>3, <1>6, <4>2, <4>3
      <4>4. CASE ui.running.at # "ok"
        BY Zenon, <1>3, <1>6, <2>2, <4>2, <4>4
      <4>5. QED
        BY Zenon, <4>3, <4>4
    <3>2. \A k \in 1 .. n : ui'.queue[k].key # "exclude_unmount"
      <4>1. SUFFICES ASSUME NEW k \in 1 .. n, ui'.queue[k].key = "exclude_unmount"
                     PROVE  FALSE
        OBVIOUS
      <4>2. k + 1 \in 1 .. n + 1 /\ 1 \in 1 .. n + 1 /\ q[k + 1].key = "exclude_unmount"
        BY <4>1, <1>8
      <4>3. k + 1 = 1
        <5>1. DOMAIN ui.queue = 1 .. n + 1 /\ QueueInv
          BY <1>1, <1>7, <1>8, Zenon
        <5>2. QED
          BY <1>7, <2>2, <4>2, <5>1, Zenon DEF QueueInv
      <4>4. QED
        BY <4>3, <1>8
    <3>3. QED
      BY Zenon, <1>8, <1>9, <3>1, <3>2 DEF SwitchInv
  <2>3. CASE ui.queue[1].key # "exclude_unmount"
    <3>1. ui.queue[1].key = "exclude_apps" /\ ui'.unmount = ui.unmount
      BY <1>3, <1>6, <1>7, <1>8, <1>9, <2>3
    <3>2. Pending("exclude_unmount") => Pending("exclude_unmount")'
      <4>1. SUFFICES ASSUME NEW k \in 1 .. n + 1, q[k].key = "exclude_unmount"
                     PROVE  \E j \in 1 .. n : ui'.queue[j].key = "exclude_unmount"
        BY <1>7, <1>8, Zenon DEF Pending
      <4>2. k # 1
        BY Zenon, <4>1, <2>3, <1>7
      <4>3. k - 1 \in 1 .. n /\ (k - 1) + 1 = k
        BY <4>2, <1>8, SMTT(30)
      <4>4. ui'.queue[k - 1].key = "exclude_unmount"
        BY Zenon, <4>1, <4>3, <1>8
      <4>5. QED
        BY Zenon, <4>3, <4>4
    <3>3. ASSUME NEW k \in 1 .. n, ui'.queue[k].key = "exclude_unmount"
          PROVE  ui.unmount = ui'.queue[k].enabled /\ config.unmount = ~ui.unmount
      <4>1. k + 1 \in DOMAIN ui.queue /\ k + 1 # 1 /\ ui.queue[k + 1] = ui'.queue[k]
        BY <1>7, <1>8, SMTT(30)
      <4>2. QED
        BY Zenon, <1>1, <3>3, <4>1 DEF SwitchInv
    <3>4. QED
      BY Zenon, <1>1, <1>8, <1>9, <2>1, <3>1, <3>2, <3>3 DEF SwitchInv
  <2>4. QED
    BY Zenon, <2>2, <2>3
<1>15. QED
  BY Zenon, <1>1, <1>5, <1>6, <1>10, <1>11, <1>12, <1>13, <1>14, DaemonStutter DEF UiInv, PageInv

\* setConfigValue: config.prop is replaced, or the command fails.
LEMMA SetStep ==
  ASSUME UiInv, ui.on, setConfigValue
  PROVE  UiInv'
<1>1. /\ ui \in Pages /\ DaemonInv /\ QueueInv /\ GroupInv /\ RefreshInv /\ ShownInv /\ SwitchInv
      /\ ui.running.at = "start" /\ ui.queue # <<>> /\ UNCHANGED daemonOnly
  BY Zenon DEF UiInv, PageInv, setConfigValue, QueueInv
<1>2. PICK at \in {"ok", "failed"} :
        /\ ui' = [ui EXCEPT !.running.at = at]
        /\ at = "ok" => /\ config' = IF Head(ui.queue).key = "exclude_apps"
                                     THEN [config EXCEPT !.packages = ui.running.packages]
                                     ELSE [config EXCEPT !.unmount = Head(ui.queue).enabled]
                        /\ config_mtime' = config_mtime + 1
        /\ at = "failed" => config' = config /\ config_mtime' = config_mtime
  BY Zenon DEF setConfigValue
<1>3. /\ ui' \in Pages /\ ui'.running.at = at /\ ui'.running.packages = ui.running.packages
      /\ ui'.on = ui.on /\ ui'.excluded = ui.excluded /\ ui'.saved = ui.saved
      /\ ui'.unmount = ui.unmount /\ ui'.apps = ui.apps /\ ui'.list = ui.list
      /\ ui'.queue = ui.queue /\ ui'.queued = ui.queued
      /\ ui'.refresh = ui.refresh /\ ui'.initial = ui.initial
  <2> DEFINE r == [ui.running EXCEPT !.at = at]
  <2>1. r \in Runs /\ r.at = at /\ r.packages = ui.running.packages
    BY Zenon, <1>1 DEF Pages, Runs
  <2>2. ui' = [ui EXCEPT !.running = r]
    BY Zenon, <1>1, <1>2 DEF Pages
  <2> HIDE DEF r
  <2>3. [ui EXCEPT !.running = r] \in Pages
    BY <1>1, <2>1, PageUpdates, Zenon
  <2>4. QED
    BY <1>1, <2>1, <2>2, <2>3, Zenon DEF Pages
<1>4. PICK w \in Writes : w = ui.queue[1] /\ w = Head(ui.queue) /\ 1 \in DOMAIN ui.queue
  BY <1>1, SMTT(30) DEF Pages
<1>5. /\ w.key \in {"exclude_apps", "exclude_unmount"} /\ w.enabled \in BOOLEAN
      /\ ui.running.packages \in SUBSET Packages
      /\ config \in [packages: SUBSET Packages, unmount: BOOLEAN]
  BY Zenon, <1>1 DEF Writes, Pages, Runs, DaemonInv, TypeOK
<1>6. /\ config' \in [packages: SUBSET Packages, unmount: BOOLEAN]
      /\ config'.packages = IF at = "ok" /\ w.key = "exclude_apps"
                            THEN ui.running.packages ELSE config.packages
      /\ config'.unmount = IF at = "ok" /\ w.key = "exclude_unmount"
                           THEN w.enabled ELSE config.unmount
  <2>1. CASE at = "failed"
    BY Zenon, <2>1, <1>2, <1>5
  <2>2. CASE at = "ok" /\ w.key = "exclude_apps"
    BY Zenon, <2>2, <1>2, <1>4, <1>5
  <2>3. CASE at = "ok" /\ w.key = "exclude_unmount"
    BY Zenon, <2>3, <1>2, <1>4, <1>5
  <2>4. QED
    BY Zenon, <1>2, <1>5, <2>1, <2>2, <2>3
<1>7. DaemonInv'
  <2>1. CASE at = "ok"
    BY Zenon, <1>1, <1>2, <1>6, <2>1, ConfigStep DEF ConfigWritten
  <2>2. CASE at = "failed"
    BY Zenon, <1>1, <1>2, <2>2, DaemonStutter DEF vars, files, daemonOnly
  <2>3. QED
    BY Zenon, <1>2, <2>1, <2>2
<1>8. list' = list /\ list_mtime' = list_mtime
  BY Zenon, <1>1 DEF daemonOnly
<1>9. QueueInv'
  BY <1>1, <1>2, <1>3, SMTT(30) DEF QueueInv
<1>10. GroupInv'
  <2>1. Uniform(config'.packages)
    BY Zenon, <1>1, <1>6 DEF GroupInv
  <2>2. Uniform(ui'.excluded) /\ Uniform(ui'.saved) /\ Uniform(ui'.running.packages)
    BY Zenon, <1>1, <1>3 DEF GroupInv
  <2>3. list_mtime' = 0 /\ ui'.list \in {<<>>, list'} /\ (ui'.apps = "ready" => ui'.list = list')
    BY Zenon, <1>1, <1>3, <1>8 DEF GroupInv
  <2>4. QED
    BY Zenon, <1>8, <2>1, <2>2, <2>3 DEF GroupInv, Uniform
<1>11. RefreshInv'
  BY Zenon, <1>1, <1>3 DEF RefreshInv
<1>12. ShownInv'
  <2>1. /\ LastList' <=> LastList
        /\ Pending("exclude_apps")' <=> Pending("exclude_apps")
    BY <1>1, <1>2, <1>3 DEF LastList, Pending
  <2>2. QED
    BY <1>1, <1>2, <1>3, <1>4, <1>6, <2>1 DEF ShownInv
<1>13. SwitchInv'
  <2> SUFFICES ASSUME ui.initial PROVE SwitchInv'
    BY Zenon, <1>3 DEF SwitchInv
  <2>1. Pending("exclude_unmount")' <=> Pending("exclude_unmount")
    BY Zenon, <1>3 DEF Pending
  <2>2. CASE w.key = "exclude_unmount"
    <3>1. ui.unmount = w.enabled /\ config.unmount = ~ui.unmount /\ Pending("exclude_unmount")
      BY Zenon, <1>1, <1>4, <2>2 DEF SwitchInv, Pending
    <3>2. \A k \in DOMAIN ui.queue : ui.queue[k].key = "exclude_unmount" => k = 1
      BY Zenon, <1>1, <1>4, <2>2 DEF QueueInv
    <3>3. CASE at = "ok"
      <4>1. config'.unmount = ui.unmount
        BY Zenon, <1>6, <2>2, <3>1, <3>3
      <4>2. QED
        BY ZenonT(60), <1>3, <1>4, <2>1, <3>1, <3>2, <3>3, <4>1 DEF SwitchInv
    <3>4. CASE at = "failed"
      <4>1. config'.unmount = ~ui.unmount
        BY Zenon, <1>6, <3>1, <3>4
      <4>2. QED
        BY ZenonT(60), <1>3, <1>4, <2>1, <3>1, <3>2, <3>4, <4>1 DEF SwitchInv
    <3>5. QED
      BY Zenon, <3>3, <3>4
  <2>3. CASE w.key # "exclude_unmount"
    <3>1. config'.unmount = config.unmount
      BY Zenon, <1>6, <2>3
    <3>2. ui.queue[1].key # "exclude_unmount"
      BY Zenon, <1>4, <2>3
    <3>3. QED
      BY Zenon, <1>1, <1>3, <2>1, <3>1, <3>2 DEF SwitchInv
  <2>4. QED
    BY Zenon, <2>2, <2>3
<1>14. QED
  BY Zenon, <1>3, <1>7, <1>9, <1>10, <1>11, <1>12, <1>13 DEF UiInv, PageInv

\* Steps of refresh that leave what is shown, what is saved and the chain alone.
LEMMA RefreshRest ==
  ASSUME UiInv, ui.on, UNCHANGED vars, ui' \in Pages, RefreshInv',
         ui'.on = ui.on, ui'.excluded = ui.excluded, ui'.saved = ui.saved,
         ui'.unmount = ui.unmount, ui'.queue = ui.queue, ui'.running = ui.running,
         ui'.initial = ui.initial,
         ui'.list \in {<<>>, list}, ui'.apps = "ready" => ui'.list = list
  PROVE  UiInv'
<1>1. DaemonInv' /\ config' = config /\ list' = list /\ list_mtime' = list_mtime
  BY Zenon, DaemonStutter DEF UiInv, vars, files
<1>2. QueueInv'
  BY Zenon DEF UiInv, PageInv, QueueInv
<1>3. GroupInv'
  <2>1. GroupInv
    BY Zenon DEF UiInv, PageInv
  <2>2. Uniform(config.packages)' /\ Uniform(ui.excluded)'
    BY <1>1, <2>1, Zenon DEF GroupInv, Uniform
  <2>3. Uniform(ui.saved)' /\ Uniform(ui.running.packages)'
    BY <1>1, <2>1, Zenon DEF GroupInv, Uniform
  <2>4. QED
    BY <1>1, <2>1, <2>2, <2>3, Zenon DEF GroupInv
<1>4. ShownInv'
  BY Zenon, <1>1 DEF UiInv, PageInv, ShownInv, Pending, LastList
<1>5. SwitchInv'
  BY ZenonT(60), <1>1 DEF UiInv, PageInv, SwitchInv, Pending
<1>6. QED
  BY Zenon, <1>1, <1>2, <1>3, <1>4, <1>5 DEF UiInv, PageInv

\* refresh starts.
LEMMA RefreshStep ==
  ASSUME UiInv, refresh
  PROVE  UiInv'
<1>1. /\ ui \in Pages /\ QueueInv /\ GroupInv /\ RefreshInv
      /\ ui.on /\ ui.refresh.at = "idle" /\ UNCHANGED vars
  BY Zenon DEF UiInv, PageInv, refresh, PageOnly
<1> DEFINE r == [Idle EXCEPT !.at = IF ui.queue = <<>> THEN "read" ELSE "wait",
                             !.before = ui.queued, !.all = ui.opened]
           u == [ui EXCEPT !.opened = TRUE]
<1>2. /\ r \in Refreshes /\ r.at = IF ui.queue = <<>> THEN "read" ELSE "wait"
      /\ r.before = ui.queued
  BY <1>1, Zenon DEF Pages, Refreshes, Idle
<1>3. ui' = [u EXCEPT !.refresh = r]
  BY Zenon, <1>1 DEF refresh, Pages
<1> HIDE DEF r
<1>4. u \in Pages
  BY <1>1, PageUpdates, Zenon
<1>5. /\ u.on = ui.on /\ u.excluded = ui.excluded /\ u.saved = ui.saved
      /\ u.unmount = ui.unmount /\ u.apps = ui.apps /\ u.list = ui.list
      /\ u.queue = ui.queue /\ u.queued = ui.queued /\ u.running = ui.running
      /\ u.initial = ui.initial
  BY <1>1, Zenon DEF Pages
<1> HIDE DEF u
<1>6. [u EXCEPT !.refresh = r] \in Pages
  BY <1>2, <1>4, PageUpdates, Zenon
<1>7. /\ ui' \in Pages /\ ui'.refresh = r /\ ui'.on = u.on /\ ui'.excluded = u.excluded
      /\ ui'.saved = u.saved /\ ui'.unmount = u.unmount /\ ui'.apps = u.apps
      /\ ui'.list = u.list /\ ui'.queue = u.queue /\ ui'.queued = u.queued
      /\ ui'.running = u.running /\ ui'.initial = u.initial
  BY Zenon, <1>3, <1>4, <1>6 DEF Pages
<1>8. ui.queued \in Nat
  BY Zenon, <1>1 DEF Pages
<1>9. RefreshInv'
  <2>1. ui'.refresh.before = ui'.queued /\ ui'.queued <= ui'.queued
    BY <1>2, <1>5, <1>7, <1>8, SMTT(30)
  <2>2. ui'.refresh.at = "read" => ui'.queue = <<>>
    BY Zenon, <1>2, <1>5, <1>7
  <2>3. ui'.refresh.at \notin {"apply", "apps"}
    BY Zenon, <1>2, <1>7
  <2>4. ui'.apps = "ready" => ui'.initial
    BY Zenon, <1>1, <1>5, <1>7 DEF RefreshInv
  <2>5. QED
    BY Zenon, <2>1, <2>2, <2>3, <2>4 DEF RefreshInv
<1>10. QED
  BY Zenon, <1>1, <1>5, <1>7, <1>9, RefreshRest DEF GroupInv

\* The status command of refresh reads config.prop, or fails.
LEMMA ReadsStep ==
  ASSUME UiInv, ui.on, RefreshReads
  PROVE  UiInv'
<1>1. /\ ui \in Pages /\ DaemonInv /\ GroupInv /\ RefreshInv
      /\ ui.refresh.at = "read" /\ UNCHANGED vars
  BY Zenon DEF UiInv, PageInv, RefreshReads, PageOnly
<1>2. config' = config /\ config \in Contents /\ ui.refresh \in Refreshes /\ ui.queued \in Nat
  BY Zenon, <1>1 DEF DaemonInv, TypeOK, Contents, vars, files, Pages
<1>3. \E r \in Refreshes :
        /\ ui' = [ui EXCEPT !.refresh = r]
        /\ \/ r.at = "apply" /\ r.config = config /\ r.before = ui.refresh.before
           \/ r.at = "idle" /\ r.before = 0
  <2>1. CASE ui' = [ui EXCEPT !.refresh.at = "apply", !.refresh.config = config]
    <3> DEFINE r == [ui.refresh EXCEPT !.at = "apply", !.config = config]
    <3>1. /\ r \in Refreshes /\ r.at = "apply" /\ r.config = config
          /\ r.before = ui.refresh.before
      BY <1>2, Zenon DEF Refreshes
    <3>2. ui' = [ui EXCEPT !.refresh = r]
      BY <1>1, <2>1, Zenon DEF Pages
    <3> HIDE DEF r
    <3>3. QED
      BY Zenon, <3>1, <3>2
  <2>2. CASE ui' = [ui EXCEPT !.refresh = Idle]
    <3>1. Idle \in Refreshes /\ Idle.at = "idle" /\ Idle.before = 0
      BY Zenon DEF Idle, Refreshes
    <3>2. QED
      BY Zenon, <2>2, <3>1
  <2>3. QED
    BY Zenon, <2>1, <2>2 DEF RefreshReads
<1>4. PICK r \in Refreshes :
        /\ ui' = [ui EXCEPT !.refresh = r]
        /\ \/ r.at = "apply" /\ r.config = config /\ r.before = ui.refresh.before
           \/ r.at = "idle" /\ r.before = 0
  BY Zenon, <1>3
<1>5. [ui EXCEPT !.refresh = r] \in Pages
  BY <1>1, PageUpdates, Zenon
<1>6. /\ ui' \in Pages /\ ui'.refresh = r /\ ui'.on = ui.on /\ ui'.excluded = ui.excluded
      /\ ui'.saved = ui.saved /\ ui'.unmount = ui.unmount /\ ui'.apps = ui.apps
      /\ ui'.list = ui.list /\ ui'.queue = ui.queue /\ ui'.queued = ui.queued
      /\ ui'.running = ui.running /\ ui'.initial = ui.initial
  BY <1>1, <1>4, <1>5, Zenon DEF Pages
<1>7. RefreshInv'
  BY <1>1, <1>2, <1>4, <1>6 DEF RefreshInv
<1>8. QED
  BY Zenon, <1>1, <1>6, <1>7, RefreshRest DEF GroupInv

\* refresh applies what it read, unless a write was chained meanwhile.
LEMMA AppliesStep ==
  ASSUME UiInv, ui.on, RefreshApplies
  PROVE  UiInv'
<1>1. /\ ui \in Pages /\ DaemonInv /\ QueueInv /\ GroupInv /\ RefreshInv
      /\ ui.refresh.at = "apply" /\ ui.refresh.config \in Contents /\ UNCHANGED vars
  BY Zenon DEF UiInv, PageInv, RefreshApplies, PageOnly, RefreshInv
<1>2. config' = config /\ list' = list /\ list_mtime' = list_mtime /\ ui.queued \in Nat
  BY Zenon, <1>1 DEF vars, files, Pages
<1>3. PICK n \in {Idle, [Idle EXCEPT !.at = "apps"]} :
        /\ KeepsUi => ui' = [ui EXCEPT !.refresh = n]
        /\ ~KeepsUi => ui' = [ui EXCEPT !.refresh = n, !.saved = ui.refresh.config.packages,
                                        !.excluded = ui.refresh.config.packages,
                                        !.unmount = ui.refresh.config.unmount, !.initial = TRUE]
  BY Zenon DEF RefreshApplies
<1>4. n \in Refreshes /\ n.at \in {"idle", "apps"} /\ n.before = 0
  <2>1. CASE n = Idle
    BY Zenon, <2>1 DEF Idle, Refreshes
  <2>2. CASE n = [Idle EXCEPT !.at = "apps"]
    BY <2>2, Zenon DEF Idle, Refreshes
  <2>3. QED
    BY Zenon, <2>1, <2>2
<1>5. CASE KeepsUi
  <2>1. ui' = [ui EXCEPT !.refresh = n] /\ ui.initial
    BY Zenon, <1>1, <1>3, <1>5 DEF KeepsUi, RefreshInv
  <2>2. [ui EXCEPT !.refresh = n] \in Pages
    BY <1>1, <1>4, PageUpdates, Zenon
  <2>3. /\ ui' \in Pages /\ ui'.refresh = n /\ ui'.on = ui.on /\ ui'.excluded = ui.excluded
        /\ ui'.saved = ui.saved /\ ui'.unmount = ui.unmount /\ ui'.apps = ui.apps
        /\ ui'.list = ui.list /\ ui'.queue = ui.queue /\ ui'.queued = ui.queued
        /\ ui'.running = ui.running /\ ui'.initial = ui.initial
    BY <1>1, <2>1, <2>2, Zenon DEF Pages
  <2>4. RefreshInv'
    BY <1>2, <1>4, <2>1, <2>3 DEF RefreshInv
  <2>5. QED
    BY Zenon, <1>1, <2>3, <2>4, RefreshRest DEF GroupInv
<1>6. CASE ~KeepsUi
  <2> DEFINE c == ui.refresh.config
             a == [ui EXCEPT !.refresh = n]
             b == [a EXCEPT !.saved = c.packages]
             d == [b EXCEPT !.excluded = c.packages]
             e == [d EXCEPT !.unmount = c.unmount]
  <2>1. c = config /\ ui.queue = <<>> /\ ui.running.at = "rest"
    BY Zenon, <1>1, <1>6 DEF KeepsUi, RefreshInv, QueueInv
  <2>2. c.packages \in SUBSET Packages /\ c.unmount \in BOOLEAN
    BY Zenon, <1>1 DEF Contents
  <2>3. ui' = [e EXCEPT !.initial = TRUE]
    BY Zenon, <1>1, <1>3, <1>6 DEF Pages
  <2> HIDE DEF c
  <2>4. a \in Pages
    BY <1>1, <1>4, PageUpdates, Zenon
  <2>5. /\ a.on = ui.on /\ a.apps = ui.apps /\ a.list = ui.list /\ a.queue = ui.queue
        /\ a.queued = ui.queued /\ a.running = ui.running /\ a.refresh = n
    BY <1>1, Zenon DEF Pages
  <2> HIDE DEF a
  <2>6. b \in Pages
    BY <2>2, <2>4, PageUpdates, Zenon
  <2>7. /\ b.on = a.on /\ b.apps = a.apps /\ b.list = a.list /\ b.queue = a.queue
        /\ b.queued = a.queued /\ b.running = a.running /\ b.refresh = a.refresh
        /\ b.saved = c.packages
    BY Zenon, <2>4 DEF Pages
  <2> HIDE DEF b
  <2>8. d \in Pages
    BY <2>2, <2>6, PageUpdates, Zenon
  <2>9. /\ d.on = b.on /\ d.apps = b.apps /\ d.list = b.list /\ d.queue = b.queue
        /\ d.queued = b.queued /\ d.running = b.running /\ d.refresh = b.refresh
        /\ d.saved = b.saved /\ d.excluded = c.packages
    BY Zenon, <2>6 DEF Pages
  <2> HIDE DEF d
  <2>10. e \in Pages
    BY <2>2, <2>8, PageUpdates, Zenon
  <2>11. /\ e.on = d.on /\ e.apps = d.apps /\ e.list = d.list /\ e.queue = d.queue
         /\ e.queued = d.queued /\ e.running = d.running /\ e.refresh = d.refresh
         /\ e.saved = d.saved /\ e.excluded = d.excluded /\ e.unmount = c.unmount
    BY Zenon, <2>8 DEF Pages
  <2> HIDE DEF e
  <2>12. [e EXCEPT !.initial = TRUE] \in Pages
    BY <2>10, PageUpdates, Zenon
  <2>13. /\ ui' \in Pages /\ ui'.on = e.on /\ ui'.apps = e.apps /\ ui'.list = e.list
         /\ ui'.queue = e.queue /\ ui'.queued = e.queued /\ ui'.running = e.running
         /\ ui'.refresh = e.refresh /\ ui'.saved = e.saved /\ ui'.excluded = e.excluded
         /\ ui'.unmount = e.unmount /\ ui'.initial
    BY <2>3, <2>10, <2>12, Zenon DEF Pages
  <2>14. /\ ui'.on /\ ui'.apps = ui.apps /\ ui'.list = ui.list /\ ui'.queue = <<>>
         /\ ui'.queued = ui.queued /\ ui'.running = ui.running /\ ui'.refresh = n
         /\ ui'.saved = config.packages /\ ui'.excluded = config.packages
         /\ ui'.unmount = config.unmount /\ DOMAIN ui'.queue = {}
    <3>1. DOMAIN <<>> = {}
      OBVIOUS
    <3>2. QED
      BY <2>1, <2>5, <2>7, <2>9, <2>11, <2>13, <3>1
  <2>15. QueueInv'
    BY Zenon, <2>1, <2>14 DEF QueueInv
  <2>16. GroupInv'
    BY ZenonT(60), <1>1, <1>2, <2>14 DEF GroupInv, Uniform
  <2>17. RefreshInv'
    BY <1>2, <1>4, <2>13, <2>14 DEF RefreshInv
  <2>18. ShownInv'
    BY Zenon, <1>2, <2>1, <2>14 DEF ShownInv, LastList
  <2>19. SwitchInv'
    BY Zenon, <1>2, <2>14 DEF SwitchInv
  <2>20. QED
    BY Zenon, <1>1, <2>13, <2>14, <2>15, <2>16, <2>17, <2>18, <2>19, DaemonStutter DEF UiInv, PageInv
<1>7. QED
  BY Zenon, <1>5, <1>6

\* loadApps reads the list of packages, or fails.
LEMMA LoadStep ==
  ASSUME UiInv, ui.on, loadApps
  PROVE  UiInv'
<1>1. /\ ui \in Pages /\ DaemonInv /\ GroupInv /\ RefreshInv
      /\ ui.refresh.at = "apps" /\ UNCHANGED vars
  BY Zenon DEF UiInv, PageInv, loadApps, PageOnly
<1>2. list \in Lists /\ ui.queued \in Nat /\ ui.initial
  BY Zenon, <1>1 DEF DaemonInv, TypeOK, Pages, RefreshInv
<1>3. PICK s \in {"ready", "failed"}, l \in Lists \cup {<<>>} :
        /\ ui' = [ui EXCEPT !.refresh = Idle, !.apps = s, !.list = l]
        /\ s = "ready" => l = list
        /\ l \in {<<>>, list}
  <2>1. CASE ui' = [ui EXCEPT !.refresh = Idle, !.apps = "ready", !.list = list]
    BY <1>2, <2>1, Zenon
  <2>2. CASE ui' = [ui EXCEPT !.refresh = Idle, !.apps = "failed"]
    <3>1. ui' = [ui EXCEPT !.refresh = Idle, !.apps = "failed", !.list = ui.list]
      BY <1>1, <2>2, Zenon DEF Pages
    <3>2. ui.list \in Lists \cup {<<>>} /\ ui.list \in {<<>>, list}
      BY Zenon, <1>1 DEF Pages, GroupInv
    <3>3. QED
      BY <3>1, <3>2, Zenon
  <2>3. QED
    BY <2>1, <2>2, Zenon DEF loadApps
<1> DEFINE a == [ui EXCEPT !.refresh = Idle]
           b == [a EXCEPT !.apps = s]
<1>4. Idle \in Refreshes /\ Idle.at = "idle" /\ Idle.before = 0
  BY Zenon DEF Idle, Refreshes
<1>5. ui' = [b EXCEPT !.list = l]
  BY Zenon, <1>1, <1>3 DEF Pages
<1>6. a \in Pages
  BY <1>1, <1>4, PageUpdates, Zenon
<1>7. /\ a.on = ui.on /\ a.excluded = ui.excluded /\ a.saved = ui.saved
      /\ a.unmount = ui.unmount /\ a.queue = ui.queue /\ a.queued = ui.queued
      /\ a.running = ui.running /\ a.initial = ui.initial /\ a.refresh = Idle
  BY <1>1, Zenon DEF Pages
<1> HIDE DEF a
<1>8. b \in Pages
  BY <1>3, <1>6, PageUpdates, Zenon
<1>9. /\ b.on = a.on /\ b.excluded = a.excluded /\ b.saved = a.saved
      /\ b.unmount = a.unmount /\ b.queue = a.queue /\ b.queued = a.queued
      /\ b.running = a.running /\ b.initial = a.initial /\ b.refresh = a.refresh /\ b.apps = s
  BY Zenon, <1>6 DEF Pages
<1> HIDE DEF b
<1>10. [b EXCEPT !.list = l] \in Pages
  BY <1>8, PageUpdates, Zenon
<1>11. /\ ui' \in Pages /\ ui'.on = b.on /\ ui'.excluded = b.excluded /\ ui'.saved = b.saved
       /\ ui'.unmount = b.unmount /\ ui'.queue = b.queue /\ ui'.queued = b.queued
       /\ ui'.running = b.running /\ ui'.initial = b.initial /\ ui'.refresh = b.refresh
       /\ ui'.apps = b.apps /\ ui'.list = l
  BY Zenon, <1>5, <1>8, <1>10 DEF Pages
<1>12. RefreshInv'
  <2>1. ui'.refresh.at = "idle" /\ ui'.refresh.before = 0
    BY Zenon, <1>4, <1>7, <1>9, <1>11
  <2>2. ui'.initial /\ 0 <= ui'.queued
    BY <1>2, <1>7, <1>9, <1>11
  <2>3. QED
    BY Zenon, <2>1, <2>2 DEF RefreshInv
<1>13. QED
  BY Zenon, <1>1, <1>3, <1>7, <1>9, <1>11, <1>12, RefreshRest

\* The daemon and its files, with or without the page.
LEMMA DaemonSteps ==
  ASSUME DaemonInv,
         \/ WatcherStep \/ WriteConfig \/ WriteList
         \/ \E x \in Threads : Handler(x) \/ \E app \in AppIds : Asked(x, app)
  PROVE  DaemonInv'
<1>1. CASE WatcherStep
  <2>1. Watcher \in Actors
    BY Zenon DEF Actors
  <2>2. CASE Reload(Watcher)
    BY Zenon, <2>1, <2>2, ReloadStep
  <2>3. CASE Polls \/ Refreshed \/ Flush
    BY Zenon, <2>3, WatcherRest
  <2>4. QED
    BY Zenon, <1>1, <2>2, <2>3 DEF WatcherStep
<1>2. CASE WriteConfig
  <2>1. ConfigWritten
    BY Zenon, ExclusionAssumption, <1>2 DEF WriteConfig, ConfigWritten, daemonOnly
  <2>2. QED
    BY Zenon, <2>1, ConfigStep
<1>3. CASE WriteList
  BY Zenon, <1>3, ListStep
<1>4. ASSUME NEW x \in Threads, Handler(x) PROVE DaemonInv'
  <2>1. CASE Reload(x)
    BY Zenon, <2>1, ReloadStep DEF Actors
  <2>2. CASE Answer(x) \/ CacheFlags(x) \/ ReplyFails(x)
    BY Zenon, <2>2, HandlerStep
  <2>3. QED
    BY Zenon, <1>4, <2>1, <2>2 DEF Handler
<1>5. ASSUME NEW x \in Threads, NEW app \in AppIds, Asked(x, app) PROVE DaemonInv'
  BY Zenon, <1>5, AskedStep
<1>6. QED
  BY Zenon, <1>1, <1>2, <1>3, <1>4, <1>5

\* What holds of the page however impatient the user is: it is well formed, and a write is
\* under way just when one is queued.
FormInv ==
  /\ ui \in Pages
  /\ ui.running.at = "rest" <=> ui.queue = <<>>
  /\ ui.refresh.at = "apply" => ui.refresh.config \in Contents

\* The page keeps its form, and config.prop its own, in every step of the page.
LEMMA FormStep ==
  ASSUME DaemonInv, FormInv, Page
  PROVE  DaemonInv' /\ FormInv'
<1> USE DEF FormInv
<1>1. config \in Contents /\ list \in Lists
  BY Zenon DEF DaemonInv, TypeOK, Contents
<1>2. ASSUME NEW u \in Pages, NEW key \in {"exclude_apps", "exclude_unmount"}, NEW b \in BOOLEAN,
             ui' = queueConfigWrite(u, key, b), u.queue = ui.queue, u.running = ui.running,
             u.refresh = ui.refresh, PageOnly
      PROVE  DaemonInv' /\ FormInv'
  <2>1. /\ ui' \in Pages /\ ui'.queue = Append(u.queue, [key |-> key, enabled |-> b])
        /\ ui'.running = IF u.running.at # "rest" THEN u.running
                         ELSE [at |-> "start", packages |-> u.excluded \cap UserPackages]
        /\ ui'.refresh = u.refresh
    BY ONLY <1>2, QueueFacts, SMTT(30)
  <2>2. ui'.queue # <<>>
    <3>1. u.queue \in Seq(Writes)
      BY Zenon DEF Pages
    <3>2. [key |-> key, enabled |-> b] \in Writes
      BY Zenon, <1>2 DEF Writes
    <3>3. QED
      BY <2>1, <3>1, <3>2, SMTT(30)
  <2>3. QED
    BY <1>2, <2>1, <2>2, DaemonStutter, SMTT(30) DEF PageOnly
<1>3. ASSUME NEW p \in UserPackages, toggleApp(p) PROVE DaemonInv' /\ FormInv'
  <2> DEFINE s == IF p \in ui.excluded THEN ui.excluded \ Group(p) ELSE ui.excluded \cup Group(p)
             u == [ui EXCEPT !.excluded = s]
  <2>1. Group(p) \subseteq Packages
    BY Zenon, WebUiAssumption DEF Group
  <2>2. s \in SUBSET Packages
    BY Zenon, <2>1 DEF Pages
  <2>3. PICK b \in BOOLEAN : b = TRUE
    BY Zenon
  <2>4. ui' = queueConfigWrite(u, "exclude_apps", b) /\ PageOnly
    BY Zenon, <1>3, <2>3 DEF toggleApp
  <2> HIDE DEF s
  <2>5. u \in Pages
    BY <2>2, PageUpdates, Zenon
  <2>6. u.queue = ui.queue /\ u.running = ui.running /\ u.refresh = ui.refresh
    BY Zenon DEF Pages
  <2> HIDE DEF u
  <2>7. QED
    BY Zenon, <1>2, <2>4, <2>5, <2>6
<1>4. CASE saveToggle
  <2>1. PICK b \in BOOLEAN : b = ~ui.unmount
    BY Zenon
  <2> DEFINE u == [ui EXCEPT !.unmount = b]
  <2>2. ui' = queueConfigWrite(u, "exclude_unmount", b) /\ PageOnly
    BY <1>4, <2>1, Zenon DEF saveToggle
  <2>3. u \in Pages
    BY PageUpdates, Zenon
  <2>4. u.queue = ui.queue /\ u.running = ui.running /\ u.refresh = ui.refresh
    BY Zenon DEF Pages
  <2> HIDE DEF u
  <2>5. QED
    BY Zenon, <1>2, <2>2, <2>3, <2>4
<1>5. CASE WriteEnds
  <2>1. PICK done, next : done = Ended(ui) /\ next = Resumes(done) /\ ui' = Starts(next)
    BY Zenon, <1>5 DEF WriteEnds, Ended
  <2>2. ui.queue # <<>>
    BY Zenon, <1>5 DEF WriteEnds
  <2>3. done \in Pages /\ done.running = Resting /\ done.refresh = ui.refresh
    BY ONLY Zenon, <2>1, <2>2, ui \in Pages, SettledFacts
  <2>4. /\ next \in Pages /\ next.running = done.running
        /\ next.refresh.at = "read" \/ next.refresh = done.refresh
    BY ONLY Zenon, <2>1, <2>3, ResumesFacts
  <2>5. /\ ui' \in Pages /\ ui'.refresh = next.refresh /\ ui'.queue = next.queue
        /\ ui'.running = IF next.queue = <<>> \/ next.running.at # "rest" THEN next.running
                         ELSE [at |-> "start", packages |-> next.excluded \cap UserPackages]
    BY ONLY <2>1, <2>4, StartsFacts, Zenon
  <2>6. ui'.running.at = "rest" <=> ui'.queue = <<>>
    BY <2>3, <2>4, <2>5, SMTT(30) DEF Resting
  <2>7. ui'.refresh.at = "apply" => ui'.refresh.config \in Contents
    BY Zenon, <2>3, <2>4, <2>5
  <2>8. QED
    BY Zenon, <1>5, <2>5, <2>6, <2>7, DaemonStutter DEF WriteEnds, PageOnly
<1>6. CASE setConfigValue
  <2>1. PICK at \in {"ok", "failed"} :
          /\ ui' = [ui EXCEPT !.running.at = at]
          /\ at = "ok" => /\ config' = IF Head(ui.queue).key = "exclude_apps"
                                       THEN [config EXCEPT !.packages = ui.running.packages]
                                       ELSE [config EXCEPT !.unmount = Head(ui.queue).enabled]
                          /\ config_mtime' = config_mtime + 1
          /\ at = "failed" => config' = config /\ config_mtime' = config_mtime
    BY Zenon, <1>6 DEF setConfigValue
  <2>2. ui.queue # <<>> /\ UNCHANGED daemonOnly
    BY Zenon, <1>6 DEF setConfigValue
  <2> DEFINE r == [ui.running EXCEPT !.at = at]
  <2>3. r \in Runs /\ r.at = at
    BY Zenon DEF Pages, Runs
  <2>4. ui' = [ui EXCEPT !.running = r]
    BY Zenon, <2>1 DEF Pages
  <2> HIDE DEF r
  <2>5. [ui EXCEPT !.running = r] \in Pages
    BY <2>3, PageUpdates, Zenon
  <2>6. ui' \in Pages /\ ui'.running = r /\ ui'.queue = ui.queue /\ ui'.refresh = ui.refresh
    BY <2>4, <2>5, Zenon DEF Pages
  <2>7. /\ Head(ui.queue) \in Writes /\ ui.running.packages \in SUBSET Packages
        /\ config \in [packages: SUBSET Packages, unmount: BOOLEAN]
    BY <1>1, <2>2 DEF Pages, Runs, Contents
  <2>8. CASE at = "ok"
    <3>1. config' \in [packages: SUBSET Packages, unmount: BOOLEAN]
      BY Zenon, <2>1, <2>7, <2>8 DEF Writes
    <3>2. QED
      BY Zenon, <2>1, <2>2, <2>3, <2>6, <2>8, <3>1, ConfigStep DEF ConfigWritten
  <2>9. CASE at = "failed"
    BY Zenon, <2>1, <2>2, <2>3, <2>6, <2>9, DaemonStutter DEF vars, files, daemonOnly
  <2>10. QED
    BY Zenon, <2>8, <2>9
<1>7. CASE refresh
  <2> DEFINE r == [Idle EXCEPT !.at = IF ui.queue = <<>> THEN "read" ELSE "wait",
                               !.before = ui.queued, !.all = ui.opened]
             u == [ui EXCEPT !.opened = TRUE]
  <2>1. r \in Refreshes /\ r.at # "apply"
    BY Zenon DEF Pages, Refreshes, Idle
  <2>2. ui' = [u EXCEPT !.refresh = r] /\ PageOnly
    BY Zenon, <1>7 DEF refresh, Pages
  <2> HIDE DEF r
  <2>3. u \in Pages
    BY PageUpdates, Zenon
  <2>4. u.queue = ui.queue /\ u.running = ui.running
    BY Zenon DEF Pages
  <2> HIDE DEF u
  <2>5. [u EXCEPT !.refresh = r] \in Pages
    BY <2>1, <2>3, PageUpdates, Zenon
  <2>6. ui' \in Pages /\ ui'.refresh = r /\ ui'.queue = u.queue /\ ui'.running = u.running
    BY <2>2, <2>3, <2>5, Zenon DEF Pages
  <2>7. QED
    BY Zenon, <2>1, <2>2, <2>4, <2>6, DaemonStutter DEF PageOnly
<1>8. CASE RefreshReads
  <2>1. ui.refresh \in Refreshes /\ PageOnly
    BY Zenon, <1>8 DEF RefreshReads, Pages
  <2>2. CASE ui' = [ui EXCEPT !.refresh.at = "apply", !.refresh.config = config]
    <3> DEFINE r == [ui.refresh EXCEPT !.at = "apply", !.config = config]
    <3>1. r \in Refreshes /\ r.config = config
      BY <1>1, <2>1, Zenon DEF Refreshes
    <3>2. ui' = [ui EXCEPT !.refresh = r]
      BY <2>2, Zenon DEF Pages
    <3> HIDE DEF r
    <3>3. [ui EXCEPT !.refresh = r] \in Pages
      BY <3>1, PageUpdates, Zenon
    <3>4. ui' \in Pages /\ ui'.refresh = r /\ ui'.queue = ui.queue /\ ui'.running = ui.running
      BY <3>2, <3>3, Zenon DEF Pages
    <3>5. QED
      BY Zenon, <1>1, <2>1, <3>1, <3>4, DaemonStutter DEF PageOnly
  <2>3. CASE ui' = [ui EXCEPT !.refresh = Idle]
    <3>1. Idle \in Refreshes /\ Idle.at # "apply"
      BY Zenon DEF Idle, Refreshes
    <3>2. [ui EXCEPT !.refresh = Idle] \in Pages
      BY <3>1, PageUpdates, Zenon
    <3>3. ui' \in Pages /\ ui'.refresh = Idle /\ ui'.queue = ui.queue
          /\ ui'.running = ui.running
      BY <2>3, <3>2, Zenon DEF Pages
    <3>4. QED
      BY Zenon, <2>1, <3>1, <3>3, DaemonStutter DEF PageOnly
  <2>4. QED
    BY Zenon, <1>8, <2>2, <2>3 DEF RefreshReads
<1>9. CASE RefreshApplies
  <2>1. PICK n \in {Idle, [Idle EXCEPT !.at = "apps"]} :
          /\ KeepsUi => ui' = [ui EXCEPT !.refresh = n]
          /\ ~KeepsUi => ui' = [ui EXCEPT !.refresh = n, !.saved = ui.refresh.config.packages,
                                          !.excluded = ui.refresh.config.packages,
                                          !.unmount = ui.refresh.config.unmount, !.initial = TRUE]
    BY <1>9, Zenon DEF RefreshApplies
  <2>2. n \in Refreshes /\ n.at # "apply"
    <3>1. CASE n = Idle
      BY Zenon, <3>1 DEF Idle, Refreshes
    <3>2. CASE n = [Idle EXCEPT !.at = "apps"]
      BY <3>2, Zenon DEF Idle, Refreshes
    <3>3. QED
      BY Zenon, <3>1, <3>2
  <2> DEFINE c == ui.refresh.config
             a == [ui EXCEPT !.refresh = n]
             b == [a EXCEPT !.saved = c.packages]
             d == [b EXCEPT !.excluded = c.packages]
             e == [d EXCEPT !.unmount = c.unmount]
  <2>3. c.packages \in SUBSET Packages /\ c.unmount \in BOOLEAN /\ PageOnly
    BY Zenon, <1>9 DEF Contents, RefreshApplies
  <2>4. ui' = a \/ ui' = [e EXCEPT !.initial = TRUE]
    BY Zenon, <2>1 DEF Pages
  <2> HIDE DEF c
  <2>5. a \in Pages /\ a.queue = ui.queue /\ a.running = ui.running /\ a.refresh = n
    <3>1. a \in Pages
      BY <2>2, PageUpdates, Zenon
    <3>2. QED
      BY <3>1, Zenon DEF Pages
  <2> HIDE DEF a
  <2>6. b \in Pages /\ b.queue = a.queue /\ b.running = a.running /\ b.refresh = a.refresh
    <3>1. b \in Pages
      BY <2>3, <2>5, PageUpdates, Zenon
    <3>2. QED
      BY <2>5, <3>1, Zenon DEF Pages
  <2> HIDE DEF b
  <2>7. d \in Pages /\ d.queue = b.queue /\ d.running = b.running /\ d.refresh = b.refresh
    <3>1. d \in Pages
      BY <2>3, <2>6, PageUpdates, Zenon
    <3>2. QED
      BY <2>6, <3>1, Zenon DEF Pages
  <2> HIDE DEF d
  <2>8. e \in Pages /\ e.queue = d.queue /\ e.running = d.running /\ e.refresh = d.refresh
    <3>1. e \in Pages
      BY <2>3, <2>7, PageUpdates, Zenon
    <3>2. QED
      BY <2>7, <3>1, Zenon DEF Pages
  <2> HIDE DEF e
  <2> DEFINE g == [e EXCEPT !.initial = TRUE]
  <2>9. g \in Pages /\ g.queue = e.queue /\ g.running = e.running /\ g.refresh = e.refresh
    <3>1. g \in Pages
      BY <2>8, PageUpdates, Zenon
    <3>2. QED
      BY <2>8, <3>1, Zenon DEF Pages
  <2> HIDE DEF g
  <2>10. ui' \in Pages /\ ui'.queue = ui.queue /\ ui'.running = ui.running /\ ui'.refresh = n
    BY <2>4, <2>5, <2>6, <2>7, <2>8, <2>9, Zenon DEF g
  <2>11. QED
    BY Zenon, <2>2, <2>3, <2>10, DaemonStutter DEF PageOnly
<1>10. CASE loadApps
  <2>1. PICK s \in {"ready", "failed"}, l \in Lists \cup {<<>>} :
          ui' = [ui EXCEPT !.refresh = Idle, !.apps = s, !.list = l]
    <3>1. CASE ui' = [ui EXCEPT !.refresh = Idle, !.apps = "ready", !.list = list]
      BY <1>1, <3>1, Zenon
    <3>2. CASE ui' = [ui EXCEPT !.refresh = Idle, !.apps = "failed"]
      <4>1. ui' = [ui EXCEPT !.refresh = Idle, !.apps = "failed", !.list = ui.list]
        BY <3>2, Zenon DEF Pages
      <4>2. ui.list \in Lists \cup {<<>>}
        BY Zenon DEF Pages
      <4>3. QED
        BY <4>1, <4>2, Zenon
    <3>3. QED
      BY <1>10, <3>1, <3>2, Zenon DEF loadApps
  <2> DEFINE a == [ui EXCEPT !.refresh = Idle]
             b == [a EXCEPT !.apps = s]
             d == [b EXCEPT !.list = l]
  <2>2. Idle \in Refreshes /\ Idle.at # "apply"
    BY Zenon DEF Idle, Refreshes
  <2>3. ui' = d
    BY Zenon, <2>1 DEF Pages
  <2>4. a \in Pages /\ a.queue = ui.queue /\ a.running = ui.running /\ a.refresh = Idle
    <3>1. a \in Pages
      BY <2>2, PageUpdates, Zenon
    <3>2. QED
      BY <3>1, Zenon DEF Pages
  <2> HIDE DEF a
  <2>5. b \in Pages /\ b.queue = a.queue /\ b.running = a.running /\ b.refresh = a.refresh
    <3>1. b \in Pages
      BY <2>1, <2>4, PageUpdates, Zenon
    <3>2. QED
      BY <2>4, <3>1, Zenon DEF Pages
  <2> HIDE DEF b
  <2>6. d \in Pages /\ d.queue = b.queue /\ d.running = b.running /\ d.refresh = b.refresh
    <3>1. d \in Pages
      BY <2>1, <2>5, PageUpdates, Zenon
    <3>2. QED
      BY <2>5, <3>1, Zenon DEF Pages
  <2> HIDE DEF d
  <2>7. PageOnly
    BY Zenon, <1>10 DEF loadApps
  <2>8. QED
    BY Zenon, <2>2, <2>3, <2>4, <2>5, <2>6, <2>7, DaemonStutter DEF PageOnly
<1>11. QED
  BY Zenon, <1>3, <1>4, <1>5, <1>6, <1>7, <1>8, <1>9, <1>10 DEF Page

-----------------------------------------------------------------------------
(* The theorems. *)

\* The form's invariant holds when the page opens.
LEMMA FormInit == UiInit => DaemonInv /\ FormInv
<1> SUFFICES ASSUME UiInit PROVE DaemonInv /\ FormInv
  BY Zenon
<1>1. DaemonInv
  BY Zenon, DaemonInit DEF UiInit
<1>2. ui \in Pages
  <2>1. PICK on \in BOOLEAN :
          ui = [on |-> on, excluded |-> {}, saved |-> {}, unmount |-> TRUE, apps |-> "loading",
                list |-> <<>>, queue |-> <<>>, running |-> Resting, queued |-> 0,
                refresh |-> Idle, initial |-> FALSE, opened |-> FALSE]
    BY Zenon DEF UiInit
  <2>2. Resting \in Runs /\ Idle \in Refreshes /\ <<>> \in Seq(Writes)
    <3>1. Resting \in Runs
      BY Zenon DEF Resting, Runs
    <3>2. Idle \in Refreshes
      BY Zenon DEF Idle, Refreshes
    <3>3. QED
      BY <3>1, <3>2, SMTT(30)
  <2>3. QED
    BY <2>1, <2>2, Zenon DEF Pages
<1>3. ui.running.at = "rest" /\ ui.queue = <<>> /\ ui.refresh.at = "idle"
  BY DEF UiInit, Idle, Resting
<1>4. QED
  BY Zenon, <1>1, <1>2, <1>3 DEF FormInv

\* Every step keeps it.
LEMMA FormNext == DaemonInv /\ FormInv /\ [UiNext]_uiVars => DaemonInv' /\ FormInv'
<1> SUFFICES ASSUME DaemonInv, FormInv, [UiNext]_uiVars PROVE DaemonInv' /\ FormInv'
  OBVIOUS
<1>1. CASE Page
  BY Zenon, <1>1, FormStep
<1>2. ASSUME UNCHANGED <<ui, hasty>>,
             \/ WatcherStep \/ WriteConfig \/ WriteList
             \/ \E x \in Threads : Handler(x) \/ \E app \in AppIds : Asked(x, app)
      PROVE  DaemonInv' /\ FormInv'
  BY <1>2, DaemonSteps, Zenon DEF FormInv
<1>3. CASE UNCHANGED uiVars
  BY Zenon, <1>3, DaemonStutter DEF uiVars, FormInv
<1>4. QED
  BY Zenon, <1>1, <1>2, <1>3 DEF UiNext

\* exclude.rs: under any edits of config.prop and packages.list, any number of handler
\* threads and the page's own writes, a state whose times are those of the files holds what
\* the files say.
THEOREM DaemonCoherent == UiSpec => []StateCoherent
<1>1. DaemonInv => StateCoherent
  BY Zenon DEF DaemonInv
<1>2. QED
  BY FormInit, FormNext, <1>1, PTL DEF UiSpec

\* zygiskd.rs:1113: a request that arrived after a flush caches no answer from a
\* configuration older than the one the flush was for.
THEOREM CacheFresh == UiSpec => []FreshAfterFlush
<1>1. DaemonInv => FreshAfterFlush
  <2> SUFFICES ASSUME DaemonInv, NEW x \in Threads, pc[x] = "cache"
               PROVE  job[x].seen >= job[x].floor
    BY Zenon DEF FreshAfterFlush
  <2>1. x \in Actors /\ job[x] \in Jobs
    BY Zenon DEF Actors, DaemonInv, TypeOK
  <2>2. job[x].seen \in Nat /\ job[x].floor \in Nat /\ job[x].floor <= job[x].seen
    <3>1. TimeInv
      BY Zenon DEF DaemonInv
    <3>2. job[x].seen \in Nat /\ job[x].floor \in Nat
      BY Zenon, <2>1 DEF Jobs
    <3>3. job[x].floor <= job[x].seen
      BY Zenon, <2>1, <3>1 DEF TimeInv
    <3>4. QED
      BY Zenon, <3>2, <3>3
  <2>3. QED
    BY Zenon, <2>2
<1>2. QED
  BY FormInit, FormNext, <1>1, PTL DEF UiSpec

\* The page's invariant holds when it opens.
LEMMA PageInit == UiInit => UiInv
<1> SUFFICES ASSUME UiInit PROVE UiInv
  OBVIOUS
<1>1. DaemonInv /\ ui \in Pages
  BY FormInit, Zenon DEF FormInv
<1>2. /\ ui.running = Resting /\ ui.queue = <<>> /\ ui.refresh = Idle /\ ui.queued = 0
      /\ ui.excluded = {} /\ ui.saved = {} /\ ui.list = <<>> /\ ui.apps = "loading"
      /\ ~ui.initial /\ list_mtime = 0 /\ (ui.on => Together(config.packages))
      /\ DOMAIN ui.queue = {}
  <2>1. DOMAIN <<>> = {}
    OBVIOUS
  <2>2. QED
    BY <2>1 DEF UiInit, Init
<1>3. QueueInv /\ ShownInv /\ SwitchInv
  <2>1. QueueInv
    <3>1. ui.running = Resting
      BY <1>2, Zenon
    <3>2. ui.running.at = "rest"
      BY ONLY <3>1 DEF Resting
    <3>3. QED
      BY <1>2, <3>2, Zenon DEF QueueInv
  <2>2. ~ui.initial
    BY <1>2, Zenon
  <2>3. QED
    BY <2>1, <2>2, Zenon DEF ShownInv, SwitchInv
<1>4. RefreshInv
  <2>1. ui.refresh = Idle /\ ui.queued = 0 /\ ui.apps = "loading"
    BY <1>2, Zenon
  <2>2. ui.refresh.at = "idle" /\ ui.refresh.before = 0
    BY ONLY <2>1 DEF Idle
  <2>3. QED
    BY ONLY <2>1, <2>2 DEF RefreshInv
<1>5. ui.on => GroupInv
  <2>1. /\ ui.running = Resting /\ ui.excluded = {} /\ ui.saved = {} /\ ui.list = <<>>
        /\ ui.apps = "loading" /\ list_mtime = 0 /\ (ui.on => Together(config.packages))
    BY <1>2, Zenon
  <2>2. ui.running.packages = {}
    BY ONLY <2>1, SMTT(30) DEF Resting
  <2>3. ui.on => Uniform(config.packages)
    BY ONLY Zenon, <2>1 DEF Uniform, Together
  <2>4. Uniform({})
    BY ONLY Zenon, TRUE DEF Uniform
  <2>5. ui.apps # "ready"
    BY ONLY Zenon, <2>1
  <2>6. QED
    BY <2>1, <2>2, <2>3, <2>4, <2>5, Zenon DEF GroupInv
<1>6. ui.running.at = "rest" /\ ui.refresh.at = "idle"
  <2>1. ui.running = Resting /\ ui.refresh = Idle
    BY <1>2, Zenon
  <2>2. QED
    BY ONLY <2>1 DEF Resting, Idle
<1>7. QED
  BY Zenon, <1>1, <1>3, <1>4, <1>5, <1>6 DEF UiInv, PageInv

\* The watcher changes no file.
LEMMA WatcherFiles == WatcherStep => UNCHANGED <<config, list, list_mtime>>
<1>1. Reload(Watcher) => UNCHANGED <<config, list, list_mtime>>
  BY Zenon DEF Reload, TakeLock, SampleConfig, SampleList, ReadConfig, ReadList, files
<1>2. Polls \/ Refreshed \/ Flush => UNCHANGED <<config, list, list_mtime>>
  BY Zenon DEF Polls, Refreshed, Flush, files
<1>3. QED
  BY Zenon, <1>1, <1>2 DEF WatcherStep

\* A step of the daemon or the shell that leaves the page alone.
LEMMA PageStutter ==
  ASSUME UiInv, DaemonInv', UNCHANGED ui, ui.on => UNCHANGED <<config, list, list_mtime>>
  PROVE  UiInv'
<1>1. CASE ui.on
  <2>1. QueueInv' /\ RefreshInv'
    BY <1>1, Zenon DEF UiInv, PageInv, QueueInv, RefreshInv
  <2>2. GroupInv'
    <3>1. GroupInv
      BY <1>1, Zenon DEF UiInv, PageInv
    <3>2. list' = list /\ config' = config /\ list_mtime' = list_mtime /\ ui' = ui
      BY <1>1, Zenon
    <3>3. Uniform(config.packages)' /\ Uniform(ui.excluded)'
      BY <3>1, <3>2, Zenon DEF GroupInv, Uniform
    <3>4. Uniform(ui.saved)' /\ Uniform(ui.running.packages)'
      BY <3>1, <3>2, Zenon DEF GroupInv, Uniform
    <3>5. QED
      BY <3>1, <3>2, <3>3, <3>4, Zenon DEF GroupInv
  <2>3. ShownInv' /\ SwitchInv'
    BY <1>1, Zenon DEF UiInv, PageInv, ShownInv, SwitchInv, Pending, LastList
  <2>4. QED
    BY Zenon, <1>1, <2>1, <2>2, <2>3 DEF UiInv, PageInv
<1>2. CASE ~ui.on
  BY <1>2, Zenon DEF UiInv, PageInv
<1>3. QED
  BY Zenon, <1>1, <1>2

\* A tap that the page mishandles is remembered: hasty never goes back to FALSE.
LEMMA HastyStays == hasty /\ [UiNext]_uiVars => hasty'
  BY Zenon DEF UiNext, Page, Tapped, uiVars

\* A step that is not such a tap keeps the page's invariant.
LEMMA PageNext == ~hasty' /\ UiInv /\ [UiNext]_uiVars => UiInv'
<1> SUFFICES ASSUME ~hasty', UiInv, [UiNext]_uiVars PROVE UiInv'
  OBVIOUS
<1>1. CASE Page
  <2>1. ui.on
    BY <1>1, Zenon DEF Page, UiInv, PageInv, setConfigValue, WriteEnds, saveToggle, refresh,
                RefreshReads, RefreshApplies, loadApps, toggleApp, MayTap
  <2>2. CASE setConfigValue \/ WriteEnds \/ refresh \/ RefreshReads \/ RefreshApplies \/ loadApps
    BY Zenon, <2>1, <2>2, SetStep, EndsStep, RefreshStep, ReadsStep, AppliesStep, LoadStep
  <2>3. CASE (saveToggle \/ \E p \in UserPackages : toggleApp(p)) /\ Tapped
    <3>1. ~Hasty
      BY <2>3, Zenon DEF Tapped
    <3>2. QED
      BY Zenon, <2>3, <3>1, SwitchStep, ToggleStep
  <2>4. QED
    BY <1>1, <2>2, <2>3, Zenon DEF Page
<1>2. ASSUME UNCHANGED <<ui, hasty>>,
             \/ WatcherStep
             \/ ~ui.on /\ (WriteConfig \/ WriteList)
             \/ ~ui.on /\ \E x \in Threads : Handler(x) \/ \E app \in AppIds : Asked(x, app)
      PROVE  UiInv'
  <2>1. DaemonInv'
    BY Zenon, <1>2, DaemonSteps DEF UiInv
  <2>2. ui.on => UNCHANGED <<config, list, list_mtime>>
    BY Zenon, <1>2, WatcherFiles
  <2>3. QED
    BY Zenon, <1>2, <2>1, <2>2, PageStutter
<1>3. CASE UNCHANGED uiVars
  BY Zenon, <1>3, DaemonStutter, PageStutter DEF uiVars, vars, files, UiInv
<1>4. QED
  BY Zenon, <1>1, <1>2, <1>3 DEF UiNext

\* At rest, what the page shows is what the daemon enforces.
LEMMA RestShown == hasty \/ UiInv => ShownIsEnforced
<1> SUFFICES ASSUME UiInv, ui.on, AtRest, Watched, state.loaded, state.read
             PROVE  /\ \A p \in UserPackages : ~isLocked(p) /\ list[p] \in AppIds
                         => (p \in ui.excluded <=> list[p] \in state.app_ids)
                    /\ ui.unmount = state.unmount
  BY Zenon DEF ShownIsEnforced
<1>1. /\ DaemonInv /\ QueueInv /\ GroupInv /\ RefreshInv /\ ShownInv /\ SwitchInv
      /\ ui.queue = <<>> /\ ui.apps = "ready"
  BY Zenon DEF UiInv, PageInv, AtRest
<1>2. state.config_mtime = config_mtime /\ state.list_mtime = list_mtime
  <2>1. last <= state.config_mtime /\ last = config_mtime /\ state.config_mtime <= config_mtime
    BY Zenon, <1>1 DEF DaemonInv, TimeInv, WatchInv, Watched
  <2>2. list_mtime = 0 /\ state.list_mtime <= list_mtime
    BY Zenon, <1>1 DEF DaemonInv, TimeInv, GroupInv
  <2>3. state.config_mtime \in Nat /\ config_mtime \in Nat /\ state.list_mtime \in Nat
    BY Zenon, <1>1 DEF DaemonInv, TypeOK
  <2>4. QED
    BY <2>1, <2>2, <2>3, SMTT(30)
<1>3. state.app_ids = resolve_app_ids(config.packages, list) /\ state.unmount = config.unmount
  BY Zenon, <1>1, <1>2 DEF DaemonInv, StateCoherent
<1>4. ui.initial /\ ui.running.at = "rest" /\ DOMAIN ui.queue = {} /\ ui.list = list
  <2>1. ui.initial
    BY <1>1, Zenon DEF RefreshInv
  <2>2. ui.running.at = "rest" /\ ui.queue = <<>>
    BY <1>1, Zenon DEF QueueInv
  <2>3. DOMAIN ui.queue = {}
    BY ONLY <2>2
  <2>4. ui.list = list
    BY <1>1, Zenon DEF GroupInv
  <2>5. QED
    BY <2>1, <2>2, <2>3, <2>4, Zenon
<1>5. /\ config.packages = ui.saved /\ ui.unmount = config.unmount
      /\ ui.excluded \cap UserPackages = ui.saved \cap UserPackages
  <2>1. ~Pending("exclude_apps") /\ ~Pending("exclude_unmount")
    <3>1. DOMAIN ui.queue = {}
      BY <1>4, Zenon
    <3>2. QED
      BY ONLY Zenon, <3>1 DEF Pending
  <2>2. ui.running.at # "ok"
    <3>1. ui.running.at = "rest"
      BY <1>4, Zenon
    <3>2. QED
      BY ONLY Zenon, <3>1
  <2>3. QED
    BY <1>1, <1>4, <2>1, <2>2, Zenon DEF ShownInv, SwitchInv
<1>6. ASSUME NEW p \in UserPackages, ~isLocked(p), list[p] \in AppIds
      PROVE  p \in ui.excluded <=> list[p] \in state.app_ids
  <2>1. p \in Packages /\ ui.saved \subseteq Packages
    BY Zenon, WebUiAssumption DEF UiInv, Pages
  <2>2. p \in ui.excluded <=> p \in ui.saved
    BY Zenon, <1>5
  <2>3. \A z \in Packages : list[z] = list[p] => z \in UserPackages
    BY Zenon, <1>4, <1>6 DEF isLocked, Group
  <2>4. p \in ui.saved => \A z \in Packages : list[z] = list[p] => z \in ui.saved
    BY Zenon, <1>1, <1>6, <2>1, <2>3 DEF GroupInv, Uniform
  <2>5. QED
    BY Zenon, <1>3, <1>5, <1>6, <2>1, <2>2, <2>4 DEF resolve_app_ids
<1>7. QED
  BY Zenon, <1>3, <1>5, <1>6

\* script.js:208: for every set of packages and app ids and every bound on the taps, as long
\* as no tap was made before the first snapshot was shown or while a reload waited, and
\* however the other taps, failing writes and a reload overlap, an app the page shows as
\* excluded at rest is one the daemon excludes, the others are not, and the switch is the
\* daemon's.
THEOREM PageShows == UiSpec => []ShownIsEnforced
<1>1. UiInit => hasty \/ UiInv
  BY PageInit, Zenon
<1>2. (hasty \/ UiInv) /\ [UiNext]_uiVars => (hasty \/ UiInv)'
  BY HastyStays, PageNext, Zenon
<1>3. QED
  BY <1>1, <1>2, RestShown, PTL DEF UiSpec
=============================================================================
