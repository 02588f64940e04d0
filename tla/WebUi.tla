-------------------------------- MODULE WebUi --------------------------------
(***************************************************************************)
(* The page that edits config.prop (script.js), and the daemon that acts   *)
(* on it (Exclusion).  The page is one thread: a handler runs from an      *)
(* event, or from the end of a shell command, to its next await.  Writes   *)
(* of config.prop are chained, and every command may fail.                 *)
(*                                                                         *)
(* A behaviour is either one of the daemon under arbitrary edits, or one   *)
(* of the page with the daemon's watcher (ui.on).                          *)
(***************************************************************************)
EXTENDS Exclusion, Sequences

CONSTANTS UserPackages,   \* pm list packages -3
          MaxTaps         \* bound on the taps

ASSUME WebUiAssumption ==
  UserPackages \subseteq Packages /\ MaxTaps \in Nat

VARIABLES ui, hasty
  \* excluded (excludedApps), saved (savedExcluded), unmount (the switch exclude-unmount),
  \* apps (appsState), list (what loadApps read), queue (the writes chained on configWrite, the
  \* first under way), running (the value being written and how far it is), queued (how many
  \* writes were chained, which tells one configWrite from the next), refresh (its step, what
  \* it read, the configWrite it waits for or that was writeBeforeRead, and showSuccessToast),
  \* initial (whether initialExcluded is set) and opened;
  \* hasty (history): a tap the page mishandles was made

uiVars == <<vars, ui, hasty>>

Idle == [at |-> "idle", config |-> <<>>, before |-> 0, all |-> FALSE]
Resting == [at |-> "rest", packages |-> {}]

\* What the page writes: packages that share an app id are listed together.
Together(packages) ==
  \A x, y \in Packages : list[x] = list[y] /\ list[x] \in AppIds => (x \in packages <=> y \in packages)

UiInit ==
  /\ Init
  /\ hasty = FALSE
  /\ \E on \in BOOLEAN :
       /\ on => Together(config.packages)
       /\ ui = [on |-> on, excluded |-> {}, saved |-> {}, unmount |-> TRUE, apps |-> "loading",
                list |-> <<>>, queue |-> <<>>, running |-> Resting, queued |-> 0,
                refresh |-> Idle, initial |-> FALSE, opened |-> FALSE]

daemonOnly == <<list, list_mtime, state, lock, cache, pc, job, last, flushed>>
PageOnly == UNCHANGED vars

-----------------------------------------------------------------------------
(* Writes. *)

\* getValue, when a write starts: only user packages are written.
Written(u) == u.excluded \cap UserPackages
Starts(u) ==
  IF u.queue = <<>> \/ u.running.at # "rest" THEN u
  ELSE [u EXCEPT !.running = [at |-> "start", packages |-> Written(u)]]

queueConfigWrite(u, key, enabled) ==
  Starts([u EXCEPT !.queue = Append(@, [key |-> key, enabled |-> enabled]), !.queued = @ + 1])

\* setConfigValue: the other keys are kept, and the file is renamed into place.
setConfigValue ==
  /\ ui.running.at = "start"
  /\ \/ /\ ui' = [ui EXCEPT !.running.at = "ok"]
        /\ config' = IF Head(ui.queue).key = "exclude_apps"
                     THEN [config EXCEPT !.packages = ui.running.packages]
                     ELSE [config EXCEPT !.unmount = Head(ui.queue).enabled]
        /\ config_mtime' = config_mtime + 1
     \/ /\ ReadFails /\ ui' = [ui EXCEPT !.running.at = "failed"]
        /\ UNCHANGED <<config, config_mtime>>
  /\ UNCHANGED daemonOnly

\* What toggleApp and saveToggle do with the result.
Settled(u) ==
  LET write == Head(u.queue)
      ok == u.running.at = "ok"
  IN IF write.key = "exclude_apps"
     THEN IF ok THEN [u EXCEPT !.saved = u.running.packages] ELSE [u EXCEPT !.excluded = u.saved]
     ELSE IF ok THEN u ELSE [u EXCEPT !.unmount = ~write.enabled]

\* A refresh that waits for the writes chained before it goes on when the last has ended,
\* before a write chained later starts.
Resumes(u) ==
  IF u.refresh.at = "wait" /\ u.queued - Len(u.queue) >= u.refresh.before
  THEN [u EXCEPT !.refresh.at = "read", !.refresh.before = u.queued] ELSE u

WriteEnds ==
  /\ ui.running.at \in {"ok", "failed"}
  /\ LET done == [Settled(ui) EXCEPT !.queue = Tail(@), !.running = Resting]
     IN ui' = Starts(Resumes(done))
  /\ PageOnly

-----------------------------------------------------------------------------
(* Taps. *)

\* groupOf and isLocked, from the list as it was loaded.
Group(p) ==
  IF ui.list[p] \in AppIds THEN {q \in Packages : ui.list[q] = ui.list[p]} ELSE {p}
isLocked(p) == ~(Group(p) \subseteq UserPackages)

MayTap == ui.on /\ ui.opened /\ ui.queued < MaxTaps

\* Two taps make the page show what config.prop does not hold: one before the first
\* snapshot was applied, which is then never applied, and one while a refresh waits for
\* an earlier write, which the refresh takes for one it waited for.
Hasty == ui.refresh.at = "wait" \/ (~ui.initial /\ ui.refresh.at # "idle")
Tapped == hasty' = (hasty \/ Hasty)

toggleApp(p) ==
  /\ MayTap /\ ui.apps = "ready" /\ ~isLocked(p)
  /\ LET u == [ui EXCEPT !.excluded = IF p \in @ THEN @ \ Group(p) ELSE @ \cup Group(p)]
     IN ui' = queueConfigWrite(u, "exclude_apps", TRUE)
  /\ PageOnly

\* The switch is disabled while its write is under way.
saveToggle ==
  /\ MayTap /\ ~\E k \in DOMAIN ui.queue : ui.queue[k].key = "exclude_unmount"
  /\ ui' = queueConfigWrite([ui EXCEPT !.unmount = ~@], "exclude_unmount", ~ui.unmount)
  /\ PageOnly

-----------------------------------------------------------------------------
(* refresh, when the page opens and when reload is pressed. *)

refresh ==
  /\ ui.on /\ ui.refresh.at = "idle"
  /\ ui' = [ui EXCEPT !.opened = TRUE,
                      !.refresh = [Idle EXCEPT !.at = IF ui.queue = <<>> THEN "read" ELSE "wait",
                                               !.before = ui.queued, !.all = ui.opened]]
  /\ PageOnly

RefreshReads ==
  /\ ui.refresh.at = "read"
  /\ \/ ui' = [ui EXCEPT !.refresh.at = "apply", !.refresh.config = config]
     \/ ReadFails /\ ui' = [ui EXCEPT !.refresh = Idle]
  /\ PageOnly

\* Mutant: what was read is shown even if a toggle was queued meanwhile.
KeepsNothing == FALSE

\* "A toggle queued while the status command ran is newer than what it read".
KeepsUi == ui.queued # ui.refresh.before

RefreshApplies ==
  /\ ui.refresh.at = "apply"
  /\ LET r == ui.refresh
         next == IF ui.apps # "ready" \/ r.all THEN [Idle EXCEPT !.at = "apps"] ELSE Idle
     IN ui' = IF KeepsUi THEN [ui EXCEPT !.refresh = next]
              ELSE [ui EXCEPT !.refresh = next, !.saved = r.config.packages,
                              !.excluded = r.config.packages, !.unmount = r.config.unmount,
                              !.initial = TRUE]
  /\ PageOnly

loadApps ==
  /\ ui.refresh.at = "apps"
  /\ \/ ui' = [ui EXCEPT !.refresh = Idle, !.apps = "ready", !.list = list]
     \/ ReadFails /\ ui' = [ui EXCEPT !.refresh = Idle, !.apps = "failed"]
  /\ PageOnly

-----------------------------------------------------------------------------
Page ==
  \/ /\ setConfigValue \/ WriteEnds \/ refresh \/ RefreshReads \/ RefreshApplies \/ loadApps
     /\ UNCHANGED hasty
  \/ (saveToggle \/ \E p \in UserPackages : toggleApp(p)) /\ Tapped

UiNext ==
  \/ Page
  \/ /\ UNCHANGED <<ui, hasty>>
     /\ \/ WatcherStep
        \/ ~ui.on /\ (WriteConfig \/ WriteList)
        \/ ~ui.on /\ \E x \in Threads : Handler(x) \/ \E app \in AppIds : Asked(x, app)

UiSpec == UiInit /\ [][UiNext]_uiVars
FairUiSpec == UiSpec /\ Fairness

Contents == [packages: SUBSET Packages, unmount: BOOLEAN]
Writes == [key: {"exclude_apps", "exclude_unmount"}, enabled: BOOLEAN]
Runs == [at: {"rest", "start", "ok", "failed"}, packages: SUBSET Packages]
Refreshes == [at: {"idle", "wait", "read", "apply", "apps"}, config: Contents \cup {<<>>},
              before: Nat, all: BOOLEAN]
Pages == [on: BOOLEAN, excluded: SUBSET Packages, saved: SUBSET Packages, unmount: BOOLEAN,
          apps: {"loading", "ready", "failed"}, list: Lists \cup {<<>>}, queue: Seq(Writes),
          running: Runs, queued: Nat, refresh: Refreshes, initial: BOOLEAN, opened: BOOLEAN]

UiTypeOK == TypeOK /\ ui \in Pages /\ hasty \in BOOLEAN

AtRest == ui.queue = <<>> /\ ui.refresh.at = "idle" /\ ui.apps = "ready"
Watched == pc[Watcher] = "idle" /\ last = config_mtime

\* script.js:208, "excludedApps is what the UI shows; savedExcluded is what config.prop
\* holds."  As long as nobody taps before the first snapshot is shown or while a reload
\* waits for an earlier write (Hasty, where the page does lose track), once the page and
\* the watcher are at rest an app the page shows as excluded is one whose app id the daemon
\* excludes, the other apps are not, and the switch is the daemon's, however other taps,
\* failing writes and a reload overlapped.
ShownIsEnforced ==
  ui.on /\ ~hasty /\ AtRest /\ Watched /\ state.loaded /\ state.read =>
    /\ \A p \in UserPackages : ~isLocked(p) /\ list[p] \in AppIds
         => (p \in ui.excluded <=> list[p] \in state.app_ids)
    /\ ui.unmount = state.unmount
=============================================================================
