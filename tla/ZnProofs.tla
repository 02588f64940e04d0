------------------------------- MODULE ZnProofs -------------------------------
(***************************************************************************)
(* Proofs about Zn, for all sets of processes, threads, libraries and      *)
(* names, all plans and every world: the registry of inline hooks agrees   *)
(* with the code that is patched, a module is told the name its process    *)
(* gave itself, an app tells each module due once, and the state file      *)
(* says nothing the daemon did not count.                                  *)
(***************************************************************************)
EXTENDS Zn, WellFoundedInduction, TLAPS

------------------------------------------------------------------------------
(* The state file.                                                          *)

\* What the counters say of a line.
Sound(line) ==
  IF line[2] = "failed" THEN states[line[1]][2] > 0
  ELSE states[line[1]][1] > 0 /\ states[line[1]][2] = 0

\* The file a rename would leave published.
Visible == IF staging = {} THEN file ELSE staging

FileInv ==
  /\ report.by = "free" <=> report.pc = "idle"
  /\ staging # {} => report.pc # "idle" \/ restart.pc \in {"opened", "written"}
  /\ restart.pc = "cleared" /\ report.pc # "idle" => staging # {}
  /\ report.pc = "write" => report.fd \in Files /\ Visible = {report.fd}
  /\ report.pc = "rename" \/ (report.pc = "idle" /\ restart.pc # "cleared") =>
       \A i \in Visible : \A line \in disk[i] : Sound(line)

FileVars == <<states, report, disk, staging, file, restart>>

\* Nothing else touches the files and the counters.
LEMMA FileStutter ==
  FileInv /\ UNCHANGED FileVars => FileInv'
BY Zenon DEF FileInv, FileVars, Visible, Sound

\* Nothing is written and nothing is counted at first.
LEMMA FileInit ==
  Init => FileInv
<1>1. SUFFICES ASSUME Init PROVE FileInv OBVIOUS
<1>3. disk = [i \in Files |-> {}] /\ staging = {} /\ file = {} BY Zenon, <1>1 DEF Init
<1>4. report.pc = "idle" /\ report.by = "free" /\ restart.pc = "idle" BY Zenon, <1>1 DEF Init
<1> QED BY Zenon, <1>3, <1>4 DEF FileInv, Visible

\* A line of write_zn_state_file says what the counters do: a library is listed when it was
\* counted, and as failed when a failure was.
LEMMA RenderedSound ==
  ASSUME states \in [Libs -> Nat \X Nat], NEW line \in Rendered(states)
  PROVE  Sound(line)
<1>1. PICK l \in Libs : states[l] # <<0, 0>> /\ line = <<l, StateOf(states[l])>>
  BY Zenon DEF Rendered
<1>2. PICK a \in Nat, b \in Nat : states[l] = <<a, b>> OBVIOUS
<1>3. line[1] = l /\ line[2] = StateOf(states[l]) BY Zenon, <1>1
<1>4. states[l][1] = a /\ states[l][2] = b BY <1>2
<1>5. CASE b > 0
  <2>1. line[2] = "failed" BY Zenon, <1>3, <1>4, <1>5 DEF StateOf
  <2> QED BY Zenon, <2>1, <1>3, <1>4, <1>5 DEF Sound
<1>6. CASE ~ (b > 0)
  <2>1. line[2] = "injected" BY Zenon, <1>3, <1>4, <1>6 DEF StateOf
  <2>2. b = 0 BY <1>6
  <2>3. a # 0 BY Zenon, <1>1, <1>2, <2>2
  <2>4. a > 0 BY <2>3
  <2> QED BY Zenon, <2>1, <2>2, <2>4, <1>3, <1>4 DEF Sound
<1> QED BY Zenon, <1>5, <1>6

\* handle_report_zn_module opens the staging file, or empties it, while it holds the mutex.
LEMMA ReportFile ==
  ASSUME TypeOK, FileInv, NEW l \in Loaders, NEW fd \in Files, handle_report_zn_module(l, fd)
  PROVE  FileInv'
<1>1. /\ staging' = {fd} /\ UNCHANGED file /\ UNCHANGED restart
      /\ report' = [by |-> l, pc |-> "write", fd |-> fd]
  BY Zenon DEF handle_report_zn_module, Opens
<1>3. report'.pc = "write" /\ report'.fd = fd /\ report'.by = l /\ l # "free"
  BY Zenon, <1>1 DEF Loaders, Spawner, Zygote
<1>4. Visible' = {fd} BY Zenon, <1>1 DEF Visible
<1> QED BY Zenon, <1>1, <1>3, <1>4 DEF FileInv

\* The report writes the lines of its own counters to the file it opened, which is the one a
\* rename would publish.
LEMMA ReportWritesFile ==
  ASSUME TypeOK, FileInv, ReportWrites
  PROVE  FileInv'
<1>1. /\ disk' = [disk EXCEPT ![report.fd] = Rendered(states)]
      /\ UNCHANGED <<states, staging, file, restart>>
  BY Zenon DEF ReportWrites
<1>2. report.pc = "write" /\ report.fd \in Files /\ Visible = {report.fd}
  BY Zenon DEF ReportWrites, FileInv
<1>3. report'.pc = "rename" /\ report'.by = report.by
  BY Zenon, <1>2 DEF ReportWrites, TypeOK
<1>4. Visible' = {report.fd} BY Zenon, <1>1, <1>2 DEF Visible
<1>5. disk'[report.fd] = Rendered(states) BY Zenon, <1>1, <1>2 DEF TypeOK
<1>6. \A line \in Rendered(states) : Sound(line)' BY Zenon, <1>1, RenderedSound DEF TypeOK, Sound
<1> QED BY Zenon, <1>1, <1>2, <1>3, <1>4, <1>5, <1>6 DEF FileInv

\* What is renamed is what a rename would leave published.
LEMMA RenameKeeps ==
  ASSUME TypeOK, Renamed
  PROVE  /\ Visible' = Visible /\ staging' = {}
         /\ \A i \in Visible : disk'[i] = disk[i]
<1>1. file' = Visible /\ staging' = {} BY Zenon DEF Renamed, Visible
<1>2. Visible' = Visible BY Zenon, <1>1 DEF Visible
<1>3. Visible \subseteq Files BY Zenon DEF TypeOK, Visible
<1>4. \A i \in Visible : disk'[i] = disk[i] BY Zenon, <1>1, <1>3 DEF Renamed
<1> QED BY Zenon, <1>1, <1>2, <1>4

\* The rename of a report keeps the file whole.
LEMMA ReportRenamesFile ==
  ASSUME TypeOK, FileInv, ReportRenames
  PROVE  FileInv'
<1>1. Visible' = Visible /\ staging' = {} /\ \A i \in Visible : disk'[i] = disk[i]
  BY Zenon, RenameKeeps DEF ReportRenames
<1>2. report.pc = "rename" /\ report'.pc = "idle" /\ report'.by = "free"
  BY Zenon DEF ReportRenames, TypeOK
<1>3. UNCHANGED <<states, restart>> BY Zenon DEF ReportRenames
<1> QED BY Zenon, <1>1, <1>2, <1>3 DEF FileInv, Sound

\* The counters are cleared with no report under way; the file may then say too much.
LEMMA RestartClearsFile ==
  ASSUME TypeOK, FileInv, RestartClears
  PROVE  FileInv'
<1>1. UNCHANGED <<report, disk, staging, file>> /\ report.by = "free" /\ report.pc = "idle"
  BY Zenon DEF RestartClears, FileInv
<1>2. restart'.pc = "cleared" /\ restart.pc = "idle" BY Zenon DEF RestartClears, TypeOK
<1>3. staging = {} BY Zenon, <1>1, <1>2 DEF FileInv
<1> QED BY Zenon, <1>1, <1>2, <1>3 DEF FileInv, Visible

\* The restart empties the staging file, also the one a report has opened and not renamed:
\* the report goes on with the same file.
LEMMA RestartOpensFile ==
  ASSUME TypeOK, FileInv, NEW fd \in Files, RestartOpens(fd)
  PROVE  FileInv'
<1>1. /\ staging' = {fd} /\ disk' = [disk EXCEPT ![fd] = {}]
      /\ UNCHANGED <<states, report, file>>
  BY Zenon DEF RestartOpens, Opens
<1>2. restart.pc = "cleared" /\ restart'.pc = "opened" BY Zenon DEF RestartOpens, TypeOK
<1>3. Visible' = {fd} /\ disk'[fd] = {} BY Zenon, <1>1 DEF Visible, TypeOK
<1>4. report.pc = "write" => fd = report.fd
  <2>1. SUFFICES ASSUME report.pc = "write" PROVE fd = report.fd OBVIOUS
  <2>2. staging # {} BY Zenon, <1>2, <2>1 DEF FileInv
  <2>3. staging = {report.fd} /\ report.fd \in Files BY Zenon, <2>1, <2>2 DEF FileInv, Visible
  <2>4. fd = Min({report.fd}) BY Zenon, <2>2, <2>3 DEF RestartOpens, Opens
  <2>5. Min({report.fd}) \in {report.fd} BY <2>3 DEF Min, Files
  <2> QED BY Zenon, <2>4, <2>5
<1> QED BY Zenon, <1>1, <1>2, <1>3, <1>4 DEF FileInv

\* The late line break of the restart only takes a line away.
LEMMA RestartWritesFile ==
  ASSUME TypeOK, FileInv, RestartWrites
  PROVE  FileInv'
<1>1. UNCHANGED <<states, report, staging, file>> BY Zenon DEF RestartWrites
<1>2. \A i \in Files : disk'[i] \subseteq disk[i] BY DEF RestartWrites, TypeOK
<1>3. restart.pc = "opened" /\ restart'.pc = "written" BY Zenon DEF RestartWrites, TypeOK
<1>4. Visible' = Visible /\ Visible \subseteq Files BY Zenon, <1>1 DEF Visible, TypeOK
<1>5. \A line : Sound(line)' <=> Sound(line) BY Zenon, <1>1 DEF Sound
<1> QED BY Zenon, <1>1, <1>2, <1>3, <1>4, <1>5 DEF FileInv

\* The rename at a restart keeps the file whole.
LEMMA RestartRenamesFile ==
  ASSUME TypeOK, FileInv, RestartRenames
  PROVE  FileInv'
<1>1. Visible' = Visible /\ staging' = {} /\ \A i \in Visible : disk'[i] = disk[i]
  BY Zenon, RenameKeeps DEF RestartRenames
<1>2. restart.pc = "written" /\ restart'.pc = "idle" BY Zenon DEF RestartRenames, TypeOK
<1>3. UNCHANGED <<states, report>> BY Zenon DEF RestartRenames
<1> QED BY Zenon, <1>1, <1>2, <1>3 DEF FileInv, Sound

------------------------------------------------------------------------------
(* The hooks of the runtime.                                                *)

\* Memory q has more of the runtime's hooks than r: a symbol that has its hook keeps it, and an
\* address is patched only when nothing was there, for a symbol that had no hook.
MoreHooks(r, q) ==
  /\ q.hooked = r.hooked
  /\ \A s \in Symbols : r.orig[s] # "none" => q.orig[s] = r.orig[s]
  /\ \A a \in Targets : q.inline[a] # r.inline[a] =>
       a \in Symbols /\ r.orig[a] = "none" /\ r.inline[a] = "none"
       /\ q.inline[a] = "runtime" /\ q.orig[a] = "inline"

\* The process of q has done what the process of r has.
SameLife(r, q) ==
  /\ q.run = r.run /\ q.gen = r.gen /\ q.app = r.app /\ q.fired = r.fired
  /\ q.cap = r.cap /\ q.told = r.told /\ q.own = r.own /\ q.due = r.due

\* Hooks are all that q has and r has not.
HooksOnly(r, q) ==
  /\ q \in Memories /\ SameLife(r, q) /\ MoreHooks(r, q)
  /\ q.runtime = r.runtime /\ q.modules = r.modules /\ q.atfork = r.atfork

\* Hooking nothing is a step of the hooks.
LEMMA HooksNone ==
  ASSUME NEW r \in Memories
  PROVE  HooksOnly(r, r)
BY Zenon DEF HooksOnly, SameLife, MoreHooks

\* Two steps of the hooks make one.
LEMMA HooksTwice ==
  ASSUME NEW r \in Memories, NEW q, NEW v, HooksOnly(r, q), HooksOnly(q, v)
  PROVE  HooksOnly(r, v)
<1>1. Symbols \subseteq Targets BY Zenon DEF Targets
<1> QED BY <1>1 DEF HooksOnly, SameLife, MoreHooks

\* pltHookSpawner hooks a symbol in the executable's PLT.
LEMMA PltHooks ==
  ASSUME NEW r \in Memories, NEW s \in Symbols
  PROVE  /\ HooksOnly(r, pltHookSpawner(r, s))
         /\ pltHookSpawner(r, s).inode = r.inode /\ pltHookSpawner(r, s).inline = r.inline
         /\ \A t \in Symbols : t # s => pltHookSpawner(r, s).orig[t] = r.orig[t]
         /\ r.orig[s] = "none" => pltHookSpawner(r, s).orig[s] \in {"none", "plt"}
         /\ r.orig[s] = "none" /\ r.inode /\ <<"plt", s>> \in ways =>
              pltHookSpawner(r, s).orig[s] = "plt"
<1>1. PICK q : q = [r EXCEPT !.orig[s] = "plt"] BY Zenon
<1>2. q \in Memories BY ONLY Zenon, r \in Memories, s \in Symbols, <1>1 DEF Memories
<1>3. /\ q.run = r.run /\ q.gen = r.gen /\ q.app = r.app /\ q.runtime = r.runtime
      /\ q.modules = r.modules /\ q.fired = r.fired /\ q.cap = r.cap /\ q.atfork = r.atfork
      /\ q.hooked = r.hooked /\ q.told = r.told /\ q.own = r.own /\ q.due = r.due
      /\ q.inode = r.inode /\ q.inline = r.inline
  BY ONLY Zenon, r \in Memories, <1>1 DEF Memories
<1>4. q.orig[s] = "plt" /\ \A t \in Symbols : t # s => q.orig[t] = r.orig[t]
  BY ONLY Zenon, r \in Memories, s \in Symbols, <1>1 DEF Memories
<1>5. CASE r.inode /\ r.orig[s] = "none" /\ <<"plt", s>> \in ways
  <2>1. pltHookSpawner(r, s) = q BY Zenon, <1>1, <1>5 DEF pltHookSpawner
  <2>2. HooksOnly(r, q) BY Zenon, <1>2, <1>3, <1>4, <1>5 DEF HooksOnly, SameLife, MoreHooks
  <2> QED BY Zenon, <2>1, <2>2, <1>3, <1>4
<1>6. CASE ~ (r.inode /\ r.orig[s] = "none" /\ <<"plt", s>> \in ways)
  <2>1. pltHookSpawner(r, s) = r BY Zenon, <1>6 DEF pltHookSpawner
  <2> QED BY Zenon, <2>1, <1>6, HooksNone
<1> QED BY Zenon, <1>5, <1>6

\* inlineHookRaw patches the function itself, if nothing is patched there.
LEMMA InlineHooks ==
  ASSUME NEW r \in Memories, NEW s \in Symbols
  PROVE  /\ HooksOnly(r, inlineHookRaw(r, s))
         /\ r.orig[s] = "none" /\ <<"inline", s>> \in ways /\ r.inline[s] = "none" =>
              inlineHookRaw(r, s).inline[s] = "runtime"
<1>0. s \in Targets BY Zenon DEF Targets
<1>1. PICK d : d = [r EXCEPT !.inline[s] = "runtime"] BY Zenon
<1>2. d \in Memories BY ONLY Zenon, r \in Memories, <1>0, <1>1 DEF Memories
<1>3. PICK q : q = [d EXCEPT !.orig[s] = "inline"] BY Zenon
<1>4. q \in Memories BY ONLY Zenon, <1>2, s \in Symbols, <1>3 DEF Memories
<1>5. /\ d.run = r.run /\ d.gen = r.gen /\ d.app = r.app /\ d.runtime = r.runtime
      /\ d.modules = r.modules /\ d.fired = r.fired /\ d.cap = r.cap /\ d.atfork = r.atfork
      /\ d.hooked = r.hooked /\ d.told = r.told /\ d.own = r.own /\ d.due = r.due
      /\ d.orig = r.orig
  BY ONLY Zenon, r \in Memories, <1>1 DEF Memories
<1>6. /\ q.run = d.run /\ q.gen = d.gen /\ q.app = d.app /\ q.runtime = d.runtime
      /\ q.modules = d.modules /\ q.fired = d.fired /\ q.cap = d.cap /\ q.atfork = d.atfork
      /\ q.hooked = d.hooked /\ q.told = d.told /\ q.own = d.own /\ q.due = d.due
      /\ q.inline = d.inline
  BY ONLY Zenon, <1>2, <1>3 DEF Memories
<1>7. d.inline[s] = "runtime" /\ \A a \in Targets : a # s => d.inline[a] = r.inline[a]
  BY ONLY Zenon, r \in Memories, <1>0, <1>1 DEF Memories
<1>8. q.orig[s] = "inline" /\ \A t \in Symbols : t # s => q.orig[t] = d.orig[t]
  BY ONLY Zenon, <1>2, s \in Symbols, <1>3 DEF Memories
<1>9. CASE r.orig[s] = "none" /\ <<"inline", s>> \in ways /\ r.inline[s] = "none"
  <2>1. inlineHookRaw(r, s) = q BY Zenon, <1>1, <1>3, <1>9 DEF inlineHookRaw, DobbyHook
  <2>2. HooksOnly(r, q) BY ZenonT(60), <1>4, <1>5, <1>6, <1>7, <1>8, <1>9 DEF HooksOnly, SameLife, MoreHooks
  <2> QED BY Zenon, <2>1, <2>2, <1>6, <1>7
<1>10. CASE ~ (r.orig[s] = "none" /\ <<"inline", s>> \in ways /\ r.inline[s] = "none")
  <2>1. inlineHookRaw(r, s) = r BY Zenon, <1>10 DEF inlineHookRaw
  <2> QED BY Zenon, <2>1, <1>10, HooksNone
<1> QED BY Zenon, <1>9, <1>10

\* hyosInstallHooks changes nothing but the hooks, and hooks setcontext whenever one of the
\* two ways works.
LEMMA InstallHooks ==
  ASSUME NEW r \in Memories
  PROVE  /\ HooksOnly(r, hyosInstallHooks(r))
         /\ Hookable(r) => Leads(hyosInstallHooks(r), "setcontext")
<1>0. "setcontext" \in Symbols /\ "setname" \in Symbols /\ "setcontext" # "setname"
      /\ "setcontext" \in Targets
  BY Zenon DEF Symbols, Targets
<1>1. PICK f : f = [r EXCEPT !.inode = @ \/ Exe \in ways] BY Zenon
<1>2. HooksOnly(r, f) /\ f \in Memories /\ f.orig = r.orig /\ f.inline = r.inline
      /\ (Exe \in ways => f.inode)
  <2>1. PICK b \in BOOLEAN : b = (r.inode \/ Exe \in ways) BY Zenon
  <2>2. f = [r EXCEPT !.inode = b] BY Zenon, <1>1, <2>1
  <2>3. f \in Memories BY ONLY Zenon, r \in Memories, <2>2, b \in BOOLEAN DEF Memories
  <2>4. /\ f.run = r.run /\ f.gen = r.gen /\ f.app = r.app /\ f.runtime = r.runtime
        /\ f.modules = r.modules /\ f.fired = r.fired /\ f.cap = r.cap /\ f.atfork = r.atfork
        /\ f.hooked = r.hooked /\ f.told = r.told /\ f.own = r.own /\ f.due = r.due
        /\ f.orig = r.orig /\ f.inline = r.inline /\ f.inode = b
    BY ONLY Zenon, r \in Memories, <2>2 DEF Memories
  <2>5. HooksOnly(r, f) BY Zenon, <2>3, <2>4 DEF HooksOnly, SameLife, MoreHooks
  <2> QED BY <2>1, <2>3, <2>4, <2>5, Zenon
<1>3. PICK p1 : p1 = pltHookSpawner(f, "setcontext") OBVIOUS
<1>4. PICK p2 : p2 = pltHookSpawner(p1, "setname") OBVIOUS
<1>5. PICK i1 : i1 = inlineHookRaw(p2, "setcontext") OBVIOUS
<1>6. PICK i2 : i2 = inlineHookRaw(i1, "setname") OBVIOUS
<1>7. hyosInstallHooks(r) = i2 BY <1>1, <1>3, <1>4, <1>5, <1>6, Zenon DEF hyosInstallHooks
<1>8. HooksOnly(f, p1) /\ p1 \in Memories
  <2>1. HooksOnly(f, p1) BY <1>0, <1>2, <1>3, PltHooks, Zenon
  <2> QED BY <2>1, Zenon DEF HooksOnly
<1>9. HooksOnly(p1, p2) /\ p2 \in Memories
  <2>1. HooksOnly(p1, p2) BY <1>0, <1>8, <1>4, PltHooks, Zenon
  <2> QED BY <2>1, Zenon DEF HooksOnly
<1>10. HooksOnly(p2, i1) /\ i1 \in Memories
  <2>1. HooksOnly(p2, i1) BY <1>0, <1>9, <1>5, InlineHooks, Zenon
  <2> QED BY <2>1, Zenon DEF HooksOnly
<1>11. HooksOnly(i1, i2) /\ i2 \in Memories
  <2>1. HooksOnly(i1, i2) BY <1>0, <1>10, <1>6, InlineHooks, Zenon
  <2> QED BY <2>1, Zenon DEF HooksOnly
<1>12. HooksOnly(r, i2)
  <2>1. HooksOnly(r, p1) BY Zenon, <1>2, <1>8, HooksTwice
  <2>2. HooksOnly(r, p2) BY Zenon, <2>1, <1>9, HooksTwice
  <2>3. HooksOnly(r, i1) BY Zenon, <2>2, <1>10, HooksTwice
  <2> QED BY Zenon, <2>3, <1>11, HooksTwice
<1>13. ASSUME Hookable(r) PROVE Leads(i2, "setcontext")
  <2>1. f.orig["setcontext"] = "none" BY Zenon, <1>13, <1>2 DEF Hookable
  <2>2. p1.orig["setcontext"] \in {"none", "plt"} /\ p1.inline = f.inline
        /\ (f.inode /\ <<"plt", "setcontext">> \in ways => p1.orig["setcontext"] = "plt")
    BY Zenon, <2>1, <1>0, <1>2, <1>3, PltHooks
  <2>3. p2.orig["setcontext"] = p1.orig["setcontext"] /\ p2.inline = p1.inline
    BY Zenon, <1>0, <1>8, <1>4, PltHooks
  <2>4. CASE p2.orig["setcontext"] = "plt"
    <3>1. i1.orig["setcontext"] = "plt" BY Zenon, <2>4, <1>0, <1>10 DEF HooksOnly, MoreHooks
    <3>2. i2.orig["setcontext"] = "plt" BY Zenon, <3>1, <1>0, <1>11 DEF HooksOnly, MoreHooks
    <3> QED BY Zenon, <3>2 DEF Leads
  <2>5. CASE p2.orig["setcontext"] = "none"
    <3>1. ~ ({Exe, <<"plt", "setcontext">>} \subseteq ways) BY Zenon, <2>5, <2>2, <2>3, <1>2
    <3>2. <<"inline", "setcontext">> \in ways /\ r.inline["setcontext"] = "none"
      BY Zenon, <3>1, <1>13 DEF Hookable
    <3>3. p2.inline["setcontext"] = "none" BY Zenon, <3>2, <2>2, <2>3, <1>2
    <3>4. i1.inline["setcontext"] = "runtime"
      BY Zenon, <3>2, <3>3, <2>5, <1>0, <1>5, <1>9, InlineHooks
    <3>5. i2.inline["setcontext"] = "runtime" BY Zenon, <3>4, <1>0, <1>11 DEF HooksOnly, MoreHooks
    <3> QED BY Zenon, <3>5 DEF Leads
  <2> QED BY Zenon, <2>2, <2>3, <2>4, <2>5
<1> QED BY Zenon, <1>7, <1>12, <1>13

\* A hook that leads through the runtime still does after more are installed.
LEMMA LeadsStays ==
  ASSUME NEW r \in Memories, NEW q, HooksOnly(r, q), NEW s \in Symbols, Leads(r, s)
  PROVE  Leads(q, s)
<1>1. s \in Targets BY Zenon DEF Targets
<1> QED BY Zenon, <1>1 DEF Leads, HooksOnly, MoreHooks

\* hyosAtForkPrepare tries again what could not be hooked before.
LEMMA PrepareHooks ==
  ASSUME NEW r \in Memories
  PROVE  /\ HooksOnly(r, hyosAtForkPrepare(r))
         /\ Leads(r, "setcontext") => Leads(hyosAtForkPrepare(r), "setcontext")
         /\ r.atfork /\ r.modules # <<>> /\ Hookable(r) =>
              Leads(hyosAtForkPrepare(r), "setcontext")
<1>0. "setcontext" \in Symbols BY Zenon DEF Symbols
<1>1. HooksOnly(r, hyosAtForkPrepare(r))
  BY Zenon, InstallHooks, HooksNone DEF hyosAtForkPrepare
<1>2. Leads(r, "setcontext") => Leads(hyosAtForkPrepare(r), "setcontext")
  BY Zenon, <1>0, <1>1, LeadsStays
<1>3. ASSUME r.atfork, r.modules # <<>>, Hookable(r)
      PROVE  Leads(hyosAtForkPrepare(r), "setcontext")
  <2>1. r.orig["setcontext"] = "none" BY Zenon, <1>3 DEF Hookable
  <2>2. hyosAtForkPrepare(r) = hyosInstallHooks(r) BY Zenon, <1>0, <1>3, <2>1 DEF hyosAtForkPrepare
  <2> QED BY Zenon, <1>3, <2>2, InstallHooks
<1> QED BY Zenon, <1>1, <1>2, <1>3

\* Memory q is r with module m registered.
Registered(r, m, q) ==
  /\ q \in Memories /\ SameLife(r, q) /\ MoreHooks(r, q)
  /\ q.modules = Append(r.modules, m)
  /\ r.gen = 0 => q.atfork

\* api_hyos_registerModule refuses the module, or appends it; in the spawner it then sets the
\* prepare handler and installs the hooks.
LEMMA RegisterRegisters ==
  ASSUME NEW r \in Memories, NEW m \in Libs
  PROVE  api_hyos_registerModule(r, m) = r \/ Registered(r, m, api_hyos_registerModule(r, m))
<1>1. CASE ~ Accepted(r, m) BY Zenon, <1>1 DEF api_hyos_registerModule
<1>2. CASE Accepted(r, m)
  <2>1. PICK ms : ms = Append(r.modules, m) BY Zenon
  <2>2. ms \in Seq(Libs) BY <2>1 DEF Memories
  <2>3. PICK x : x = [r EXCEPT !.modules = ms] BY Zenon
  <2>4. x \in Memories BY ONLY Zenon, r \in Memories, <2>2, <2>3 DEF Memories
  <2>5. /\ x.run = r.run /\ x.gen = r.gen /\ x.app = r.app /\ x.runtime = r.runtime
        /\ x.modules = ms /\ x.fired = r.fired /\ x.cap = r.cap /\ x.atfork = r.atfork
        /\ x.hooked = r.hooked /\ x.told = r.told /\ x.own = r.own /\ x.due = r.due
        /\ x.orig = r.orig /\ x.inline = r.inline
    BY ONLY Zenon, r \in Memories, <2>2, <2>3 DEF Memories
  <2>6. x = [r EXCEPT !.modules = Append(@, m)] BY Zenon, <2>1, <2>3
  <2>7. r.gen \in Nat BY Zenon DEF Memories
  <2>8. CASE r.gen > 0
    <3>1. api_hyos_registerModule(r, m) = x
      BY Zenon, <1>2, <2>6, <2>8 DEF api_hyos_registerModule, hyosInChild
    <3>2. Registered(r, m, x)
      BY <2>1, <2>4, <2>5, <2>7, <2>8 DEF Registered, SameLife, MoreHooks
    <3> QED BY Zenon, <3>1, <3>2
  <2>9. CASE ~ (r.gen > 0)
    <3>1. PICK y : y = [x EXCEPT !.atfork = TRUE] BY Zenon
    <3>2. y \in Memories BY ONLY Zenon, <2>4, <3>1 DEF Memories
    <3>3. /\ y.run = x.run /\ y.gen = x.gen /\ y.app = x.app /\ y.runtime = x.runtime
          /\ y.modules = x.modules /\ y.fired = x.fired /\ y.cap = x.cap /\ y.atfork
          /\ y.hooked = x.hooked /\ y.told = x.told /\ y.own = x.own /\ y.due = x.due
          /\ y.orig = x.orig /\ y.inline = x.inline
      BY ONLY Zenon, <2>4, <3>1 DEF Memories
    <3>4. PICK q : q = hyosInstallHooks(y) OBVIOUS
    <3>5. HooksOnly(y, q) BY Zenon, <3>2, <3>4, InstallHooks
    <3>6. api_hyos_registerModule(r, m) = q
      BY <1>2, <2>6, <2>9, <3>1, <3>4, Zenon DEF api_hyos_registerModule, hyosInChild
    <3>7. Registered(r, m, q)
      BY <2>1, <2>5, <3>3, <3>5 DEF Registered, HooksOnly, SameLife, MoreHooks
    <3> QED BY Zenon, <3>6, <3>7
  <2> QED BY Zenon, <2>8, <2>9
<1> QED BY Zenon, <1>1, <1>2

------------------------------------------------------------------------------
(* The registry and the code.                                               *)

\* A thread is about to patch or to erase address a.
At(t, a) == thread[t].target = a /\ thread[t].pc \in {"hook", "undo", "erase"}

\* Address a in the registry, in the code and under way: by one thread at most, and while it
\* is, no module's patch is there.
AddressInv(a) ==
  LET r == proc[Spawner]
  IN /\ r.inline[a] = "runtime" => RuntimeHooked(r, a)
     /\ ~RuntimeHooked(r, a) =>
          /\ r.inline[a] = "module" => a \in r.hooked
          /\ a \in r.hooked /\ r.inline[a] # "module" => InFlight(a)
          /\ \A t \in Threads : At(t, a) => a \in r.hooked /\ r.inline[a] # "module"
          /\ \A t, u \in Threads : At(t, a) /\ At(u, a) => t = u

HookInv == \A a \in Targets : AddressInv(a)

\* The runtime patches an address only when nothing is patched there.
LEMMA MoreHooksInv ==
  ASSUME TypeOK, HookInv, UNCHANGED thread, proc'[Spawner] \in Memories,
         MoreHooks(proc[Spawner], proc'[Spawner])
  PROVE  HookInv'
<1>1. PICK r \in Memories : r = proc[Spawner] BY Zenon DEF TypeOK, Procs
<1>2. PICK q \in Memories : q = proc'[Spawner] OBVIOUS
<1>3. SUFFICES ASSUME NEW a \in Targets PROVE AddressInv(a)' BY Zenon DEF HookInv
<1>4. AddressInv(a) BY Zenon DEF HookInv
<1>5. RuntimeHooked(r, a) => RuntimeHooked(q, a)
  BY Zenon, <1>1, <1>2 DEF MoreHooks, RuntimeHooked
<1>6. q.inline[a] = r.inline[a] \/ (q.inline[a] = "runtime" /\ RuntimeHooked(q, a))
  BY Zenon, <1>1, <1>2 DEF MoreHooks, RuntimeHooked
<1>7. q.hooked = r.hooked BY Zenon, <1>1, <1>2 DEF MoreHooks
<1>8. \A t : At(t, a)' <=> At(t, a) BY Zenon DEF At
<1>9. InFlight(a)' <=> InFlight(a) BY Zenon DEF InFlight
<1> QED BY Zenon, <1>1, <1>2, <1>4, <1>5, <1>6, <1>7, <1>8, <1>9 DEF AddressInv

\* The registry and the code of the spawner are all that changes.
HookStep ==
  /\ proc' \in [Procs -> Memories] /\ SameLife(proc[Spawner], proc'[Spawner])
  /\ proc'[Spawner].modules = proc[Spawner].modules
  /\ proc'[Spawner].atfork = proc[Spawner].atfork
  /\ proc'[Spawner].orig = proc[Spawner].orig
  /\ \A p \in Procs : p # Spawner => proc'[p] = proc[p]

\* A step that changes the registry only.
LEMMA RegistryStep ==
  ASSUME TypeOK, NEW h \in SUBSET Targets, Patch([proc[Spawner] EXCEPT !.hooked = h])
  PROVE  HookStep /\ proc'[Spawner].hooked = h /\ proc'[Spawner].inline = proc[Spawner].inline
<1>0. Spawner \in Procs BY Zenon DEF Procs
<1>1. PICK r \in Memories : r = proc[Spawner] BY Zenon, <1>0 DEF TypeOK
<1>2. PICK q : q = [r EXCEPT !.hooked = h] BY Zenon
<1>3. q \in Memories BY ONLY Zenon, r \in Memories, h \in SUBSET Targets, <1>2 DEF Memories
<1>4. /\ q.run = r.run /\ q.gen = r.gen /\ q.app = r.app /\ q.modules = r.modules
      /\ q.fired = r.fired /\ q.cap = r.cap /\ q.atfork = r.atfork /\ q.told = r.told
      /\ q.own = r.own /\ q.due = r.due /\ q.hooked = h /\ q.orig = r.orig
      /\ q.inline = r.inline
  BY ONLY Zenon, r \in Memories, h \in SUBSET Targets, <1>2 DEF Memories
<1>5. proc' = [proc EXCEPT ![Spawner] = q] BY Zenon, <1>1, <1>2 DEF Patch
<1>6. proc'[Spawner] = q /\ \A p \in Procs : p # Spawner => proc'[p] = proc[p]
  BY Zenon, <1>0, <1>5 DEF TypeOK
<1>7. proc' \in [Procs -> Memories] BY Zenon, <1>3, <1>5 DEF TypeOK
<1> QED BY Zenon, <1>1, <1>4, <1>6, <1>7 DEF HookStep, SameLife

\* A step that changes the code of one target only.
LEMMA CodeStep ==
  ASSUME TypeOK, NEW a \in Targets, NEW owner \in {"none", "module"},
         Patch([proc[Spawner] EXCEPT !.inline[a] = owner])
  PROVE  /\ HookStep /\ proc'[Spawner].hooked = proc[Spawner].hooked
         /\ proc'[Spawner].inline = [proc[Spawner].inline EXCEPT ![a] = owner]
<1>0. Spawner \in Procs BY Zenon DEF Procs
<1>1. PICK r \in Memories : r = proc[Spawner] BY Zenon, <1>0 DEF TypeOK
<1>2. PICK q : q = [r EXCEPT !.inline[a] = owner] BY Zenon
<1>3. q \in Memories
  BY ONLY Zenon, r \in Memories, a \in Targets, owner \in {"none", "module"}, <1>2 DEF Memories
<1>4. /\ q.run = r.run /\ q.gen = r.gen /\ q.app = r.app /\ q.modules = r.modules
      /\ q.fired = r.fired /\ q.cap = r.cap /\ q.atfork = r.atfork /\ q.told = r.told
      /\ q.own = r.own /\ q.due = r.due /\ q.hooked = r.hooked /\ q.orig = r.orig
      /\ q.inline = [r.inline EXCEPT ![a] = owner]
  BY ONLY Zenon, r \in Memories, <1>2 DEF Memories
<1>5. proc' = [proc EXCEPT ![Spawner] = q] BY Zenon, <1>1, <1>2 DEF Patch
<1>6. proc'[Spawner] = q /\ \A p \in Procs : p # Spawner => proc'[p] = proc[p]
  BY Zenon, <1>0, <1>5 DEF TypeOK
<1>7. proc' \in [Procs -> Memories] BY Zenon, <1>3, <1>5 DEF TypeOK
<1> QED BY Zenon, <1>1, <1>4, <1>6, <1>7 DEF HookStep, SameLife

\* A step of thread t to pc, on the address it then has, leaves alone what holds of every
\* other address.
LEMMA OtherAddress ==
  ASSUME TypeOK, NEW t \in Threads, NEW a \in Targets, AddressInv(a),
         proc[Spawner] \in Memories,
         thread'[t].target # a, thread[t].target = a => thread[t].pc \in {"idle", "unhook"},
         \A u \in Threads : u # t => thread'[u] = thread[u],
         proc'[Spawner].inline[a] = proc[Spawner].inline[a],
         a \in proc'[Spawner].hooked <=> a \in proc[Spawner].hooked,
         proc'[Spawner].orig = proc[Spawner].orig
  PROVE  AddressInv(a)'
<1>1. \A u \in Threads : At(u, a)' <=> At(u, a) BY Zenon DEF At
<1>2. InFlight(a) <=> \E u \in Threads : At(u, a) BY Zenon DEF InFlight, At
<1>3. InFlight(a)' <=> \E u \in Threads : At(u, a)' BY Zenon DEF InFlight, At
<1>4. RuntimeHooked(proc'[Spawner], a) <=> RuntimeHooked(proc[Spawner], a) BY Zenon DEF RuntimeHooked
<1>5. PICK r : r = proc[Spawner] OBVIOUS
<1>6. PICK q : q = proc'[Spawner] OBVIOUS
<1> QED BY Zenon, <1>1, <1>2, <1>3, <1>4, <1>5, <1>6 DEF AddressInv

ThreadSet == [pc: {"idle", "hook", "undo", "unhook", "erase"}, target: Targets]

\* Thread t goes to pc on address a.
LEMMA ThreadStep ==
  ASSUME TypeOK, NEW t \in Threads, NEW n \in ThreadSet, thread' = [thread EXCEPT ![t] = n]
  PROVE  /\ thread' \in [Threads -> ThreadSet] /\ thread'[t] = n
         /\ \A u \in Threads : u # t => thread'[u] = thread[u]
BY Zenon DEF TypeOK, ThreadSet

\* A thread moves on, with its target.
LEMMA ActStep ==
  ASSUME TypeOK, NEW t \in Threads,
         NEW pc \in {"idle", "hook", "undo", "unhook", "erase"}, Act(t, pc)
  PROVE  /\ thread' \in [Threads -> ThreadSet]
         /\ thread'[t].pc = pc /\ thread'[t].target = thread[t].target
         /\ \A u \in Threads : u # t => thread'[u] = thread[u]
<1>1. PICK o \in ThreadSet : o = thread[t] BY Zenon DEF TypeOK, ThreadSet
<1>2. PICK n : n = [o EXCEPT !.pc = pc] BY Zenon
<1>3. n \in ThreadSet /\ n.pc = pc /\ n.target = o.target BY Zenon, <1>2 DEF ThreadSet
<1>4. thread' = [thread EXCEPT ![t] = n] BY Zenon, <1>1, <1>2 DEF Act
<1> QED BY Zenon, <1>1, <1>3, <1>4, ThreadStep

\* A thread begins with a target.
LEMMA BeginStep ==
  ASSUME TypeOK, NEW t \in Threads, NEW a \in Targets, NEW pc \in {"hook", "unhook"},
         Begin(t, a, pc)
  PROVE  /\ thread' \in [Threads -> ThreadSet]
         /\ thread'[t].pc = pc /\ thread'[t].target = a /\ thread[t].pc = "idle"
         /\ \A u \in Threads : u # t => thread'[u] = thread[u]
<1>1. PICK n : n = [pc |-> pc, target |-> a] BY Zenon
<1>2. n \in ThreadSet /\ n.pc = pc /\ n.target = a BY Zenon, <1>1 DEF ThreadSet
<1>3. thread' = [thread EXCEPT ![t] = n] /\ thread[t].pc = "idle" BY Zenon, <1>1 DEF Begin
<1> QED BY Zenon, <1>2, <1>3, ThreadStep

\* An address that is hooked again was in no registry and no thread was at it.
LEMMA InlineHookInv ==
  ASSUME TypeOK, HookInv, NEW t \in Threads, NEW a \in Targets, api_inlineHook(t, a)
  PROVE  HookStep /\ HookInv' /\ thread' \in [Threads -> ThreadSet]
<1>0. Spawner \in Procs /\ proc[Spawner] \in Memories BY Zenon DEF Procs, TypeOK
<1>1. PICK h : h = proc[Spawner].hooked \cup {a} BY Zenon
<1>2. h \in SUBSET Targets BY Zenon, <1>0, <1>1 DEF Memories
<1>3. HookStep /\ proc'[Spawner].hooked = h /\ proc'[Spawner].inline = proc[Spawner].inline
  BY Zenon, <1>1, <1>2, RegistryStep DEF api_inlineHook
<1>4. /\ thread' \in [Threads -> ThreadSet]
      /\ thread'[t].pc = "hook" /\ thread'[t].target = a /\ thread[t].pc = "idle"
      /\ \A u \in Threads : u # t => thread'[u] = thread[u]
  BY Zenon, BeginStep DEF api_inlineHook
<1>5. ASSUME NEW b \in Targets, b # a PROVE AddressInv(b)'
  <2>1. b \in proc'[Spawner].hooked <=> b \in proc[Spawner].hooked BY Zenon, <1>1, <1>3, <1>5
  <2> QED BY Zenon, <1>0, <1>3, <1>4, <1>5, <2>1, OtherAddress DEF HookInv, HookStep
<1>6. AddressInv(a)'
  <2>1. proc'[Spawner].orig = proc[Spawner].orig /\ a \in proc'[Spawner].hooked
        /\ proc'[Spawner].inline[a] = proc[Spawner].inline[a]
    BY Zenon, <1>1, <1>3 DEF HookStep
  <2>2. a \notin proc[Spawner].hooked BY Zenon DEF api_inlineHook
  <2>3. AddressInv(a) BY Zenon DEF HookInv
  <2>4. RuntimeHooked(proc[Spawner], a)' <=> RuntimeHooked(proc[Spawner], a)
    BY Zenon, <2>1 DEF RuntimeHooked
  <2>5. ~ RuntimeHooked(proc[Spawner], a) =>
          proc[Spawner].inline[a] # "module" /\ \A u \in Threads : ~ At(u, a)
    BY Zenon, <2>2, <2>3 DEF AddressInv
  <2>6. At(t, a)' /\ \A u \in Threads : u # t => (At(u, a)' <=> At(u, a)) BY Zenon, <1>4 DEF At
  <2>7. InFlight(a)' BY Zenon, <1>4 DEF InFlight
  <2> QED BY Zenon, <2>1, <2>3, <2>4, <2>5, <2>6, <2>7 DEF AddressInv
<1> QED BY Zenon, <1>3, <1>4, <1>5, <1>6 DEF HookInv

\* DobbyHook patches the address that is in the registry, or fails.
LEMMA InlineHookPatchInv ==
  ASSUME TypeOK, HookInv, NEW t \in Threads, InlineHookPatch(t)
  PROVE  HookStep /\ HookInv' /\ thread' \in [Threads -> ThreadSet]
<1>0. Spawner \in Procs /\ proc[Spawner] \in Memories BY Zenon DEF Procs, TypeOK
<1>1. PICK a \in Targets : a = thread[t].target BY Zenon DEF TypeOK
<1>2. thread[t].pc = "hook" /\ At(t, a) BY Zenon, <1>1 DEF InlineHookPatch, At
<1>3. AddressInv(a) BY Zenon DEF HookInv
<1>4. CASE proc[Spawner].inline[a] = "none" /\ Act(t, "idle")
           /\ Patch(DobbyHook(proc[Spawner], a, "module"))
  <2>1. HookStep /\ proc'[Spawner].hooked = proc[Spawner].hooked
        /\ proc'[Spawner].inline = [proc[Spawner].inline EXCEPT ![a] = "module"]
    BY Zenon, <1>4, CodeStep DEF DobbyHook
  <2>2. /\ thread' \in [Threads -> ThreadSet]
        /\ thread'[t].pc = "idle" /\ thread'[t].target = a
        /\ \A u \in Threads : u # t => thread'[u] = thread[u]
    BY Zenon, <1>1, <1>4, ActStep
  <2>3. proc'[Spawner].inline[a] = "module"
        /\ \A b \in Targets : b # a => proc'[Spawner].inline[b] = proc[Spawner].inline[b]
    BY Zenon, <1>0, <2>1 DEF Memories
  <2>4. ASSUME NEW b \in Targets, b # a PROVE AddressInv(b)'
    BY Zenon, <1>0, <1>1, <2>1, <2>2, <2>3, <2>4, OtherAddress DEF HookInv, HookStep
  <2>5. AddressInv(a)'
    <3>1. RuntimeHooked(proc[Spawner], a)' <=> RuntimeHooked(proc[Spawner], a)
      BY Zenon, <2>1 DEF RuntimeHooked, HookStep
    <3>2. ~ RuntimeHooked(proc[Spawner], a) =>
            a \in proc[Spawner].hooked /\ \A u \in Threads : u # t => ~ At(u, a)
      BY Zenon, <1>2, <1>3 DEF AddressInv
    <3>3. ~ At(t, a)' /\ \A u \in Threads : u # t => (At(u, a)' <=> At(u, a))
      BY Zenon, <2>2 DEF At
    <3> QED BY Zenon, <2>1, <2>3, <3>1, <3>2, <3>3 DEF AddressInv
  <2> QED BY Zenon, <2>1, <2>2, <2>4, <2>5 DEF HookInv
<1>5. CASE Act(t, "undo") /\ UNCHANGED proc
  <2>1. HookStep BY Zenon, <1>5 DEF HookStep, SameLife, TypeOK
  <2>2. /\ thread' \in [Threads -> ThreadSet]
        /\ thread'[t].pc = "undo" /\ thread'[t].target = a
        /\ \A u \in Threads : u # t => thread'[u] = thread[u]
    BY Zenon, <1>1, <1>5, ActStep
  <2>3. ASSUME NEW b \in Targets, b # a PROVE AddressInv(b)'
    BY Zenon, <1>0, <1>1, <1>5, <2>1, <2>2, <2>3, OtherAddress DEF HookInv, HookStep
  <2>4. AddressInv(a)'
    <3>1. \A u \in Threads : At(u, a)' <=> At(u, a) BY Zenon, <1>2, <2>2 DEF At
    <3>2. InFlight(a)' BY Zenon, <2>2 DEF InFlight
    <3> QED BY Zenon, <1>3, <1>5, <3>1, <3>2 DEF AddressInv, RuntimeHooked
  <2> QED BY Zenon, <2>1, <2>2, <2>3, <2>4 DEF HookInv
<1> QED BY Zenon, <1>1, <1>4, <1>5 DEF InlineHookPatch

\* The thread that takes an address out of the registry is the only one at it.
LEMMA EraseInv ==
  ASSUME TypeOK, HookInv, NEW t \in Threads, Erase(t)
  PROVE  HookStep /\ HookInv' /\ thread' \in [Threads -> ThreadSet]
<1>0. Spawner \in Procs /\ proc[Spawner] \in Memories BY Zenon DEF Procs, TypeOK
<1>1. PICK a \in Targets : a = thread[t].target BY Zenon DEF TypeOK
<1>2. thread[t].pc \in {"undo", "erase"} /\ At(t, a) BY Zenon, <1>1 DEF Erase, At
<1>3. PICK h : h = proc[Spawner].hooked \ {a} BY Zenon
<1>4. h \in SUBSET Targets BY Zenon, <1>0, <1>3 DEF Memories
<1>5. HookStep /\ proc'[Spawner].hooked = h /\ proc'[Spawner].inline = proc[Spawner].inline
  BY Zenon, <1>1, <1>3, <1>4, RegistryStep DEF Erase
<1>6. /\ thread' \in [Threads -> ThreadSet]
      /\ thread'[t].pc = "idle" /\ thread'[t].target = a
      /\ \A u \in Threads : u # t => thread'[u] = thread[u]
  BY Zenon, <1>1, ActStep DEF Erase
<1>7. ASSUME NEW b \in Targets, b # a PROVE AddressInv(b)'
  <2>1. b \in proc'[Spawner].hooked <=> b \in proc[Spawner].hooked BY Zenon, <1>3, <1>5, <1>7
  <2> QED BY Zenon, <1>0, <1>1, <1>5, <1>6, <1>7, <2>1, OtherAddress DEF HookInv, HookStep
<1>8. AddressInv(a)'
  <2>1. AddressInv(a) BY Zenon DEF HookInv
  <2>2. RuntimeHooked(proc[Spawner], a)' <=> RuntimeHooked(proc[Spawner], a)
    BY Zenon, <1>5 DEF RuntimeHooked, HookStep
  <2>3. ~ RuntimeHooked(proc[Spawner], a) =>
          proc[Spawner].inline[a] # "module" /\ \A u \in Threads : u # t => ~ At(u, a)
    BY Zenon, <1>2, <2>1 DEF AddressInv
  <2>4. ~ At(t, a)' /\ \A u \in Threads : u # t => (At(u, a)' <=> At(u, a))
    BY Zenon, <1>6 DEF At
  <2>5. a \notin proc'[Spawner].hooked BY Zenon, <1>3, <1>5
  <2> QED BY Zenon, <1>5, <2>1, <2>2, <2>3, <2>4, <2>5 DEF AddressInv
<1> QED BY Zenon, <1>5, <1>6, <1>7, <1>8 DEF HookInv

\* A thread that is about to unhook an address has changed nothing yet.
LEMMA InlineUnhookInv ==
  ASSUME TypeOK, HookInv, NEW t \in Threads, NEW a \in Targets, api_inlineUnhook(t, a)
  PROVE  HookStep /\ HookInv' /\ thread' \in [Threads -> ThreadSet]
<1>1. HookStep BY Zenon DEF api_inlineUnhook, HookStep, SameLife, TypeOK
<1>2. /\ thread' \in [Threads -> ThreadSet]
      /\ thread'[t].pc = "unhook" /\ thread[t].pc = "idle"
      /\ \A u \in Threads : u # t => thread'[u] = thread[u]
  BY Zenon, BeginStep DEF api_inlineUnhook
<1>3. \A u \in Threads, b \in Targets : At(u, b)' <=> At(u, b) BY Zenon, <1>2 DEF At
<1>4. \A b \in Targets : (InFlight(b) <=> \E u \in Threads : At(u, b))
                         /\ (InFlight(b)' <=> \E u \in Threads : At(u, b)')
  BY Zenon DEF InFlight, At
<1>5. UNCHANGED proc BY Zenon DEF api_inlineUnhook
<1>6. ASSUME NEW b \in Targets PROVE AddressInv(b)'
  BY Zenon, <1>3, <1>4, <1>5 DEF HookInv, AddressInv, RuntimeHooked
<1> QED BY Zenon, <1>1, <1>2, <1>6 DEF HookInv

\* DobbyDestroy takes away a patch; no thread was at the address, or nothing was there.
LEMMA InlineUnhookPatchInv ==
  ASSUME TypeOK, HookInv, NEW t \in Threads, InlineUnhookPatch(t)
  PROVE  HookStep /\ HookInv' /\ thread' \in [Threads -> ThreadSet]
<1>0. Spawner \in Procs /\ proc[Spawner] \in Memories BY Zenon DEF Procs, TypeOK
<1>1. PICK a \in Targets : a = thread[t].target BY Zenon DEF TypeOK
<1>2. thread[t].pc = "unhook" BY Zenon DEF InlineUnhookPatch
<1>3. AddressInv(a) BY Zenon DEF HookInv
<1>4. CASE proc[Spawner].inline[a] = "none"
  <2>1. Act(t, "idle") /\ UNCHANGED proc BY Zenon, <1>1, <1>4 DEF InlineUnhookPatch
  <2>2. HookStep BY Zenon, <2>1 DEF HookStep, SameLife, TypeOK
  <2>3. /\ thread' \in [Threads -> ThreadSet] /\ thread'[t].pc = "idle"
        /\ \A u \in Threads : u # t => thread'[u] = thread[u]
    BY Zenon, <2>1, ActStep
  <2>4. \A u \in Threads, b \in Targets : At(u, b)' <=> At(u, b) BY Zenon, <1>2, <2>3 DEF At
  <2>5. \A b \in Targets : (InFlight(b) <=> \E u \in Threads : At(u, b))
                           /\ (InFlight(b)' <=> \E u \in Threads : At(u, b)')
    BY Zenon DEF InFlight, At
  <2>6. ASSUME NEW b \in Targets PROVE AddressInv(b)'
    BY Zenon, <2>1, <2>4, <2>5 DEF HookInv, AddressInv, RuntimeHooked
  <2> QED BY Zenon, <2>2, <2>3, <2>6 DEF HookInv
<1>5. CASE proc[Spawner].inline[a] # "none"
  <2>1. Act(t, "erase") /\ Patch([proc[Spawner] EXCEPT !.inline[a] = "none"])
    BY Zenon, <1>1, <1>5 DEF InlineUnhookPatch
  <2>2. HookStep /\ proc'[Spawner].hooked = proc[Spawner].hooked
        /\ proc'[Spawner].inline = [proc[Spawner].inline EXCEPT ![a] = "none"]
    BY ZenonT(30), <2>1, CodeStep
  <2>3. /\ thread' \in [Threads -> ThreadSet]
        /\ thread'[t].pc = "erase" /\ thread'[t].target = a
        /\ \A u \in Threads : u # t => thread'[u] = thread[u]
    BY Zenon, <1>1, <2>1, ActStep
  <2>4. proc'[Spawner].inline[a] = "none"
        /\ \A b \in Targets : b # a => proc'[Spawner].inline[b] = proc[Spawner].inline[b]
    BY Zenon, <1>0, <2>2 DEF Memories
  <2>5. ASSUME NEW b \in Targets, b # a PROVE AddressInv(b)'
    BY Zenon, <1>0, <1>1, <2>2, <2>3, <2>4, <2>5, OtherAddress DEF HookInv, HookStep
  <2>6. AddressInv(a)'
    <3>1. RuntimeHooked(proc[Spawner], a)' <=> RuntimeHooked(proc[Spawner], a)
      BY Zenon, <2>2 DEF RuntimeHooked, HookStep
    <3>2. proc[Spawner].inline[a] \in {"module", "runtime"} BY Zenon, <1>0, <1>5 DEF Memories
    <3>3. ~ RuntimeHooked(proc[Spawner], a) =>
            a \in proc[Spawner].hooked /\ \A u \in Threads : ~ At(u, a)
      BY Zenon, <1>3, <3>2 DEF AddressInv
    <3>4. At(t, a)' /\ \A u \in Threads : u # t => (At(u, a)' <=> At(u, a)) BY Zenon, <2>3 DEF At
    <3>5. InFlight(a)' BY Zenon, <2>3 DEF InFlight
    <3> QED BY Zenon, <2>2, <2>4, <3>1, <3>3, <3>4, <3>5 DEF AddressInv
  <2> QED BY Zenon, <2>2, <2>3, <2>5, <2>6 DEF HookInv
<1> QED BY Zenon, <1>4, <1>5

------------------------------------------------------------------------------
(* What the processes of the spawner are told.                              *)

\* due is the beginning of modules.
Begins(due, modules) == Len(due) <= Len(modules) /\ \A i \in 1..Len(due) : due[i] = modules[i]

Distinct(modules) == \A i, j \in 1..Len(modules) : modules[i] = modules[j] => i = j

\* What process p has in its memory r.  The spawner is no app, tells nothing and captures no
\* name, so a child starts with none; a child that has modules due has the hook they need.
MemoryInv(p, r) ==
  /\ p = Spawner => /\ r.gen = 0 /\ ~r.app /\ ~r.fired /\ r.cap = NoName
                    /\ r.modules # <<>> => r.atfork
  /\ p # Spawner => IF r.run THEN r.gen >= 1 ELSE r = NoProc
  /\ r.gen # 1 => r.due = <<>>
  /\ r.gen = 1 /\ ~r.fired => r.cap = r.own
  /\ ~r.fired => r.told = <<>>
  /\ \A i \in 1..Len(r.told) : r.told[i].name = r.told[i].own
  /\ Begins(r.due, r.modules)
  /\ r.due # <<>> => Leads(r, "setcontext")
  /\ r.fired => Begins(r.due, ToldModules(r))
  /\ r.app /\ r.due # <<>> => r.fired
  /\ Distinct(r.modules) /\ Distinct(ToldModules(r))

\* A process that was not started.
LEMMA NoProcMemory ==
  NoProc \in Memories /\ \A p \in Procs : MemoryInv(p, NoProc)
<1>1. PICK r : r = NoProc OBVIOUS
<1>2. r \in Memories
  BY <1>1 DEF NoProc, Memories, Symbols, Targets
<1>3. /\ ~r.run /\ r.gen = 0 /\ ~r.app /\ r.modules = <<>> /\ ~r.fired /\ r.cap = NoName
      /\ r.told = <<>> /\ r.due = <<>>
  BY Zenon, <1>1 DEF NoProc
<1>4. ToldModules(r) = <<>> /\ Len(<<>>) = 0 BY <1>3 DEF ToldModules
<1>5. Begins(<<>>, <<>>) /\ Distinct(<<>>) BY <1>4 DEF Begins, Distinct
<1>6. ASSUME NEW p \in Procs PROVE MemoryInv(p, r)
  BY <1>1, <1>3, <1>4, <1>5 DEF MemoryInv
<1> QED BY Zenon, <1>1, <1>2, <1>6

\* What installs hooks, or changes the registry of the spawner, changes nothing of this.
LEMMA KeepMemory ==
  ASSUME NEW p, NEW r \in Memories, NEW q \in Memories, MemoryInv(p, r),
         SameLife(r, q), q.modules = r.modules, q.atfork = r.atfork, r.run \/ p = Spawner,
         r.due # <<>> /\ Leads(r, "setcontext") => Leads(q, "setcontext")
  PROVE  MemoryInv(p, q)
<1>1. ToldModules(q) = ToldModules(r) BY Zenon DEF ToldModules, SameLife
<1> QED BY Zenon, <1>1 DEF MemoryInv, SameLife

\* A step of the hooks keeps what a process remembers of its modules.
LEMMA HooksMemory ==
  ASSUME NEW p, NEW r \in Memories, MemoryInv(p, r), NEW q, HooksOnly(r, q),
         r.run \/ p = Spawner
  PROVE  MemoryInv(p, q)
<1>1. "setcontext" \in Symbols BY Zenon DEF Symbols
<1>2. Leads(r, "setcontext") => Leads(q, "setcontext") BY Zenon, <1>1, LeadsStays
<1> QED BY Zenon, <1>2, KeepMemory DEF HooksOnly

\* A module that was not there is appended, and none is there twice.
LEMMA AppendDistinct ==
  ASSUME NEW ms \in Seq(Libs), NEW m \in Libs, Distinct(ms), \A i \in 1..Len(ms) : ms[i] # m
  PROVE  Distinct(Append(ms, m))
BY SMTT(30) DEF Distinct

\* A module that is not registered registers.
LEMMA RegisterMemory ==
  ASSUME NEW p, NEW r \in Memories, MemoryInv(p, r), NEW m \in Libs, NEW q,
         Registered(r, m, q), r.run \/ p = Spawner, \A i \in 1..Len(r.modules) : r.modules[i] # m
  PROVE  MemoryInv(p, q)
<1>1. ToldModules(q) = ToldModules(r) BY Zenon DEF ToldModules, SameLife, Registered
<1>2. r.modules \in Seq(Libs) /\ r.due \in Seq(Libs) /\ q \in Memories
      /\ q.modules = Append(r.modules, m) /\ q.due = r.due
  BY Zenon DEF Memories, Registered, SameLife
<1>3. Distinct(q.modules) BY Zenon, <1>2, AppendDistinct DEF MemoryInv
<1>4. Begins(q.due, q.modules) BY <1>2 DEF MemoryInv, Begins
<1>5. Leads(r, "setcontext") => Leads(q, "setcontext")
  BY Zenon DEF Registered, MoreHooks, Leads, Symbols, Targets
<1> QED BY Zenon, <1>1, <1>3, <1>4, <1>5 DEF MemoryInv, Registered, SameLife

\* The spawner runs, as the HyperOS runtime.
LEMMA EntryMemory ==
  ASSUME NEW r \in Memories, MemoryInv(Spawner, r)
  PROVE  LET q == [r EXCEPT !.run = TRUE, !.runtime = TRUE]
         IN q \in Memories /\ MemoryInv(Spawner, q) /\ MoreHooks(r, q) /\ q.modules = r.modules
<1>1. PICK x : x = [r EXCEPT !.run = TRUE] BY Zenon
<1>2. PICK q : q = [x EXCEPT !.runtime = TRUE] BY Zenon
<1>3. x \in Memories BY ONLY Zenon, r \in Memories, <1>1 DEF Memories
<1>4. q \in Memories BY ONLY Zenon, <1>2, <1>3 DEF Memories
<1>5. /\ x.gen = r.gen /\ x.app = r.app /\ x.modules = r.modules /\ x.fired = r.fired
      /\ x.cap = r.cap /\ x.atfork = r.atfork /\ x.hooked = r.hooked /\ x.told = r.told
      /\ x.own = r.own /\ x.due = r.due /\ x.orig = r.orig /\ x.inline = r.inline
  BY ONLY Zenon, r \in Memories, <1>1 DEF Memories
<1>6. /\ q.gen = x.gen /\ q.app = x.app /\ q.modules = x.modules /\ q.fired = x.fired
      /\ q.cap = x.cap /\ q.atfork = x.atfork /\ q.hooked = x.hooked /\ q.told = x.told
      /\ q.own = x.own /\ q.due = x.due /\ q.orig = x.orig /\ q.inline = x.inline
  BY ONLY Zenon, <1>2, <1>3 DEF Memories
<1>7. ToldModules(q) = ToldModules(r) /\ (Leads(q, "setcontext") <=> Leads(r, "setcontext"))
  BY Zenon, <1>5, <1>6 DEF ToldModules, Leads
<1>8. MemoryInv(Spawner, q) BY SMTT(30), <1>5, <1>6, <1>7 DEF MemoryInv
<1>9. MoreHooks(r, q) BY Zenon, <1>5, <1>6 DEF MoreHooks
<1> QED BY Zenon, <1>1, <1>2, <1>4, <1>5, <1>6, <1>8, <1>9

\* The copy of a memory in a new process, after the prepare handler or without it.
LEMMA KidMemory ==
  ASSUME NEW p \in Procs, NEW k \in Kids, NEW r \in Memories, MemoryInv(p, r), r.run,
         NEW hook \in BOOLEAN, r.modules # <<>> /\ p = Spawner /\ hook => Leads(r, "setcontext")
  PROVE  Kid(p, r, hook) \in Memories /\ MemoryInv(k, Kid(p, r, hook))
<1>1. PICK g : g = r.gen + 1 OBVIOUS
<1>2. r.gen \in Nat /\ g \in Nat /\ r.modules \in Seq(Libs) BY <1>1 DEF Memories
<1>3. PICK d : d = IF p = Spawner /\ hook THEN r.modules ELSE <<>> OBVIOUS
<1>4. d \in Seq(Libs) BY <1>2, <1>3
<1>5. PICK x : x = [r EXCEPT !.gen = g] BY Zenon
<1>6. PICK y : y = [x EXCEPT !.own = NoName] BY Zenon
<1>7. PICK q : q = [y EXCEPT !.due = d] BY Zenon
<1>8. Kid(p, r, hook) = q
  <2>1. r.gen \in Nat /\ "gen" \in DOMAIN r BY Zenon DEF Memories
  <2> QED BY Zenon, <2>1, <1>1, <1>3, <1>5, <1>6, <1>7 DEF Kid, Memories
<1>9. x \in Memories BY ONLY Zenon, r \in Memories, <1>2, <1>5 DEF Memories
<1>10. y \in Memories BY ONLY Zenon, <1>9, <1>6 DEF Memories
<1>11. q \in Memories BY ONLY Zenon, <1>10, <1>4, <1>7 DEF Memories
<1>12. /\ q.run = r.run /\ q.app = r.app /\ q.modules = r.modules /\ q.fired = r.fired
       /\ q.cap = r.cap /\ q.told = r.told /\ q.orig = r.orig /\ q.inline = r.inline
       /\ q.gen = g /\ q.own = NoName /\ q.due = d
  <2>1. /\ x.run = r.run /\ x.app = r.app /\ x.modules = r.modules /\ x.fired = r.fired
        /\ x.cap = r.cap /\ x.told = r.told /\ x.orig = r.orig /\ x.inline = r.inline
        /\ x.gen = g
    BY ONLY Zenon, r \in Memories, <1>2, <1>5 DEF Memories
  <2>2. /\ y.run = x.run /\ y.app = x.app /\ y.modules = x.modules /\ y.fired = x.fired
        /\ y.cap = x.cap /\ y.told = x.told /\ y.orig = x.orig /\ y.inline = x.inline
        /\ y.gen = x.gen /\ y.own = NoName
    BY ONLY Zenon, <1>9, <1>6 DEF Memories
  <2>3. /\ q.run = y.run /\ q.app = y.app /\ q.modules = y.modules /\ q.fired = y.fired
        /\ q.cap = y.cap /\ q.told = y.told /\ q.orig = y.orig /\ q.inline = y.inline
        /\ q.gen = y.gen /\ q.own = y.own /\ q.due = d
    BY ONLY Zenon, <1>10, <1>4, <1>7 DEF Memories
  <2> QED BY Zenon, <2>1, <2>2, <2>3
<1>13. ToldModules(q) = ToldModules(r) /\ (Leads(q, "setcontext") <=> Leads(r, "setcontext"))
  BY Zenon, <1>12 DEF ToldModules, Leads
<1>14. k # Spawner BY Zenon, ZnAssumption
<1>15. Begins(d, r.modules) BY <1>2, <1>3 DEF Begins
<1>16. Begins(<<>>, ToldModules(r))
  <2>1. Len(r.told) \in Nat /\ DOMAIN r.told = 1..Len(r.told) BY DEF Memories
  <2>2. Len(ToldModules(r)) = Len(r.told) BY <2>1 DEF ToldModules
  <2> QED BY <2>1, <2>2 DEF Begins
<1>17. d # <<>> => p = Spawner /\ hook /\ r.modules # <<>> BY Zenon, <1>3
<1>18. CASE p = Spawner
  <2>1. r.gen = 0 /\ ~r.app /\ ~r.fired /\ r.cap = NoName BY Zenon, <1>18 DEF MemoryInv
  <2>2. g = 1 BY <2>1, <1>1
  <2>3. 1 >= 1 OBVIOUS
  <2>4. /\ k = Spawner => /\ q.gen = 0 /\ ~q.app /\ ~q.fired /\ q.cap = NoName
                          /\ q.modules # <<>> => q.atfork
        /\ k # Spawner => IF q.run THEN q.gen >= 1 ELSE q = NoProc
    BY <1>12, <1>14, <2>2, <2>3, Zenon
  <2>5. /\ q.gen # 1 => q.due = <<>>
        /\ q.gen = 1 /\ ~q.fired => q.cap = q.own
        /\ ~q.fired => q.told = <<>>
        /\ \A i \in 1..Len(q.told) : q.told[i].name = q.told[i].own
    BY <1>12, <2>1, <2>2, Zenon DEF MemoryInv
  <2>6. /\ Begins(q.due, q.modules)
        /\ q.due # <<>> => Leads(q, "setcontext")
        /\ q.fired => Begins(q.due, ToldModules(q))
        /\ q.app /\ q.due # <<>> => q.fired
        /\ Distinct(q.modules) /\ Distinct(ToldModules(q))
    BY <1>12, <1>13, <1>15, <1>17, <2>1, Zenon DEF MemoryInv
  <2>7. MemoryInv(k, q) BY <2>4, <2>5, <2>6, Zenon DEF MemoryInv
  <2> QED BY <1>8, <1>11, <2>7, Zenon
<1>19. CASE p # Spawner
  <2>1. r.gen >= 1 BY Zenon, <1>19 DEF MemoryInv
  <2>2. g # 1 /\ g >= 1 BY <2>1, <1>1, <1>2
  <2>3. d = <<>> BY Zenon, <1>17, <1>19
  <2> QED BY ZenonT(30), <1>8, <1>11, <1>12, <1>13, <1>14, <1>15, <1>16, <2>2, <2>3 DEF MemoryInv
<1> QED BY Zenon, <1>18, <1>19

\* hyosDeliverAppSpecialized, the first time in a child: every registered module is told, in
\* order, with the captured name.
LEMMA DeliverMemory ==
  ASSUME NEW p, NEW r \in Memories, r.run, r.gen = 1, ~r.fired, p # Spawner,
         r.cap = r.own, r.told = <<>>, Begins(r.due, r.modules), Distinct(r.modules),
         r.due # <<>> => Leads(r, "setcontext")
  PROVE  Deliver(r) \in Memories /\ MemoryInv(p, Deliver(r)) /\ MoreHooks(r, Deliver(r))
<1> DEFINE Entry1(i) == [module |-> r.modules[i], name |-> r.cap, own |-> r.own]
<1>0. r.modules \in Seq(Libs) BY Zenon DEF Memories
<1>1. PICK n \in Nat : n = Len(r.modules) /\ DOMAIN r.modules = 1..n BY <1>0
<1>2. PICK t : t = [i \in 1..n |-> Entry1(i)] BY Zenon
<1>3. \A i \in 1..n : Entry1(i) \in [module: Libs, name: Names \cup {NoName}, own: Names \cup {NoName}]
  <2>1. r.cap \in Names \cup {NoName} /\ r.own \in Names \cup {NoName} BY Zenon DEF Memories
  <2>2. \A i \in 1..n : r.modules[i] \in Libs BY <1>0, <1>1
  <2> QED BY Zenon, <2>1, <2>2
<1>4. t \in Seq([module: Libs, name: Names \cup {NoName}, own: Names \cup {NoName}])
  BY ONLY <1>2, <1>3, n \in Nat
<1>5. Len(t) = n /\ DOMAIN t = 1..n BY <1>2
<1>6. r.told \o t = t BY <1>4
<1>7. PICK x : x = [r EXCEPT !.fired = TRUE] BY Zenon
<1>8. PICK q : q = [x EXCEPT !.told = t] BY Zenon
<1>9. Deliver(r) = q
  <2>1. [i \in DOMAIN r.modules |-> [module |-> r.modules[i], name |-> r.cap, own |-> r.own]] = t
    BY Zenon, <1>1, <1>2
  <2>2. Deliver(r) = [r EXCEPT !.fired = TRUE, !.told = @ \o t] BY <2>1, Zenon DEF Deliver
  <2>3. x.told = r.told BY ONLY Zenon, r \in Memories, <1>7 DEF Memories
  <2>4. [x EXCEPT !.told = @ \o t] = q BY Zenon, <1>6, <1>8, <2>3
  <2> QED BY Zenon, <2>2, <2>4, <1>7
<1>10. x \in Memories BY ONLY Zenon, r \in Memories, <1>7 DEF Memories
<1>11. q \in Memories BY ONLY Zenon, <1>10, <1>4, <1>8 DEF Memories
<1>12. /\ q.run = r.run /\ q.gen = r.gen /\ q.app = r.app /\ q.modules = r.modules /\ q.fired
       /\ q.cap = r.cap /\ q.told = t /\ q.own = r.own /\ q.due = r.due
       /\ q.hooked = r.hooked /\ q.orig = r.orig /\ q.inline = r.inline
  <2>1. /\ x.run = r.run /\ x.gen = r.gen /\ x.app = r.app /\ x.modules = r.modules /\ x.fired
        /\ x.cap = r.cap /\ x.own = r.own /\ x.due = r.due
        /\ x.hooked = r.hooked /\ x.orig = r.orig /\ x.inline = r.inline
    BY ONLY Zenon, r \in Memories, <1>7 DEF Memories
  <2>2. /\ q.run = x.run /\ q.gen = x.gen /\ q.app = x.app /\ q.modules = x.modules
        /\ q.fired = x.fired /\ q.cap = x.cap /\ q.told = t /\ q.own = x.own /\ q.due = x.due
        /\ q.hooked = x.hooked /\ q.orig = x.orig /\ q.inline = x.inline
    BY ONLY Zenon, <1>10, <1>4, <1>8 DEF Memories
  <2> QED BY Zenon, <2>1, <2>2
<1>13. ToldModules(q) = r.modules
  <2>1. \A i \in 1..n : t[i].module = r.modules[i] BY Zenon, <1>2
  <2>2. ToldModules(q) = [i \in 1..n |-> r.modules[i]] BY Zenon, <1>5, <1>12, <2>1 DEF ToldModules
  <2> QED BY <2>2, <1>0, <1>1
<1>14. \A i \in 1..Len(q.told) : q.told[i].name = q.told[i].own
  <2>1. \A i \in 1..n : t[i].name = r.cap /\ t[i].own = r.own BY Zenon, <1>2
  <2> QED BY Zenon, <2>1, <1>5, <1>12
<1>15. Leads(q, "setcontext") <=> Leads(r, "setcontext") BY Zenon, <1>12 DEF Leads
<1>16. MemoryInv(p, q) BY <1>12, <1>13, <1>14, <1>15 DEF MemoryInv
<1>17. MoreHooks(r, q) BY Zenon, <1>12 DEF MoreHooks
<1> QED BY Zenon, <1>9, <1>11, <1>16, <1>17

\* selinux_android_setcontext, whether it fails, is hooked, or is called again.
LEMMA SetcontextMemory ==
  ASSUME NEW p, NEW r \in Memories, MemoryInv(p, r), r.run, r.gen <= 1, NEW ok \in BOOLEAN
  PROVE  LET done == [r EXCEPT !.app = @ \/ (ok /\ hyosInChild(r))]
             q == IF ok /\ Leads(done, "setcontext")
                  THEN hyosDeliverAppSpecialized(done) ELSE done
         IN q \in Memories /\ MemoryInv(p, q) /\ MoreHooks(r, q) /\ q.modules = r.modules
<1>1. PICK b \in BOOLEAN : b = (r.app \/ (ok /\ hyosInChild(r))) BY Zenon
<1>2. PICK x : x = [r EXCEPT !.app = b] BY Zenon
<1>3. x = [r EXCEPT !.app = @ \/ (ok /\ hyosInChild(r))] BY Zenon, <1>1, <1>2
<1>4. x \in Memories BY ONLY Zenon, r \in Memories, <1>2, b \in BOOLEAN DEF Memories
<1>5. /\ x.run = r.run /\ x.gen = r.gen /\ x.app = b /\ x.modules = r.modules
      /\ x.fired = r.fired /\ x.cap = r.cap /\ x.atfork = r.atfork /\ x.told = r.told
      /\ x.own = r.own /\ x.due = r.due /\ x.hooked = r.hooked /\ x.orig = r.orig
      /\ x.inline = r.inline
  BY ONLY Zenon, r \in Memories, <1>2, b \in BOOLEAN DEF Memories
<1>6. ToldModules(x) = ToldModules(r) /\ (Leads(x, "setcontext") <=> Leads(r, "setcontext"))
  BY Zenon, <1>5 DEF ToldModules, Leads
<1>7. MoreHooks(r, x) BY Zenon, <1>5 DEF MoreHooks
<1>8. r.gen \in Nat BY Zenon DEF Memories
<1>9. PICK q : q = IF ok /\ Leads(x, "setcontext") THEN hyosDeliverAppSpecialized(x) ELSE x
  OBVIOUS
<1>10. CASE p = Spawner
  <2>1. r.gen = 0 /\ ~r.app BY Zenon, <1>10 DEF MemoryInv
  <2>0. ~ hyosInChild(r) BY <2>1 DEF hyosInChild
  <2>2. b = FALSE BY <2>0, <2>1, <1>1, Zenon
  <2>3. q = x BY <1>5, <1>9, <2>1 DEF hyosDeliverAppSpecialized, hyosInChild
  <2>4. MemoryInv(p, x) BY Zenon, <1>5, <1>6, <1>10, <2>1, <2>2 DEF MemoryInv
  <2> QED BY ZenonT(30), <1>3, <1>4, <1>5, <1>7, <1>9, <2>3, <2>4
<1>11. CASE p # Spawner
  <2>1. r.gen = 1 BY <1>8, <1>11 DEF MemoryInv
  <2>2. b => r.app \/ ok BY Zenon, <1>1
  <2>3. CASE ok /\ Leads(x, "setcontext") /\ ~ (x.fired \/ x.modules = <<>>)
    <3>1. q = Deliver(x)
      BY <1>5, <1>9, <2>1, <2>3 DEF hyosDeliverAppSpecialized, hyosInChild
    <3>2. /\ x.cap = x.own /\ x.told = <<>> /\ Begins(x.due, x.modules) /\ Distinct(x.modules)
          /\ x.run /\ x.gen = 1 /\ ~x.fired
      BY Zenon, <1>5, <2>1, <2>3 DEF MemoryInv
    <3>3. q \in Memories /\ MemoryInv(p, q) /\ MoreHooks(x, q)
      BY <1>4, <1>11, <2>3, <3>1, <3>2, DeliverMemory
    <3>4. q.modules = x.modules BY Zenon, <1>4, <3>1 DEF Deliver, Memories
    <3>5. MoreHooks(r, q) BY <1>5, <3>3 DEF MoreHooks
    <3> QED BY Zenon, <1>3, <1>5, <1>9, <3>3, <3>4, <3>5
  <2>4. CASE ~ (ok /\ Leads(x, "setcontext") /\ ~ (x.fired \/ x.modules = <<>>))
    <3>1. q = x BY Zenon, <1>9, <2>4 DEF hyosDeliverAppSpecialized
    <3>2. b /\ r.due # <<>> => r.fired
      <4>1. SUFFICES ASSUME b, r.due # <<>>, ~r.fired PROVE FALSE OBVIOUS
      <4>2. ok BY Zenon, <2>2, <4>1 DEF MemoryInv
      <4>3. Leads(x, "setcontext") BY Zenon, <1>6, <4>1 DEF MemoryInv
      <4>4. x.modules = <<>> BY Zenon, <2>4, <4>1, <4>2, <4>3, <1>5
      <4>5. Len(r.due) <= 0 /\ r.due \in Seq(Libs)
        BY SMTT(30), <4>4, <1>5 DEF MemoryInv, Begins, Memories
      <4> QED BY <4>1, <4>5
    <3>3. MemoryInv(p, x) BY Zenon, <1>5, <1>6, <1>11, <2>1, <3>2 DEF MemoryInv
    <3> QED BY ZenonT(30), <1>3, <1>4, <1>5, <1>7, <1>9, <3>1, <3>3
  <2> QED BY Zenon, <2>3, <2>4
<1> QED BY Zenon, <1>10, <1>11

\* The memory after pthread_setname_np.
Named(r, n, self) ==
  LET x == [r EXCEPT !.own = IF @ = NoName /\ self /\ ~r.fired THEN n ELSE @]
  IN IF Captures(x, n, self) THEN [x EXCEPT !.cap = n] ELSE x

\* pthread_setname_np: a child of the spawner captures the first name it gives itself.
LEMMA SetnameMemory ==
  ASSUME NEW p, NEW r \in Memories, MemoryInv(p, r), r.run, NEW n \in Names \cup {NoName},
         NEW self \in BOOLEAN
  PROVE  LET q == Named(r, n, self)
         IN q \in Memories /\ MemoryInv(p, q) /\ MoreHooks(r, q) /\ q.modules = r.modules
<1>1. PICK o : o = IF r.own = NoName /\ self /\ ~r.fired THEN n ELSE r.own OBVIOUS
<1>2. PICK x : x = [r EXCEPT !.own = o] BY Zenon
<1>3. x = [r EXCEPT !.own = IF @ = NoName /\ self /\ ~r.fired THEN n ELSE @] BY Zenon, <1>1, <1>2
<1>4. o \in Names \cup {NoName} BY Zenon, <1>1 DEF Memories
<1>5. x \in Memories BY ONLY Zenon, r \in Memories, <1>2, <1>4 DEF Memories
<1>6. /\ x.run = r.run /\ x.gen = r.gen /\ x.app = r.app /\ x.modules = r.modules
      /\ x.fired = r.fired /\ x.cap = r.cap /\ x.atfork = r.atfork /\ x.told = r.told
      /\ x.own = o /\ x.due = r.due /\ x.hooked = r.hooked /\ x.orig = r.orig
      /\ x.inline = r.inline
  BY ONLY Zenon, r \in Memories, <1>2, <1>4 DEF Memories
<1>7. PICK c : c = IF Captures(x, n, self) THEN n ELSE x.cap OBVIOUS
<1>8. PICK q : q = [x EXCEPT !.cap = c] BY Zenon
<1>9. q = IF Captures(x, n, self) THEN [x EXCEPT !.cap = n] ELSE x
  BY Zenon, <1>5, <1>7, <1>8 DEF Memories
<1>10. c \in Names \cup {NoName} BY Zenon, <1>5, <1>7 DEF Memories
<1>11. q \in Memories BY ONLY Zenon, <1>5, <1>8, <1>10 DEF Memories
<1>12. /\ q.run = x.run /\ q.gen = x.gen /\ q.app = x.app /\ q.modules = x.modules
       /\ q.fired = x.fired /\ q.cap = c /\ q.atfork = x.atfork /\ q.told = x.told
       /\ q.own = x.own /\ q.due = x.due /\ q.hooked = x.hooked /\ q.orig = x.orig
       /\ q.inline = x.inline
  BY ONLY Zenon, <1>5, <1>8, <1>10 DEF Memories
<1>13. ToldModules(q) = ToldModules(r) /\ (Leads(q, "setcontext") <=> Leads(r, "setcontext"))
  BY Zenon, <1>6, <1>12 DEF ToldModules, Leads
<1>14. MoreHooks(r, q) BY Zenon, <1>6, <1>12 DEF MoreHooks
<1>15. p = Spawner => c = NoName
  <2>1. SUFFICES ASSUME p = Spawner PROVE c = NoName OBVIOUS
  <2>2. r.gen = 0 /\ r.cap = NoName BY Zenon, <2>1 DEF MemoryInv
  <2>3. ~ Captures(x, n, self) BY <2>2, <1>6 DEF Captures, hyosInChild
  <2> QED BY Zenon, <2>2, <2>3, <1>6, <1>7
<1>16. r.gen = 1 /\ ~r.fired => c = o
  <2>1. SUFFICES ASSUME r.gen = 1, ~r.fired PROVE c = o OBVIOUS
  <2>2. r.cap = r.own BY Zenon, <2>1 DEF MemoryInv
  <2>3. Captures(x, n, self) <=> r.own = NoName /\ n # NoName /\ self
    BY <2>1, <2>2, <1>6 DEF Captures, hyosInChild
  <2> QED BY Zenon, <2>1, <2>2, <2>3, <1>1, <1>6, <1>7
<1>17. MemoryInv(p, q)
  <2>1. /\ q.run = r.run /\ q.gen = r.gen /\ q.app = r.app /\ q.modules = r.modules
        /\ q.fired = r.fired /\ q.cap = c /\ q.atfork = r.atfork /\ q.told = r.told
        /\ q.own = o /\ q.due = r.due
    BY <1>6, <1>12, Zenon
  <2>2. /\ p = Spawner => /\ q.gen = 0 /\ ~q.app /\ ~q.fired /\ q.cap = NoName
                          /\ q.modules # <<>> => q.atfork
        /\ p # Spawner => IF q.run THEN q.gen >= 1 ELSE q = NoProc
    BY <2>1, <1>15, Zenon DEF MemoryInv
  <2>3. /\ q.gen # 1 => q.due = <<>>
        /\ q.gen = 1 /\ ~q.fired => q.cap = q.own
        /\ ~q.fired => q.told = <<>>
        /\ \A i \in 1..Len(q.told) : q.told[i].name = q.told[i].own
    BY <2>1, <1>16, Zenon DEF MemoryInv
  <2> QED BY <2>1, <2>2, <2>3, <1>13, Zenon DEF MemoryInv
<1>18. Named(r, n, self) = q BY <1>3, <1>9, Zenon DEF Named
<1> QED BY Zenon, <1>6, <1>11, <1>12, <1>14, <1>17, <1>18

------------------------------------------------------------------------------
(* The plan.                                                                *)

\* A set of numbers that is not empty has a least one.
LEMMA LeastNumber ==
  ASSUME NEW T, T \subseteq Nat, T # {}
  PROVE  \E n \in T : \A m \in T : n <= m
<1> DEFINE R == OpToRel(<, Nat)
<1>1. IsWellFoundedOn(R, Nat) BY Zenon, NatLessThanWellFounded
<1>2. \A x, y \in Nat : <<y, x>> \in R <=> y < x BY Zenon DEF OpToRel
<1> HIDE DEF R
<1>3. PICK x \in T : \A y \in T : ~ (<<y, x>> \in R) BY Zenon, <1>1, WFMin
<1>4. ASSUME NEW y \in T PROVE x <= y
  <2>1. x \in Nat /\ y \in Nat OBVIOUS
  <2>2. ~ (<<y, x>> \in R) BY Zenon, <1>3
  <2>3. ~ (y < x) BY Zenon, <1>2, <2>1, <2>2
  <2> QED BY <2>1, <2>3
<1> QED BY Zenon, <1>4

\* Every library is there once.
NoneTwice(plan) == \A i, j \in 1..Len(plan) : plan[i].lib = plan[j].lib => i = j

\* A line of the configuration adds no module twice.
LEMMA AddedOnce ==
  ASSUME NEW plan \in Seq(LineSet), NoneTwice(plan), NEW line \in LineSet, NEW l
  PROVE  Added(plan, line, l) \in Seq(LineSet) /\ NoneTwice(Added(plan, line, l))
<1>1. CASE Added(plan, line, l) = plan BY Zenon, <1>1
<1>2. CASE Added(plan, line, l) # plan
  <2>1. PICK r : r = Append(plan, line) BY Zenon
  <2>2. Added(plan, line, l) = r /\ \A i \in 1..Len(plan) : plan[i].lib # line.lib
    BY Zenon, <1>2, <2>1 DEF Added
  <2>3. r \in Seq(LineSet) BY ONLY plan \in Seq(LineSet), line \in LineSet, <2>1
  <2>4. NoneTwice(r) BY <2>1, <2>2 DEF NoneTwice
  <2> QED BY Zenon, <2>2, <2>3, <2>4
<1> QED BY Zenon, <1>1, <1>2

\* g[n] is the plan made of the first n lines.
PlanTo(g, l, N) == g = [n \in 0..N |-> IF n = 0 THEN <<>> ELSE Added(g[n - 1], Lines[n], l)]

\* There is a function the recursion of scan_zn_modules_for_target defines.
LEMMA PlanExists ==
  ASSUME NEW l, NEW N \in Nat
  PROVE  \E g : PlanTo(g, l, N)
<1>1. DEFINE T == {n \in Nat : ~ \E g : PlanTo(g, l, n)}
<1>2. SUFFICES ASSUME T # {} PROVE FALSE OBVIOUS
<1>3. PICK n \in T : \A m \in T : n <= m
  <2>1. T \subseteq Nat OBVIOUS
  <2> HIDE DEF T
  <2> QED BY Zenon, <1>2, <2>1, LeastNumber
<1>4. n # 0
  <2>1. PICK g : g = [i \in 0..0 |-> <<>>] BY Zenon
  <2>2. PlanTo(g, l, 0) BY <2>1 DEF PlanTo
  <2> QED BY Zenon, <2>2
<1>5. n - 1 \in Nat /\ n - 1 \notin T
  <2>1. n \in Nat OBVIOUS
  <2>2. n - 1 \in Nat /\ ~ (n <= n - 1) BY <2>1, <1>4
  <2> HIDE DEF T
  <2> QED BY Zenon, <2>2, <1>3
<1>6. PICK g : PlanTo(g, l, n - 1) BY Zenon, <1>5
<1>7. PICK h : h = [i \in 0..n |-> IF i < n THEN g[i] ELSE Added(g[n - 1], Lines[n], l)] BY Zenon
<1>8. PlanTo(h, l, n)
  <2>1. n \in Nat /\ n - 1 \in 0..n /\ h[n - 1] = g[n - 1] BY <1>4, <1>7
  <2>2. \A i \in 0..n : h[i] = IF i = 0 THEN <<>> ELSE Added(h[i - 1], Lines[i], l)
    <3>1. SUFFICES ASSUME NEW i \in 0..n
                   PROVE  h[i] = IF i = 0 THEN <<>> ELSE Added(h[i - 1], Lines[i], l)
      OBVIOUS
    <3>2. CASE i = n BY <2>1, <3>2, <1>4, <1>7
    <3>3. CASE i # n
      <4>1. i \in 0..(n - 1) /\ h[i] = g[i] BY <2>1, <3>3, <1>7
      <4>2. g[i] = IF i = 0 THEN <<>> ELSE Added(g[i - 1], Lines[i], l)
        BY Zenon, <4>1, <1>6 DEF PlanTo
      <4>3. i # 0 => h[i - 1] = g[i - 1] BY <4>1, <2>1, <1>7
      <4> QED BY Zenon, <4>1, <4>2, <4>3
    <3> QED BY Zenon, <3>2, <3>3
  <2>3. h = [i \in 0..n |-> h[i]] BY Zenon, <1>7
  <2> QED BY <2>2, <2>3, Zenon DEF PlanTo
<1> QED BY Zenon, <1>8

\* By induction over the lines, no prefix of the plan has a module twice.
LEMMA PlanKeeps ==
  ASSUME NEW l, NEW g, PlanTo(g, l, Len(Lines)), NEW n \in 0..Len(Lines)
  PROVE  g[n] \in Seq(LineSet) /\ NoneTwice(g[n])
<1>0. Lines \in Seq(LineSet) /\ Len(Lines) \in Nat BY ZnAssumption
<1>1. DEFINE Good(i) == g[i] \in Seq(LineSet) /\ NoneTwice(g[i])
             T == {i \in 0..Len(Lines) : ~ Good(i)}
<1>2. SUFFICES ASSUME T # {} PROVE FALSE OBVIOUS
<1>3. PICK m \in T : \A i \in T : m <= i
  <2>1. T \subseteq Nat BY <1>0
  <2> HIDE DEF T
  <2> QED BY Zenon, <1>2, <2>1, LeastNumber
<1>4. m \in 0..Len(Lines) /\ ~ Good(m) OBVIOUS
<1>5. g[m] = IF m = 0 THEN <<>> ELSE Added(g[m - 1], Lines[m], l) BY Zenon, <1>4 DEF PlanTo
<1>6. m # 0
  <2>1. <<>> \in Seq(LineSet) /\ NoneTwice(<<>>) BY DEF NoneTwice
  <2> QED BY Zenon, <2>1, <1>4, <1>5
<1>7. m - 1 \in 0..Len(Lines) /\ ~ (m <= m - 1) BY <1>0, <1>4, <1>6
<1>8. Good(m - 1)
  <2>1. m - 1 \notin T
    <3> HIDE DEF T
    <3> QED BY Zenon, <1>3, <1>7
  <2> QED BY Zenon, <2>1, <1>7
<1>9. Lines[m] \in LineSet BY <1>0, <1>4, <1>6
<1>10. Good(m) BY Zenon, <1>5, <1>6, <1>8, <1>9, AddedOnce
<1> QED BY Zenon, <1>4, <1>10

\* scan_zn_modules_for_target puts a library in the plan once, however many lines name it.
LEMMA PlanSound ==
  ASSUME NEW l
  PROVE  /\ scan_zn_modules_for_target(l) \in Seq(LineSet)
         /\ NoneTwice(scan_zn_modules_for_target(l))
<1>0. Len(Lines) \in Nat BY ZnAssumption
<1> DEFINE f == CHOOSE f : f = [n \in 0..Len(Lines) |->
                                  IF n = 0 THEN <<>> ELSE Added(f[n - 1], Lines[n], l)]
<1>1. PlanTo(f, l, Len(Lines)) BY <1>0, PlanExists, Zenon DEF PlanTo
<1>2. scan_zn_modules_for_target(l) = f[Len(Lines)] BY Zenon DEF scan_zn_modules_for_target
<1> HIDE DEF f
<1> QED BY <1>0, <1>1, <1>2, PlanKeeps

------------------------------------------------------------------------------
(* The invariant and its steps.                                             *)

\* The plan of the spawner as far as it is not loaded, and the modules it has registered.
PlanOf(left, modules) ==
  /\ left \in Seq(LineSet) /\ NoneTwice(left)
  /\ \A i \in 1..Len(left), j \in 1..Len(modules) : left[i].lib # modules[j]

PlanInv ==
  /\ load[Spawner].pc = "off" => proc[Spawner].modules = <<>>
  /\ \A l \in Loaders : load[l].pc \in {"off", "done"} => load[l].left = <<>>
  /\ PlanOf(load[Spawner].left, proc[Spawner].modules)

MemoriesInv == \A p \in Procs : MemoryInv(p, proc[p])

ZnInv == TypeOK /\ FileInv /\ HookInv /\ MemoriesInv /\ PlanInv

\* A step that leaves the processes and the threads of modules alone.
LEMMA HooksRest ==
  ASSUME ZnInv, UNCHANGED <<proc, thread>>
  PROVE  MemoriesInv' /\ HookInv'
<1>1. MemoriesInv' BY Zenon DEF ZnInv, MemoriesInv
<1>2. ASSUME NEW a \in Targets PROVE AddressInv(a)'
  <2>1. AddressInv(a) BY Zenon DEF ZnInv, HookInv
  <2> QED BY Zenon, <2>1 DEF AddressInv, At, InFlight
<1> QED BY Zenon, <1>1, <1>2 DEF HookInv

\* What is left of a plan is a plan, with its first module gone.
LEMMA TailPlan ==
  ASSUME NEW left, NEW modules \in Seq(Libs), PlanOf(left, modules), left # <<>>
  PROVE  /\ PlanOf(Tail(left), modules) /\ Head(left).lib \in Libs
         /\ \A j \in 1..Len(modules) : modules[j] # Head(left).lib
         /\ PlanOf(Tail(left), Append(modules, Head(left).lib))
<1>0. left \in Seq(LineSet) BY Zenon DEF PlanOf
<1>1. PICK n \in Nat : n = Len(left) /\ n >= 1 BY <1>0
<1>2. PICK t : t = Tail(left) /\ t \in Seq(LineSet)
  <2>1. Tail(left) \in Seq(LineSet) BY <1>0
  <2> QED BY <2>1, Zenon
<1>3. Len(t) = n - 1 /\ \A i \in 1..(n - 1) : t[i] = left[i + 1] BY <1>0, <1>1, <1>2
<1>4. PICK m : m = Head(left).lib /\ m = left[1].lib /\ m \in Libs
  <2>1. Head(left) = left[1] BY <1>0
  <2>2. left[1] \in LineSet BY <1>0, <1>1
  <2>3. left[1].lib \in Libs BY Zenon, <2>2 DEF LineSet
  <2> QED BY <2>1, <2>3, Zenon
<1>5. NoneTwice(t) BY <1>1, <1>2, <1>3 DEF PlanOf, NoneTwice
<1>6. PlanOf(t, modules) BY <1>1, <1>2, <1>3, <1>5 DEF PlanOf
<1>7. \A j \in 1..Len(modules) : modules[j] # m BY <1>1, <1>4 DEF PlanOf
<1>8. \A i \in 1..Len(t) : t[i].lib # m BY <1>1, <1>3, <1>4 DEF PlanOf, NoneTwice
<1>9. PICK ms : ms = Append(modules, m) /\ ms \in Seq(Libs)
  <2>1. Append(modules, m) \in Seq(Libs) BY <1>4
  <2> QED BY <2>1, Zenon
<1>10. Len(ms) = Len(modules) + 1 /\ ms[Len(modules) + 1] = m
       /\ \A j \in 1..Len(modules) : ms[j] = modules[j]
  BY <1>9
<1>11. PlanOf(t, ms)
  <2>1. ASSUME NEW i \in 1..Len(t), NEW j \in 1..Len(ms) PROVE t[i].lib # ms[j]
    <3>1. CASE j \in 1..Len(modules) BY Zenon, <3>1, <1>6, <1>10 DEF PlanOf
    <3>2. CASE j = Len(modules) + 1 BY Zenon, <3>2, <1>8, <1>10
    <3> QED BY <3>1, <3>2, <1>10
  <2> QED BY Zenon, <2>1, <1>6 DEF PlanOf
<1> QED BY Zenon, <1>2, <1>4, <1>6, <1>7, <1>9, <1>11

\* The invariant holds at the start.
LEMMA ZnInit ==
  Init => ZnInv
<1>1. SUFFICES ASSUME Init PROVE ZnInv OBVIOUS
<1>2. FileInv BY Zenon, <1>1, FileInit
<1>3. proc = [p \in Procs |-> NoProc] /\ Spawner \in Procs BY Zenon, <1>1 DEF Init, Procs
<1>4. proc \in [Procs -> Memories] /\ MemoriesInv BY Zenon, <1>3, NoProcMemory DEF MemoriesInv
<1>5. thread \in [Threads -> ThreadSet] /\ \A t \in Threads : thread[t].pc = "idle"
  BY Zenon, <1>1 DEF Init, Idle, ThreadSet, Targets
<1>6. world \in Worlds /\ ways \subseteq Ways /\ world.restarts \in Nat
  BY Zenon, <1>1, ZnAssumption DEF Init
<1>7. /\ load = [l \in Loaders |-> [pc |-> "off", left |-> <<>>, sys |-> 0, lib |-> NoLib,
                                    injected |-> FALSE, scrubbed |-> FALSE]]
      /\ Spawner \in Loaders
  BY Zenon, <1>1 DEF Init, Loaders
<1>8. TypeOK
  <2>1. load \in [Loaders -> [pc: {"off", "load", "report", "done"}, left: Seq(LineSet), sys: Nat,
                            lib: Libs \cup {NoLib}, injected: BOOLEAN, scrubbed: BOOLEAN]]
        /\ \A l \in Loaders : load[l].pc = "off"
    BY <1>7
  <2>2. states \in [Libs -> Nat \X Nat] BY Zenon, <1>1 DEF Init
  <2>3. /\ disk \in [Files -> SUBSET (Libs \X {"failed", "injected"})]
        /\ staging \subseteq Files /\ file \subseteq Files
    BY Zenon, <1>1 DEF Init
  <2>4. report \in [by: Loaders \cup {"free"}, pc: {"idle", "write", "rename"}, fd: {0} \cup Files]
    BY Zenon, <1>1 DEF Init
  <2>5. restart \in [pc: {"idle", "cleared", "opened", "written"}, fd: {0} \cup Files, left: Nat]
    BY Zenon, <1>1, <1>6 DEF Init
  <2> QED BY Zenon, <1>4, <1>5, <1>6, <2>1, <2>2, <2>3, <2>4, <2>5 DEF TypeOK, ThreadSet
<1>9. HookInv
  <2>1. NoProc.hooked = {} /\ \A a \in Targets : NoProc.inline[a] = "none" BY Zenon DEF NoProc
  <2>2. \A t \in Threads, a \in Targets : ~ At(t, a) BY Zenon, <1>5 DEF At
  <2> QED BY Zenon, <1>3, <2>1, <2>2 DEF HookInv, AddressInv
<1>10. PlanInv
  <2>1. \A l \in Loaders : load[l].pc = "off" /\ load[l].left = <<>> BY Zenon, <1>7
  <2>2. proc[Spawner].modules = <<>> BY Zenon, <1>3 DEF NoProc
  <2>3. PlanOf(<<>>, <<>>) BY SMTT(30) DEF PlanOf, NoneTwice
  <2> QED BY Zenon, <1>7, <2>1, <2>2, <2>3 DEF PlanInv
<1> QED BY Zenon, <1>2, <1>4, <1>8, <1>9, <1>10 DEF ZnInv

LoadSet ==
  [pc: {"off", "load", "report", "done"}, left: Seq(LineSet), sys: Nat,
   lib: Libs \cup {NoLib}, injected: BOOLEAN, scrubbed: BOOLEAN]

LoadType ==
  load \in [Loaders -> LoadSet] /\ \A l \in Loaders : load[l].pc = "report" => load[l].lib \in Libs

\* What the reports and the restart write.
FileType ==
  /\ states \in [Libs -> Nat \X Nat] /\ disk \in [Files -> SUBSET (Libs \X {"failed", "injected"})]
  /\ staging \subseteq Files /\ file \subseteq Files
  /\ report \in [by: Loaders \cup {"free"}, pc: {"idle", "write", "rename"}, fd: {0} \cup Files]
  /\ restart \in [pc: {"idle", "cleared", "opened", "written"}, fd: {0} \cup Files, left: Nat]

\* TypeOK, part by part.
LEMMA TypeParts ==
  TypeOK <=> /\ world \in Worlds /\ ways \subseteq Ways /\ proc \in [Procs -> Memories]
             /\ thread \in [Threads -> ThreadSet] /\ LoadType /\ FileType
BY Zenon DEF TypeOK, ThreadSet, LoadType, LoadSet, FileType

\* The same, after a step.
LEMMA TypePartsNext ==
  TypeOK' <=> /\ world' \in Worlds /\ ways' \subseteq Ways /\ proc' \in [Procs -> Memories]
              /\ thread' \in [Threads -> ThreadSet] /\ LoadType' /\ FileType'
BY Zenon DEF TypeOK, ThreadSet, LoadType, LoadSet, FileType

\* A step that leaves the files alone.
LEMMA SameFiles ==
  ASSUME FileType, UNCHANGED FileVars
  PROVE  FileType'
BY Zenon DEF FileType, FileVars

\* A step of loadAllModules in process l.
LEMMA LoadStep ==
  ASSUME LoadType, NEW l \in Loaders, NEW n \in LoadSet, n.pc = "report" => n.lib \in Libs,
         load' = [load EXCEPT ![l] = n]
  PROVE  LoadType' /\ load'[l] = n /\ \A k \in Loaders : k # l => load'[k] = load[k]
BY Zenon DEF LoadType

\* Processes change and keep what is known of them; the runtime has only more hooks.
LEMMA ProcsStep ==
  ASSUME ZnInv, proc' \in [Procs -> Memories], \A x \in Procs : MemoryInv(x, proc'[x]),
         MoreHooks(proc[Spawner], proc'[Spawner]), UNCHANGED thread
  PROVE  MemoriesInv' /\ HookInv'
<1>1. MemoriesInv' BY Zenon DEF MemoriesInv
<1>2. proc'[Spawner] \in Memories BY Zenon DEF Procs
<1> QED BY Zenon, <1>1, <1>2, MoreHooksInv DEF ZnInv

\* One process changes.
LEMMA ProcStep ==
  ASSUME ZnInv, NEW p \in Procs, NEW q \in Memories, proc' = [proc EXCEPT ![p] = q],
         MemoryInv(p, q), p = Spawner => MoreHooks(proc[p], q), UNCHANGED thread
  PROVE  /\ proc' \in [Procs -> Memories] /\ MemoriesInv' /\ HookInv'
         /\ proc'[p] = q /\ (p # Spawner => proc'[Spawner] = proc[Spawner])
<1>0. Spawner \in Procs BY Zenon DEF Procs
<1>1. proc \in [Procs -> Memories] BY Zenon, TypeParts DEF ZnInv
<1>2. proc' \in [Procs -> Memories] BY Zenon, <1>1
<1>3. proc'[p] = q /\ \A x \in Procs : x # p => proc'[x] = proc[x] BY Zenon, <1>1
<1>4. \A x \in Procs : MemoryInv(x, proc'[x]) BY Zenon, <1>3 DEF ZnInv, MemoriesInv
<1>5. MoreHooks(proc[Spawner], proc'[Spawner])
  <2>1. CASE p = Spawner BY Zenon, <2>1, <1>3
  <2>2. CASE p # Spawner BY Zenon, <2>2, <1>0, <1>3 DEF MoreHooks
  <2> QED BY Zenon, <2>1, <2>2
<1> QED BY Zenon, <1>0, <1>2, <1>3, <1>4, <1>5, ProcsStep

\* The plan is asked for, once, before anything is registered.
LEMMA EntryStep ==
  ASSUME ZnInv, NEW l \in Loaders, Entry(l)
  PROVE  ZnInv'
<1>0. UNCHANGED <<world, ways, thread>> /\ UNCHANGED FileVars BY Zenon DEF Entry, FileVars
<1>1. /\ LoadType /\ FileType /\ proc \in [Procs -> Memories]
      /\ Spawner \in Procs /\ Spawner \in Loaders
  BY Zenon, TypeParts DEF ZnInv, Procs, Loaders
<1>2. PICK o : o = load[l] OBVIOUS
<1>3. o \in LoadSet /\ o.pc = "off" /\ o.left = <<>>
  BY Zenon, <1>1, <1>2 DEF LoadType, Entry, ZnInv, PlanInv
<1>4. PICK left : /\ left \in Seq(LineSet) /\ NoneTwice(left)
                  /\ load' = [load EXCEPT ![l] = [o EXCEPT !.pc = "load", !.left = left]]
  <2>1. CASE load' = [load EXCEPT ![l].pc = "load", ![l].left = scan_zn_modules_for_target(l)]
    <3>1. PICK left : left = scan_zn_modules_for_target(l) OBVIOUS
    <3>2. left \in Seq(LineSet) /\ NoneTwice(left) BY <3>1, PlanSound, Zenon
    <3>3. load' = [load EXCEPT ![l] = [o EXCEPT !.pc = "load", !.left = left]]
      BY Zenon, <2>1, <3>1, <1>1, <1>2 DEF LoadType
    <3> QED BY <3>2, <3>3, Zenon
  <2>2. CASE load' = [load EXCEPT ![l].pc = "load"]
    <3>1. <<>> \in Seq(LineSet) /\ NoneTwice(<<>>) BY DEF NoneTwice
    <3>2. [o EXCEPT !.pc = "load"] = [o EXCEPT !.pc = "load", !.left = <<>>]
      BY Zenon, <1>3 DEF LoadSet
    <3>3. load' = [load EXCEPT ![l] = [o EXCEPT !.pc = "load"]] BY Zenon, <2>2, <1>2
    <3> QED BY Zenon, <3>1, <3>2, <3>3
  <2> QED BY Zenon, <2>1, <2>2 DEF Entry
<1>5. PICK n : n = [o EXCEPT !.pc = "load", !.left = left] OBVIOUS
<1>6. n \in LoadSet /\ n.pc = "load" /\ n.left = left BY Zenon, <1>3, <1>4, <1>5 DEF LoadSet
<1>7. LoadType' /\ load'[l] = n /\ \A k \in Loaders : k # l => load'[k] = load[k]
  BY Zenon, <1>1, <1>4, <1>5, <1>6, LoadStep
<1>8. PICK r : r = proc[Spawner] OBVIOUS
<1>9. PICK q : q = [r EXCEPT !.run = TRUE, !.runtime = TRUE] OBVIOUS
<1>10. r \in Memories /\ MemoryInv(Spawner, r) BY Zenon, <1>1, <1>8 DEF ZnInv, MemoriesInv
<1>11. q \in Memories /\ MemoryInv(Spawner, q) /\ MoreHooks(r, q) /\ q.modules = r.modules
  BY Zenon, <1>9, <1>10, EntryMemory
<1>12. PICK v \in {r, q} : proc' = [proc EXCEPT ![Spawner] = v]
  <2>1. CASE l = Spawner
    <3>1. proc' = [proc EXCEPT ![Spawner] = q]
      BY Zenon, <2>1, <1>1, <1>8, <1>9 DEF Entry
    <3> QED BY Zenon, <3>1
  <2>2. CASE l # Spawner
    <3>1. proc' = proc BY Zenon, <2>2 DEF Entry
    <3>2. proc' = [proc EXCEPT ![Spawner] = r] BY Zenon, <3>1, <1>1, <1>8
    <3> QED BY Zenon, <3>2
  <2> QED BY Zenon, <2>1, <2>2
<1>13. v \in Memories /\ MemoryInv(Spawner, v) /\ MoreHooks(r, v) /\ v.modules = r.modules
  BY Zenon, <1>10, <1>11, <1>12 DEF MoreHooks
<1>14. /\ proc' \in [Procs -> Memories] /\ MemoriesInv' /\ HookInv' /\ proc'[Spawner] = v
  BY Zenon, <1>0, <1>1, <1>8, <1>12, <1>13, ProcStep
<1>15. PlanInv'
  <2>1. \A k \in Loaders : load'[k].pc \in {"off", "done"} => load'[k].left = <<>>
    BY Zenon, <1>6, <1>7 DEF ZnInv, PlanInv
  <2>2. proc'[Spawner].modules = proc[Spawner].modules BY Zenon, <1>8, <1>13, <1>14
  <2>3. CASE l = Spawner
    <3>1. proc[Spawner].modules = <<>> BY Zenon, <2>3, <1>2, <1>3 DEF ZnInv, PlanInv
    <3>2. PlanOf(left, <<>>) BY <1>4 DEF PlanOf
    <3> QED BY Zenon, <2>1, <2>2, <2>3, <3>1, <3>2, <1>6, <1>7 DEF PlanInv
  <2>4. CASE l # Spawner
    <3>1. load'[Spawner] = load[Spawner] BY Zenon, <2>4, <1>1, <1>7
    <3> QED BY Zenon, <2>1, <2>2, <3>1 DEF ZnInv, PlanInv
  <2> QED BY Zenon, <2>3, <2>4
<1>16. TypeOK' BY Zenon, <1>0, <1>1, <1>7, <1>14, SameFiles, TypeParts, TypePartsNext DEF ZnInv
<1> QED BY Zenon, <1>0, <1>14, <1>15, <1>16, FileStutter DEF ZnInv

\* The report on a library, or none when the daemon cannot be asked: either way the plan goes on
\* after it.
LEMMA ReportZnStep ==
  ASSUME LoadType, NEW l \in Loaders, load[l].pc = "load", load[l].left # <<>>,
         NEW injected \in BOOLEAN, NEW sys \in 0..1, ReportZnModule(l, injected, sys)
  PROVE  /\ LoadType' /\ load'[l].left = Tail(load[l].left)
         /\ load'[l].pc \in {"load", "report"}
         /\ \A k \in Loaders : k # l => load'[k] = load[k]
<1>1. PICK o : o = load[l] OBVIOUS
<1>2. o \in LoadSet /\ o.pc = "load" /\ o.left # <<>> /\ o.left \in Seq(LineSet) /\ o.sys \in Nat
  BY Zenon, <1>1 DEF LoadType, LoadSet
<1>3. PICK t : t = Tail(o.left) BY Zenon
<1>4. t \in Seq(LineSet) BY <1>2, <1>3
<1>5. PICK s : s = o.sys + sys OBVIOUS
<1>6. s \in Nat BY <1>2, <1>5
<1>7. PICK m : m = Head(o.left).lib OBVIOUS
<1>8. m \in Libs
  <2>1. Head(o.left) \in LineSet BY <1>2
  <2> QED BY Zenon, <2>1, <1>7 DEF LineSet
<1>9. PICK n : n = [o EXCEPT !.left = t, !.sys = s] OBVIOUS
<1>10. n \in LoadSet /\ n.pc = "load" /\ n.left = t BY Zenon, <1>2, <1>4, <1>6, <1>9 DEF LoadSet
<1>11. n = [load[l] EXCEPT !.left = Tail(@), !.sys = @ + sys]
  BY Zenon, <1>1, <1>2, <1>3, <1>5, <1>9 DEF LoadSet
<1>12. PICK w : w = [n EXCEPT !.pc = "report", !.lib = m, !.injected = injected] OBVIOUS
<1>13. w \in LoadSet /\ w.pc = "report" /\ w.left = t /\ w.lib = m
  BY Zenon, <1>8, <1>10, <1>12 DEF LoadSet
<1>14. w = [n EXCEPT !.pc = "report", !.lib = Head(load[l].left).lib, !.injected = injected]
  BY Zenon, <1>1, <1>7, <1>12
<1>15. load' = [load EXCEPT ![l] = w] \/ load' = [load EXCEPT ![l] = n]
  BY <1>11, <1>14, Zenon DEF ReportZnModule
<1>16. CASE load' = [load EXCEPT ![l] = w] BY Zenon, <1>16, <1>1, <1>3, <1>8, <1>13, LoadStep
<1>17. CASE load' = [load EXCEPT ![l] = n] BY Zenon, <1>17, <1>1, <1>3, <1>10, LoadStep
<1> QED BY Zenon, <1>15, <1>16, <1>17

\* The plan goes on, and its first module may have registered in the spawner.
LEMMA PlanGoesOn ==
  ASSUME ZnInv, NEW l \in Loaders, load[l].pc = "load", load[l].left # <<>>,
         load'[l].left = Tail(load[l].left), load'[l].pc \in {"load", "report"},
         \A k \in Loaders : k # l => load'[k] = load[k],
         \/ proc'[Spawner].modules = proc[Spawner].modules
         \/ /\ l = Spawner
            /\ proc'[Spawner].modules = Append(proc[Spawner].modules, Head(load[l].left).lib)
  PROVE  PlanInv'
<1>0. Spawner \in Loaders /\ proc[Spawner] \in Memories
  BY Zenon, TypeParts DEF Loaders, ZnInv, Procs
<1>1. proc[Spawner].modules \in Seq(Libs) BY Zenon, <1>0 DEF Memories
<1>2. \A k \in Loaders : load'[k].pc \in {"off", "done"} => load'[k].left = <<>>
  BY Zenon DEF ZnInv, PlanInv
<1>3. CASE l = Spawner
  <2>1. PlanOf(load'[Spawner].left, proc'[Spawner].modules)
    BY Zenon, <1>3, <1>1, TailPlan DEF ZnInv, PlanInv
  <2> QED BY Zenon, <1>2, <1>3, <2>1 DEF PlanInv
<1>4. CASE l # Spawner
  <2>1. load'[Spawner] = load[Spawner] BY Zenon, <1>0, <1>4
  <2> QED BY Zenon, <1>2, <1>4, <2>1 DEF ZnInv, PlanInv
<1> QED BY Zenon, <1>3, <1>4

\* A module cannot be loaded, and the next is tried.
LEMMA LoadFailsStep ==
  ASSUME ZnInv, NEW l \in Loaders, LoadFails(l)
  PROVE  ZnInv'
<1>0. UNCHANGED <<world, ways, proc, thread>> /\ UNCHANGED FileVars BY Zenon DEF LoadFails, FileVars
<1>1. LoadType /\ FileType BY Zenon, TypeParts DEF ZnInv
<1>2. /\ LoadType' /\ load'[l].left = Tail(load[l].left) /\ load'[l].pc \in {"load", "report"}
      /\ \A k \in Loaders : k # l => load'[k] = load[k]
  <2>1. load[l].pc = "load" /\ load[l].left # <<>> /\ ReportZnModule(l, FALSE, 0)
    BY ZenonT(30) DEF LoadFails
  <2>2. FALSE \in BOOLEAN /\ 0 \in 0..1 OBVIOUS
  <2> QED BY <1>1, <2>1, <2>2, ReportZnStep, Zenon
<1>3. PlanInv' BY Zenon, <1>0, <1>2, PlanGoesOn DEF LoadFails
<1>4. TypeOK' BY Zenon, <1>0, <1>1, <1>2, SameFiles, TypeParts, TypePartsNext DEF ZnInv
<1>5. MemoriesInv' /\ HookInv'
  BY Zenon, <1>0, HooksRest
<1> QED BY Zenon, <1>0, <1>3, <1>4, <1>5, FileStutter DEF ZnInv

\* loadEntry: the library is opened, and may register its module at once.
LEMMA LoadEntryStep ==
  ASSUME ZnInv, NEW l \in Loaders, NEW sys \in 0..1, loadEntry(l, sys)
  PROVE  ZnInv'
<1>0. UNCHANGED <<world, ways, thread>> /\ UNCHANGED FileVars BY Zenon DEF loadEntry, FileVars
<1>1. /\ LoadType /\ FileType /\ proc \in [Procs -> Memories] /\ Spawner \in Procs
  BY Zenon, TypeParts DEF ZnInv, Procs
<1>2. load[l].pc = "load" /\ load[l].left # <<>> BY Zenon DEF loadEntry
<1>3. PICK m : m = Head(load[l].left).lib OBVIOUS
<1>4. PICK inj \in BOOLEAN, s \in 0..1 : ReportZnModule(l, inj, s)
  <2>1. TRUE \in BOOLEAN /\ FALSE \in BOOLEAN /\ 0 \in 0..1 OBVIOUS
  <2>2. ReportZnModule(l, FALSE, 0) \/ ReportZnModule(l, TRUE, sys)
    BY Zenon DEF loadEntry
  <2> QED BY <2>1, <2>2, Zenon
<1>5. /\ LoadType' /\ load'[l].left = Tail(load[l].left) /\ load'[l].pc \in {"load", "report"}
      /\ \A k \in Loaders : k # l => load'[k] = load[k]
  BY <1>1, <1>2, <1>4, ReportZnStep, Zenon
<1>6. PICK r : r = proc[Spawner] OBVIOUS
<1>7. r \in Memories /\ MemoryInv(Spawner, r) BY Zenon, <1>1, <1>6 DEF ZnInv, MemoriesInv
<1>8. CASE proc' = proc
  <2>1. PlanInv' BY Zenon, <1>2, <1>5, <1>8, PlanGoesOn
  <2>2. MemoriesInv' /\ HookInv'
    BY Zenon, <1>0, <1>8, HooksRest
  <2>3. TypeOK' BY Zenon, <1>0, <1>1, <1>5, <1>8, SameFiles, TypeParts, TypePartsNext DEF ZnInv
  <2> QED BY Zenon, <1>0, <2>1, <2>2, <2>3, FileStutter DEF ZnInv
<1>9. CASE l = Spawner /\ proc' = [proc EXCEPT ![l] = api_hyos_registerModule(@, m)]
  <2>1. PICK q : q = api_hyos_registerModule(r, m) OBVIOUS
  <2>2. proc' = [proc EXCEPT ![Spawner] = q] BY Zenon, <1>6, <1>9, <2>1
  <2>3. m \in Libs /\ \A j \in 1..Len(r.modules) : r.modules[j] # m
    <3>1. r.modules \in Seq(Libs) BY Zenon, <1>7 DEF Memories
    <3>2. PlanOf(load[l].left, r.modules) BY Zenon, <1>6, <1>9 DEF ZnInv, PlanInv
    <3> QED BY Zenon, <1>2, <1>3, <3>1, <3>2, TailPlan
  <2>4. CASE q = r
    <3>1. proc' = proc BY Zenon, <1>1, <1>6, <2>2, <2>4
    <3> QED BY Zenon, <1>8, <3>1
  <2>5. CASE Registered(r, m, q)
    <3>1. q \in Memories /\ MoreHooks(r, q) /\ q.modules = Append(r.modules, m)
      BY Zenon, <2>5 DEF Registered
    <3>2. MemoryInv(Spawner, q) BY Zenon, <1>7, <2>3, <2>5, RegisterMemory
    <3>3. /\ proc' \in [Procs -> Memories] /\ MemoriesInv' /\ HookInv' /\ proc'[Spawner] = q
      BY Zenon, <1>0, <1>1, <1>6, <2>2, <3>1, <3>2, ProcStep
    <3>4. PlanInv' BY ZenonT(30), <1>2, <1>3, <1>5, <1>6, <1>9, <3>1, <3>3, PlanGoesOn
    <3>5. TypeOK' BY Zenon, <1>0, <1>1, <1>5, <3>3, SameFiles, TypeParts, TypePartsNext DEF ZnInv
    <3> QED BY Zenon, <1>0, <3>3, <3>4, <3>5, FileStutter DEF ZnInv
  <2> QED BY Zenon, <1>7, <2>1, <2>3, <2>4, <2>5, RegisterRegisters
<1> QED BY <1>3, <1>8, <1>9, Zenon DEF loadEntry

\* All modules of the plan were tried.
LEMMA LoadingDoneStep ==
  ASSUME ZnInv, NEW l \in Loaders, LoadingDone(l)
  PROVE  ZnInv'
<1>0. UNCHANGED <<world, ways, proc, thread>> /\ UNCHANGED FileVars BY Zenon DEF LoadingDone, FileVars
<1>1. LoadType /\ FileType /\ Spawner \in Loaders BY Zenon, TypeParts DEF ZnInv, Loaders
<1>2. PICK o : o = load[l] OBVIOUS
<1>3. o \in LoadSet /\ o.left = <<>> BY Zenon, <1>1, <1>2 DEF LoadType, LoadingDone
<1>4. PICK b \in BOOLEAN : b = (load[l].sys > 0 /\ world.anon) BY Zenon
<1>5. PICK n : n = [o EXCEPT !.pc = "done", !.scrubbed = b] OBVIOUS
<1>6. n \in LoadSet /\ n.pc = "done" /\ n.left = <<>> BY Zenon, <1>3, <1>5 DEF LoadSet
<1>7. load' = [load EXCEPT ![l] = n] BY Zenon, <1>2, <1>4, <1>5 DEF LoadingDone
<1>8. LoadType' /\ load'[l] = n /\ \A k \in Loaders : k # l => load'[k] = load[k]
  BY Zenon, <1>1, <1>6, <1>7, LoadStep
<1>9. PlanInv'
  <2>1. \A k \in Loaders : load'[k].left = load[k].left BY Zenon, <1>2, <1>3, <1>6, <1>8
  <2>2. \A k \in Loaders : load'[k].pc \in {"off", "done"} => load'[k].left = <<>>
    BY Zenon, <1>6, <1>8 DEF ZnInv, PlanInv
  <2>3. load'[Spawner].pc = "off" => load[Spawner].pc = "off" BY Zenon, <1>1, <1>6, <1>8
  <2> QED BY Zenon, <1>0, <1>1, <2>1, <2>2, <2>3 DEF ZnInv, PlanInv
<1>10. TypeOK' BY Zenon, <1>0, <1>1, <1>8, SameFiles, TypeParts, TypePartsNext DEF ZnInv
<1>11. MemoriesInv' /\ HookInv'
  BY Zenon, <1>0, HooksRest
<1> QED BY Zenon, <1>0, <1>9, <1>10, <1>11, FileStutter DEF ZnInv

\* Steps of a process that register nothing and load nothing.
LEMMA ProcOnly ==
  ASSUME ZnInv, proc' \in [Procs -> Memories], MemoriesInv', HookInv',
         proc'[Spawner].modules = proc[Spawner].modules,
         UNCHANGED <<world, ways, thread, load>>, UNCHANGED FileVars
  PROVE  ZnInv'
<1>1. LoadType' /\ FileType' BY Zenon, SameFiles, TypeParts DEF ZnInv, LoadType
<1>2. TypeOK' BY Zenon, <1>1, TypeParts, TypePartsNext DEF ZnInv
<1>3. PlanInv' BY Zenon DEF ZnInv, PlanInv
<1> QED BY Zenon, <1>2, <1>3, FileStutter DEF ZnInv

\* A module registers after it was loaded.
LEMMA RegisterLaterStep ==
  ASSUME ZnInv, NEW p \in Procs, NEW m \in Libs, RegisterLater(p, m)
  PROVE  ZnInv'
<1>0. UNCHANGED <<world, ways, thread, load>> /\ UNCHANGED FileVars
  BY Zenon DEF RegisterLater, FileVars
<1>1. proc \in [Procs -> Memories] /\ Spawner \in Procs /\ Spawner \in Loaders
  BY Zenon, TypeParts DEF ZnInv, Procs, Loaders
<1>2. PICK r : r = proc[p] BY Zenon
<1>3. r \in Memories /\ MemoryInv(p, r) /\ r.run /\ load[Spawner].pc = "done"
      /\ \A i \in 1..Len(r.modules) : r.modules[i] # m
  BY Zenon, <1>1, <1>2 DEF ZnInv, MemoriesInv, RegisterLater
<1>4. PICK q : q = api_hyos_registerModule(r, m) BY Zenon
<1>5. proc' = [proc EXCEPT ![p] = q] BY Zenon, <1>2, <1>4 DEF RegisterLater
<1>6. CASE q = r
  <2>1. proc' = proc BY Zenon, <1>1, <1>2, <1>5, <1>6
  <2>2. MemoriesInv' /\ HookInv'
    BY Zenon, <1>0, <2>1, HooksRest
  <2> QED BY Zenon, <1>0, <1>1, <2>1, <2>2, ProcOnly
<1>7. CASE Registered(r, m, q)
  <2>1. q \in Memories /\ MoreHooks(r, q) BY Zenon, <1>7 DEF Registered
  <2>2. MemoryInv(p, q) BY Zenon, <1>3, <1>7, RegisterMemory
  <2>3. /\ proc' \in [Procs -> Memories] /\ MemoriesInv' /\ HookInv'
    BY Zenon, <1>0, <1>2, <1>5, <2>1, <2>2, ProcStep
  <2>4. load[Spawner].left = <<>> BY Zenon, <1>1, <1>3 DEF ZnInv, PlanInv
  <2>5. PlanInv'
    <3>1. PlanOf(<<>>, proc'[Spawner].modules) BY DEF PlanOf, NoneTwice
    <3> QED BY Zenon, <1>0, <1>3, <2>4, <3>1 DEF ZnInv, PlanInv
  <2>6. LoadType' /\ FileType' BY Zenon, <1>0, SameFiles, TypeParts DEF ZnInv, LoadType
  <2>7. TypeOK' BY Zenon, <1>0, <2>3, <2>6, TypeParts, TypePartsNext DEF ZnInv
  <2> QED BY Zenon, <1>0, <2>3, <2>5, <2>7, FileStutter DEF ZnInv
<1> QED BY Zenon, <1>3, <1>4, <1>6, <1>7, RegisterRegisters

\* Another way to hook becomes available.
LEMMA WayAppearsStep ==
  ASSUME ZnInv, NEW w \in Ways, WayAppears(w)
  PROVE  ZnInv'
<1>0. UNCHANGED <<world, proc, thread, load>> /\ UNCHANGED FileVars BY Zenon DEF WayAppears, FileVars
<1>1. LoadType' /\ FileType' BY Zenon, <1>0, SameFiles, TypeParts DEF ZnInv, LoadType
<1>2. ways' \subseteq Ways BY Zenon, TypeParts DEF ZnInv, WayAppears
<1>3. TypeOK' BY Zenon, <1>0, <1>1, <1>2, TypeParts, TypePartsNext DEF ZnInv
<1>4. MemoriesInv' /\ HookInv'
  BY Zenon, <1>0, HooksRest
<1>5. PlanInv' BY Zenon, <1>0 DEF ZnInv, PlanInv
<1> QED BY Zenon, <1>0, <1>3, <1>4, <1>5, FileStutter DEF ZnInv

\* A fork writes two memories, the parent's and the child's, and no other.
LEMMA TwoWritten ==
  ASSUME NEW S, NEW T, NEW f \in [S -> T], NEW a \in S, NEW b \in S, a # b,
         NEW v \in T, NEW w \in T, NEW g, g = [f EXCEPT ![a] = v, ![b] = w]
  PROVE  /\ g \in [S -> T] /\ g[a] = v /\ g[b] = w
         /\ \A x \in S : x # a /\ x # b => g[x] = f[x]
<1>1. PICK h : h = [f EXCEPT ![a] = v] BY Zenon
<1>2. h \in [S -> T] /\ h[a] = v /\ \A x \in S : x # a => h[x] = f[x] BY Zenon, <1>1
<1>3. g = [h EXCEPT ![b] = w] BY Zenon, <1>1
<1> QED BY Zenon, <1>2, <1>3

\* A new process k of p, whose own memory becomes r on the way into the fork.
LEMMA ForkedStep ==
  ASSUME ZnInv, NEW p \in Procs, NEW k \in Kids, CanFork(p, k), NEW r, HooksOnly(proc[p], r),
         NEW hook \in BOOLEAN,
         r.modules # <<>> /\ p = Spawner /\ hook => Leads(r, "setcontext"),
         proc' = [proc EXCEPT ![p] = r, ![k] = Kid(p, r, hook)],
         UNCHANGED <<world, ways, thread, load>>, UNCHANGED FileVars
  PROVE  ZnInv'
<1>1. proc \in [Procs -> Memories] /\ Spawner \in Procs /\ k \in Procs /\ k # Spawner
  BY Zenon, TypeParts, ZnAssumption DEF ZnInv, Procs
<1>2. proc[p].run /\ ~ proc[k].run /\ p # k BY Zenon DEF CanFork
<1>3. proc[p] \in Memories /\ MemoryInv(p, proc[p]) BY Zenon, <1>1 DEF ZnInv, MemoriesInv
<1>4. r \in Memories /\ MemoryInv(p, r) /\ r.run /\ MoreHooks(proc[p], r)
      /\ r.modules = proc[p].modules
  BY Zenon, <1>2, <1>3, HooksMemory DEF HooksOnly, SameLife
<1>5. PICK q : q = Kid(p, r, hook) BY Zenon
<1>6. q \in Memories /\ MemoryInv(k, q) BY Zenon, <1>4, <1>5, KidMemory
<1>7. proc' = [proc EXCEPT ![p] = r, ![k] = q] BY Zenon, <1>5
<1>8. proc' \in [Procs -> Memories]
      /\ proc'[p] = r /\ proc'[k] = q /\ \A x \in Procs : x # p /\ x # k => proc'[x] = proc[x]
  <2>1. PICK f : f = proc OBVIOUS
  <2>2. PICK g : g = proc' OBVIOUS
  <2>3. f \in [Procs -> Memories] /\ g = [f EXCEPT ![p] = r, ![k] = q] BY Zenon, <1>1, <1>7, <2>1, <2>2
  <2>4. g \in [Procs -> Memories]
        /\ g[p] = r /\ g[k] = q /\ \A x \in Procs : x # p /\ x # k => g[x] = f[x]
    BY Zenon, <1>1, <1>2, <1>4, <1>6, <2>3, TwoWritten
  <2> QED BY Zenon, <2>1, <2>2, <2>4
<1>9. \A x \in Procs : MemoryInv(x, proc'[x]) BY ZenonT(30), <1>4, <1>6, <1>8 DEF ZnInv, MemoriesInv
<1>10. MoreHooks(proc[Spawner], proc'[Spawner])
       /\ proc'[Spawner].modules = proc[Spawner].modules
  <2>1. CASE p = Spawner BY Zenon, <2>1, <1>4, <1>8
  <2>2. CASE p # Spawner
    <3>1. proc'[Spawner] = proc[Spawner] BY Zenon, <2>2, <1>1, <1>8
    <3> QED BY ZenonT(30), <3>1 DEF MoreHooks
  <2> QED BY Zenon, <2>1, <2>2
<1>11. MemoriesInv' /\ HookInv' BY ZenonT(30), <1>8, <1>9, <1>10, ProcsStep
<1> QED BY Zenon, <1>8, <1>10, <1>11, ProcOnly

\* fork() of libc: the prepare handler hooks what it can, so a child of the spawner has the hook
\* when it was there or could be had.
LEMMA ForkStep ==
  ASSUME ZnInv, NEW p \in Procs, NEW k \in Kids, Fork(p, k)
  PROVE  ZnInv'
<1>0. UNCHANGED <<world, ways, thread, load>> /\ UNCHANGED FileVars BY Zenon DEF Fork, FileVars
<1>1. CanFork(p, k) BY Zenon DEF Fork
<1>2. proc[p] \in Memories /\ MemoryInv(p, proc[p]) BY Zenon, TypeParts DEF ZnInv, MemoriesInv
<1>3. PICK r : r = hyosAtForkPrepare(proc[p]) OBVIOUS
<1>4. HooksOnly(proc[p], r) BY Zenon, <1>2, <1>3, PrepareHooks
<1>5. PICK hook \in BOOLEAN : hook = (Hookable(proc[p]) \/ Leads(proc[p], "setcontext"))
  BY Zenon
<1>6. ASSUME r.modules # <<>>, p = Spawner, hook PROVE Leads(r, "setcontext")
  <2>1. proc[p].modules # <<>> /\ proc[p].atfork
    BY Zenon, <1>2, <1>4, <1>6 DEF HooksOnly, MemoryInv
  <2> QED BY Zenon, <1>2, <1>3, <1>5, <1>6, <2>1, PrepareHooks
<1>7. proc' = [proc EXCEPT ![p] = r, ![k] = Kid(p, r, hook)] BY Zenon, <1>3, <1>5 DEF Fork
<1> QED BY Zenon, <1>0, <1>1, <1>4, <1>6, <1>7, ForkedStep

\* A process is cloned, with its memory.
LEMMA CloneStep ==
  ASSUME ZnInv, NEW p \in Procs, NEW k \in Kids, Clone(p, k)
  PROVE  ZnInv'
<1>0. UNCHANGED <<world, ways, thread, load>> /\ UNCHANGED FileVars BY Zenon DEF Clone, FileVars
<1>1. CanFork(p, k) BY Zenon DEF Clone
<1>2. proc \in [Procs -> Memories] /\ proc[p] \in Memories BY Zenon, TypeParts DEF ZnInv
<1>3. PICK hook \in BOOLEAN : hook = Leads(proc[p], "setcontext") BY Zenon DEF Leads
<1>4. PICK r : r = proc[p] OBVIOUS
<1>5. HooksOnly(proc[p], r) BY Zenon, <1>2, <1>4, HooksNone
<1>6. proc' = [proc EXCEPT ![k] = Kid(p, r, hook)] BY Zenon, <1>3, <1>4 DEF Clone
<1>7. proc' = [proc EXCEPT ![p] = r, ![k] = Kid(p, r, hook)] BY Zenon, <1>2, <1>4, <1>6
<1>8. hook => Leads(r, "setcontext") BY Zenon, <1>3, <1>4
<1> QED BY Zenon, <1>0, <1>1, <1>5, <1>7, <1>8, ForkedStep

\* selinux_android_setcontext, hooked.
LEMMA SetcontextStep ==
  ASSUME ZnInv, NEW p \in Procs, NEW ok \in BOOLEAN, Setcontext(p, ok)
  PROVE  ZnInv'
<1>0. UNCHANGED <<world, ways, thread, load>> /\ UNCHANGED FileVars BY Zenon DEF Setcontext, FileVars
<1>1. proc \in [Procs -> Memories] /\ proc[p] \in Memories BY Zenon, TypeParts DEF ZnInv
<1>2. PICK r : r = proc[p] OBVIOUS
<1>3. r \in Memories /\ MemoryInv(p, r) /\ r.run /\ r.gen <= 1
  BY Zenon, <1>1, <1>2 DEF ZnInv, MemoriesInv, Setcontext
<1>4. PICK done : done = [r EXCEPT !.app = @ \/ (ok /\ hyosInChild(r))] BY Zenon
<1>5. PICK q : q = IF ok /\ Leads(done, "setcontext")
                   THEN hyosDeliverAppSpecialized(done) ELSE done
  OBVIOUS
<1>6. q \in Memories /\ MemoryInv(p, q) /\ MoreHooks(r, q) /\ q.modules = r.modules
  BY <1>3, <1>4, <1>5, SetcontextMemory, Zenon
<1>7. proc' = [proc EXCEPT ![p] = q] BY <1>2, <1>4, <1>5, Zenon DEF Setcontext
<1>8. /\ proc' \in [Procs -> Memories] /\ MemoriesInv' /\ HookInv' /\ proc'[p] = q
      /\ (p # Spawner => proc'[Spawner] = proc[Spawner])
  BY Zenon, <1>0, <1>2, <1>6, <1>7, ProcStep
<1>9. proc'[Spawner].modules = proc[Spawner].modules BY Zenon, <1>2, <1>6, <1>8
<1> QED BY Zenon, <1>0, <1>8, <1>9, ProcOnly

\* The app's process gets its name.
LEMMA SetnameStep ==
  ASSUME ZnInv, NEW p \in Procs, NEW n \in Names \cup {NoName}, NEW self \in BOOLEAN,
         Setname(p, n, self)
  PROVE  ZnInv'
<1>0. UNCHANGED <<world, ways, thread, load>> /\ UNCHANGED FileVars BY Zenon DEF Setname, FileVars
<1>1. proc \in [Procs -> Memories] /\ proc[p] \in Memories BY Zenon, TypeParts DEF ZnInv
<1>2. PICK r : r = proc[p] OBVIOUS
<1>3. r \in Memories /\ MemoryInv(p, r) /\ r.run
  BY Zenon, <1>1, <1>2 DEF ZnInv, MemoriesInv, Setname
<1>5. PICK q : q = Named(r, n, self) OBVIOUS
<1>6. q \in Memories /\ MemoryInv(p, q) /\ MoreHooks(r, q) /\ q.modules = r.modules
  BY <1>3, <1>5, SetnameMemory, Zenon
<1>7. proc' = [proc EXCEPT ![p] = q] BY <1>2, <1>5, Zenon DEF Setname, Named
<1>8. /\ proc' \in [Procs -> Memories] /\ MemoriesInv' /\ HookInv' /\ proc'[p] = q
      /\ (p # Spawner => proc'[Spawner] = proc[Spawner])
  BY Zenon, <1>0, <1>2, <1>6, <1>7, ProcStep
<1>9. proc'[Spawner].modules = proc[Spawner].modules BY Zenon, <1>2, <1>6, <1>8
<1> QED BY Zenon, <1>0, <1>8, <1>9, ProcOnly

\* The hook API.
LEMMA ThreadsStep ==
  ASSUME ZnInv, NEW t \in Threads, NEW a \in Targets,
         \/ api_inlineHook(t, a) \/ api_inlineUnhook(t, a)
         \/ InlineHookPatch(t) \/ InlineUnhookPatch(t) \/ Erase(t)
  PROVE  ZnInv'
<1>0. UNCHANGED <<world, ways, load>> /\ UNCHANGED FileVars
  BY Zenon DEF api_inlineHook, api_inlineUnhook, InlineHookPatch, InlineUnhookPatch, Erase, HookVars,
         FileVars
<1>1. HookStep /\ HookInv' /\ thread' \in [Threads -> ThreadSet]
  BY Zenon, InlineHookInv, InlineUnhookInv, InlineHookPatchInv, InlineUnhookPatchInv, EraseInv DEF ZnInv
<1>2. LoadType' /\ FileType' BY Zenon, <1>0, SameFiles, TypeParts DEF ZnInv, LoadType
<1>3. TypeOK' BY Zenon, <1>0, <1>1, <1>2, TypeParts, TypePartsNext DEF ZnInv, HookStep
<1>4. Spawner \in Procs BY Zenon DEF Procs
<1>5. proc[Spawner] \in Memories /\ proc'[Spawner] \in Memories
      /\ MemoryInv(Spawner, proc[Spawner])
  BY Zenon, <1>1, <1>4, TypeParts DEF ZnInv, HookStep, MemoriesInv
<1>6. proc[Spawner].due = <<>>
  <2>1. proc[Spawner].gen = 0 BY <1>5, Zenon DEF MemoryInv
  <2>2. proc[Spawner].gen # 1 => proc[Spawner].due = <<>> BY <1>5, Zenon DEF MemoryInv
  <2>3. proc[Spawner].gen # 1 BY ONLY <2>1
  <2> QED BY ONLY Zenon, <2>2, <2>3
<1>7. MemoryInv(Spawner, proc'[Spawner])
  <2>1. PICK r : r = proc[Spawner] OBVIOUS
  <2>2. PICK q : q = proc'[Spawner] OBVIOUS
  <2>3. SameLife(r, q) /\ q.modules = r.modules /\ q.atfork = r.atfork /\ r.due = <<>>
    BY Zenon, <1>1, <1>6, <2>1, <2>2 DEF HookStep
  <2> QED BY Zenon, <1>5, <2>1, <2>2, <2>3, KeepMemory
<1>8. MemoriesInv' BY Zenon, <1>1, <1>7 DEF ZnInv, MemoriesInv, HookStep
<1>9. PlanInv' BY Zenon, <1>0, <1>1 DEF ZnInv, PlanInv, HookStep
<1> QED BY Zenon, <1>0, <1>1, <1>3, <1>8, <1>9, FileStutter DEF ZnInv

\* The steps of the reports and of the restart touch no process.
LEMMA DaemonStep ==
  ASSUME ZnInv, FileType', FileInv', UNCHANGED <<world, ways, proc, thread, load>>
  PROVE  ZnInv'
<1>1. LoadType' BY Zenon, TypeParts DEF ZnInv, LoadType
<1>2. TypeOK' BY Zenon, <1>1, TypeParts, TypePartsNext DEF ZnInv
<1>3. MemoriesInv' /\ HookInv' BY Zenon, HooksRest
<1>4. PlanInv' BY Zenon DEF ZnInv, PlanInv
<1> QED BY Zenon, <1>2, <1>3, <1>4 DEF ZnInv

\* Opening a staging file.
LEMMA OpensType ==
  ASSUME FileType, NEW fd \in Files, Opens(fd)
  PROVE  /\ staging' \subseteq Files
         /\ disk' \in [Files -> SUBSET (Libs \X {"failed", "injected"})]
BY Zenon DEF FileType, Opens

\* Renaming a staging file.
LEMMA RenamedType ==
  ASSUME FileType, Renamed
  PROVE  /\ staging' \subseteq Files /\ file' \subseteq Files
         /\ disk' \in [Files -> SUBSET (Libs \X {"failed", "injected"})]
BY Zenon DEF FileType, Renamed

\* handle_report_zn_module counts, and opens the staging file.
LEMMA ReportStep ==
  ASSUME ZnInv, NEW l \in Loaders, NEW fd \in Files, handle_report_zn_module(l, fd)
  PROVE  ZnInv'
<1>1. LoadType /\ FileType /\ TypeOK BY Zenon, TypeParts DEF ZnInv
<1>2. load[l].lib \in Libs /\ load[l].injected \in BOOLEAN
  BY Zenon, <1>1 DEF LoadType, LoadSet, handle_report_zn_module
<1>3. states' \in [Libs -> Nat \X Nat]
  <2>1. PICK a \in Nat, b \in Nat : states[load[l].lib] = <<a, b>> BY <1>1, <1>2 DEF FileType
  <2>2. states' = [states EXCEPT ![load[l].lib] =
                     IF load[l].injected THEN <<a + 1, b>> ELSE <<a, b + 1>>]
    <3>1. states' = [states EXCEPT ![load[l].lib] =
                       IF load[l].injected
                       THEN <<states[load[l].lib][1] + 1, states[load[l].lib][2]>>
                       ELSE <<states[load[l].lib][1], states[load[l].lib][2] + 1>>]
      BY Zenon DEF handle_report_zn_module, Counted
    <3>2. states[load[l].lib][1] = a /\ states[load[l].lib][2] = b
      BY <2>1
    <3> QED BY ONLY <3>1, <3>2, Zenon
  <2>3. (IF load[l].injected THEN <<a + 1, b>> ELSE <<a, b + 1>>) \in Nat \X Nat OBVIOUS
  <2> QED BY Zenon, <1>1, <2>2, <2>3 DEF FileType
<1>4. report' = [by |-> l, pc |-> "write", fd |-> fd] /\ Opens(fd) /\ UNCHANGED <<file, restart>>
  BY Zenon DEF handle_report_zn_module
<1>5. FileType' BY Zenon, <1>1, <1>3, <1>4, OpensType DEF FileType
<1>6. FileInv' BY Zenon, <1>1, ReportFile DEF ZnInv
<1> QED BY Zenon, <1>5, <1>6, DaemonStep DEF handle_report_zn_module

\* It writes what was counted.
LEMMA ReportWritesStep ==
  ASSUME ZnInv, ReportWrites
  PROVE  ZnInv'
<1>1. FileType /\ TypeOK BY Zenon, TypeParts DEF ZnInv
<1>2. Rendered(states) \in SUBSET (Libs \X {"failed", "injected"}) BY DEF Rendered, StateOf
<1>3. disk' \in [Files -> SUBSET (Libs \X {"failed", "injected"})]
  BY Zenon, <1>1, <1>2 DEF ReportWrites, FileType
<1>4. report' \in [by: Loaders \cup {"free"}, pc: {"idle", "write", "rename"}, fd: {0} \cup Files]
  BY Zenon, <1>1 DEF ReportWrites, FileType
<1>5. FileType' BY Zenon, <1>1, <1>3, <1>4 DEF FileType, ReportWrites
<1>6. FileInv' BY Zenon, <1>1, ReportWritesFile DEF ZnInv
<1> QED BY Zenon, <1>5, <1>6, DaemonStep DEF ReportWrites

\* The rename ends the report, and the process that waited for the answer goes on.
LEMMA ReportRenamesStep ==
  ASSUME ZnInv, ReportRenames
  PROVE  ZnInv'
<1>0. UNCHANGED <<world, ways, proc, thread, states, restart>> BY Zenon DEF ReportRenames
<1>1. FileType /\ TypeOK /\ LoadType BY Zenon, TypeParts DEF ZnInv
<1>2. PICK l \in Loaders : l = report.by
  BY Zenon, <1>1 DEF ReportRenames, ZnInv, FileInv, FileType
<1>3. PICK o : o = load[l] OBVIOUS
<1>4. PICK n : n = [o EXCEPT !.pc = "load"] BY Zenon
<1>5. n \in LoadSet /\ n.pc = "load" /\ n.left = o.left
  BY Zenon, <1>1, <1>3, <1>4 DEF LoadType, LoadSet
<1>6. load' = [load EXCEPT ![l] = n] BY Zenon, <1>2, <1>3, <1>4 DEF ReportRenames
<1>7. LoadType' /\ load'[l] = n /\ \A k \in Loaders : k # l => load'[k] = load[k]
  BY Zenon, <1>1, <1>5, <1>6, LoadStep
<1>8. report' \in [by: Loaders \cup {"free"}, pc: {"idle", "write", "rename"}, fd: {0} \cup Files]
  BY Zenon, <1>1 DEF ReportRenames, FileType
<1>9. FileType' BY Zenon, <1>0, <1>1, <1>8, RenamedType DEF FileType, ReportRenames
<1>10. FileInv' BY Zenon, <1>1, ReportRenamesFile DEF ZnInv
<1>11. PlanInv'
  <2>1. Spawner \in Loaders BY Zenon DEF Loaders
  <2>2. load'[Spawner].left = load[Spawner].left BY Zenon, <2>1, <1>3, <1>5, <1>7
  <2>3. \A k \in Loaders : load'[k].pc \in {"off", "done"} => load'[k] = load[k] BY Zenon, <1>5, <1>7
  <2> QED BY Zenon, <1>0, <2>1, <2>2, <2>3 DEF ZnInv, PlanInv
<1>12. TypeOK' BY ZenonT(30), <1>0, <1>7, <1>9, TypeParts, TypePartsNext DEF ZnInv
<1>13. MemoriesInv' /\ HookInv'
  BY Zenon, <1>0, HooksRest
<1> QED BY Zenon, <1>10, <1>11, <1>12, <1>13 DEF ZnInv

\* ZygoteRestart clears the counters and writes the empty file.
LEMMA RestartStep ==
  ASSUME ZnInv,
         \/ RestartClears \/ (\E fd \in Files : RestartOpens(fd))
         \/ RestartWrites \/ RestartRenames
  PROVE  ZnInv'
<1>1. FileType /\ TypeOK BY Zenon, TypeParts DEF ZnInv
<1> DEFINE Restarts ==
      [pc: {"idle", "cleared", "opened", "written"}, fd: {0} \cup Files, left: Nat]
<1>2. CASE RestartClears
  <2>1. restart \in Restarts /\ restart.left > 0 BY Zenon, <1>1, <1>2 DEF FileType, RestartClears
  <2>2. PICK n : n = restart.left - 1 OBVIOUS
  <2>3. n \in Nat BY <2>1, <2>2
  <2>4. restart' = [restart EXCEPT !.pc = "cleared", !.left = n]
    BY Zenon, <1>2, <2>1, <2>2 DEF RestartClears
  <2>5. restart' \in Restarts BY ZenonT(30), <2>1, <2>3, <2>4
  <2>6. states' \in [Libs -> Nat \X Nat] BY Zenon, <1>2 DEF RestartClears
  <2>7. FileType' BY Zenon, <1>1, <1>2, <2>5, <2>6 DEF FileType, RestartClears
  <2>8. FileInv' BY Zenon, <1>1, <1>2, RestartClearsFile DEF ZnInv
  <2> QED BY Zenon, <1>2, <2>7, <2>8, DaemonStep DEF RestartClears
<1>3. ASSUME NEW fd \in Files, RestartOpens(fd) PROVE ZnInv'
  <2>1. restart' \in Restarts BY ZenonT(30), <1>1, <1>3 DEF FileType, RestartOpens
  <2>2. FileType' BY Zenon, <1>1, <1>3, <2>1, OpensType DEF FileType, RestartOpens
  <2>3. FileInv' BY Zenon, <1>1, <1>3, RestartOpensFile DEF ZnInv
  <2> QED BY Zenon, <1>3, <2>2, <2>3, DaemonStep DEF RestartOpens
<1>4. CASE RestartWrites
  <2>1. restart' \in Restarts BY Zenon, <1>1, <1>4 DEF FileType, RestartWrites
  <2>2. disk' \in [Files -> SUBSET (Libs \X {"failed", "injected"})]
    <3>1. PICK S : S = SUBSET (Libs \X {"failed", "injected"}) BY Zenon
    <3>2. PICK x : x = disk[restart.fd] OBVIOUS
    <3>3. PICK lost \in SUBSET x : disk' = [disk EXCEPT ![restart.fd] = x \ lost]
      BY Zenon, <1>4, <3>2 DEF RestartWrites
    <3>4. disk \in [Files -> S] BY Zenon, <1>1, <3>1 DEF FileType
    <3>5. restart.fd \in Files => x \ lost \in S
      <4>1. restart.fd \in Files => x \in S BY Zenon, <3>2, <3>4
      <4> QED BY Zenon, <3>1, <4>1
    <3>6. disk' \in [Files -> S] BY Zenon, <3>3, <3>4, <3>5
    <3> QED BY Zenon, <3>1, <3>6
  <2>3. FileType' BY Zenon, <1>1, <1>4, <2>1, <2>2 DEF FileType, RestartWrites
  <2>4. FileInv' BY Zenon, <1>1, <1>4, RestartWritesFile DEF ZnInv
  <2> QED BY Zenon, <1>4, <2>3, <2>4, DaemonStep DEF RestartWrites
<1>5. CASE RestartRenames
  <2>1. restart' \in Restarts BY Zenon, <1>1, <1>5 DEF FileType, RestartRenames
  <2>2. FileType' BY Zenon, <1>1, <1>5, <2>1, RenamedType DEF FileType, RestartRenames
  <2>3. FileInv' BY Zenon, <1>1, <1>5, RestartRenamesFile DEF ZnInv
  <2> QED BY Zenon, <1>5, <2>2, <2>3, DaemonStep DEF RestartRenames
<1> QED BY Zenon, <1>2, <1>3, <1>4, <1>5

\* A step that changes nothing.
LEMMA ZnStutter ==
  ASSUME ZnInv, UNCHANGED vars
  PROVE  ZnInv'
<1>1. UNCHANGED <<world, ways, proc, thread, load>> /\ UNCHANGED FileVars BY Zenon DEF vars, FileVars
<1>2. FileType' /\ FileInv' BY Zenon, <1>1, SameFiles, FileStutter, TypeParts DEF ZnInv
<1> QED BY Zenon, <1>1, <1>2, DaemonStep

\* Every step keeps the invariant.
LEMMA ZnNext ==
  ASSUME ZnInv, [Next]_vars
  PROVE  ZnInv'
<1>1. "other" \in Targets BY Zenon DEF Targets
<1>2. ASSUME NEW l \in Loaders,
             \/ Entry(l) \/ LoadFails(l) \/ LoadingDone(l) \/ \E sys \in 0..1 : loadEntry(l, sys)
             \/ \E fd \in Files : handle_report_zn_module(l, fd)
      PROVE  ZnInv'
  BY <1>2, EntryStep, LoadFailsStep, LoadingDoneStep, LoadEntryStep, ReportStep, Zenon
<1>3. ASSUME NEW p \in Procs,
             \/ \E m \in Libs : RegisterLater(p, m)
             \/ \E q \in Kids : Fork(p, q) \/ Clone(p, q)
             \/ \E ok \in BOOLEAN : Setcontext(p, ok)
             \/ \E n \in Names \cup {NoName}, self \in BOOLEAN : Setname(p, n, self)
      PROVE  ZnInv'
  BY <1>3, RegisterLaterStep, ForkStep, CloneStep, SetcontextStep, SetnameStep, Zenon
<1>4. ASSUME NEW t \in Threads,
             \/ \E a \in Targets : api_inlineHook(t, a) \/ api_inlineUnhook(t, a)
             \/ InlineHookPatch(t) \/ InlineUnhookPatch(t) \/ Erase(t)
      PROVE  ZnInv'
  BY <1>1, <1>4, ThreadsStep, Zenon
<1>5. CASE ReportWrites \/ ReportRenames BY <1>5, ReportWritesStep, ReportRenamesStep, Zenon
<1> QED BY <1>2, <1>3, <1>4, <1>5, WayAppearsStep, RestartStep, ZnStutter, Zenon DEF Next

\* The invariant holds throughout.
LEMMA ZnAlways ==
  Spec => []ZnInv
<1>1. Init => ZnInv BY Zenon, ZnInit
<1>2. ZnInv /\ [Next]_vars => ZnInv' BY Zenon, ZnNext
<1> QED BY <1>1, <1>2, PTL DEF Spec

------------------------------------------------------------------------------
(* The theorems.                                                            *)

\* zn_api.cpp, api_inlineHook and api_inlineUnhook: the registry of hooked addresses and the
\* patched code agree whatever threads of modules do with them at a time, although the code is
\* patched outside the mutex.
THEOREM RegistryAgrees == Spec => []HookedOnce
<1>1. ZnInv => HookedOnce BY Zenon DEF ZnInv, HookInv, AddressInv, HookedOnce
<1> QED BY <1>1, ZnAlways, PTL

\* zn_api.cpp, hyosSetnameHook: a module is told the first name its process gave itself.
THEOREM NamesAreOwn == Spec => []NameIsOwn
<1>1. ASSUME ZnInv PROVE NameIsOwn
  <2>1. SUFFICES ASSUME NEW p \in Kids, NEW i \in DOMAIN proc[p].told
                 PROVE  proc[p].told[i].name = proc[p].told[i].own
    BY Zenon DEF NameIsOwn
  <2>2. p \in Procs BY Zenon DEF Procs
  <2>3. proc[p] \in Memories /\ MemoryInv(p, proc[p])
    BY Zenon, <1>1, <2>2, TypeParts DEF ZnInv, MemoriesInv
  <2>4. i \in 1..Len(proc[p].told) BY <2>3 DEF Memories
  <2> QED BY Zenon, <2>3, <2>4 DEF MemoryInv
<1> QED BY <1>1, ZnAlways, PTL

\* zygiskd.rs, write_zn_state_file: the published file says of no library what the daemon did
\* not count since the last restart, although two writers share the staging file.
THEOREM StateFileIsSound == Spec => []StateFileSound
<1>1. ASSUME ZnInv PROVE StateFileSound
  <2>1. SUFFICES ASSUME restart.pc = "idle", report.by = "free", NEW i \in file,
                        NEW line \in disk[i]
                 PROVE  Sound(line)
    BY Zenon DEF StateFileSound, Sound
  <2>2. report.pc = "idle" /\ staging = {} BY Zenon, <1>1, <2>1 DEF ZnInv, FileInv
  <2>3. i \in Visible BY Zenon, <2>2 DEF Visible
  <2> QED BY Zenon, <1>1, <2>1, <2>2, <2>3 DEF ZnInv, FileInv
<1> QED BY <1>1, ZnAlways, PTL

\* zn_api.cpp, hyosAtForkPrepare and hyosDeliverAppSpecialized: an app has told every module
\* that was registered when it was forked, in order and once; the spawner tells none.
THEOREM AppsAreTold == Spec => []AppsTold
<1>1. ASSUME ZnInv PROVE AppsTold
  <2>0. Spawner \in Procs BY Zenon DEF Procs
  <2>1. proc[Spawner].told = <<>> BY Zenon, <1>1, <2>0 DEF ZnInv, MemoriesInv, MemoryInv
  <2>2. ASSUME NEW p \in Kids
        PROVE  /\ IsInjective(ToldModules(proc[p]))
               /\ proc[p].app => /\ Len(proc[p].due) <= Len(ToldModules(proc[p]))
                                 /\ SubSeq(ToldModules(proc[p]), 1, Len(proc[p].due)) = proc[p].due
    <3>1. PICK r : r = proc[p] OBVIOUS
    <3>2. r \in Memories /\ MemoryInv(p, r)
      BY Zenon, <1>1, <3>1, TypeParts DEF ZnInv, MemoriesInv, Procs
    <3>3. r.told \in Seq([module: Libs, name: Names \cup {NoName}, own: Names \cup {NoName}])
          /\ r.due \in Seq(Libs)
      BY Zenon, <3>2 DEF Memories
    <3>4. PICK ms : ms = ToldModules(r) OBVIOUS
    <3>5. ms \in Seq(Libs) /\ DOMAIN ms = 1..Len(ms)
      <4>1. PICK n \in Nat : n = Len(r.told) /\ DOMAIN r.told = 1..n BY <3>3
      <4>2. ms = [i \in 1..n |-> r.told[i].module] BY Zenon, <3>4, <4>1 DEF ToldModules
      <4>3. ASSUME NEW i \in 1..n PROVE r.told[i].module \in Libs
        <5>1. PICK S : S = [module: Libs, name: Names \cup {NoName}, own: Names \cup {NoName}]
          BY Zenon
        <5>2. r.told \in Seq(S) BY Zenon, <3>3, <5>1
        <5>3. r.told[i] \in S BY <4>1, <5>2
        <5>4. PICK e : e = r.told[i] OBVIOUS
        <5> QED BY Zenon, <5>1, <5>3, <5>4
      <4> QED BY <4>2, <4>3
    <3>6. IsInjective(ms) BY Zenon, <3>2, <3>4, <3>5 DEF MemoryInv, Distinct, IsInjective
    <3>7. ASSUME r.app PROVE Len(r.due) <= Len(ms) /\ SubSeq(ms, 1, Len(r.due)) = r.due
      <4>1. CASE r.due = <<>> BY <3>5, <4>1
      <4>2. CASE r.due # <<>>
        <5>1. Begins(r.due, ms) BY Zenon, <3>2, <3>4, <3>7, <4>2 DEF MemoryInv
        <5> QED BY SMTT(30), <3>3, <3>5, <5>1 DEF Begins
      <4> QED BY Zenon, <4>1, <4>2
    <3> QED BY Zenon, <3>1, <3>4, <3>6, <3>7
  <2> QED BY Zenon, <2>1, <2>2 DEF AppsTold
<1> QED BY <1>1, ZnAlways, PTL
===============================================================================
