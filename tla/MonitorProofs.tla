---------------------------- MODULE MonitorProofs ----------------------------
(***************************************************************************)
(* Proofs about Monitor, for every set of pids, every crash-loop limit and *)
(* every world: the status file is current, the monitor's idea of init is  *)
(* the kernel's, there is one daemon and daemon_pid names it, the crash    *)
(* loop is bounded, and no running tracee is unknown to the monitor.       *)
(***************************************************************************)
EXTENDS Monitor, TLAPS

------------------------------------------------------------------------------
(* The inductive invariant.                                                 *)

\* A process as the kernel may show it: only a tracee is in a ptrace stop, a
\* parked process has no tracer, a free pid carries nothing over, and a daemon
\* is the monitor's own child, neither traced nor anybody's injection target.
Sane(r) ==
  /\ r.run \in Stops => r.traced
  /\ r.run = "parked" => ~r.traced
  /\ r.run = "free" => ~r.traced /\ r.prog = "none"
  /\ r.prog \in DaemonProgs =>
       /\ ~r.traced /\ ~r.inj /\ r.att = 0
       /\ r.ppid = "monitor" /\ r.run \in {"run", "exit"}

\* Where pid q, with process r, stands in the monitor's tables: stubs are
\* tracees, a running tracee is in one of the tables while statuses are still
\* handled, and daemon_pid (d) names the one daemon.
Placed(q, r, d, candidates, stubs, at) ==
  at # "gone" =>
    /\ q \in stubs => r.traced
    /\ at = "running" /\ r.traced /\ r.run = "run" => q \in candidates \cup stubs
    /\ r.prog \in DaemonProgs <=> q = d

ProcessInv(q) ==
  Sane(proc[q]) /\ Placed(q, proc[q], status.daemon_pid, process_, stub_processes_, loop)

\* daemon_pid is set only together with the flags that make its exit noticed.
StatusInv ==
  /\ status.daemon_pid # NoPid => status.supported
  /\ status.daemon_running => status.daemon_pid # NoPid

\* Every hand-off of the burst is a start that count has counted.
CountInv == burst <= count /\ burst < RetryCount

\* The record of update_status has its three fields, and the file lags behind the
\* remembered text only after a failed write.
Kept(w) == DOMAIN w = {"last", "prop", "lost"} /\ (w.prop = w.last \/ w.lost)

FileInv ==
  loop # "gone" => Kept(written) /\ written.last = Render(tracing_state, stop_reason, status)

MonitorInv ==
  /\ TypeOK
  /\ FileInv /\ InitTracing
  /\ StatusInv /\ CountInv
  /\ \A q \in Pids : ProcessInv(q)

------------------------------------------------------------------------------
(* Processes.                                                               *)

\* A free pid is a sane process.
LEMMA FreeSane ==
  /\ NoProcess \in Processes /\ Sane(NoProcess)
  /\ NoProcess.prog = "none" /\ NoProcess.run = "free" /\ ~NoProcess.traced
BY RetryAssumption DEF NoProcess, Processes, Sane, DaemonProgs, Stops, Reportable

\* The invariant in the initial state: seized init, no process, no daemon.
LEMMA InitInv == Init => MonitorInv
<1> SUFFICES ASSUME Init
             PROVE  MonitorInv
  OBVIOUS
<1>1. NoProcess \in Processes /\ Sane(NoProcess)
  BY FreeSane
<1>2. proc \in [Pids -> Processes] /\ \A q \in Pids : proc[q] = NoProcess
  BY Zenon, <1>1 DEF Init
<1>3. InitialStatus \in Statuses /\ status = InitialStatus
  BY Zenon DEF Init, InitialStatus, Statuses
<1>4. TypeOK
  <2>1. /\ tracing_state = "TRACING" /\ stop_reason = "" /\ count = 0 /\ burst = 0
        /\ process_ = {} /\ stub_processes_ = {} /\ loop = "running"
        /\ init_traced = TRUE /\ init_stop = "run" /\ init_intr = FALSE /\ taken = FALSE
    BY Zenon DEF Init
  <2>2. count \in 0 .. RetryCount /\ burst \in Nat
    <3>1. RetryCount \in Nat
      BY RetryAssumption
    <3>2. count = 0 /\ burst = 0
      BY Zenon DEF Init
    <3>3. QED
      BY ONLY <3>1, <3>2
  <2>3. QED
    BY ONLY Zenon, <1>2, <1>3, <2>1, <2>2 DEF TypeOK
<1>5. FileInv /\ InitTracing
  <2>1. InitTracing
    BY Zenon DEF Init, InitTracing
  <2>2. PICK text : text = Render("TRACING", "", InitialStatus)
    BY Zenon
  <2>3. /\ written = [last |-> text, prop |-> text, lost |-> FALSE]
        /\ Render(tracing_state, stop_reason, status) = text
    BY Zenon, <2>2 DEF Init
  <2>4. Kept(written) /\ written.last = text
    BY ONLY <2>3 DEF Kept
  <2>5. QED
    BY Zenon, <2>1, <2>3, <2>4 DEF FileInv
<1>6. StatusInv /\ CountInv
  <2>1. status.daemon_pid = NoPid /\ ~status.daemon_running
    BY ONLY Zenon, <1>3 DEF InitialStatus
  <2>2. burst = 0 /\ count = 0
    BY Zenon DEF Init
  <2>3. QED
    BY ONLY <2>1, <2>2, RetryAssumption DEF StatusInv, CountInv
<1>7. ASSUME NEW q \in Pids
      PROVE  ProcessInv(q)
  <2>1. status.daemon_pid = NoPid /\ q # NoPid /\ stub_processes_ = {}
    <3>1. status.daemon_pid = NoPid
      BY ONLY Zenon, <1>3 DEF InitialStatus
    <3>2. stub_processes_ = {}
      BY Zenon DEF Init
    <3>3. QED
      BY <3>1, <3>2, PidsAssumption
  <2>2. Placed(q, NoProcess, status.daemon_pid, process_, stub_processes_, loop)
    BY <2>1 DEF Placed, NoProcess, DaemonProgs
  <2>3. QED
    BY <1>1, <1>2, <2>2 DEF ProcessInv
<1>8. QED
  BY <1>4, <1>5, <1>6, <1>7 DEF MonitorInv

\* What ensure_daemon_created does to the pids: nothing, or one free pid becomes
\* the daemon that none was before.
Started(new) ==
  \/ new = {} /\ status'.daemon_pid = status.daemon_pid
  \/ \E d \in Pids :
       /\ new = {d} /\ proc[d].run = "free"
       /\ status.daemon_pid = NoPid /\ status'.daemon_pid = d

\* A daemon just forked is a sane process.
LEMMA DaemonSane ==
  Daemon \in Processes /\ Sane(Daemon) /\ Daemon.prog \in DaemonProgs /\ ~Daemon.traced
<1>1. PICK n : n = NoProcess
  OBVIOUS
<1>2. /\ n \in Processes /\ ~n.traced /\ ~n.inj /\ n.att = 0
      /\ Daemon = [n EXCEPT !.prog = "starting", !.run = "run", !.ppid = "monitor"]
  BY <1>1, RetryAssumption DEF Daemon, NoProcess, Processes, DaemonProgs, Reportable
<1>3. /\ Daemon \in Processes /\ ~Daemon.traced /\ ~Daemon.inj /\ Daemon.att = 0
      /\ Daemon.prog = "starting" /\ Daemon.run = "run" /\ Daemon.ppid = "monitor"
  BY ONLY Zenon, <1>2 DEF Processes, DaemonProgs, Reportable
<1>4. QED
  BY ONLY <1>3 DEF Sane, DaemonProgs, Stops

\* ensure_daemon_created keeps the status well formed, starts a daemon only where
\* none is known, and never starts one when it reports failure.
LEMMA EnsureFacts ==
  ASSUME MonitorInv, NEW ok \in BOOLEAN, NEW new, NEW injected \in BOOLEAN,
         ensure_daemon_created(ok, new, injected)
  PROVE  status' \in Statuses /\ StatusInv' /\ Started(new) /\ (~ok => new = {})
<1>1. status \in Statuses /\ StatusInv
  BY Zenon DEF MonitorInv, TypeOK
<1>2. CASE status.daemon_pid # NoPid /\ new = {}
           /\ status' = [status EXCEPT !.zygote_injected = injected]
  BY Zenon, <1>1, <1>2 DEF Statuses, StatusInv, Started
<1>3. CASE status.daemon_pid = NoPid /\ new = {} /\ ok = FALSE
           /\ status' = [status EXCEPT !.zygote_injected = injected]
  BY Zenon, <1>1, <1>3 DEF Statuses, StatusInv, Started
<1>4. ASSUME NEW d \in Pids, status.daemon_pid = NoPid, Free(d), new = {d}, ok = TRUE,
             status' = [status EXCEPT !.supported = TRUE, !.daemon_pid = d,
                          !.daemon_running = TRUE, !.zygote_injected = injected]
      PROVE  status' \in Statuses /\ StatusInv' /\ Started(new) /\ ok
  BY Zenon, <1>1, <1>4, PidsAssumption DEF Statuses, StatusInv, Started, Free
<1>5. QED
  BY <1>2, <1>3, <1>4, Zenon DEF ensure_daemon_created

\* A pid nothing happened to stays well placed, whoever becomes the daemon.
LEMMA Untouched ==
  ASSUME MonitorInv, NEW q \in Pids, NEW new, Started(new), q \notin new,
         proc'[q] = proc[q], loop' = loop,
         q \in process_ => q \in process_', q \in stub_processes_' <=> q \in stub_processes_
  PROVE  ProcessInv(q)'
<1>1. ProcessInv(q) /\ q # NoPid
  BY PidsAssumption DEF MonitorInv
<1>2. q = status'.daemon_pid <=> q = status.daemon_pid
  BY <1>1 DEF Started
<1>3. QED
  BY <1>1, <1>2 DEF ProcessInv, Placed

\* The pid that becomes the daemon was in no table that matters.
LEMMA BecomesDaemon ==
  ASSUME MonitorInv, NEW q \in Pids, NEW new, Started(new), q \in new,
         proc'[q] = Daemon, loop' = loop,
         q \in stub_processes_' <=> q \in stub_processes_
  PROVE  ProcessInv(q)'
<1>1. ProcessInv(q) /\ proc[q].run = "free" /\ status'.daemon_pid = q
  BY DEF MonitorInv, Started
<1>2. loop # "gone" => q \notin stub_processes_
  BY <1>1 DEF ProcessInv, Sane, Placed
<1>3. QED
  BY <1>1, <1>2, DaemonSane DEF ProcessInv, Placed

\* One process changes, and perhaps a daemon is started.
Turned(p, r, new) ==
  proc' = [q \in Pids |-> IF q \in new THEN Daemon ELSE IF q = p THEN r ELSE proc[q]]

\* The tables change at most for p.
TablesAt(p) ==
  /\ process_' \subseteq Pids /\ stub_processes_' \subseteq Pids
  /\ \A q \in Pids \ {p} : /\ q \in process_' <=> q \in process_
                           /\ q \in stub_processes_' <=> q \in stub_processes_

\* The processes, as far as the handlers of wait statuses disturb them.
ProcsInv == proc \in [Pids -> Processes] /\ \A q \in Pids : ProcessInv(q)

\* A handler that leaves p sane and in the table its tracing needs keeps every
\* process sane and placed.
LEMMA Handled ==
  ASSUME MonitorInv, loop' = loop,
         NEW p \in Pids, NEW r \in Processes, NEW new,
         proc[p].run # "free", proc[p].prog \notin DaemonProgs,
         Sane(r), r.prog \notin DaemonProgs,
         Started(new), Turned(p, r, new), TablesAt(p),
         p \in stub_processes_' => r.traced,
         r.traced /\ r.run = "run" => p \in process_' \cup stub_processes_'
  PROVE  ProcsInv'
<1>1. p \notin new /\ new \subseteq Pids
  BY DEF Started
<1>2. /\ proc'[p] = r
      /\ \A q \in new : proc'[q] = Daemon
      /\ \A q \in Pids \ ({p} \cup new) : proc'[q] = proc[q]
  BY ONLY <1>1, p \in Pids, Turned(p, r, new) DEF Turned
<1>3. proc' \in [Pids -> Processes]
  <2>1. proc \in [Pids -> Processes]
    BY Zenon DEF MonitorInv, TypeOK
  <2>2. QED
    BY ONLY <2>1, DaemonSane, p \in Pids, r \in Processes, Turned(p, r, new) DEF Turned
<1>4. ProcessInv(p)'
  <2>1. ProcessInv(p) /\ p # NoPid
    BY PidsAssumption DEF MonitorInv
  <2>2. loop # "gone" => p # status'.daemon_pid
    BY <2>1 DEF Started, ProcessInv, Placed
  <2>3. QED
    BY <1>2, <2>2 DEF ProcessInv, Placed
<1>5. ASSUME NEW q \in Pids, q # p
      PROVE  ProcessInv(q)'
  <2>1. CASE q \in new
    BY <1>2, <1>5, <2>1, BecomesDaemon DEF TablesAt
  <2>2. CASE q \notin new
    BY <1>2, <1>5, <2>2, Untouched DEF TablesAt
  <2>3. QED
    BY <2>1, <2>2
<1>6. QED
  BY <1>3, <1>4, <1>5 DEF ProcsInv

\* The forms in which a handler leaves a process, as one change.
LEMMA Turns ==
  ASSUME MonitorInv, NEW p \in Pids, NEW g, NEW new
  PROVE  /\ proc' = Resumed(p) => Turned(p, [proc[p] EXCEPT !.run = "run"], {})
         /\ proc' = Released(p) => Turned(p, [proc[p] EXCEPT !.run = "run", !.traced = FALSE], {})
         /\ proc' = Reaped(p) => Turned(p, NoProcess, {})
         /\ proc' = WithDaemon(Reaped(p), new) => Turned(p, NoProcess, new)
         /\ proc' = WithDaemon(Released(p), new) =>
              Turned(p, [proc[p] EXCEPT !.run = "run", !.traced = FALSE], new)
         /\ proc' = WithDaemon([proc EXCEPT ![p].run = "parked", ![p].traced = FALSE], new) =>
              Turned(p, [proc[p] EXCEPT !.run = "parked", !.traced = FALSE], new)
         /\ proc' = WithDaemon([proc EXCEPT ![p].run = "parked", ![p].traced = FALSE,
                                  ![p].inj = TRUE], new) =>
              Turned(p, [proc[p] EXCEPT !.run = "parked", !.traced = FALSE, !.inj = TRUE], new)
<1>1. proc \in [Pids -> Processes] /\ proc[p] \in Processes
  BY Zenon DEF MonitorInv, TypeOK
<1>2. proc' = Resumed(p) => Turned(p, [proc[p] EXCEPT !.run = "run"], {})
  BY ONLY Zenon, <1>1, p \in Pids DEF Turned, Resumed, Processes
<1>3. proc' = Released(p) => Turned(p, [proc[p] EXCEPT !.run = "run", !.traced = FALSE], {})
  BY ONLY Zenon, <1>1, p \in Pids DEF Turned, Released, Processes
<1>4. proc' = Reaped(p) => Turned(p, NoProcess, {})
  BY ONLY Zenon, <1>1, p \in Pids DEF Turned, Reaped
<1>5. proc' = WithDaemon(Reaped(p), new) => Turned(p, NoProcess, new)
  BY ONLY <1>1, p \in Pids DEF Turned, Reaped, WithDaemon
<1>6. proc' = WithDaemon(Released(p), new) =>
        Turned(p, [proc[p] EXCEPT !.run = "run", !.traced = FALSE], new)
  BY ONLY <1>1, p \in Pids DEF Turned, Released, WithDaemon, Processes
<1>7. proc' = WithDaemon([proc EXCEPT ![p].run = "parked", ![p].traced = FALSE], new) =>
        Turned(p, [proc[p] EXCEPT !.run = "parked", !.traced = FALSE], new)
  BY ONLY <1>1, p \in Pids DEF Turned, WithDaemon, Processes
<1>8. proc' = WithDaemon([proc EXCEPT ![p].run = "parked", ![p].traced = FALSE,
                            ![p].inj = TRUE], new) =>
        Turned(p, [proc[p] EXCEPT !.run = "parked", !.traced = FALSE, !.inj = TRUE], new)
  BY ONLY <1>1, p \in Pids DEF Turned, WithDaemon, Processes
<1>9. QED
  BY <1>2, <1>3, <1>4, <1>5, <1>6, <1>7, <1>8

\* What the handlers make of a process that is not the daemon: resumed it keeps
\* its tracer, and in every other case it has none.
LEMMA TurnedFacts ==
  ASSUME NEW old \in Processes, Sane(old), old.prog \notin DaemonProgs, old.run # "free",
         NEW r,
         \/ r = [old EXCEPT !.run = "run"]
         \/ r = [old EXCEPT !.run = "run", !.traced = FALSE]
         \/ r = NoProcess
         \/ r = [old EXCEPT !.run = "parked", !.traced = FALSE]
         \/ r = [old EXCEPT !.run = "parked", !.traced = FALSE, !.inj = TRUE]
  PROVE  /\ r \in Processes /\ Sane(r) /\ r.prog \notin DaemonProgs
         /\ r # [old EXCEPT !.run = "run"] => ~r.traced
         /\ r = [old EXCEPT !.run = "run"] => r.traced = old.traced
<1>1. CASE r = [old EXCEPT !.run = "run"]
  <2>1. r \in Processes /\ r.run = "run" /\ r.prog = old.prog /\ r.traced = old.traced
    BY ONLY <1>1, old \in Processes DEF Processes
  <2>2. QED
    BY <1>1, <2>1 DEF Sane, Stops
<1>2. CASE r = [old EXCEPT !.run = "run", !.traced = FALSE]
  <2>1. r \in Processes /\ r.run = "run" /\ r.prog = old.prog /\ ~r.traced
    BY ONLY Zenon, <1>2, old \in Processes DEF Processes
  <2>2. r = [old EXCEPT !.run = "run"] => r.traced = old.traced
    BY ONLY old \in Processes DEF Processes
  <2>3. QED
    BY <2>1, <2>2 DEF Sane, Stops
<1>3. CASE r = NoProcess
  <2>1. r \in Processes /\ r.run = "free" /\ r.prog = "none" /\ ~r.traced
    BY <1>3, RetryAssumption DEF NoProcess, Processes, DaemonProgs
  <2>2. r = [old EXCEPT !.run = "run"] => r.traced = old.traced
    BY ONLY old \in Processes DEF Processes
  <2>3. QED
    BY <2>1, <2>2 DEF Sane, Stops, DaemonProgs
<1>4. CASE \/ r = [old EXCEPT !.run = "parked", !.traced = FALSE]
           \/ r = [old EXCEPT !.run = "parked", !.traced = FALSE, !.inj = TRUE]
  <2>1. r \in Processes /\ r.run = "parked" /\ r.prog = old.prog /\ ~r.traced
    BY ONLY Zenon, <1>4, old \in Processes DEF Processes
  <2>2. r = [old EXCEPT !.run = "run"] => r.traced = old.traced
    BY ONLY old \in Processes DEF Processes
  <2>3. QED
    BY <2>1, <2>2 DEF Sane, Stops
<1>5. QED
  BY <1>1, <1>2, <1>3, <1>4

\* A status of p the monitor takes up: p is no free pid and not the daemon.
Status(p) ==
  /\ MonitorInv /\ loop = "running" /\ loop' = loop /\ world' = world
  /\ p \in Pids /\ proc[p].run # "free" /\ proc[p].prog \notin DaemonProgs

\* p is resumed and stays a tracee the monitor knows.
LEMMA ResumedProcs ==
  ASSUME NEW p \in Pids, Status(p), Started({}), proc' = Resumed(p), TablesAt(p),
         p \in process_' \cup stub_processes_', p \in stub_processes_' => proc[p].traced
  PROVE  ProcsInv'
<1> DEFINE r == [proc[p] EXCEPT !.run = "run"]
<1>1. MonitorInv /\ proc[p] \in Processes /\ Sane(proc[p])
  BY Zenon DEF Status, MonitorInv, TypeOK, ProcessInv
<1>2. Turned(p, r, {})
  BY Zenon, <1>1, Turns
<1>3. r \in Processes /\ Sane(r) /\ r.prog \notin DaemonProgs /\ r.traced = proc[p].traced
  BY Zenon, <1>1, TurnedFacts DEF Status
<1> HIDE DEF r
<1>4. QED
  BY <1>1, <1>2, <1>3, Handled DEF Status

\* p ends up without a tracer, so that no table has to know it.
LEMMA GoneProcs ==
  ASSUME NEW p \in Pids, Status(p), NEW new, Started(new), TablesAt(p),
         p \notin stub_processes_',
         \/ new = {} /\ (proc' = Released(p) \/ proc' = Reaped(p))
         \/ proc' = WithDaemon(Reaped(p), new)
         \/ proc' = WithDaemon(Released(p), new)
         \/ proc' = WithDaemon([proc EXCEPT ![p].run = "parked", ![p].traced = FALSE], new)
         \/ proc' = WithDaemon([proc EXCEPT ![p].run = "parked", ![p].traced = FALSE,
                                  ![p].inj = TRUE], new)
  PROVE  ProcsInv'
<1>1. MonitorInv /\ proc[p] \in Processes /\ Sane(proc[p])
  BY Zenon DEF Status, MonitorInv, TypeOK, ProcessInv
<1>2. PICK r : /\ Turned(p, r, new)
               /\ \/ r = [proc[p] EXCEPT !.run = "run", !.traced = FALSE]
                  \/ r = NoProcess
                  \/ r = [proc[p] EXCEPT !.run = "parked", !.traced = FALSE]
                  \/ r = [proc[p] EXCEPT !.run = "parked", !.traced = FALSE, !.inj = TRUE]
  BY Zenon, <1>1, Turns
<1>3. r \in Processes /\ Sane(r) /\ r.prog \notin DaemonProgs
  BY Zenon, <1>1, <1>2, TurnedFacts DEF Status
<1>4. ~r.traced
  <2>1. NoProcess.traced = FALSE
    BY DEF NoProcess
  <2>2. QED
    BY ONLY Zenon, <1>1, <1>2, <2>1 DEF Processes
<1>5. QED
  BY <1>1, <1>2, <1>3, <1>4, Handled DEF Status

------------------------------------------------------------------------------
(* The status file.                                                         *)

\* update_status remembers the text it was given, and the file has it or the write
\* of it failed.
LEMMA OutcomeFacts ==
  ASSUME NEW w, Kept(w), NEW text, NEW v \in Outcomes(w, text)
  PROVE  Kept(v) /\ v.last = text
<1>1. \/ v = w /\ text = w.last
      \/ v = [last |-> text, prop |-> text, lost |-> FALSE]
      \/ v = [w EXCEPT !.last = text, !.lost = TRUE]
  BY DEF Outcomes
<1>2. CASE v = w /\ text = w.last
  BY <1>2
<1>3. CASE v = [last |-> text, prop |-> text, lost |-> FALSE]
  BY ONLY <1>3 DEF Kept
<1>4. CASE v = [w EXCEPT !.last = text, !.lost = TRUE]
  BY ONLY <1>4, Kept(w) DEF Kept
<1>5. QED
  BY <1>1, <1>2, <1>3, <1>4

\* A step that ends with update_status leaves the file current.
LEMMA Updated ==
  ASSUME FileInv, update_status, loop' = "gone" \/ loop # "gone"
  PROVE  FileInv'
<1> SUFFICES ASSUME loop' # "gone"
             PROVE  Kept(written') /\ written'.last = Render(tracing_state', stop_reason', status')
  BY DEF FileInv
<1>1. Kept(written)
  BY DEF FileInv
<1>2. PICK text : text = Render(tracing_state', stop_reason', status')
  BY Zenon
<1>3. written' \in Outcomes(written, text)
  BY Zenon, <1>2 DEF update_status
<1>4. QED
  BY Zenon, <1>1, <1>2, <1>3, OutcomeFacts

------------------------------------------------------------------------------
(* Wait statuses.                                                           *)

\* What a handler of a wait status leaves of the rest of the state, when it does
\* not touch tracing.
LEMMA CalmStep ==
  ASSUME MonitorInv, ProcsInv', loop' = loop, world' = world, UNCHANGED <<control, init>>,
         status' \in Statuses, StatusInv',
         update_status \/ UNCHANGED <<status, written>>,
         process_' \subseteq Pids, stub_processes_' \subseteq Pids,
         CountInv', count' \in 0 .. RetryCount, burst' \in Nat
  PROVE  MonitorInv'
<1>1. TypeOK /\ FileInv /\ InitTracing
  BY DEF MonitorInv
<1>2. TypeOK'
  <2>1. proc' \in [Pids -> Processes]
    BY DEF ProcsInv
  <2>2. QED
    BY Zenon, <1>1, <2>1 DEF TypeOK, control, init
<1>3. FileInv'
  <2>1. CASE update_status
    BY Zenon, <1>1, <2>1, Updated
  <2>2. CASE UNCHANGED <<status, written>>
    BY Zenon, <1>1, <2>2 DEF FileInv, control
  <2>3. QED
    BY Zenon, <2>1, <2>2
<1>4. InitTracing'
  BY Zenon, <1>1 DEF InitTracing, Faults, control, init
<1>5. QED
  BY <1>2, <1>3, <1>4 DEF MonitorInv, ProcsInv

\* Nothing about the daemon changes.
LEMMA NoStart == status'.daemon_pid = status.daemon_pid => Started({})
BY DEF Started

\* Unchanged history and status keep their invariants.
LEMMA SameCounts ==
  ASSUME MonitorInv, UNCHANGED <<status, count, burst>>
  PROVE  /\ status' \in Statuses /\ StatusInv' /\ CountInv' /\ count' \in 0 .. RetryCount
         /\ burst' \in Nat /\ Started({})
BY Zenon DEF MonitorInv, TypeOK, StatusInv, CountInv, Started

\* A stub's status: resumed as a tracee, or reaped and forgotten.
LEMMA HandleStubStep ==
  ASSUME MonitorInv, NEW p \in Pids, loop = "running", loop' = loop, world' = world,
         HandleStub(p)
  PROVE  MonitorInv'
<1>1. /\ p \in stub_processes_ /\ proc[p].run \in Reportable
      /\ UNCHANGED <<control, status, count, process_, written, init, burst>>
      /\ process_ \subseteq Pids /\ stub_processes_ \subseteq Pids
  BY Zenon DEF HandleStub, Reportable, MonitorInv, TypeOK
<1>2. Status(p) /\ proc[p].traced
  BY <1>1 DEF Status, MonitorInv, ProcessInv, Placed, Sane, Reportable, Stops
<1>3. ProcsInv'
  <2>1. CASE proc' = Reaped(p) /\ stub_processes_' = stub_processes_ \ {p}
    <3>1. TablesAt(p) /\ p \notin stub_processes_'
      BY ONLY <1>1, <2>1 DEF TablesAt
    <3>2. QED
      BY Zenon, <1>1, <1>2, <2>1, <3>1, GoneProcs, NoStart
  <2>2. CASE proc' = Resumed(p) /\ stub_processes_' = stub_processes_
    <3>1. TablesAt(p) /\ p \in stub_processes_'
      BY ONLY <1>1, <2>2 DEF TablesAt
    <3>2. QED
      BY <1>1, <1>2, <2>2, <3>1, ResumedProcs, NoStart
  <2>3. QED
    BY <2>1, <2>2 DEF HandleStub
<1>4. stub_processes_' \subseteq Pids
  BY <1>1 DEF HandleStub
<1>5. QED
  BY <1>1, <1>3, <1>4, CalmStep, SameCounts

\* The daemon's exit: it is reaped, and daemon_pid is cleared with it.
LEMMA DaemonExitStep ==
  ASSUME MonitorInv, NEW p \in Pids, loop = "running", loop' = loop, world' = world,
         p \notin stub_processes_, handle_daemon_exit_if_match(p)
  PROVE  MonitorInv'
<1>1. /\ p = status.daemon_pid /\ status \in Statuses /\ proc \in [Pids -> Processes]
      /\ proc' = Reaped(p) /\ UNCHANGED <<control, count, tables, init, burst>> /\ update_status
      /\ process_ \subseteq Pids /\ stub_processes_ \subseteq Pids
  BY Zenon DEF MonitorInv, TypeOK, handle_daemon_exit_if_match
<1>2. PICK e \in {"", "error", "exit"} :
        status' = [status EXCEPT !.daemon_running = FALSE, !.daemon_pid = NoPid,
                     !.daemon_error_info = e]
  <2>1. PICK e : e = IF status.daemon_error_info = "" THEN "exit" ELSE status.daemon_error_info
    BY Zenon
  <2>2. e \in {"", "error", "exit"}
    BY ONLY Zenon, <1>1, <2>1 DEF Statuses
  <2>3. status' = [status EXCEPT !.daemon_running = FALSE, !.daemon_pid = NoPid,
                     !.daemon_error_info = e]
    BY Zenon, <1>1, <2>1 DEF handle_daemon_exit_if_match, Statuses
  <2>4. QED
    BY Zenon, <2>2, <2>3
<1>3. status' \in Statuses /\ status'.daemon_pid = NoPid /\ ~status'.daemon_running
  BY ONLY Zenon, <1>1, <1>2 DEF Statuses
<1>4. StatusInv'
  BY ONLY Zenon, <1>3 DEF StatusInv
<1>5. /\ proc'[p] = NoProcess /\ \A q \in Pids \ {p} : proc'[q] = proc[q]
  BY Zenon, <1>1 DEF Reaped
<1>6. ASSUME NEW q \in Pids
      PROVE  ProcessInv(q)'
  <2>1. ProcessInv(q) /\ q # NoPid
    BY Zenon, PidsAssumption DEF MonitorInv
  <2>2. /\ stub_processes_' = stub_processes_ /\ process_' = process_
    BY Zenon, <1>1 DEF tables
  <2>3. CASE q = p
    BY Zenon, <1>3, <1>5, <2>1, <2>2, <2>3, FreeSane DEF ProcessInv, Placed, DaemonProgs
  <2>4. CASE q # p
    BY Zenon, <1>1, <1>3, <1>5, <2>1, <2>2, <2>4 DEF ProcessInv, Placed
  <2>5. QED
    BY Zenon, <2>3, <2>4
<1>7. ProcsInv'
  BY Zenon, <1>1, <1>6, FreeSane DEF ProcsInv, Reaped
<1>8. CountInv' /\ count' \in 0 .. RetryCount /\ burst' \in Nat
  BY Zenon, <1>1 DEF MonitorInv, TypeOK, CountInv
<1>9. QED
  BY Zenon, <1>1, <1>3, <1>4, <1>7, <1>8, CalmStep DEF tables

\* handleNewProcess: a pid first seen becomes a candidate and is resumed.
LEMMA NewProcessStep ==
  ASSUME NEW p \in Pids, Status(p), p \notin stub_processes_, handleNewProcess(p)
  PROVE  MonitorInv'
<1>1. /\ MonitorInv /\ loop' = loop /\ world' = world /\ process_' = process_ \cup {p}
      /\ UNCHANGED <<control, status, count, stub_processes_, written, init, burst>>
      /\ proc' = IF proc[p].run = "exit" THEN Reaped(p) ELSE Resumed(p)
      /\ process_ \subseteq Pids /\ stub_processes_ \subseteq Pids
  BY Zenon DEF Status, handleNewProcess, NewProcess, MonitorInv, TypeOK
<1>2. TablesAt(p) /\ p \notin stub_processes_' /\ p \in process_'
  BY ONLY <1>1, p \in Pids, p \notin stub_processes_ DEF TablesAt
<1>3. ProcsInv'
  <2>1. CASE proc' = Reaped(p)
    BY Zenon, <1>1, <1>2, <2>1, GoneProcs, NoStart
  <2>2. CASE proc' = Resumed(p)
    BY <1>1, <1>2, <2>2, ResumedProcs, NoStart
  <2>3. QED
    BY <1>1, <2>1, <2>2
<1>4. QED
  BY <1>1, <1>2, <1>3, CalmStep, SameCounts DEF TablesAt

\* The hand-off, and the detach, leave p without the monitor as its tracer.
LEMMA HandOffProcs ==
  ASSUME NEW p \in Pids, Status(p), p \notin stub_processes_, UNCHANGED stub_processes_,
         NEW new, Started(new), HandOff(p, new) \/ (new = {} /\ Detach(p))
  PROVE  ProcsInv' /\ process_' \subseteq Pids /\ stub_processes_' \subseteq Pids
<1>1. process_ \subseteq Pids /\ stub_processes_ \subseteq Pids
  BY Zenon DEF Status, MonitorInv, TypeOK
<1>2. process_' = process_ \/ process_' = process_ \ {p}
  BY Zenon DEF HandOff, Detach
<1>3. TablesAt(p) /\ p \notin stub_processes_'
  BY ONLY <1>1, <1>2, p \in Pids, p \notin stub_processes_, UNCHANGED stub_processes_ DEF TablesAt
<1>4. \/ new = {} /\ proc' = Released(p)
      \/ proc' = WithDaemon(Reaped(p), new)
      \/ proc' = WithDaemon(Released(p), new)
      \/ proc' = WithDaemon([proc EXCEPT ![p].run = "parked", ![p].traced = FALSE], new)
      \/ proc' = WithDaemon([proc EXCEPT ![p].run = "parked", ![p].traced = FALSE,
                               ![p].inj = TRUE], new)
  BY Zenon DEF HandOff, Detach
<1>5. QED
  BY Zenon, <1>3, <1>4, GoneProcs DEF TablesAt

\* A stub is promoted: from the candidates to the stubs, still traced.
LEMMA ExecStubStep ==
  ASSUME NEW p \in Pids, Status(p), p \notin stub_processes_, proc[p].run = "exec", ExecStub(p)
  PROVE  MonitorInv'
<1>1. /\ MonitorInv /\ loop' = loop /\ world' = world /\ process_' = process_ \ {p}
      /\ stub_processes_' = stub_processes_ \cup {p}
      /\ UNCHANGED <<control, status, count, init, burst>> /\ update_status
      /\ proc' = Resumed(p)
      /\ process_ \subseteq Pids /\ stub_processes_ \subseteq Pids
  BY Zenon DEF Status, ExecStub, MonitorInv, TypeOK
<1>2. TablesAt(p) /\ p \in stub_processes_'
  BY ONLY <1>1, p \in Pids, p \notin stub_processes_ DEF TablesAt
<1>3. proc[p].traced
  BY DEF Status, MonitorInv, ProcessInv, Sane, Stops
<1>4. ProcsInv'
  BY <1>1, <1>2, <1>3, ResumedProcs, NoStart
<1>5. QED
  BY <1>1, <1>2, <1>4, CalmStep, SameCounts DEF TablesAt

\* Anything but a target, or a target while not tracing, is let go.
LEMMA ExecIgnoredStep ==
  ASSUME NEW p \in Pids, Status(p), p \notin stub_processes_, ExecIgnored(p)
  PROVE  MonitorInv'
<1>1. /\ MonitorInv /\ loop' = loop /\ world' = world /\ Detach(p)
      /\ UNCHANGED <<control, status, count, stub_processes_, init, burst>> /\ update_status
  BY DEF Status, ExecIgnored
<1>2. ProcsInv' /\ process_' \subseteq Pids /\ stub_processes_' \subseteq Pids
  BY <1>1, HandOffProcs, NoStart
<1>3. QED
  BY <1>1, <1>2, CalmStep, SameCounts

\* The auxiliary spawner is handed off as soon as there is a daemon.
LEMMA ExecHyosStep ==
  ASSUME NEW p \in Pids, Status(p), p \notin stub_processes_, ExecHyos(p)
  PROVE  MonitorInv'
<1>1. /\ MonitorInv /\ loop' = loop /\ world' = world /\ UNCHANGED <<control, count, stub_processes_, init, burst>>
      /\ update_status /\ status.zygote_injected \in BOOLEAN
  BY Zenon DEF Status, ExecHyos, MonitorInv, TypeOK, Statuses
<1>2. PICK ok \in BOOLEAN, new \in SUBSET Pids :
        /\ ensure_daemon_created(ok, new, status.zygote_injected)
        /\ IF ok THEN HandOff(p, new) ELSE Detach(p)
  BY Zenon DEF ExecHyos
<1>3. status' \in Statuses /\ StatusInv' /\ Started(new) /\ (~ok => new = {})
  BY <1>1, <1>2, EnsureFacts
<1>4. ProcsInv' /\ process_' \subseteq Pids /\ stub_processes_' \subseteq Pids
  BY <1>1, <1>2, <1>3, HandOffProcs
<1>5. CountInv' /\ count' \in 0 .. RetryCount /\ burst' \in Nat
  BY Zenon, <1>1 DEF MonitorInv, TypeOK, CountInv
<1>6. QED
  BY <1>1, <1>3, <1>4, <1>5, CalmStep

\* is_in_crash_loop counts the start, or starts over with it.
LEMMA CrashLoopFacts ==
  ASSUME MonitorInv, NEW looping \in BOOLEAN, is_in_crash_loop(looping)
  PROVE  /\ count' \in 0 .. RetryCount
         /\ count' = 1 \/ count' = count + 1 \/ (count' = count /\ looping)
         /\ looping <=> count' >= RetryCount
<1>1. count \in 0 .. RetryCount /\ RetryCount \in Nat \ {0}
  BY Zenon, RetryAssumption DEF MonitorInv, TypeOK
<1>2. looping <=> count' >= RetryCount
  BY Zenon DEF is_in_crash_loop
<1>3. count' = (IF count < RetryCount THEN count + 1 ELSE count) \/ count' = 1
  BY Zenon DEF is_in_crash_loop
<1>4. /\ count' \in 0 .. RetryCount
      /\ count' = 1 \/ count' = count + 1 \/ (count' = count /\ count' >= RetryCount)
  BY ONLY <1>1, <1>3
<1>5. QED
  BY <1>2, <1>4, Zenon

\* Asked to stop while tracing, the monitor interrupts init.
LEMMA StopWhileTracing ==
  ASSUME MonitorInv, tracing_state = "TRACING", loop = "running", loop' = loop, world' = world,
         NEW reason \in {"zygote crashed", "daemon not running", "user requested"},
         request_stop(reason), UNCHANGED <<init_traced, init_stop>>
  PROVE  /\ tracing_state' = "STOPPING" /\ stop_reason' = reason /\ init_intr' = init_traced
         /\ taken' = FALSE /\ update_status /\ InitTracing'
<1>1. /\ tracing_state' = "STOPPING" /\ stop_reason' = reason /\ init_intr' = init_traced
      /\ taken' = FALSE /\ update_status
  BY Zenon DEF request_stop
<1>2. InitTracing'
  BY Zenon, <1>1 DEF InitTracing, Faults, MonitorInv
<1>3. QED
  BY Zenon, <1>1, <1>2

\* A zygote: the crash loop, then the daemon, then the hand-off.
LEMMA ExecZygoteStep ==
  ASSUME NEW p \in Pids, Status(p), p \notin stub_processes_, ExecZygote(p)
  PROVE  MonitorInv'
<1>1. /\ MonitorInv /\ TypeOK /\ CountInv /\ FileInv /\ InitTracing
      /\ loop = "running" /\ loop' = loop /\ world' = world
      /\ tracing_state = "TRACING" /\ UNCHANGED <<stub_processes_, init_traced, init_stop>>
  BY Zenon DEF Status, ExecZygote, MonitorInv
<1>2. PICK looping \in BOOLEAN, ok \in BOOLEAN, new \in SUBSET Pids :
        /\ is_in_crash_loop(looping)
        /\ \/ /\ looping
              /\ UNCHANGED status
              /\ request_stop("zygote crashed")
              /\ Detach(p)
              /\ burst' = burst
           \/ /\ ~looping /\ ensure_daemon_created(ok, new, FALSE) /\ ~ok
              /\ request_stop("daemon not running")
              /\ Detach(p)
              /\ burst' = IF count' = 1 THEN 0 ELSE burst
           \/ /\ ~looping /\ ensure_daemon_created(ok, new, FALSE) /\ ok
              /\ HandOff(p, new)
              /\ burst' = IF count' = 1 THEN 1 ELSE burst + 1
              /\ UNCHANGED <<control, init_intr, taken>>
              /\ update_status
  BY Zenon DEF ExecZygote
<1>3. /\ count' \in 0 .. RetryCount
      /\ count' = 1 \/ count' = count + 1 \/ (count' = count /\ looping)
      /\ looping <=> count' >= RetryCount
  BY Zenon, <1>1, <1>2, CrashLoopFacts
<1>4. /\ RetryCount \in Nat /\ count \in 0 .. RetryCount /\ burst \in Nat
      /\ burst <= count /\ burst < RetryCount
  BY Zenon, <1>1, RetryAssumption DEF TypeOK, CountInv
<1> DEFINE Rest == /\ ProcsInv' /\ process_' \subseteq Pids /\ stub_processes_' \subseteq Pids
                   /\ status' \in Statuses /\ StatusInv' /\ CountInv' /\ burst' \in Nat
                   /\ update_status /\ InitTracing'
                   /\ tracing_state' \in {"TRACING", "STOPPING"}
                   /\ stop_reason' \in {"", "user requested", "zygote crashed",
                                        "daemon not running", "rearm failed"}
                   /\ init_intr' \in BOOLEAN /\ taken' \in BOOLEAN
<1>5. ASSUME looping, UNCHANGED status, request_stop("zygote crashed"), Detach(p), burst' = burst
      PROVE  Rest
  <2>1. ProcsInv' /\ process_' \subseteq Pids /\ stub_processes_' \subseteq Pids
    BY Zenon, <1>1, <1>5, HandOffProcs, NoStart
  <2>2. status' \in Statuses /\ StatusInv'
    BY Zenon, <1>1, <1>5 DEF MonitorInv, TypeOK, StatusInv
  <2>3. CountInv' /\ burst' \in Nat
    <3>1. count' >= RetryCount /\ count' \in 0 .. RetryCount
      BY <1>3, <1>5, Zenon
    <3>2. burst <= count'
      BY ONLY <1>4, <3>1
    <3>3. QED
      BY Zenon, <1>4, <1>5, <3>2 DEF CountInv
  <2>4. /\ tracing_state' = "STOPPING" /\ stop_reason' = "zygote crashed"
        /\ init_intr' = init_traced /\ init_traced \in BOOLEAN /\ taken' = FALSE
        /\ update_status /\ InitTracing'
    BY Zenon, <1>1, <1>5, StopWhileTracing DEF TypeOK
  <2>5. QED
    BY Zenon, <2>1, <2>2, <2>3, <2>4
<1>6. ASSUME ~looping, ensure_daemon_created(ok, new, FALSE), ~ok,
             request_stop("daemon not running"), Detach(p),
             burst' = IF count' = 1 THEN 0 ELSE burst
      PROVE  Rest
  <2>1. status' \in Statuses /\ StatusInv' /\ Started({})
    BY Zenon, <1>1, <1>6, EnsureFacts
  <2>2. ProcsInv' /\ process_' \subseteq Pids /\ stub_processes_' \subseteq Pids
    BY Zenon, <1>1, <1>6, <2>1, HandOffProcs
  <2>3. CountInv' /\ burst' \in Nat
    <3>1. burst' = IF count' = 1 THEN 0 ELSE burst
      BY Zenon, <1>6
    <3>2. count' = 1 \/ count' = count + 1
      BY Zenon, <1>3, <1>6
    <3>3. burst' <= count' /\ burst' < RetryCount /\ burst' \in Nat
      BY ONLY <1>4, <3>1, <3>2
    <3>4. QED
      BY ONLY <3>3 DEF CountInv
  <2>4. /\ tracing_state' = "STOPPING" /\ stop_reason' = "daemon not running"
        /\ init_intr' = init_traced /\ init_traced \in BOOLEAN /\ taken' = FALSE
        /\ update_status /\ InitTracing'
    BY Zenon, <1>1, <1>6, StopWhileTracing DEF TypeOK
  <2>5. QED
    BY Zenon, <2>1, <2>2, <2>3, <2>4
<1>7. ASSUME ~looping, ensure_daemon_created(ok, new, FALSE), ok, HandOff(p, new),
             burst' = IF count' = 1 THEN 1 ELSE burst + 1,
             UNCHANGED <<control, init_intr, taken>>, update_status
      PROVE  Rest
  <2>1. status' \in Statuses /\ StatusInv' /\ Started(new)
    BY Zenon, <1>1, <1>7, EnsureFacts
  <2>2. ProcsInv' /\ process_' \subseteq Pids /\ stub_processes_' \subseteq Pids
    BY <1>1, <1>7, <2>1, HandOffProcs
  <2>3. CountInv' /\ burst' \in Nat
    <3>1. burst' = IF count' = 1 THEN 1 ELSE burst + 1
      BY <1>7
    <3>2. count' = 1 \/ count' = count + 1
      BY <1>3, <1>7
    <3>3. count' < RetryCount
      <4>1. ~(count' >= RetryCount) /\ count' \in 0 .. RetryCount
        BY <1>3, <1>7, Zenon
      <4>2. QED
        BY ONLY <1>4, <4>1
    <3>4. burst' <= count' /\ burst' < RetryCount /\ burst' \in Nat
      BY ONLY <1>4, <3>1, <3>2, <3>3
    <3>5. QED
      BY ONLY <3>4 DEF CountInv
  <2>4. /\ InitTracing' /\ tracing_state' = "TRACING" /\ stop_reason' = stop_reason
        /\ init_intr' = init_intr /\ taken' = taken
    BY Zenon, <1>1, <1>7 DEF InitTracing, Faults, control
  <2>5. QED
    BY Zenon, <1>1, <1>7, <2>1, <2>2, <2>3, <2>4 DEF TypeOK
<1>8. Rest
  BY <1>2, <1>5, <1>6, <1>7, Zenon
<1>9. TypeOK'
  <2>1. proc' \in [Pids -> Processes]
    BY Zenon, <1>8 DEF ProcsInv
  <2>2. QED
    BY Zenon, <1>1, <1>3, <1>8, <2>1 DEF TypeOK
<1>10. FileInv'
  BY <1>1, <1>8, Updated, Zenon
<1>11. QED
  BY <1>8, <1>9, <1>10, Zenon DEF MonitorInv, ProcsInv

\* A pre-exec candidate.
LEMMA TracedStep ==
  ASSUME NEW p \in Pids, Status(p), proc[p].run \in Reportable, p \notin stub_processes_,
         p \in process_, handleTracedProcess(p)
  PROVE  MonitorInv'
<1>1. CASE proc[p].run = "exec" /\ (ExecStub(p) \/ ExecIgnored(p) \/ ExecHyos(p) \/ ExecZygote(p))
  BY <1>1, ExecStubStep, ExecIgnoredStep, ExecHyosStep, ExecZygoteStep
<1>2. CASE /\ proc' = Resumed(p)
           /\ UNCHANGED <<control, status, count, tables, written, init, burst>>
  <2>1. /\ MonitorInv /\ loop' = loop /\ world' = world /\ process_' = process_ /\ stub_processes_' = stub_processes_
        /\ process_ \subseteq Pids /\ stub_processes_ \subseteq Pids
    BY Zenon, <1>2 DEF Status, MonitorInv, TypeOK, tables
  <2>2. TablesAt(p)
    BY ONLY <2>1 DEF TablesAt
  <2>3. ProcsInv'
    BY <1>2, <2>1, <2>2, ResumedProcs, NoStart
  <2>4. QED
    BY <1>2, <2>1, <2>3, CalmStep, SameCounts
<1>3. CASE /\ process_' = process_ \ {p}
           /\ proc' = (IF proc[p].run = "exit" THEN Reaped(p) ELSE Released(p))
           /\ UNCHANGED <<control, status, count, stub_processes_, written, init, burst>>
  <2>1. /\ MonitorInv /\ loop' = loop /\ world' = world /\ process_ \subseteq Pids /\ stub_processes_ \subseteq Pids
    BY Zenon DEF Status, MonitorInv, TypeOK
  <2>2. TablesAt(p) /\ p \notin stub_processes_'
    BY ONLY <1>3, <2>1, p \notin stub_processes_ DEF TablesAt
  <2>3. ProcsInv'
    BY Zenon, <1>3, <2>1, <2>2, GoneProcs, NoStart
  <2>4. QED
    BY <1>3, <2>1, <2>2, <2>3, CalmStep, SameCounts DEF TablesAt
<1>4. QED
  BY <1>1, <1>2, <1>3, Zenon DEF handleTracedProcess

\* handleChildEvent: each role keeps the invariant, and the daemon's exit never
\* reaches a role that would reap it without clearing daemon_pid.
LEMMA HandleChildStep ==
  ASSUME MonitorInv, NEW p \in Pids, HandleChild(p)
  PROVE  MonitorInv'
<1>1. loop = "running" /\ loop' = loop /\ world' = world /\ proc[p].run \in Reportable
  BY DEF HandleChild
<1>2. CASE HandleStub(p)
  BY <1>1, <1>2, HandleStubStep
<1>3. CASE p \notin stub_processes_ /\ handle_daemon_exit_if_match(p)
  BY <1>1, <1>3, DaemonExitStep
<1>4. CASE /\ p \notin stub_processes_ /\ ~(status.supported /\ p = status.daemon_pid)
           /\ \/ p \in process_ /\ handleTracedProcess(p)
              \/ p \notin process_ /\ handleNewProcess(p)
  <2>1. proc[p].prog \notin DaemonProgs
    <3>1. ProcessInv(p) /\ StatusInv /\ p # NoPid
      BY PidsAssumption DEF MonitorInv
    <3>2. QED
      BY <1>1, <1>4, <3>1 DEF ProcessInv, Placed, StatusInv
  <2>2. Status(p)
    BY <1>1, <2>1 DEF Status, Reportable, Stops
  <2>3. QED
    BY <1>1, <1>4, <2>2, TracedStep, NewProcessStep
<1>5. QED
  BY <1>2, <1>3, <1>4, Zenon DEF HandleChild

\* handleParentEvent for init: the detach is what turns STOPPING into STOPPED, and
\* no other status of init loses the pending interrupt.
LEMMA HandleInitStep == MonitorInv /\ HandleInit => MonitorInv'
<1> SUFFICES ASSUME MonitorInv, HandleInit
             PROVE  MonitorInv'
  OBVIOUS
<1>1. /\ loop = "running" /\ init_stop \in Stops /\ init_stop' = "run"
      /\ UNCHANGED <<stop_reason, status, count, tables, written, loop, proc, burst, world>>
      /\ TypeOK /\ FileInv /\ InitTracing
  BY DEF MonitorInv, HandleInit
<1>2. \/ /\ init_stop = "estop" /\ tracing_state = "STOPPING" /\ tracing_state' = "STOPPED"
         /\ init_traced' = FALSE /\ init_intr' = FALSE /\ taken' = FALSE
      \/ /\ ~(init_stop = "estop" /\ tracing_state = "STOPPING")
         /\ UNCHANGED <<tracing_state, init_traced, init_intr, taken>>
  BY Zenon DEF HandleInit
<1>3. TypeOK'
  BY Zenon, <1>1, <1>2 DEF TypeOK, tables
<1>4. FileInv'
  BY Zenon, <1>1, <1>2 DEF FileInv, Render
<1>5. InitTracing'
  BY Zenon, <1>1, <1>2 DEF InitTracing, Faults
<1>6. StatusInv' /\ CountInv'
  BY <1>1 DEF MonitorInv, StatusInv, CountInv
<1>7. \A q \in Pids : ProcessInv(q)'
  BY <1>1 DEF MonitorInv, ProcessInv, tables
<1>8. QED
  BY <1>3, <1>4, <1>5, <1>6, <1>7 DEF MonitorInv

\* Leave: the monitor is gone, and what it traced or owned with it.
LEMMA LeaveStep == MonitorInv /\ Leave => MonitorInv'
<1> SUFFICES ASSUME MonitorInv, Leave
             PROVE  MonitorInv'
  OBVIOUS
<1>1. /\ loop' = "gone" /\ status' = InitialStatus /\ count' = 0 /\ burst' = 0
      /\ process_' = {} /\ stub_processes_' = {} /\ UNCHANGED control
  BY Zenon DEF Leave
<1>2. init_traced' = FALSE /\ init_stop' = "run" /\ init_intr' = FALSE /\ taken' = FALSE
  BY Zenon DEF Leave
<1>3. TypeOK /\ proc \in [Pids -> Processes] /\ \A q \in Pids : Sane(proc[q])
  BY Zenon DEF MonitorInv, TypeOK, ProcessInv
<1>4. ASSUME NEW q \in Pids
      PROVE  proc'[q] \in Processes /\ Sane(proc'[q])
  <2>1. CASE proc[q].ppid = "monitor" \/ proc[q].run = "exit"
    <3>1. proc'[q] = NoProcess
      BY <2>1 DEF Leave
    <3>2. QED
      BY <3>1, FreeSane
  <2>2. CASE ~(proc[q].ppid = "monitor" \/ proc[q].run = "exit") /\ proc[q].traced
    <3>1. PICK g \in {"parked", "run"} : g = IF proc[q].run = "jobctl" THEN "parked" ELSE "run"
      BY Zenon
    <3>2. Delivered(q)[q] = [proc[q] EXCEPT !.run = g]
      BY ONLY <1>3, <3>1, q \in Pids DEF Delivered, Processes
    <3>3. proc'[q] = [[proc[q] EXCEPT !.run = g] EXCEPT !.traced = FALSE]
      BY Zenon, <2>2, <3>2 DEF Leave
    <3>4. proc[q] \in Processes /\ Sane(proc[q])
      BY <1>3
    <3>5. /\ proc'[q] \in Processes /\ proc'[q].run = g /\ ~proc'[q].traced
          /\ proc'[q].prog = proc[q].prog /\ proc'[q].ppid = proc[q].ppid
      BY ONLY Zenon, <3>1, <3>3, <3>4 DEF Processes
    <3>6. QED
      BY <2>2, <3>1, <3>4, <3>5 DEF Sane, Stops
  <2>3. CASE ~(proc[q].ppid = "monitor" \/ proc[q].run = "exit") /\ ~proc[q].traced
    <3>1. proc'[q] = proc[q]
      BY <2>3 DEF Leave
    <3>2. QED
      BY <1>3, <3>1
  <2>4. QED
    BY <2>1, <2>2, <2>3
<1>5. proc' \in [Pids -> Processes]
  <2>1. proc' = [q \in Pids |-> proc'[q]]
    BY DEF Leave
  <2>2. QED
    BY ONLY <1>4, <2>1
<1>6. TypeOK'
  <2>1. InitialStatus \in Statuses
    BY DEF InitialStatus, Statuses
  <2>2. count' \in 0 .. RetryCount /\ burst' \in Nat
    <3>1. RetryCount \in Nat /\ count' = 0 /\ burst' = 0
      BY <1>1, RetryAssumption
    <3>2. QED
      BY ONLY <3>1
  <2>3. QED
    BY Zenon, <1>1, <1>2, <1>3, <1>5, <2>1, <2>2 DEF TypeOK, control
<1>7. FileInv' /\ InitTracing'
  BY <1>1 DEF FileInv, InitTracing
<1>8. StatusInv' /\ CountInv'
  <2>1. status'.daemon_pid = NoPid /\ ~status'.daemon_running
    BY Zenon, <1>1 DEF InitialStatus
  <2>2. burst' <= count' /\ burst' < RetryCount
    <3>1. RetryCount \in Nat \ {0} /\ count' = 0 /\ burst' = 0
      BY <1>1, RetryAssumption
    <3>2. QED
      BY ONLY <3>1
  <2>3. QED
    BY <2>1, <2>2 DEF StatusInv, CountInv
<1>9. \A q \in Pids : ProcessInv(q)'
  BY <1>1, <1>4 DEF ProcessInv, Placed
<1>10. QED
  BY <1>6, <1>7, <1>8, <1>9 DEF MonitorInv

------------------------------------------------------------------------------
(* Datagrams.                                                               *)

\* Processes and tables as they were, under the same daemon_pid; the loop may go
\* from running to draining.
LEMMA SameProcs ==
  ASSUME MonitorInv, UNCHANGED <<proc, tables>>, status'.daemon_pid = status.daemon_pid,
         loop # "gone", loop' \in {loop, "draining"}
  PROVE  ProcsInv'
<1>1. process_' = process_ /\ stub_processes_' = stub_processes_ /\ proc' = proc
  BY DEF tables
<1>2. proc \in [Pids -> Processes] /\ \A q \in Pids : ProcessInv(q)
  BY Zenon DEF MonitorInv, TypeOK
<1>3. QED
  BY <1>1, <1>2 DEF ProcsInv, ProcessInv, Placed

\* A step of a datagram that leaves the tables and the crash-loop history alone.
LEMMA MessageStep ==
  ASSUME MonitorInv, ProcsInv', UNCHANGED <<tables, count, burst>>,
         loop' \in {loop, "draining"}, init_stop' = init_stop,
         tracing_state' \in {"TRACING", "STOPPING", "STOPPED", "EXITING"},
         stop_reason' \in {"", "user requested", "zygote crashed", "daemon not running",
                           "rearm failed"},
         init_traced' \in BOOLEAN, init_intr' \in BOOLEAN, taken' \in BOOLEAN,
         status' \in Statuses, StatusInv', FileInv', InitTracing'
  PROVE  MonitorInv'
<1>1. TypeOK /\ CountInv /\ process_' = process_ /\ stub_processes_' = stub_processes_
  BY Zenon DEF MonitorInv, tables
<1>2. TypeOK'
  <2>1. proc' \in [Pids -> Processes]
    BY Zenon DEF ProcsInv
  <2>2. QED
    BY Zenon, <1>1, <2>1 DEF TypeOK
<1>3. CountInv'
  BY Zenon, <1>1 DEF CountInv
<1>4. QED
  BY Zenon, <1>2, <1>3 DEF MonitorInv, ProcsInv

\* START: a stop under way is lifted, and init seized again once it was let go.
LEMMA StartStep ==
  ASSUME MonitorInv, loop # "gone", request_start, UNCHANGED <<loop, tables, count, burst, world>>
  PROVE  MonitorInv'
<1>1. /\ UNCHANGED <<stop_reason, status, init_stop, init_intr, proc>> /\ update_status
      /\ TypeOK /\ InitTracing /\ StatusInv /\ FileInv /\ taken' = FALSE
  BY DEF MonitorInv, request_start
<1>2. \/ tracing_state \in {"STOPPING", "STOPPED"} /\ tracing_state' = "TRACING"
      \/ tracing_state \notin {"STOPPING", "STOPPED"} /\ tracing_state' = tracing_state
  BY DEF request_start
<1>3. /\ init_traced' \in BOOLEAN
      /\ tracing_state # "STOPPED" => init_traced' = init_traced
      /\ "seize" \notin Faults /\ tracing_state = "STOPPED" => init_traced'
  BY Zenon, <1>1 DEF request_start, SeizeInit, TypeOK
<1>4. InitTracing'
  <2>1. Faults' = Faults
    BY Zenon DEF Faults
  <2>2. QED
    BY <1>1, <1>2, <1>3, <2>1 DEF InitTracing
<1>5. ProcsInv'
  BY <1>1, SameProcs
<1>6. FileInv' /\ StatusInv'
  BY Zenon, <1>1, Updated DEF StatusInv
<1>7. QED
  BY Zenon, <1>1, <1>2, <1>3, <1>4, <1>5, <1>6, MessageStep DEF TypeOK

\* STOP.
LEMMA StopStep ==
  ASSUME MonitorInv, loop # "gone", request_stop("user requested"),
         UNCHANGED <<loop, status, init_traced, init_stop, proc, tables, count, burst, world>>
  PROVE  MonitorInv'
<1>1. TypeOK /\ InitTracing /\ StatusInv /\ FileInv /\ ProcsInv'
  BY Zenon, SameProcs DEF MonitorInv
<1>2. CASE /\ tracing_state = "TRACING" /\ tracing_state' = "STOPPING"
           /\ stop_reason' = "user requested" /\ init_intr' = init_traced /\ taken' = FALSE
           /\ update_status
  <2>1. InitTracing' /\ FileInv' /\ StatusInv'
    BY Zenon, <1>1, <1>2, Updated DEF InitTracing, Faults, StatusInv
  <2>2. QED
    BY Zenon, <1>1, <1>2, <2>1, MessageStep DEF TypeOK
<1>3. CASE UNCHANGED <<control, init_intr, taken, written>>
  <2>1. InitTracing' /\ FileInv' /\ StatusInv'
    BY Zenon, <1>1, <1>3 DEF InitTracing, Faults, FileInv, StatusInv, control
  <2>2. QED
    BY Zenon, <1>1, <1>3, <2>1, MessageStep DEF TypeOK, control
<1>4. QED
  BY <1>2, <1>3, Zenon DEF request_stop

\* EXIT.
LEMMA ExitStep ==
  ASSUME MonitorInv, loop # "gone", request_exit, UNCHANGED <<tables, count, burst, world>>
  PROVE  MonitorInv'
<1>1. /\ TypeOK /\ InitTracing /\ StatusInv /\ FileInv /\ tracing_state' = "EXITING"
      /\ stop_reason' = "user requested" /\ loop' = "draining"
      /\ UNCHANGED <<status, init, proc>> /\ update_status
  BY Zenon DEF MonitorInv, request_exit
<1>2. ProcsInv'
  BY Zenon, <1>1, SameProcs
<1>3. InitTracing' /\ FileInv' /\ StatusInv'
  BY Zenon, <1>1, Updated DEF InitTracing, Faults, StatusInv
<1>4. QED
  BY Zenon, <1>1, <1>2, <1>3, MessageStep DEF TypeOK, init

\* The reports of the injector and of the daemon: flags of the status only.
LEMMA SetStatusStep ==
  ASSUME MonitorInv, loop # "gone", UNCHANGED <<loop, tables, count, burst, world>>,
         NEW st \in Statuses, st.daemon_pid = status.daemon_pid,
         st.supported = status.supported, st.daemon_running => status.daemon_running,
         SetStatus(st)
  PROVE  MonitorInv'
<1>1. /\ TypeOK /\ InitTracing /\ StatusInv /\ FileInv /\ status' = st
      /\ UNCHANGED <<control, init, proc>> /\ update_status
  BY DEF MonitorInv, SetStatus
<1>2. ProcsInv'
  BY <1>1, SameProcs
<1>3. InitTracing' /\ FileInv' /\ StatusInv'
  BY Zenon, <1>1, Updated DEF InitTracing, Faults, StatusInv, control, init
<1>4. QED
  BY Zenon, <1>1, <1>2, <1>3, MessageStep DEF TypeOK, control, init

\* A report of the daemon or of the injector.
LEMMA ReportStep ==
  ASSUME MonitorInv, loop # "gone", UNCHANGED <<loop, tables, count, burst, world>>,
         notify_injected \/ set_daemon_info \/ set_daemon_crashed
  PROVE  MonitorInv'
<1>1. status \in Statuses
  BY Zenon DEF MonitorInv, TypeOK
<1>2. PICK st : /\ SetStatus(st)
                /\ \/ st = [status EXCEPT !.zygote_injected = TRUE]
                   \/ st = [status EXCEPT !.daemon_info = "info"]
                   \/ st = [status EXCEPT !.daemon_running = FALSE, !.daemon_error_info = "error"]
  BY Zenon DEF notify_injected, set_daemon_info, set_daemon_crashed
<1>3. /\ st \in Statuses /\ st.daemon_pid = status.daemon_pid
      /\ st.supported = status.supported /\ (st.daemon_running => status.daemon_running)
  BY ONLY Zenon, <1>1, <1>2 DEF Statuses
<1>4. QED
  BY <1>2, <1>3, SetStatusStep

\* A running process that gets one more injector is as sane and as placed as before.
LEMMA Attached ==
  ASSUME NEW old \in Processes, NEW r, r = [old EXCEPT !.att = OneMore(old.att)],
         Sane(old), old.prog \notin DaemonProgs
  PROVE  /\ r \in Processes /\ Sane(r) /\ r.prog \notin DaemonProgs
         /\ r.traced = old.traced /\ r.run = old.run
<1>1. OneMore(old.att) \in 0 .. MaxEntries
  <2>1. old.att \in 0 .. MaxEntries /\ MaxEntries \in Nat
    BY RetryAssumption DEF Processes
  <2>2. PICK n : n = old.att
    OBVIOUS
  <2>3. (IF n < MaxEntries THEN n + 1 ELSE n) \in 0 .. MaxEntries
    BY ONLY <2>1, <2>2
  <2>4. QED
    BY <2>2, <2>3 DEF OneMore
<1>2. PICK n \in 0 .. MaxEntries : n = OneMore(old.att)
  BY <1>1
<1>3. /\ r \in Processes /\ r.prog = old.prog /\ r.traced = old.traced /\ r.run = old.run
  BY ONLY <1>2, r = [old EXCEPT !.att = OneMore(old.att)], old \in Processes DEF Processes
<1>4. QED
  BY <1>3 DEF Sane

\* rearm starts injectors for zygotes and the system_server only.
LEMMA RearmTargetsFacts ==
  ASSUME NEW targets \in RearmTargets, NEW q \in targets
  PROVE  q \in Pids /\ proc[q].prog \in {"zygote", "system_server"}
<1>1. CASE targets \subseteq Bare
  BY <1>1 DEF Bare, Zygotes, Live
<1>2. CASE \E s \in SystemServers : targets = Bare \cup {s}
  BY <1>2 DEF Bare, Zygotes, SystemServers, Live
<1>3. QED
  BY <1>1, <1>2 DEF RearmTargets

\* REARM that works, for the processes.
LEMMA RearmProcs ==
  ASSUME MonitorInv, loop' = loop, UNCHANGED tables, NEW new, Started(new),
         NEW targets \in RearmTargets, NEW forked \in SUBSET targets,
         proc' = WithDaemon(AttachRunning(forked), new)
  PROVE  ProcsInv'
<1>1. /\ proc \in [Pids -> Processes] /\ process_' = process_ /\ stub_processes_' = stub_processes_
  BY Zenon DEF MonitorInv, TypeOK, tables
<1>2. proc' = [q \in Pids |-> IF q \in new THEN Daemon
                              ELSE IF q \in forked THEN [proc[q] EXCEPT !.att = OneMore(@)]
                              ELSE proc[q]]
  BY DEF WithDaemon, AttachRunning
<1>3. ASSUME NEW q \in Pids
      PROVE  proc'[q] \in Processes /\ ProcessInv(q)'
  <2>1. CASE q \in new
    <3>1. proc'[q] = Daemon
      BY <1>2, <2>1
    <3>2. QED
      BY <1>1, <2>1, <3>1, BecomesDaemon, DaemonSane
  <2>2. CASE q \notin new /\ q \in forked
    <3>1. PICK r : r = [proc[q] EXCEPT !.att = OneMore(proc[q].att)]
      BY Zenon
    <3>2. proc'[q] = r
      BY <1>2, <2>2, <3>1
    <3>3. proc[q] \in Processes /\ ProcessInv(q) /\ Sane(proc[q]) /\ q # NoPid
      BY <1>1, PidsAssumption DEF MonitorInv, ProcessInv
    <3>4. proc[q].prog \in {"zygote", "system_server"}
      BY <2>2, RearmTargetsFacts
    <3>5. proc[q].prog \notin DaemonProgs
      BY <3>4 DEF DaemonProgs
    <3>6. /\ r \in Processes /\ Sane(r) /\ r.prog \notin DaemonProgs
          /\ r.traced = proc[q].traced /\ r.run = proc[q].run
      BY <3>1, <3>3, <3>5, Attached
    <3>7. loop # "gone" => q # status'.daemon_pid
      BY <2>2, <3>3, <3>5 DEF Started, ProcessInv, Placed
    <3>8. QED
      BY <1>1, <3>2, <3>3, <3>6, <3>7 DEF ProcessInv, Placed
  <2>3. CASE q \notin new /\ q \notin forked
    <3>1. proc'[q] = proc[q]
      BY <1>2, <2>3
    <3>2. QED
      BY <1>1, <2>3, <3>1, Untouched
  <2>4. QED
    BY <2>1, <2>2, <2>3
<1>4. proc' \in [Pids -> Processes]
  <2>1. proc' = [q \in Pids |-> proc'[q]]
    BY <1>2
  <2>2. QED
    BY ONLY <1>3, <2>1
<1>5. QED
  BY <1>3, <1>4 DEF ProcsInv

\* REARM: init is seized again if it had been let go, the daemon ensured, and
\* the stop is either lifted or, when the daemon cannot be had, asked for.
LEMMA RearmStep ==
  ASSUME MonitorInv, loop # "gone", request_rearm, UNCHANGED <<loop, tables, count, burst, world>>
  PROVE  MonitorInv'
<1>1. /\ TypeOK /\ InitTracing /\ FileInv /\ Faults' = Faults
      /\ status \in Statuses /\ status.zygote_injected \in BOOLEAN
  BY Zenon DEF MonitorInv, TypeOK, Statuses, Faults
<1>2. /\ init_traced' \in BOOLEAN
      /\ tracing_state # "STOPPED" => init_traced' = init_traced
      /\ "seize" \notin Faults /\ tracing_state = "STOPPED" => init_traced'
      /\ taken' = FALSE /\ init_stop' = init_stop
      /\ \E new \in SUBSET Pids : RearmFails(new) \/ RearmWorks(new)
  BY Zenon, <1>1 DEF request_rearm, Rearm, SeizeInit, TypeOK
<1>3. PICK new \in SUBSET Pids : RearmFails(new) \/ RearmWorks(new)
  BY <1>2
<1>4. FileInv'
  <2>1. Kept(written) /\ loop' # "gone"
    BY Zenon, <1>1 DEF FileInv
  <2>2. PICK text, lifted :
          /\ text = Render(tracing_state', stop_reason', status')
          /\ lifted = Render(IF tracing_state = "EXITING" THEN "EXITING" ELSE "TRACING",
                             stop_reason, status)
    BY Zenon
  <2>3. PICK w : /\ w = written \/ w \in Outcomes(written, lifted)
                 /\ written' \in Outcomes(w, text)
    <3>1. PICK w \in IF tracing_state = "TRACING" THEN {written} ELSE Outcomes(written, lifted) :
            written' \in Outcomes(w, text)
      BY Zenon, <2>2 DEF request_rearm, Rearm
    <3>2. QED
      BY Zenon, <3>1
  <2>4. Kept(w)
    BY Zenon, <2>1, <2>3, OutcomeFacts
  <2>5. Kept(written') /\ written'.last = text
    BY Zenon, <2>3, <2>4, OutcomeFacts
  <2>6. QED
    BY Zenon, <2>2, <2>5 DEF FileInv
<1>5. CASE RearmFails(new)
  <2>1. PICK ok \in BOOLEAN : ensure_daemon_created(ok, new, status.zygote_injected) /\ ~ok
    BY <1>5, Zenon DEF RearmFails
  <2>2. status' \in Statuses /\ StatusInv' /\ Started(new) /\ new = {}
    BY <1>1, <2>1, EnsureFacts
  <2>3. proc' = proc /\ status'.daemon_pid = status.daemon_pid
    BY Zenon, <1>5, <2>2 DEF RearmFails, Started
  <2>4. ProcsInv'
    BY <2>3, SameProcs
  <2>5. /\ \/ tracing_state = "EXITING" /\ tracing_state' = "EXITING"
           \/ tracing_state # "EXITING" /\ tracing_state' = "STOPPING"
        /\ stop_reason' \in {stop_reason, "rearm failed"}
        /\ init_intr' \in BOOLEAN
        /\ tracing_state # "EXITING" /\ init_traced' => init_intr'
    BY <1>5, Zenon DEF RearmFails
  <2>6. InitTracing'
    <3>1. tracing_state \in {"TRACING", "STOPPING", "STOPPED", "EXITING"}
      BY Zenon, <1>1 DEF TypeOK
    <3>2. CASE tracing_state' = "EXITING"
      BY ONLY Zenon, <3>2 DEF InitTracing
    <3>3. CASE tracing_state # "EXITING" /\ tracing_state' = "STOPPING"
      <4>1. "seize" \in Faults \/ init_traced'
        <5>1. CASE tracing_state = "STOPPED"
          BY Zenon, <1>2, <5>1
        <5>2. CASE tracing_state # "STOPPED"
          <6>1. tracing_state \in {"TRACING", "STOPPING"}
            BY Zenon, <3>1, <3>3, <5>2
          <6>2. "seize" \in Faults \/ init_traced
            BY Zenon, <1>1, <6>1 DEF InitTracing
          <6>3. init_traced' = init_traced
            BY Zenon, <1>2, <5>2
          <6>4. QED
            BY ONLY <6>2, <6>3
        <5>3. QED
          BY Zenon, <5>1, <5>2
      <4>2. init_traced' => init_intr'
        BY Zenon, <2>5, <3>3
      <4>3. QED
        BY Zenon, <1>1, <3>3, <4>1, <4>2 DEF InitTracing
    <3>4. QED
      BY Zenon, <2>5, <3>2, <3>3
  <2>7. QED
    BY Zenon, <1>1, <1>2, <1>4, <2>2, <2>4, <2>5, <2>6, MessageStep DEF TypeOK
<1>6. CASE RearmWorks(new)
  <2>1. PICK ok \in BOOLEAN, targets \in RearmTargets :
          /\ ensure_daemon_created(ok, new, status.zygote_injected \/ Zygotes # Bare)
          /\ tracing_state' = IF tracing_state = "EXITING" THEN "EXITING" ELSE "TRACING"
          /\ \E forked \in SUBSET targets : proc' = WithDaemon(AttachRunning(forked), new)
          /\ UNCHANGED <<stop_reason, init_intr>>
    BY <1>6, Zenon DEF RearmWorks
  <2>2. PICK b \in BOOLEAN : b = (status.zygote_injected \/ Zygotes # Bare)
    BY Zenon
  <2>3. status' \in Statuses /\ StatusInv' /\ Started(new)
    BY Zenon, <2>1, <2>2, EnsureFacts
  <2>4. ProcsInv'
    BY <2>1, <2>3, RearmProcs
  <2>5. InitTracing'
    <3>1. tracing_state \in {"TRACING", "STOPPING", "STOPPED", "EXITING"}
      BY Zenon, <1>1 DEF TypeOK
    <3>2. QED
      BY <1>1, <1>2, <2>1, <3>1 DEF InitTracing
  <2>6. tracing_state' \in {"EXITING", "TRACING"}
    BY <2>1
  <2>7. QED
    BY Zenon, <1>1, <1>2, <1>4, <2>1, <2>3, <2>4, <2>5, <2>6, MessageStep DEF TypeOK
<1>7. QED
  BY <1>3, <1>5, <1>6

\* Every datagram keeps the invariant, also those read after EXIT.
LEMMA HandleMessageStep == MonitorInv /\ HandleMessage => MonitorInv'
<1> SUFFICES ASSUME MonitorInv, HandleMessage
             PROVE  MonitorInv'
  OBVIOUS
<1>1. loop # "gone" /\ UNCHANGED <<tables, count, burst, world>>
  BY Zenon DEF HandleMessage
<1>2. CASE request_start /\ UNCHANGED loop
  BY <1>1, <1>2, StartStep
<1>3. CASE request_stop("user requested") /\ UNCHANGED <<loop, status, init_traced, init_stop, proc>>
  BY Zenon, <1>1, <1>3, StopStep
<1>4. CASE request_exit
  BY <1>1, <1>4, ExitStep
<1>5. CASE request_rearm /\ UNCHANGED loop
  BY <1>1, <1>5, RearmStep
<1>6. CASE (notify_injected \/ set_daemon_info \/ set_daemon_crashed) /\ UNCHANGED loop
  BY <1>1, <1>6, ReportStep
<1>7. CASE UNCHANGED <<control, status, written, loop, init, proc>>
  <2>1. ProcsInv' /\ process_' \subseteq Pids /\ stub_processes_' \subseteq Pids
    BY Zenon, <1>1, <1>7, SameProcs DEF MonitorInv, TypeOK, tables
  <2>2. QED
    BY <1>1, <1>7, <2>1, CalmStep, SameCounts
<1>8. QED
  BY <1>2, <1>3, <1>4, <1>5, <1>6, <1>7, Zenon DEF HandleMessage

------------------------------------------------------------------------------
(* The environment.                                                         *)

\* What the environment may do to a process old, leaving r: it neither makes nor
\* unmakes a daemon, and neither detaches a tracee nor resumes one.
Moves(old, r) ==
  /\ r \in Processes /\ Sane(r)
  /\ loop # "gone" =>
       /\ r.prog \in DaemonProgs <=> old.prog \in DaemonProgs
       /\ old.traced => r.traced
       /\ r.traced /\ r.run = "run" => old.traced /\ old.run = "run"

\* A process that does nothing moves as a process may.
LEMMA Rests ==
  ASSUME MonitorInv, NEW q \in Pids
  PROVE  Moves(proc[q], proc[q])
BY Zenon DEF MonitorInv, TypeOK, ProcessInv, Moves

\* Init's half of an environment step.
InitMoves ==
  /\ init_traced' \in BOOLEAN /\ init_intr' \in BOOLEAN /\ taken' \in BOOLEAN
  /\ init_stop' \in Stops \cup {"run"}
  /\ InitTracing'

\* So does init.
LEMMA InitRests ==
  ASSUME MonitorInv, UNCHANGED <<monitor, init>>
  PROVE  InitMoves
BY Zenon DEF MonitorInv, TypeOK, InitTracing, Faults, InitMoves, monitor, control, init

\* Such moves keep the invariant.
LEMMA MovesStep ==
  ASSUME MonitorInv, UNCHANGED monitor, InitMoves,
         proc' = [q \in Pids |-> proc'[q]], \A q \in Pids : Moves(proc[q], proc'[q])
  PROVE  MonitorInv'
<1>1. /\ UNCHANGED <<control, status, count, written, loop, burst>>
      /\ process_' = process_ /\ stub_processes_' = stub_processes_
      /\ tracing_state' = tracing_state /\ stop_reason' = stop_reason
  BY DEF monitor, tables, control
<1>2. proc' \in [Pids -> Processes]
  <2>1. \A q \in Pids : proc'[q] \in Processes
    BY DEF Moves
  <2>2. QED
    BY ONLY <2>1, proc' = [q \in Pids |-> proc'[q]]
<1>3. TypeOK'
  BY Zenon, <1>1, <1>2 DEF MonitorInv, TypeOK, InitMoves
<1>4. FileInv' /\ StatusInv' /\ CountInv'
  BY <1>1 DEF MonitorInv, FileInv, StatusInv, CountInv
<1>5. ASSUME NEW q \in Pids
      PROVE  ProcessInv(q)'
  <2>1. ProcessInv(q) /\ Moves(proc[q], proc'[q])
    BY DEF MonitorInv
  <2>2. QED
    BY <1>1, <2>1 DEF ProcessInv, Placed, Moves
<1>6. QED
  BY <1>3, <1>4, <1>5 DEF MonitorInv, InitMoves

\* One process moves.
LEMMA MoveStep ==
  ASSUME MonitorInv, UNCHANGED monitor, InitMoves, NEW p \in Pids, NEW r,
         proc' = [proc EXCEPT ![p] = r], Moves(proc[p], r)
  PROVE  MonitorInv'
<1>1. proc \in [Pids -> Processes]
  BY Zenon DEF MonitorInv, TypeOK
<1>2. proc' = [q \in Pids |-> proc'[q]] /\ proc'[p] = r /\ \A q \in Pids \ {p} : proc'[q] = proc[q]
  BY ONLY Zenon, <1>1, proc' = [proc EXCEPT ![p] = r], p \in Pids
<1>3. \A q \in Pids : Moves(proc[q], proc'[q])
  BY <1>2, Rests
<1>4. QED
  BY <1>2, <1>3, MovesStep

\* Nothing but the socket, or init's stop.
LEMMA StillStep ==
  ASSUME MonitorInv, UNCHANGED monitor, InitMoves, UNCHANGED proc
  PROVE  MonitorInv'
<1>1. proc' = [q \in Pids |-> proc'[q]] /\ \A q \in Pids : proc'[q] = proc[q]
  BY Zenon DEF MonitorInv, TypeOK
<1>2. QED
  BY <1>1, Rests, MovesStep

\* A pending interrupt stops init, with the trap that ends the tracing; another stop
\* takes the trap, and the history says so.
LEMMA InitTrapsStep == MonitorInv /\ (InitTraps \/ InitSignalled) => MonitorInv'
<1> SUFFICES ASSUME MonitorInv, InitTraps \/ InitSignalled
             PROVE  MonitorInv'
  OBVIOUS
<1>1. /\ UNCHANGED monitor /\ UNCHANGED proc /\ init_traced' = init_traced /\ init_traced
      /\ init_stop = "run"
      /\ init_intr' = FALSE
      /\ \/ init_stop' = "estop" /\ taken' = taken
         \/ /\ init_stop' \in {"jobctl", "signal"}
            /\ taken' = (taken \/ (init_intr /\ tracing_state = "STOPPING"))
  BY Zenon DEF InitTraps, InitSignalled, TakesTrap
<1>2. /\ TypeOK /\ InitTracing /\ loop' = loop /\ tracing_state' = tracing_state
      /\ Faults' = Faults
  BY <1>1 DEF MonitorInv, monitor, control, Faults
<1>3. InitMoves
  <2>1. InitTracing'
    BY <1>1, <1>2 DEF InitTracing
  <2>2. QED
    BY Zenon, <1>1, <1>2, <2>1 DEF InitMoves, TypeOK, Stops
<1>4. QED
  BY <1>1, <1>3, StillStep

\* A child forked by a traced parent is a stopped tracee, the other runs free.
LEMMA ChildMoves ==
  ASSUME MonitorInv, NEW p \in Pids, Free(p), NEW parent \in Pids \cup {"init"},
         NEW t \in BOOLEAN
  PROVE  Moves(proc[p], Child(parent, t))
<1>1. PICK n : n = NoProcess
  OBVIOUS
<1>2. n \in Processes
  BY <1>1, FreeSane
<1>3. PICK g \in {"estop", "run"} : g = IF t THEN "estop" ELSE "run"
  BY Zenon
<1>4. PICK c : c = [n EXCEPT !.prog = "pre", !.ppid = parent, !.traced = t, !.run = g]
  OBVIOUS
<1>5. Child(parent, t) = c
  BY <1>1, <1>3, <1>4 DEF Child
<1>6. c \in Processes /\ c.prog = "pre" /\ c.traced = t /\ c.run = g
  BY ONLY ZenonT(40), <1>2, <1>3, <1>4, parent \in Pids \cup {"init"}, t \in BOOLEAN
     DEF Processes, Reportable, Stops
<1>7. ~proc[p].traced /\ proc[p].prog = "none"
  BY DEF MonitorInv, ProcessInv, Sane, Free
<1>8. Moves(proc[p], c)
  BY <1>3, <1>6, <1>7 DEF Moves, Sane, Stops, DaemonProgs
<1>9. QED
  BY <1>5, <1>8

\* Init forks.
LEMMA InitForksStep ==
  ASSUME MonitorInv, NEW p \in Pids, InitForks(p)
  PROVE  MonitorInv'
<1>1. /\ UNCHANGED <<monitor, init_traced>> /\ Free(p) /\ init_stop = "run"
      /\ IF init_traced THEN TakesTrap ELSE UNCHANGED <<init_intr, taken>>
      /\ proc' = [proc EXCEPT ![p] = Child("init", init_traced)]
      /\ init_stop' = IF init_traced THEN "fork" ELSE "run"
  BY DEF InitForks
<1>2. /\ TypeOK /\ InitTracing /\ loop' = loop /\ tracing_state' = tracing_state
      /\ Faults' = Faults
  BY <1>1 DEF MonitorInv, monitor, control, Faults
<1>3. init_stop' \in {"fork", "run"}
  BY <1>1, Zenon
<1>4. InitMoves
  BY Zenon, <1>1, <1>2, <1>3 DEF InitMoves, InitTracing, TakesTrap, TypeOK, Stops
<1>5. Moves(proc[p], Child("init", init_traced))
  BY Zenon, <1>1, <1>2, ChildMoves DEF TypeOK
<1>6. QED
  BY Zenon, <1>1, <1>4, <1>5, MoveStep

\* A stub forks: its child is new, and the stub itself stops if it is traced.
LEMMA StubForksStep ==
  ASSUME MonitorInv, NEW s \in Pids, NEW p \in Pids, StubForks(s, p)
  PROVE  MonitorInv'
<1>1. /\ UNCHANGED <<monitor, init>> /\ Free(p) /\ proc[s].prog = "stub" /\ proc[s].run = "run"
      /\ proc' = [proc EXCEPT ![p] = Child(s, proc[s].traced),
                    ![s].run = IF proc[s].traced THEN "fork" ELSE "run"]
  BY DEF StubForks
<1>2. proc \in [Pids -> Processes] /\ proc[s] \in Processes /\ Sane(proc[s]) /\ s # p
  BY Zenon, <1>1 DEF MonitorInv, TypeOK, ProcessInv, Free
<1>3. PICK g \in {"fork", "run"} : g = IF proc[s].traced THEN "fork" ELSE "run"
  BY Zenon
<1>4. PICK r : r = [proc[s] EXCEPT !.run = g]
  BY Zenon
<1>5. PICK c : c = Child(s, proc[s].traced)
  OBVIOUS
<1>6. /\ proc' = [q \in Pids |-> proc'[q]] /\ proc'[p] = c /\ proc'[s] = r
      /\ \A q \in Pids \ {p, s} : proc'[q] = proc[q]
  BY ONLY Zenon, <1>1, <1>2, <1>3, <1>4, <1>5, s \in Pids, p \in Pids DEF Processes
<1>7. Moves(proc[p], c)
  <2>1. proc[s].traced \in BOOLEAN
    BY <1>2 DEF Processes
  <2>2. QED
    BY <1>1, <1>5, <2>1, ChildMoves
<1>8. Moves(proc[s], r)
  <2>1. r \in Processes /\ r.prog = proc[s].prog /\ r.traced = proc[s].traced /\ r.run = g
    BY ONLY <1>2, <1>3, <1>4 DEF Processes, Reportable, Stops
  <2>2. QED
    BY <1>1, <1>2, <1>3, <2>1 DEF Moves, Sane, Stops, DaemonProgs
<1>9. \A q \in Pids : Moves(proc[q], proc'[q])
  BY <1>6, <1>7, <1>8, Rests
<1>10. QED
  BY Zenon, <1>1, <1>6, <1>9, InitRests, MovesStep

\* A program is exec'ed; it is never the daemon's.
LEMMA ExecStep ==
  ASSUME MonitorInv, world \in Worlds, NEW p \in Pids, Exec(p)
  PROVE  MonitorInv'
<1>1. /\ UNCHANGED <<monitor, init>> /\ proc[p].prog \in {"pre", "stub"} /\ proc[p].run = "run"
      /\ proc \in [Pids -> Processes] /\ proc[p] \in Processes /\ Sane(proc[p])
  BY Zenon DEF Exec, MonitorInv, TypeOK, ProcessInv
<1>2. PICK g \in Programs \ {"system_server"} :
        proc' = [proc EXCEPT ![p].prog = g, ![p].run = IF proc[p].traced THEN "exec" ELSE "run"]
  BY Zenon DEF Exec
<1>3. g \in {"stub", "zygote", "hyos", "other"}
  BY WorldsAssumption DEF Programs
<1>4. PICK e \in {"exec", "run"} : e = IF proc[p].traced THEN "exec" ELSE "run"
  BY Zenon
<1>5. PICK r : r = [proc[p] EXCEPT !.prog = g, !.run = e]
  OBVIOUS
<1>6. proc' = [proc EXCEPT ![p] = r]
  BY ONLY Zenon, <1>1, <1>2, <1>4, <1>5, p \in Pids DEF Processes
<1>7. r \in Processes /\ r.prog = g /\ r.traced = proc[p].traced /\ r.run = e
  BY ONLY Zenon, <1>1, <1>3, <1>4, <1>5 DEF Processes, Reportable, Stops
<1>8. Moves(proc[p], r)
  BY <1>1, <1>3, <1>4, <1>7 DEF Moves, Sane, Stops, DaemonProgs
<1>9. QED
  BY Zenon, <1>1, <1>6, <1>8, InitRests, MoveStep

\* A signal stops a running tracee.
LEMMA SignalledStep ==
  ASSUME MonitorInv, NEW p \in Pids, Signalled(p)
  PROVE  MonitorInv'
<1>1. /\ UNCHANGED <<monitor, init>> /\ proc[p].traced /\ proc[p].run = "run"
      /\ proc \in [Pids -> Processes] /\ proc[p] \in Processes /\ Sane(proc[p])
  BY Zenon DEF Signalled, MonitorInv, TypeOK, ProcessInv
<1>2. PICK g \in {"jobctl", "signal"} : proc' = [proc EXCEPT ![p].run = g]
  BY Zenon DEF Signalled
<1>3. PICK r : r = [proc[p] EXCEPT !.run = g]
  BY Zenon
<1>4. proc' = [proc EXCEPT ![p] = r]
  BY ONLY <1>1, <1>2, <1>3, p \in Pids DEF Processes
<1>5. r \in Processes /\ r.prog = proc[p].prog /\ r.traced = proc[p].traced /\ r.run = g
  BY ONLY Zenon, <1>1, <1>2, <1>3 DEF Processes, Reportable, Stops
<1>6. Moves(proc[p], r)
  BY <1>1, <1>2, <1>5 DEF Moves, Sane, Stops, DaemonProgs
<1>7. QED
  BY Zenon, <1>1, <1>4, <1>6, InitRests, MoveStep

\* A process ends: a tracee and the daemon stay zombies until the monitor has
\* reaped them, and orphans pass to init.
LEMMA ExitsStep ==
  ASSUME MonitorInv, NEW p \in Pids, Exit(p)
  PROVE  MonitorInv'
<1>1. /\ UNCHANGED <<monitor, init>> /\ proc[p].run # "free"
      /\ proc \in [Pids -> Processes] /\ \A q \in Pids : proc[q] \in Processes /\ Sane(proc[q])
  BY Zenon DEF Exit, Alive, MonitorInv, TypeOK, ProcessInv
<1>2. PICK seen \in BOOLEAN :
        /\ seen = (loop # "gone" /\ (proc[p].traced \/ proc[p].ppid = "monitor"))
        /\ proc' = [q \in Pids |->
             IF q = p THEN IF seen THEN [proc[p] EXCEPT !.run = "exit"] ELSE NoProcess
             ELSE IF proc[q].ppid = p THEN [proc[q] EXCEPT !.ppid = "init"]
             ELSE proc[q]]
  <2>1. PICK seen \in BOOLEAN :
          seen = (loop # "gone" /\ (proc[p].traced \/ proc[p].ppid = "monitor"))
    BY Zenon
  <2>2. QED
    BY <2>1, Zenon DEF Exit
<1>3. Moves(proc[p], proc'[p])
  <2>1. CASE seen
    <3>1. PICK r : r = [proc[p] EXCEPT !.run = "exit"]
      BY Zenon
    <3>2. proc'[p] = r
      BY <1>2, <2>1, <3>1
    <3>3. /\ r \in Processes /\ r.prog = proc[p].prog /\ r.traced = proc[p].traced
          /\ r.run = "exit" /\ r.inj = proc[p].inj /\ r.att = proc[p].att
          /\ r.ppid = proc[p].ppid
      BY ONLY <1>1, <3>1, p \in Pids DEF Processes, Reportable
    <3>4. QED
      BY Zenon, <1>1, <3>2, <3>3 DEF Moves, Sane, Stops
  <2>2. CASE ~seen
    <3>1. proc'[p] = NoProcess
      BY <1>2, <2>2
    <3>2. loop # "gone" => ~proc[p].traced /\ proc[p].ppid # "monitor"
      BY <1>2, <2>2, Zenon
    <3>3. loop # "gone" => proc[p].prog \notin DaemonProgs
      BY <1>1, <3>2 DEF Sane
    <3>4. QED
      BY <3>1, <3>2, <3>3, FreeSane DEF Moves, DaemonProgs
  <2>3. QED
    BY <2>1, <2>2
<1>4. ASSUME NEW q \in Pids, q # p
      PROVE  Moves(proc[q], proc'[q])
  <2>1. CASE proc[q].ppid = p
    <3>1. PICK r : r = [proc[q] EXCEPT !.ppid = "init"]
      BY Zenon
    <3>2. proc'[q] = r
      BY <1>2, <1>4, <2>1, <3>1
    <3>3. /\ r \in Processes /\ r.prog = proc[q].prog /\ r.traced = proc[q].traced
          /\ r.run = proc[q].run
      BY ONLY <1>1, <3>1, q \in Pids DEF Processes
    <3>4. proc[q].prog \notin DaemonProgs
      BY <1>1, <2>1, PidsAssumption DEF Sane
    <3>5. QED
      BY <1>1, <3>2, <3>3, <3>4 DEF Moves, Sane
  <2>2. CASE proc[q].ppid # p
    <3>1. proc'[q] = proc[q]
      BY <1>2, <1>4, <2>2
    <3>2. QED
      BY <3>1, Rests
  <2>3. QED
    BY <2>1, <2>2
<1>5. proc' = [q \in Pids |-> proc'[q]]
  BY <1>2
<1>6. \A q \in Pids : Moves(proc[q], proc'[q])
  BY <1>3, <1>4
<1>7. QED
  BY <1>1, <1>5, <1>6, InitRests, MovesStep

\* The zygote forks its system_server, which nobody traces.
LEMMA ForkSystemServerStep ==
  ASSUME MonitorInv, NEW z \in Pids, NEW p \in Pids, ForkSystemServer(z, p)
  PROVE  MonitorInv'
<1>1. PICK n : n = NoProcess
  OBVIOUS
<1>2. PICK r : r = [n EXCEPT !.prog = "system_server", !.ppid = z, !.run = "run",
                             !.hooked = proc[z].hooked]
  OBVIOUS
<1>3. UNCHANGED <<monitor, init>> /\ Free(p) /\ proc' = [proc EXCEPT ![p] = r]
  BY <1>1, <1>2, Zenon DEF ForkSystemServer
<1>4. n \in Processes /\ ~n.traced /\ proc[z].hooked \in BOOLEAN
  BY Zenon, <1>1, FreeSane DEF MonitorInv, TypeOK, Processes
<1>5. r \in Processes /\ r.prog = "system_server" /\ ~r.traced /\ r.run = "run"
  BY ONLY Zenon, <1>2, <1>4, z \in Pids DEF Processes
<1>6. ~proc[p].traced /\ proc[p].prog = "none"
  BY <1>3 DEF MonitorInv, ProcessInv, Sane, Free
<1>7. Moves(proc[p], r)
  BY Zenon, <1>5, <1>6 DEF Moves, Sane, Stops, DaemonProgs
<1>8. QED
  BY Zenon, <1>3, <1>7, InitRests, MoveStep

\* The daemon comes up.
LEMMA DaemonReportsStep ==
  ASSUME MonitorInv, NEW d \in Pids, DaemonReports(d)
  PROVE  MonitorInv'
<1>1. /\ UNCHANGED <<monitor, init>> /\ proc[d].prog = "starting" /\ proc[d].run = "run"
      /\ proc \in [Pids -> Processes] /\ proc[d] \in Processes /\ Sane(proc[d])
      /\ proc' = [proc EXCEPT ![d].prog = "daemon"]
  BY Zenon DEF DaemonReports, MonitorInv, TypeOK, ProcessInv
<1>2. PICK r : r = [proc[d] EXCEPT !.prog = "daemon"]
  BY Zenon
<1>3. proc' = [proc EXCEPT ![d] = r]
  BY ONLY <1>1, <1>2, d \in Pids DEF Processes
<1>4. /\ r \in Processes /\ r.prog = "daemon" /\ r.traced = proc[d].traced
      /\ r.run = proc[d].run /\ r.inj = proc[d].inj /\ r.att = proc[d].att
      /\ r.ppid = proc[d].ppid
  BY ONLY <1>1, <1>2 DEF Processes, DaemonProgs
<1>5. Moves(proc[d], r)
  BY <1>1, <1>4 DEF Moves, Sane, Stops, DaemonProgs
<1>6. QED
  BY Zenon, <1>1, <1>3, <1>5, InitRests, MoveStep

\* An injector's target, after it was entered or given up: no tracee of the
\* monitor is resumed by it, and it is never the daemon.
LEMMA Injected ==
  ASSUME MonitorInv, NEW p \in Pids, NEW after \in Processes,
         proc[p].inj \/ proc[p].att > 0,
         after.prog = proc[p].prog, after.traced = proc[p].traced,
         after.run = proc[p].run \/ (proc[p].run = "parked" /\ after.run = "run"),
         NEW r \in Processes, r.prog = after.prog, r.traced = after.traced, r.run = after.run
  PROVE  Moves(proc[p], r)
<1>1. proc[p] \in Processes /\ Sane(proc[p])
  BY Zenon DEF MonitorInv, TypeOK, ProcessInv
<1>2. proc[p].prog \notin DaemonProgs
  <2>1. CASE proc[p].inj
    BY <1>1, <2>1 DEF Sane
  <2>2. CASE proc[p].att > 0
    <3>1. proc[p].att # 0
      BY <2>2
    <3>2. QED
      BY <1>1, <3>1, Zenon DEF Sane
  <2>3. QED
    BY <2>1, <2>2
<1>3. QED
  BY Zenon, <1>1, <1>2 DEF Moves, Sane, Stops

\* The tracer is started for a process that was spawned, or that runs already.
LEMMA InjectStep ==
  ASSUME MonitorInv, NEW p \in Pids, InjectSpawned(p) \/ InjectRunning(p)
  PROVE  MonitorInv'
<1>1. /\ proc \in [Pids -> Processes] /\ proc[p] \in Processes
  BY Zenon DEF MonitorInv, TypeOK
<1>2. PICK after :
        /\ Enters(p, after) /\ after \in Processes /\ (proc[p].inj \/ proc[p].att > 0)
        /\ after.prog = proc[p].prog /\ after.traced = proc[p].traced
        /\ after.run = proc[p].run \/ (proc[p].run = "parked" /\ after.run = "run")
  <2>1. CASE InjectSpawned(p)
    <3>1. PICK after : after = [proc[p] EXCEPT !.inj = FALSE, !.run = "run"]
      OBVIOUS
    <3>2. /\ after \in Processes /\ after.prog = proc[p].prog /\ after.traced = proc[p].traced
          /\ after.run = "run"
      BY ONLY Zenon, <1>1, <3>1 DEF Processes
    <3>3. Enters(p, after) /\ proc[p].inj /\ proc[p].run = "parked"
      BY <2>1, <3>1, Zenon DEF InjectSpawned
    <3>4. QED
      BY <3>2, <3>3
  <2>2. CASE InjectRunning(p)
    <3>1. PICK n : n = proc[p].att - 1
      OBVIOUS
    <3>2. proc[p].att > 0
      BY <2>2, Zenon DEF InjectRunning
    <3>3. n \in 0 .. MaxEntries
      <4>1. proc[p].att \in 0 .. MaxEntries /\ MaxEntries \in Nat
        BY <1>1, RetryAssumption DEF Processes
      <4>2. QED
        BY ONLY <3>1, <3>2, <4>1
    <3>4. PICK after : after = [proc[p] EXCEPT !.att = n]
      BY Zenon
    <3>5. /\ after \in Processes /\ after.prog = proc[p].prog /\ after.traced = proc[p].traced
          /\ after.run = proc[p].run
      BY ONLY <1>1, <3>3, <3>4 DEF Processes
    <3>6. Enters(p, after)
      BY <2>2, <3>1, <3>4, Zenon DEF InjectRunning
    <3>7. QED
      BY <3>2, <3>5, <3>6
  <2>3. QED
    BY Zenon, <2>1, <2>2
<1>3. PICK hooks : /\ UNCHANGED <<monitor, init>> /\ hooks \in BOOLEAN
                   /\ proc' = [proc EXCEPT ![p] = [after EXCEPT !.mapped = TRUE, !.hooked = hooks]]
  <2>1. PICK hooks \in BOOLEAN :
          hooks = (\/ proc[p].hooked
                   \/ (\E d \in Live : proc[d].prog = "daemon") /\ proc[p].prog # "hyos"
                   \/ proc[p].prog = "hyos")
    BY Zenon
  <2>2. QED
    BY <1>2, <2>1, Zenon DEF Enters
<1>4. PICK r : r = [after EXCEPT !.mapped = TRUE, !.hooked = hooks]
  OBVIOUS
<1>5. r \in Processes /\ r.prog = after.prog /\ r.traced = after.traced /\ r.run = after.run
  BY ONLY Zenon, <1>2, <1>3, <1>4 DEF Processes
<1>6. Moves(proc[p], r)
  BY Zenon, <1>2, <1>5, Injected
<1>7. QED
  BY Zenon, <1>3, <1>4, <1>6, InitRests, MoveStep

\* An injector that fails lets a parked target run.
LEMMA InjectFailsStep ==
  ASSUME MonitorInv, NEW p \in Pids, InjectFails(p)
  PROVE  MonitorInv'
<1>1. /\ proc \in [Pids -> Processes] /\ proc[p] \in Processes /\ UNCHANGED <<monitor, init>>
      /\ proc[p].att \in 0 .. MaxEntries /\ MaxEntries \in Nat /\ proc[p].inj \in BOOLEAN
  BY Zenon, RetryAssumption DEF MonitorInv, TypeOK, InjectFails, Processes
<1>2. PICK after \in {[proc[p] EXCEPT !.inj = FALSE], [proc[p] EXCEPT !.att = @ - 1]} :
        /\ after.att >= 0 /\ after # proc[p]
        /\ proc' = [proc EXCEPT ![p] =
                      [after EXCEPT !.run = IF after.run = "parked" THEN "run" ELSE after.run]]
  BY Zenon DEF InjectFails
<1>3. /\ after \in Processes /\ after.prog = proc[p].prog /\ after.traced = proc[p].traced
      /\ after.run = proc[p].run /\ (proc[p].inj \/ proc[p].att > 0)
  <2>1. CASE after = [proc[p] EXCEPT !.inj = FALSE]
    <3>1. /\ after \in Processes /\ after.prog = proc[p].prog /\ after.traced = proc[p].traced
          /\ after.run = proc[p].run
      BY ONLY Zenon, <1>1, <2>1 DEF Processes
    <3>2. proc[p].inj = FALSE => after = proc[p]
      BY ONLY <1>1, <2>1 DEF Processes
    <3>3. QED
      BY <1>1, <1>2, <3>1, <3>2, Zenon
  <2>2. CASE after = [proc[p] EXCEPT !.att = @ - 1]
    <3>1. PICK n : n = proc[p].att - 1
      OBVIOUS
    <3>2. after = [proc[p] EXCEPT !.att = n]
      BY <2>2, <3>1
    <3>3. after.att = n
      BY ONLY <1>1, <3>2 DEF Processes
    <3>4. n >= 0
      BY <1>2, <3>3
    <3>5. n \in 0 .. MaxEntries /\ proc[p].att > 0
      BY ONLY <1>1, <3>1, <3>4
    <3>6. /\ after \in Processes /\ after.prog = proc[p].prog /\ after.traced = proc[p].traced
          /\ after.run = proc[p].run
      BY ONLY <1>1, <3>2, <3>5 DEF Processes
    <3>7. QED
      BY <3>5, <3>6
  <2>3. QED
    BY <1>2, <2>1, <2>2
<1>4. PICK g : g = IF after.run = "parked" THEN "run" ELSE after.run
  OBVIOUS
<1>5. PICK r : r = [after EXCEPT !.run = g]
  BY Zenon
<1>6. g \in Reportable \cup {"free", "run", "halt", "parked"}
  BY ONLY <1>3, <1>4 DEF Processes
<1>7. r \in Processes /\ r.prog = after.prog /\ r.traced = after.traced /\ r.run = g
  BY ONLY <1>3, <1>5, <1>6 DEF Processes
<1>8. Moves(proc[p], r)
  BY <1>3, <1>4, <1>7, Injected
<1>9. QED
  BY Zenon, <1>1, <1>2, <1>4, <1>5, <1>8, InitRests, MoveStep

\* A command reaches the socket.
LEMMA CtlStep == MonitorInv /\ Ctl => MonitorInv'
<1> SUFFICES ASSUME MonitorInv, Ctl
             PROVE  MonitorInv'
  OBVIOUS
<1>1. UNCHANGED <<monitor, init>> /\ UNCHANGED proc
  BY DEF Ctl
<1>2. QED
  BY <1>1, InitRests, StillStep

------------------------------------------------------------------------------
(* Every step, and the theorems.                                            *)

\* Every step keeps the invariant.
LEMMA MonitorNext == MonitorInv /\ world \in Worlds /\ [Next]_vars => MonitorInv'
<1> SUFFICES ASSUME MonitorInv, world \in Worlds, [Next]_vars
             PROVE  MonitorInv'
  OBVIOUS
<1>1. CASE MonitorStep
  BY <1>1, HandleMessageStep, HandleInitStep, LeaveStep, HandleChildStep DEF MonitorStep
<1>2. CASE InitTraps \/ InitSignalled \/ Ctl
  BY <1>2, InitTrapsStep, CtlStep
<1>3. CASE \E p \in Pids : \/ InitForks(p) \/ Exec(p) \/ Signalled(p) \/ Exit(p)
                           \/ DaemonReports(p) \/ InjectSpawned(p) \/ InjectRunning(p)
                           \/ InjectFails(p)
  BY <1>3, InitForksStep, ExecStep, SignalledStep, ExitsStep, DaemonReportsStep, InjectStep,
     InjectFailsStep
<1>4. CASE \E s, p \in Pids : StubForks(s, p) \/ ForkSystemServer(s, p)
  BY <1>4, StubForksStep, ForkSystemServerStep
<1>5. CASE UNCHANGED vars
  <2>1. UNCHANGED <<monitor, init>> /\ UNCHANGED proc
    BY <1>5 DEF vars, monitor, init, control, tables
  <2>2. QED
    BY <2>1, InitRests, StillStep
<1>6. QED
  BY <1>1, <1>2, <1>3, <1>4, <1>5, Zenon DEF Next, Environment

\* What may happen around the monitor is chosen once.
LEMMA WorldStays == Spec => [](world \in Worlds)
<1>1. Init => world \in Worlds
  BY Zenon DEF Init
<1>2. world \in Worlds /\ [Next]_vars => (world \in Worlds)'
  <2> SUFFICES ASSUME world \in Worlds, [Next]_vars
               PROVE  world' = world
    OBVIOUS
  <2>1. CASE MonitorStep
    BY Zenon, <2>1 DEF MonitorStep, HandleMessage, HandleInit, Leave, HandleChild
  <2>2. CASE Environment
    BY Zenon, <2>2 DEF Environment, InitTraps, InitSignalled, Ctl, InitForks, Exec, Signalled, Exit,
         DaemonReports, InjectSpawned, InjectRunning, Enters, InjectFails, StubForks,
         ForkSystemServer, monitor
  <2>3. CASE UNCHANGED vars
    BY <2>3 DEF vars
  <2>4. QED
    BY <2>1, <2>2, <2>3 DEF Next
<1>3. QED
  BY <1>1, <1>2, PTL DEF Spec

\* The invariant holds throughout.
LEMMA MonitorAlways == Spec => []MonitorInv
<1>1. Init => MonitorInv
  BY InitInv
<1>2. MonitorInv /\ world \in Worlds /\ [Next]_vars => MonitorInv'
  BY MonitorNext
<1>3. QED
  BY <1>1, <1>2, WorldStays, PTL DEF Spec

\* update_status has remembered the text of the present state after every datagram
\* and wait status, and the file has it unless the write of it failed:
\* handleParentEvent alone changes the tracing state without update_status, and only
\* where the text is the same.
THEOREM StatusFileCurrent == Spec => []StatusCurrent
<1>1. MonitorInv => StatusCurrent
  BY DEF MonitorInv, FileInv, Kept, StatusCurrent
<1>2. QED
  BY <1>1, MonitorAlways, PTL

\* As long as PTRACE_SEIZE succeeds, the monitor's tracing state never disagrees with
\* the kernel about init, however START, STOP, REARM and EXIT interleave with init's
\* own stops, and a stop request keeps its interrupt or its trap until the detach,
\* unless another stop of init takes it.
THEOREM InitKnown == Spec => []InitTracing
<1>1. MonitorInv => InitTracing
  BY DEF MonitorInv
<1>2. QED
  BY <1>1, MonitorAlways, PTL

\* There is never a second daemon, and daemon_pid names the one there is, or a
\* zombie still to be reaped: never a pid the kernel has given away.
THEOREM OneDaemon == Spec => []DaemonTracked
<1>1. MonitorInv => DaemonTracked
  <2> SUFFICES ASSUME MonitorInv, loop # "gone"
               PROVE  /\ \A p \in Pids : proc[p].prog \in DaemonProgs => p = status.daemon_pid
                      /\ status.daemon_pid # NoPid => proc[status.daemon_pid].prog \in DaemonProgs
                      /\ status.daemon_running => status.daemon_pid # NoPid
    BY DEF DaemonTracked
  <2>1. \A p \in Pids : proc[p].prog \in DaemonProgs <=> p = status.daemon_pid
    BY DEF MonitorInv, ProcessInv, Placed
  <2>2. status.daemon_pid \in Pids \cup {NoPid}
    BY Zenon DEF MonitorInv, TypeOK, Statuses
  <2>3. status.daemon_running => status.daemon_pid # NoPid
    BY DEF MonitorInv, StatusInv
  <2>4. QED
    BY <2>1, <2>2, <2>3
<1>2. QED
  BY <1>1, MonitorAlways, PTL

\* For every CRASH_LOOP_RETRY_COUNT, fewer zygotes than that are handed to an
\* injector between two restarts of the counting window.
THEOREM CrashLoopStops == Spec => []CrashLoopBounded
<1>1. MonitorInv => CrashLoopBounded
  BY DEF MonitorInv, CountInv, CrashLoopBounded
<1>2. QED
  BY <1>1, MonitorAlways, PTL

\* No process keeps running under the monitor's ptrace without a table entry that
\* lets the monitor end it.
THEOREM NoLostTracee == Spec => []TraceesKnown
<1>1. MonitorInv => TraceesKnown
  BY DEF MonitorInv, ProcessInv, Placed, TraceesKnown
<1>2. QED
  BY <1>1, MonitorAlways, PTL
=============================================================================
