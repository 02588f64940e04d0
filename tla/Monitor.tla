------------------------------- MODULE Monitor -------------------------------
(***************************************************************************)
(* The init monitor (AppMonitor): a single thread that ptraces init, finds *)
(* the zygotes init starts and hands each of them to an injector process,  *)
(* owns the zygiskd daemon, obeys the datagrams of its control socket and  *)
(* publishes its state in a status file.                                   *)
(*                                                                         *)
(* A step of the monitor is one datagram or one wait status, handled to    *)
(* its end.  Around it run init and the processes init and the stubs fork, *)
(* the daemon, the injectors, and the kernel's half of ptrace.             *)
(***************************************************************************)
EXTENDS Integers, Sequences, FiniteSets

CONSTANTS Pids,          \* process ids, init's apart
          NoPid,         \* -1
          RetryCount,    \* CRASH_LOOP_RETRY_COUNT
          Worlds,        \* what may happen around the monitor, see world
          MaxQueue,      \* bound: datagrams waiting in the control socket
          MaxEntries     \* bound: injectors attaching to one process

ASSUME PidsAssumption == NoPid \notin Pids /\ {"init", "monitor"} \cap Pids = {}
ASSUME RetryAssumption == RetryCount \in Nat \ {0} /\ MaxEntries \in Nat
ASSUME WorldsAssumption ==
  Worlds \subseteq [programs : SUBSET {"stub", "zygote", "hyos", "other", "system_server"},
                    commands : SUBSET {"START", "STOP", "EXIT", "REARM"},
                    faults : SUBSET {"fork", "signal", "kill", "exit", "write", "seize"},
                    room : Nat]

VARIABLES
  tracing_state,    \* TracingState
  stop_reason,      \* monitor_stop_reason_
  status,           \* struct Status of the ZygoteAbiManager
  count,            \* StartCounter.count, saturating at RetryCount
  process_,         \* pre-exec candidates
  stub_processes_,  \* promoted stub zygotes
  written,          \* last: last_written_status_, prop: the text in the status file,
                    \* lost: (history) the last atomic_write_file failed
  loop,             \* the event loop: running, draining (Stop was called), gone
  sock,             \* datagrams in the control socket
  init_traced, init_stop, init_intr,   \* init: traced, stop state, trap pending
  taken,            \* history: another stop of init took the trap a stop waits for
  proc,             \* pid -> the process, as the kernel and the injectors see it
  burst,            \* history: zygotes handed off since count was last restarted
  world             \* chosen once: what is exec'ed (and "system_server" if zygote forks
                    \* it), the commands `ctl` sends, the faults that occur ("fork":
                    \* forks fail, "write": atomic_write_file, "seize": PTRACE_SEIZE of
                    \* init), and how many processes there are at a time

control == <<tracing_state, stop_reason>>
tables == <<process_, stub_processes_>>
init == <<init_traced, init_stop, init_intr, taken>>
vars == <<tracing_state, stop_reason, status, count, process_, stub_processes_,
          written, loop, sock, init_traced, init_stop, init_intr, taken, proc, burst, world>>

Programs == world.programs
Commands == world.commands
Faults == world.faults

\* The text update_status writes, as far as it depends on the monitor's state.
Render(state, reason, st) ==
  [monitor |-> IF state = "EXITING" THEN "exited"
               ELSE IF state = "TRACING" THEN "tracing" ELSE "stopped",
   reason  |-> IF state = "TRACING" THEN "" ELSE reason,
   abi_ok  |-> st.supported /\ st.daemon_running /\ st.zygote_injected,
   zygote  |-> IF ~st.supported THEN "" ELSE IF state # "TRACING" THEN "unknown"
               ELSE IF st.zygote_injected THEN "injected" ELSE "not_injected",
   daemon  |-> IF ~st.supported THEN <<>>
               ELSE IF st.daemon_running THEN <<"running", st.daemon_info>>
               ELSE <<"crashed", st.daemon_error_info>>]

\* One update_status.  The text is remembered before it is written: when
\* atomic_write_file fails, the early return on equal text keeps the old file until the
\* text changes again.
Outcomes(w, text) ==
  IF text = w.last THEN {w}
  ELSE {[last |-> text, prop |-> text, lost |-> FALSE]}
       \cup {[w EXCEPT !.last = text, !.lost = TRUE] : f \in Faults \cap {"write"}}

update_status == written' \in Outcomes(written, Render(tracing_state', stop_reason', status'))

NoProcess ==
  [prog |-> "none", run |-> "free", ppid |-> NoPid, traced |-> FALSE,
   inj |-> FALSE, att |-> 0, mapped |-> FALSE, hooked |-> FALSE]

InitialStatus ==
  [supported |-> FALSE, zygote_injected |-> FALSE, daemon_running |-> FALSE,
   daemon_pid |-> NoPid, daemon_info |-> "", daemon_error_info |-> ""]

\* After prepare_environment, and run up to the event loop: init is seized.
Init ==
  /\ tracing_state = "TRACING" /\ stop_reason = ""
  /\ status = InitialStatus /\ count = 0
  /\ process_ = {} /\ stub_processes_ = {}
  /\ written = [last |-> Render("TRACING", "", InitialStatus),
                prop |-> Render("TRACING", "", InitialStatus), lost |-> FALSE]
  /\ loop = "running" /\ sock = <<>>
  /\ init_traced = TRUE /\ init_stop = "run"
  /\ init_intr = FALSE /\ taken = FALSE
  /\ proc = [p \in Pids |-> NoProcess]
  /\ burst = 0
  /\ world \in Worlds

\* Process states: unreported wait statuses are the ptrace stops and "exit";
\* "halt" is a stop already reported; "parked" a group stop without a tracer.
Stops == {"estop", "fork", "exec", "jobctl", "signal"}
Reportable == Stops \cup {"exit"}
OneMore(n) == IF n < MaxEntries THEN n + 1 ELSE n

Alive(p) == proc[p].run \notin {"free", "exit"}
Live == {p \in Pids : Alive(p)}
Free(p) ==
  proc[p].run = "free" /\ Cardinality({q \in Pids : proc[q].run # "free"}) < world.room
Resumed(p) == [proc EXCEPT ![p].run = "run"]
Released(p) == [proc EXCEPT ![p].run = "run", ![p].traced = FALSE]
\* PTRACE_CONT with a signal: a job-control signal stops the process for good.
Delivered(p) ==
  [proc EXCEPT ![p].run = IF proc[p].run = "jobctl" THEN "parked" ELSE "run"]

------------------------------------------------------------------------------
(* The daemon, and the commands of the control socket.                      *)

Daemon == [NoProcess EXCEPT !.prog = "starting", !.run = "run", !.ppid = "monitor"]
WithDaemon(procs, new) == [q \in Pids |-> IF q \in new THEN Daemon ELSE procs[q]]

\* Mutant: a daemon that reported an error is taken for one that is gone.
ensure_daemon_restarting(ok, new, injected) ==
  \/ /\ status.daemon_running
     /\ new = {} /\ ok = TRUE
     /\ status' = [status EXCEPT !.zygote_injected = injected]
  \/ \E d \in Pids :
       /\ ~status.daemon_running /\ Free(d)
       /\ new = {d} /\ ok = TRUE
       /\ status' = [status EXCEPT !.supported = TRUE, !.daemon_pid = d,
                       !.daemon_running = TRUE, !.zygote_injected = injected]

\* ok is the result, new the pid of a daemon started here, if one was.
ensure_daemon_created(ok, new, injected) ==
  \/ /\ status.daemon_pid # NoPid
     /\ new = {} /\ ok = status.daemon_running
     /\ status' = [status EXCEPT !.zygote_injected = injected]
  \/ /\ status.daemon_pid = NoPid
     /\ "fork" \in Faults \/ \A q \in Pids : ~Free(q)
     /\ new = {} /\ ok = FALSE
     /\ status' = [status EXCEPT !.zygote_injected = injected]
  \/ \E d \in Pids :
       /\ status.daemon_pid = NoPid /\ Free(d)
       /\ new = {d} /\ ok = TRUE
       /\ status' = [status EXCEPT !.supported = TRUE, !.daemon_pid = d,
                       !.daemon_running = TRUE, !.zygote_injected = injected]

\* PTRACE_SEIZE of init; its result is not looked at.
SeizeInit ==
  \/ init_traced' = TRUE
  \/ "seize" \in Faults /\ UNCHANGED init_traced

\* A start lifts a stop, so that no trap is waited for any more.
request_start ==
  /\ tracing_state' = IF tracing_state \in {"STOPPING", "STOPPED"} THEN "TRACING" ELSE tracing_state
  /\ IF tracing_state = "STOPPED" THEN SeizeInit ELSE UNCHANGED init_traced
  /\ taken' = FALSE
  /\ UNCHANGED <<stop_reason, status, init_stop, init_intr, proc>>
  /\ update_status

\* Mutant: without the interrupt.
request_stop_silently(reason) ==
  \/ /\ tracing_state = "TRACING"
     /\ tracing_state' = "STOPPING" /\ stop_reason' = reason
     /\ taken' = FALSE /\ UNCHANGED init_intr
     /\ update_status
  \/ /\ tracing_state # "TRACING"
     /\ UNCHANGED <<control, init_intr, taken, written>>

\* Includes the PTRACE_INTERRUPT that will make init trap, if it is traced.
request_stop(reason) ==
  \/ /\ tracing_state = "TRACING"
     /\ tracing_state' = "STOPPING" /\ stop_reason' = reason
     /\ init_intr' = init_traced /\ taken' = FALSE
     /\ update_status
  \/ /\ tracing_state # "TRACING"
     /\ UNCHANGED <<control, init_intr, taken, written>>

request_exit ==
  /\ tracing_state' = "EXITING" /\ stop_reason' = "user requested"
  /\ loop' = "draining"
  /\ UNCHANGED <<status, init, proc>>
  /\ update_status

Zygotes == {p \in Live : proc[p].prog = "zygote" /\ proc[p].ppid = "init"}
SystemServers ==
  {p \in Live : proc[p].prog = "system_server" /\ proc[p].ppid # "init"}
Bare == {p \in Zygotes : ~proc[p].mapped}

\* The processes rearm starts an injector for: every bare zygote, and with one
\* the system_server the scan found.
RearmTargets ==
  IF Bare = {} THEN {{}}
  ELSE IF SystemServers = {} THEN {Bare}
  ELSE {Bare \cup {s} : s \in SystemServers}

AttachRunning(targets) ==
  [p \in Pids |-> IF p \in targets
                  THEN [proc[p] EXCEPT !.att = OneMore(@)] ELSE proc[p]]

RearmFails(new) ==
  \E ok \in BOOLEAN :
    /\ ensure_daemon_created(ok, new, status.zygote_injected)
    /\ ~ok
    /\ tracing_state' = IF tracing_state = "EXITING" THEN "EXITING" ELSE "STOPPING"
    /\ stop_reason' = IF tracing_state = "EXITING" THEN stop_reason ELSE "rearm failed"
    /\ init_intr' = (init_intr \/ (tracing_state # "EXITING" /\ init_traced'))
    /\ UNCHANGED proc

RearmWorks(new) ==
  \E ok \in BOOLEAN, targets \in RearmTargets :
    /\ ensure_daemon_created(ok, new, status.zygote_injected \/ Zygotes # Bare)
    /\ ok
    /\ tracing_state' = IF tracing_state = "EXITING" THEN "EXITING" ELSE "TRACING"
    /\ \E forked \in SUBSET targets :
         /\ forked = targets \/ "fork" \in Faults
         /\ proc' = WithDaemon(AttachRunning(forked), new)
    /\ UNCHANGED <<stop_reason, init_intr>>

\* Both update_status calls are made when a stop is lifted: the one of request_start
\* and the last one.
Rearm(seizes) ==
  /\ IF seizes THEN SeizeInit ELSE UNCHANGED init_traced
  /\ \E new \in SUBSET Pids : RearmFails(new) \/ RearmWorks(new)
  /\ \E w \in IF tracing_state = "TRACING" THEN {written}
             ELSE Outcomes(written, Render(IF tracing_state = "EXITING" THEN "EXITING" ELSE "TRACING",
                                           stop_reason, status)) :
       written' \in Outcomes(w, Render(tracing_state', stop_reason', status'))
  /\ taken' = FALSE
  /\ UNCHANGED init_stop

\* Mutant: the state is lifted, init is not seized again.
request_rearm_unseized == Rearm(FALSE)

\* request_start, rearm, and request_stop when that fails.
request_rearm == Rearm(tracing_state = "STOPPED")

SetStatus(st) ==
  /\ status' = st
  /\ UNCHANGED <<control, init, proc>>
  /\ update_status

\* Mutant: no update_status after the flag.
notify_injected_quietly ==
  /\ status' = [status EXCEPT !.zygote_injected = TRUE]
  /\ UNCHANGED <<control, written, init, proc>>

notify_injected == SetStatus([status EXCEPT !.zygote_injected = TRUE])
set_daemon_info == SetStatus([status EXCEPT !.daemon_info = "info"])
set_daemon_crashed ==
  SetStatus([status EXCEPT !.daemon_running = FALSE, !.daemon_error_info = "error"])

\* SocketHandler::HandleEvent, one datagram.  It keeps reading after EXIT, until
\* the socket is empty.
HandleMessage ==
  /\ loop # "gone" /\ sock # <<>>
  /\ sock' = Tail(sock)
  /\ \/ Head(sock) = "START" /\ request_start /\ UNCHANGED loop
     \/ /\ Head(sock) = "STOP"
        /\ UNCHANGED <<loop, status, init_traced, init_stop, proc>>
        /\ request_stop("user requested")
     \/ Head(sock) = "EXIT" /\ request_exit
     \/ Head(sock) = "REARM" /\ request_rearm /\ UNCHANGED loop
     \/ Head(sock) = "ZYGOTE_INJECTED" /\ notify_injected /\ UNCHANGED loop
     \/ Head(sock) = "DAEMON_SET_INFO" /\ set_daemon_info /\ UNCHANGED loop
     \/ Head(sock) = "DAEMON_SET_ERROR_INFO" /\ set_daemon_crashed /\ UNCHANGED loop
     \/ /\ Head(sock) = "SYSTEM_SERVER_STARTED"
        /\ UNCHANGED <<control, status, written, loop, init, proc>>
  /\ UNCHANGED <<count, tables, burst, world>>

------------------------------------------------------------------------------
(* Wait statuses.                                                           *)

\* handleParentEvent for init: case 2 detaches it, everything else resumes it.
HandleInit ==
  /\ loop = "running" /\ init_stop \in Stops
  /\ \/ /\ init_stop = "estop" /\ tracing_state = "STOPPING"
        /\ tracing_state' = "STOPPED"
        /\ init_traced' = FALSE /\ init_intr' = FALSE /\ taken' = FALSE
        /\ init_stop' = "run"
     \/ /\ ~(init_stop = "estop" /\ tracing_state = "STOPPING")
        /\ init_stop' = "run"
        /\ UNCHANGED <<tracing_state, init_traced, init_intr, taken>>
  /\ UNCHANGED <<stop_reason, status, count, tables, written, loop, sock, proc, burst, world>>

Reaped(p) == [proc EXCEPT ![p] = NoProcess]

\* handleParentEvent for a stub: a stop is resumed, with job-control signals and
\* SIGCHLD suppressed.
HandleStub(p) ==
  /\ p \in stub_processes_
  /\ \/ /\ proc[p].run = "exit"
        /\ stub_processes_' = stub_processes_ \ {p}
        /\ proc' = Reaped(p)
     \/ /\ proc[p].run \in Stops
        /\ proc' = Resumed(p)
        /\ UNCHANGED stub_processes_
  /\ UNCHANGED <<control, status, count, process_, written, init, burst>>

handle_daemon_exit_if_match(p) ==
  /\ status.supported /\ p = status.daemon_pid
  /\ status' = [status EXCEPT !.daemon_running = FALSE, !.daemon_pid = NoPid,
                  !.daemon_error_info = IF @ = "" THEN "exit" ELSE @]
  /\ proc' = Reaped(p)
  /\ UNCHANGED <<control, count, tables, init, burst>>
  /\ update_status

\* Any first status counts as a discovery, an exit included.
NewProcess(p, resumed) ==
  /\ process_' = process_ \cup {p}
  /\ proc' = IF proc[p].run = "exit" THEN Reaped(p) ELSE resumed
  /\ UNCHANGED <<control, status, count, stub_processes_, written, init, burst>>

\* Mutant: the new process is registered but not resumed.
handleNewProcessNoCont(p) == NewProcess(p, [proc EXCEPT ![p].run = "halt"])

handleNewProcess(p) == NewProcess(p, Resumed(p))

\* Mutant: the retry that reaches the limit is still granted.
is_in_crash_loop_late(looping) ==
  /\ \/ count' = IF count < RetryCount THEN count + 1 ELSE count
     \/ count' = 1
  /\ looping = (count >= RetryCount)

\* now - last_start_time < CRASH_LOOP_WINDOW_SECONDS is the environment's choice.
is_in_crash_loop(looping) ==
  /\ \/ count' = IF count < RetryCount THEN count + 1 ELSE count
     \/ count' = 1
  /\ looping = (count' >= RetryCount)

\* The waitpid after kill(SIGSTOP) and PTRACE_CONT overwrites the status that
\* handleTracedProcess goes on to test, so process_ keeps the handed-off pid.
\* Otherwise the target is detached, with the SIGSTOP still pending.
HandOff(p, new) ==
  \/ /\ \/ proc' = WithDaemon([proc EXCEPT ![p].run = "parked",
                                 ![p].traced = FALSE, ![p].inj = TRUE], new)
        \/ /\ "fork" \in Faults     \* fork or execl failed: SIGCONT
           /\ proc' = WithDaemon(Released(p), new)
        \/ /\ "fork" \in Faults     \* the grandchild's fork failed: unnoticed
           /\ proc' = WithDaemon([proc EXCEPT ![p].run = "parked",
                                    ![p].traced = FALSE], new)
     /\ UNCHANGED process_
  \/ /\ "signal" \in Faults         \* a signal before the SIGSTOP
     /\ proc' = WithDaemon([proc EXCEPT ![p].run = "parked",
                              ![p].traced = FALSE], new)
     /\ process_' = process_ \ {p}
  \/ /\ "kill" \in Faults           \* the target died instead
     /\ proc' = WithDaemon(Reaped(p), new)
     /\ process_' = process_ \ {p}

Detach(p) ==
  /\ process_' = process_ \ {p}
  /\ proc' = Released(p)

\* Mutant: the stub is dropped from the candidates but not remembered.
ExecStubForgotten(p) ==
  /\ proc[p].prog = "stub"
  /\ process_' = process_ \ {p}
  /\ proc' = Resumed(p)
  /\ UNCHANGED <<control, status, count, stub_processes_, init, burst>>
  /\ update_status

\* Intermediate stub: promoted to a parent, whatever the tracing state.
ExecStub(p) ==
  /\ proc[p].prog = "stub"
  /\ stub_processes_' = stub_processes_ \cup {p}
  /\ process_' = process_ \ {p}
  /\ proc' = Resumed(p)
  /\ UNCHANGED <<control, status, count, init, burst>>
  /\ update_status

\* Mutant: dropped from the candidates and resumed, but not detached.
ExecIgnoredAttached(p) ==
  /\ proc[p].prog # "stub"
  /\ tracing_state # "TRACING" \/ proc[p].prog = "other"
  /\ process_' = process_ \ {p}
  /\ proc' = Resumed(p)
  /\ UNCHANGED <<control, status, count, stub_processes_, init, burst>>
  /\ update_status

ExecIgnored(p) ==
  /\ proc[p].prog # "stub"
  /\ tracing_state # "TRACING" \/ proc[p].prog = "other"
  /\ Detach(p)
  /\ UNCHANGED <<control, status, count, stub_processes_, init, burst>>
  /\ update_status

\* prepare_aux_injection: no crash-loop accounting for hyos_spawner.
ExecHyos(p) ==
  /\ proc[p].prog = "hyos" /\ tracing_state = "TRACING"
  /\ \E ok \in BOOLEAN, new \in SUBSET Pids :
       /\ ensure_daemon_created(ok, new, status.zygote_injected)
       /\ IF ok THEN HandOff(p, new) ELSE Detach(p)
  /\ UNCHANGED <<control, count, stub_processes_, init, burst>>
  /\ update_status

\* check_and_prepare_injection: crash loop, then daemon, then hand-off.
ExecZygote(p) ==
  /\ proc[p].prog = "zygote" /\ tracing_state = "TRACING"
  /\ \E looping, ok \in BOOLEAN, new \in SUBSET Pids :
       /\ is_in_crash_loop(looping)
       /\ \/ /\ looping
             /\ UNCHANGED status
             /\ request_stop("zygote crashed")
             /\ Detach(p)
             /\ burst' = burst
          \/ /\ ~looping /\ ensure_daemon_created(ok, new, FALSE) /\ ~ok
             /\ request_stop("daemon not running")
             /\ Detach(p)
             /\ burst' = IF count' = 1 THEN 0 ELSE burst
          \/ /\ ~looping /\ ensure_daemon_created(ok, new, FALSE) /\ ok
             /\ HandOff(p, new)
             /\ burst' = IF count' = 1 THEN 1 ELSE burst + 1
             /\ UNCHANGED <<control, init_intr, taken>>
             /\ update_status
  /\ UNCHANGED <<stub_processes_, init_traced, init_stop>>

\* A pre-exec candidate: any status but exec and the attach trap drops it, and
\* the signal of a signal stop with it.
handleTracedProcess(p) ==
  \/ /\ proc[p].run = "exec"
     /\ ExecStub(p) \/ ExecIgnored(p) \/ ExecHyos(p) \/ ExecZygote(p)
  \/ /\ proc[p].run = "estop"
     /\ proc' = Resumed(p)
     /\ UNCHANGED <<control, status, count, tables, written, init, burst>>
  \/ /\ proc[p].run \notin {"exec", "estop"}
     /\ process_' = process_ \ {p}
     /\ proc' = IF proc[p].run = "exit" THEN Reaped(p) ELSE Released(p)
     /\ UNCHANGED <<control, status, count, stub_processes_, written, init, burst>>

\* handleChildEvent, in the order of its roles.
HandleChild(p) ==
  /\ loop = "running" /\ proc[p].run \in Reportable
  /\ \/ HandleStub(p)
     \/ p \notin stub_processes_ /\ handle_daemon_exit_if_match(p)
     \/ /\ p \notin stub_processes_
        /\ ~(status.supported /\ p = status.daemon_pid)
        /\ \/ p \in process_ /\ handleTracedProcess(p)
           \/ p \notin process_ /\ handleNewProcess(p)
  /\ UNCHANGED <<loop, sock, world>>

\* The loop ends, and with it the process and its memory: the kernel detaches
\* every tracee and PR_SET_PDEATHSIG takes the daemon along.  The file stays.
Leave ==
  /\ loop = "draining" /\ sock = <<>>
  /\ loop' = "gone"
  /\ init_traced' = FALSE /\ init_stop' = "run" /\ init_intr' = FALSE /\ taken' = FALSE
  /\ proc' = [p \in Pids |->
       IF proc[p].ppid = "monitor" \/ proc[p].run = "exit" THEN NoProcess
       ELSE IF proc[p].traced THEN [Delivered(p)[p] EXCEPT !.traced = FALSE]
       ELSE proc[p]]
  /\ status' = InitialStatus /\ count' = 0 /\ burst' = 0
  /\ process_' = {} /\ stub_processes_' = {}
  /\ UNCHANGED <<control, written, sock, world>>

------------------------------------------------------------------------------
(* The environment: kernel, init, forked processes, injectors, `ctl`.       *)

monitor == <<control, status, count, tables, written, loop, burst, world>>

\* init reaches a point where a pending PTRACE_INTERRUPT stops it.
InitTraps ==
  /\ init_traced /\ init_intr /\ init_stop = "run"
  /\ init_stop' = "estop" /\ init_intr' = FALSE
  /\ UNCHANGED <<monitor, sock, init_traced, taken, proc>>

\* Entering any other stop clears the pending interrupt (the kernel's ptrace_stop).
TakesTrap ==
  /\ init_intr' = FALSE
  /\ taken' = (taken \/ (init_intr /\ tracing_state = "STOPPING"))

InitSignalled ==
  /\ "signal" \in Faults /\ init_traced /\ init_stop = "run"
  /\ init_stop' \in {"jobctl", "signal"}
  /\ TakesTrap
  /\ UNCHANGED <<monitor, sock, init_traced, proc>>

\* A traced parent stops with the fork event, its child with the attach trap.
Child(parent, traced) ==
  [NoProcess EXCEPT !.prog = "pre", !.ppid = parent, !.traced = traced,
                    !.run = IF traced THEN "estop" ELSE "run"]

InitForks(p) ==
  /\ init_stop = "run" /\ Free(p)
  /\ proc' = [proc EXCEPT ![p] = Child("init", init_traced)]
  /\ init_stop' = IF init_traced THEN "fork" ELSE "run"
  /\ IF init_traced THEN TakesTrap ELSE UNCHANGED <<init_intr, taken>>
  /\ UNCHANGED <<monitor, sock, init_traced>>

StubForks(s, p) ==
  /\ proc[s].prog = "stub" /\ proc[s].run = "run" /\ Free(p)
  /\ proc' = [proc EXCEPT ![p] = Child(s, proc[s].traced),
                ![s].run = IF proc[s].traced THEN "fork" ELSE "run"]
  /\ UNCHANGED <<monitor, sock, init>>

Exec(p) ==
  /\ proc[p].prog \in {"pre", "stub"} /\ proc[p].run = "run"
  /\ \E g \in Programs \ {"system_server"} :
       proc' = [proc EXCEPT ![p].prog = g,
                  ![p].run = IF proc[p].traced THEN "exec" ELSE "run"]
  /\ UNCHANGED <<monitor, sock, init>>

Signalled(p) ==
  /\ "signal" \in Faults /\ proc[p].traced /\ proc[p].run = "run"
  /\ \E g \in {"jobctl", "signal"} : proc' = [proc EXCEPT ![p].run = g]
  /\ UNCHANGED <<monitor, sock, init>>

\* A process ends, on its own or killed; its children pass to init.  The monitor
\* sees the exits of its tracees and of its daemon.
Exit(p) ==
  /\ Alive(p)
  /\ IF proc[p].run \in Stops THEN "kill" \in Faults ELSE "exit" \in Faults
  /\ LET seen == loop # "gone" /\ (proc[p].traced \/ proc[p].ppid = "monitor")
     IN proc' = [q \in Pids |->
          IF q = p THEN IF seen THEN [proc[p] EXCEPT !.run = "exit"] ELSE NoProcess
          ELSE IF proc[q].ppid = p THEN [proc[q] EXCEPT !.ppid = "init"]
          ELSE proc[q]]
  /\ UNCHANGED <<monitor, sock, init>>

\* A fork without exec; a hooked zygote has specialised its system_server, which
\* then reports itself through the daemon.
ForkSystemServer(z, p) ==
  /\ "system_server" \in Programs
  /\ proc[z].prog = "zygote" /\ proc[z].run = "run" /\ ~proc[z].traced
  /\ Free(p) /\ Len(sock) < MaxQueue
  /\ proc' = [proc EXCEPT ![p] =
       [NoProcess EXCEPT !.prog = "system_server", !.ppid = z, !.run = "run",
          !.hooked = proc[z].hooked]]
  /\ sock' = IF proc[z].hooked /\ \E d \in Live : proc[d].prog = "daemon"
             THEN Append(sock, "SYSTEM_SERVER_STARTED") ELSE sock
  /\ UNCHANGED <<monitor, init>>

\* send_startup_info: the daemon is up, with or without a supported root.
DaemonReports(d) ==
  /\ proc[d].prog = "starting" /\ proc[d].run = "run" /\ Len(sock) < MaxQueue
  /\ proc' = [proc EXCEPT ![d].prog = "daemon"]
  /\ \E m \in {"DAEMON_SET_INFO", "DAEMON_SET_ERROR_INFO"} : sock' = Append(sock, m)
  /\ UNCHANGED <<monitor, init>>

\* An injector that succeeds has mapped the library and called entry, which
\* returns at once unless the daemon takes its heartbeat.
Enters(p, after) ==
  LET heard == (\E d \in Live : proc[d].prog = "daemon") /\ proc[p].prog # "hyos"
      hooks == proc[p].hooked \/ heard \/ proc[p].prog = "hyos"
  IN /\ Len(sock) < MaxQueue
     /\ proc' = [proc EXCEPT ![p] = [after EXCEPT !.mapped = TRUE, !.hooked = hooks]]
     /\ sock' = IF heard THEN Append(sock, "ZYGOTE_INJECTED") ELSE sock
     /\ UNCHANGED <<monitor, init>>

\* `trace --spawn`: takes the target over at its first instruction.
InjectSpawned(p) ==
  /\ proc[p].inj /\ proc[p].run = "parked"
  /\ Enters(p, [proc[p] EXCEPT !.inj = FALSE, !.run = "run"])

\* `trace --standalone` and `--system_server`: a running target.
InjectRunning(p) ==
  /\ proc[p].att > 0 /\ proc[p].run = "run" /\ ~proc[p].traced
  /\ Enters(p, [proc[p] EXCEPT !.att = @ - 1])

\* The injector failed and left the target running.
InjectFails(p) ==
  /\ proc[p].run # "exit"
  /\ \E after \in {[proc[p] EXCEPT !.inj = FALSE], [proc[p] EXCEPT !.att = @ - 1]} :
       /\ after.att >= 0 /\ after # proc[p]
       /\ proc' = [proc EXCEPT ![p] = [after EXCEPT !.run = IF @ = "parked" THEN "run" ELSE @]]
  /\ UNCHANGED <<monitor, sock, init>>

Ctl ==
  /\ loop # "gone" /\ Len(sock) < MaxQueue
  /\ \E c \in Commands : sock' = Append(sock, c)
  /\ UNCHANGED <<monitor, init, proc>>

MonitorStep == HandleMessage \/ HandleInit \/ Leave \/ \E p \in Pids : HandleChild(p)

Environment ==
  \/ InitTraps \/ InitSignalled \/ Ctl
  \/ \E p \in Pids : \/ InitForks(p) \/ Exec(p) \/ Signalled(p) \/ Exit(p)
                     \/ DaemonReports(p) \/ InjectSpawned(p) \/ InjectRunning(p)
                     \/ InjectFails(p)
  \/ \E s, p \in Pids : StubForks(s, p) \/ ForkSystemServer(s, p)

Next == MonitorStep \/ Environment

\* The loop serves both descriptors, waitpid every child with a status; senders
\* do not refill the socket each time it runs empty; the kernel takes a pending
\* trap of an init that runs on; an injector ends.
Fairness ==
  /\ WF_vars(HandleMessage) /\ WF_vars(HandleInit) /\ SF_vars(Leave)
  /\ WF_vars(InitTraps)
  /\ \A p \in Pids : WF_vars(HandleChild(p)) /\ WF_vars(InjectSpawned(p) \/ InjectFails(p))

Spec == Init /\ [][Next]_vars
FairSpec == Spec /\ Fairness

------------------------------------------------------------------------------
(* Properties.                                                              *)

DaemonProgs == {"starting", "daemon"}
Processes ==
  [prog : {"none", "pre", "stub", "zygote", "hyos", "other", "system_server"}
            \cup DaemonProgs,
   run : Reportable \cup {"free", "run", "halt", "parked"},
   ppid : Pids \cup {NoPid, "init", "monitor"},
   traced : BOOLEAN, inj : BOOLEAN, att : 0 .. MaxEntries, mapped : BOOLEAN,
   hooked : BOOLEAN]

Statuses ==
  [supported : BOOLEAN, zygote_injected : BOOLEAN,
   daemon_running : BOOLEAN, daemon_pid : Pids \cup {NoPid},
   daemon_info : {"", "info"}, daemon_error_info : {"", "error", "exit"}]

TypeOK ==
  /\ tracing_state \in {"TRACING", "STOPPING", "STOPPED", "EXITING"}
  /\ stop_reason \in {"", "user requested", "zygote crashed", "daemon not running",
                      "rearm failed"}
  /\ status \in Statuses
  /\ count \in 0 .. RetryCount /\ burst \in Nat
  /\ process_ \subseteq Pids /\ stub_processes_ \subseteq Pids
  /\ loop \in {"running", "draining", "gone"}
  /\ init_traced \in BOOLEAN /\ init_intr \in BOOLEAN /\ taken \in BOOLEAN
  /\ init_stop \in Stops \cup {"run"}
  /\ proc \in [Pids -> Processes]

\* Whatever handler ran last, update_status has remembered the text of the present
\* state, and the status file holds it unless the write of that very text failed, in
\* which case the early return leaves the file behind until the text changes.
StatusCurrent ==
  loop # "gone" =>
    /\ written.last = Render(tracing_state, stop_reason, status)
    /\ written.prop = written.last \/ written.lost

\* What the monitor believes of init is what the kernel does, as long as PTRACE_SEIZE
\* succeeds: traced while it says TRACING, let go once it says STOPPED.  In between,
\* the interrupt is pending or its trap waits to be reaped, so that the detach of
\* handleParentEvent will come, unless a fork event or a signal stop of init took the
\* trap: then only a start or a rearm begins afresh, a second stop is ignored.
InitTracing ==
  loop # "gone" =>
    /\ tracing_state = "STOPPED" => ~init_traced
    /\ "seize" \in Faults \/ (tracing_state \in {"TRACING", "STOPPING"} => init_traced)
    /\ tracing_state = "STOPPING" /\ init_traced => init_intr \/ init_stop = "estop" \/ taken
    /\ tracing_state \in {"TRACING", "STOPPED"} => ~taken

\* ensure_daemon_created never starts a second daemon beside a live one, and
\* daemon_pid never names a pid the kernel may have given to someone else.
DaemonTracked ==
  loop # "gone" =>
    /\ \A p \in Pids : proc[p].prog \in DaemonProgs => p = status.daemon_pid
    /\ status.daemon_pid # NoPid => proc[status.daemon_pid].prog \in DaemonProgs
    /\ status.daemon_running => status.daemon_pid # NoPid

\* Between two restarts of the crash-loop window fewer than
\* CRASH_LOOP_RETRY_COUNT zygotes are handed to an injector, however often
\* START and REARM lift the stop.
CrashLoopBounded == burst < RetryCount

\* A process still traced and running is a candidate or a stub, so that its
\* next status finds a handler that ends the tracing.
TraceesKnown ==
  \A p \in Pids : proc[p].traced /\ proc[p].run = "run" /\ loop = "running"
                    => p \in process_ \cup stub_processes_

\* A requested stop completes, is lifted by a start, or ends with the monitor, unless
\* another stop of init takes the trap of PTRACE_INTERRUPT before init reaches it, or
\* init was never seized again.
StopCompletes ==
  (tracing_state = "STOPPING")
    ~> (tracing_state # "STOPPING" \/ loop = "gone" \/ taken \/ "seize" \in Faults)

\* No ptrace stop lasts: a process the monitor traces is resumed.
StopsEnd ==
  \A p \in Pids : (proc[p].run \in Stops \cup {"halt"}) ~> (proc[p].run \notin Stops \cup {"halt"})

\* A process that exec'ed any program is not traced on, injected or not, unless it
\* was promoted to a stub: whatever signals, kills, commands and reused pids intervene,
\* handleTracedProcess sees its exec and detaches it or hands it off.
TracingEnds ==
  \A p \in Pids :
    (proc[p].traced /\ proc[p].prog \notin {"pre", "stub"} /\ p \notin stub_processes_)
      ~> ~proc[p].traced
=============================================================================
