------------------------------- MODULE Tracer -------------------------------
(***************************************************************************)
(* `zygisk-ptrace trace <pid>`: one injector process and its target.       *)
(*                                                                         *)
(* The tracer seizes the target (falling back to a classic attach), runs   *)
(* dlopen, dlsym and the library's entry inside it, puts its registers     *)
(* back and lets it go.  Every wait, resume and remote call is a step; the *)
(* target moves, stops, faults, is signalled or dies in between.           *)
(*                                                                         *)
(* Data is reduced to what decides the target's fate: the place its        *)
(* program counter is at, the AT_ENTRY word the linker will jump to, and   *)
(* whether one of our calls was torn off in the middle.                    *)
(***************************************************************************)
EXTENDS Naturals

CONSTANTS Modes,    \* the trace modes a run explores
          Worlds    \* sets of failures, see failures

AllModes == {"SPAWN", "UNKNOWN", "STANDALONE", "SYSTEM_SERVER"}
AllFailures == {"seize", "interrupt", "regs", "write", "lookup", "dlopen",
                "crash", "signal", "kill", "sigint", "die"}

ASSUME TracerAssumption == Modes \subseteq AllModes /\ Worlds \subseteq SUBSET AllFailures

VARIABLES
  pc,          \* where the tracer is
  mode,        \* TraceMode
  failures,    \* chosen once: which calls may fail and which events may intervene
  via,         \* "seize" or "attach": the strategy being executed
  errno,       \* the tracer's errno: "EIO", or anything else
  call,        \* the remote function being called
  entry_addr,  \* inject_before_start: the value read from AT_ENTRY
  backup,      \* the place saved with the registers
  tgt          \* the target process

vars == <<pc, mode, failures, via, errno, call, entry_addr, backup, tgt>>

Gone == {"gone_ok", "gone_failed", "gone_died", "gone_sigint", "gone_killed"}
Calls == {"dlopen", "dlerror", "strlen", "dlsym", "entry"}
Places == {"linker", "break", "own", "callee", "return", "fault"}
Stopped == {"SIGSTOP", "SIGTRAP", "SIGSEGV", "SIGCONT", "SYSCALL", "SECCOMP", "SIGNAL"}

process_started == mode \in {"STANDALONE", "SYSTEM_SERVER"}

\* A spawned target was parked in SIGSTOP by the monitor before its linker ran; a late one
\* is somewhere in its own code.
Target(started) ==
  [run |-> IF started THEN "running" ELSE "stopped", stop |-> "none",
   traced |-> FALSE, exitkill |-> FALSE, gstop |-> ~started, pend |-> "none",
   step |-> FALSE, events |-> FALSE, at |-> IF started THEN "own" ELSE "linker",
   auxv |-> "entry", ret |-> FALSE, entered |-> 0, half |-> FALSE]

Init ==
  /\ mode \in Modes /\ failures \in Worlds
  /\ pc = "seize" /\ via = "seize" /\ errno = "other" /\ call = "entry"
  /\ entry_addr = "entry" /\ backup = "own"
  /\ tgt = Target(process_started)

-----------------------------------------------------------------------------
(* What the kernel does to the target for each request. *)

Alive == tgt.run \notin {"dead", "crashed"}
Trapped(t, sig) == [t EXCEPT !.run = "trapped", !.stop = sig]
Cont(t) == [t EXCEPT !.run = "running", !.stop = "none"]

\* kill(pid, SIGCONT): ends a group stop; a tracer is told about it.
Sigcont(t) ==
  IF t.run \in {"dead", "crashed"} THEN t
  ELSE [t EXCEPT !.gstop = FALSE,
                 !.pend = IF t.traced THEN "SIGCONT" ELSE "none",
                 !.run = IF @ = "stopped" THEN "running" ELSE @]

\* PTRACE_DETACH with signal 0 or SIGCONT: refused unless the target is in a ptrace stop; a
\* group stop that is still in force takes hold again.
Detach(t, sig) ==
  IF t.run # "trapped" THEN t
  ELSE LET g == t.gstop /\ sig # "SIGCONT"
       IN  [t EXCEPT !.traced = FALSE, !.exitkill = FALSE, !.stop = "none", !.gstop = g,
                     !.pend = IF sig = "SIGCONT" THEN "none" ELSE @,
                     !.step = FALSE, !.run = IF g THEN "stopped" ELSE "running"]

\* The tracer's exit: PTRACE_O_EXITKILL, or an implicit detach.
TracerExit(t) ==
  IF ~t.traced \/ t.run \in {"dead", "crashed"} THEN t
  ELSE IF t.exitkill THEN [t EXCEPT !.run = "dead"]
  ELSE [Detach(Trapped(t, "none"), "none") EXCEPT !.pend = IF @ = "SIGSTOP" THEN @ ELSE "none"]

\* SIGSEGV with and without a tracer.
Faulted(t) == IF t.traced THEN Trapped(t, "SIGSEGV") ELSE [t EXCEPT !.run = "crashed"]

\* A step of the target alone.
TracerIdle == UNCHANGED <<pc, mode, failures, via, errno, call, entry_addr, backup>>
Quiet == tgt.run = "running" /\ tgt.pend = "none"

\* The linker finishes and jumps to AT_ENTRY.
ReachEntry ==
  /\ Quiet /\ tgt.at = "linker"
  /\ tgt' = IF tgt.auxv = "entry" THEN [tgt EXCEPT !.at = "own"]
            ELSE Faulted([tgt EXCEPT !.at = "break"])
  /\ TracerIdle

\* An address nothing is mapped at, or nothing may be executed at.
FaultsInPlace ==
  /\ Quiet /\ tgt.at \in {"break", "return", "fault"}
  /\ tgt' = Faulted(tgt)
  /\ TracerIdle

\* The remote function returns to libc_return_addr, with a null result or not.
CalleeReturns ==
  /\ Quiet /\ tgt.at = "callee"
  /\ \E r \in BOOLEAN :
       /\ call = "dlopen" => (r \/ "dlopen" \in failures)
       /\ tgt' = Faulted([tgt EXCEPT !.at = "return", !.ret = r])
  /\ TracerIdle

CalleeCrashes ==
  /\ "crash" \in failures
  /\ Quiet /\ tgt.at = "callee"
  /\ tgt' = Faulted([tgt EXCEPT !.at = "fault"])
  /\ TracerIdle

\* entry raises one seccomp event when the kernel keeps ptrace messages.
SeccompEvent ==
  /\ Quiet /\ tgt.at = "callee" /\ call = "entry" /\ tgt.events /\ tgt.traced
  /\ tgt' = [Trapped(tgt, "SECCOMP") EXCEPT !.events = FALSE]
  /\ TracerIdle

\* PTRACE_SYSCALL reports the next system call of the target's own code.
SyscallStop ==
  /\ Quiet /\ tgt.step /\ tgt.at = "own" /\ tgt.traced
  /\ tgt' = [Trapped(tgt, "SYSCALL") EXCEPT !.step = FALSE]
  /\ TracerIdle

\* A signal somebody else sent: an untraced target handles it, a traced one stops.
SignalArrives ==
  /\ "signal" \in failures
  /\ tgt.run = "running" /\ tgt.traced
  /\ tgt' = Trapped(tgt, "SIGNAL")
  /\ TracerIdle

\* The stops the tracer itself provoked.  SIGCONT may be preceded by the end of the group
\* stop (SIGTRAP with PTRACE_EVENT_STOP).
PendingStop ==
  /\ tgt.run = "running"
  /\ \/ /\ tgt.pend = "INTERRUPT" /\ tgt.traced
        /\ tgt' = [Trapped(tgt, "SIGTRAP") EXCEPT !.pend = "none"]
     \/ /\ tgt.pend = "SIGCONT"
        /\ tgt' = IF tgt.traced THEN [Trapped(tgt, "SIGCONT") EXCEPT !.pend = "none"]
                  ELSE [tgt EXCEPT !.pend = "none"]
     \/ /\ tgt.pend = "SIGCONT" /\ tgt.traced
        /\ tgt' = [Trapped(tgt, "SIGTRAP") EXCEPT !.pend = "SIGCONT2"]
     \/ /\ tgt.pend = "SIGCONT2" /\ tgt.traced
        /\ tgt' = [Trapped(tgt, "SIGCONT") EXCEPT !.pend = "none"]
     \/ /\ tgt.pend = "SIGSTOP"
        /\ tgt' = IF tgt.traced THEN [Trapped(tgt, "SIGSTOP") EXCEPT !.pend = "none"]
                  ELSE [tgt EXCEPT !.run = "stopped", !.gstop = TRUE, !.pend = "none"]
  /\ TracerIdle

TargetKilled ==
  /\ "kill" \in failures
  /\ Alive
  /\ tgt' = [tgt EXCEPT !.run = "dead"]
  /\ TracerIdle

TargetMoves ==
  \/ ReachEntry \/ FaultsInPlace \/ CalleeReturns \/ CalleeCrashes \/ SeccompEvent
  \/ SyscallStop \/ SignalArrives \/ PendingStop \/ TargetKilled

-----------------------------------------------------------------------------
(* The tracer.  Reported is the status waitpid answers with. *)

Mutable == <<mode, failures, call, entry_addr, backup>>
Reported == tgt.run \in {"trapped", "dead", "crashed"}

\* trace_with_seize or trace_with_attach returns false: trace_target falls back to the
\* attach when errno is EIO after the seize.
Fails(e) ==
  /\ errno' = e
  /\ \/ /\ via = "seize" /\ e = "EIO"
        /\ via' = "attach" /\ pc' = "attach"
     \/ /\ ~ (via = "seize" /\ e = "EIO")
        /\ UNCHANGED via /\ pc' = "failed"

\* BAIL_AND_DETACH: whatever errno was is kept if the detach works.
Bail(e) == Fails(IF tgt.run = "trapped" THEN e ELSE "other") /\ tgt' = Detach(tgt, "none")

\* A call that succeeds leaves errno as it was.
Goes(next) == pc' = next /\ UNCHANGED <<via, errno>>

Seize ==
  /\ pc = "seize"
  /\ \/ /\ Alive
        /\ LET t == [tgt EXCEPT !.traced = TRUE, !.exitkill = ~process_started]
           IN  tgt' = IF t.run = "stopped" THEN Trapped(t, "SIGSTOP") ELSE t
        /\ Goes(IF process_started THEN "interrupt" ELSE "wait_seize")
     \/ /\ "seize" \in failures \/ ~Alive
        /\ \E e \in {"EIO", "other"} : Fails(e)
        /\ UNCHANGED tgt
  /\ UNCHANGED Mutable

Interrupt ==
  /\ pc = "interrupt"
  /\ \/ /\ Alive
        /\ tgt' = [tgt EXCEPT !.pend = "INTERRUPT"]
        /\ Goes("wait_seize")
     \/ /\ "interrupt" \in failures \/ ~Alive
        /\ Bail("other")
  /\ UNCHANGED Mutable

\* The initial stop; arm_seccomp_events asks for seccomp events on some kernels.
WaitSeize ==
  /\ pc = "wait_seize" /\ Reported
  /\ LET valid_stop == tgt.run = "trapped"
                       /\ tgt.stop = IF process_started THEN "SIGTRAP" ELSE "SIGSTOP"
     IN  \/ /\ valid_stop
            /\ \E ev \in BOOLEAN : tgt' = [tgt EXCEPT !.events = ev]
            /\ Goes("inject")
         \/ /\ ~valid_stop
            /\ Bail(errno)
  /\ UNCHANGED Mutable

\* get_regs, and for a spawned target the walk to AT_ENTRY and its hijack.  write_proc
\* answers -1 on error, which `!write_proc` takes for success.
Inject ==
  /\ pc = "inject"
  /\ \/ /\ "regs" \in failures
        /\ \E e \in {"EIO", "other"} : Bail(e)
        /\ UNCHANGED <<entry_addr, backup>>
     \/ /\ process_started
        /\ backup' = tgt.at
        /\ Goes("dlopen")
        /\ UNCHANGED <<entry_addr, tgt>>
     \/ /\ ~process_started
        /\ entry_addr' = tgt.auxv
        /\ \/ tgt' = [tgt EXCEPT !.auxv = "break"]
           \/ "write" \in failures /\ UNCHANGED tgt
        /\ Goes("hijack_cont")
        /\ UNCHANGED backup
     \/ /\ ~process_started /\ "lookup" \in failures
        /\ Bail(errno)
        /\ UNCHANGED <<entry_addr, backup>>
  /\ UNCHANGED <<mode, failures, call>>

HijackCont ==
  /\ pc = "hijack_cont"
  /\ \/ /\ tgt.run = "trapped"
        /\ tgt' = Cont(tgt)
        /\ Goes("hijack_wait")
     \/ /\ tgt.run # "trapped"
        /\ Bail("other")
  /\ UNCHANGED Mutable

\* wait_for_trace: the tracer exits when the target did not stop.
ExitOnDeath ==
  /\ ~Alive
  /\ Goes("gone_died")
  /\ tgt' = TracerExit(tgt)

HijackWait ==
  /\ pc = "hijack_wait" /\ Reported
  /\ \/ ExitOnDeath
     \/ /\ Alive /\ tgt.stop = "SIGSEGV"
        /\ Goes("trapped")
        /\ UNCHANGED tgt
     \/ /\ Alive /\ tgt.stop = "SIGSTOP"
        /\ Goes("hijack_cont")
        /\ UNCHANGED tgt
     \/ /\ Alive /\ tgt.stop \notin {"SIGSEGV", "SIGSTOP"}
        /\ Bail(errno)
  /\ UNCHANGED Mutable

\* At the trap: the entry point is put back and the registers saved.
AtTrap ==
  /\ pc = "trapped"
  /\ \/ /\ tgt.at = "break" /\ tgt.run = "trapped"
        /\ backup' = tgt.at
        /\ \/ tgt' = [tgt EXCEPT !.auxv = entry_addr]
           \/ "write" \in failures /\ UNCHANGED tgt
        /\ Goes("dlopen")
     \/ /\ tgt.at # "break" \/ tgt.run # "trapped"
        /\ Bail(IF Alive THEN errno ELSE "other")
        /\ UNCHANGED backup
     \/ /\ "regs" \in failures
        /\ \E e \in {"EIO", "other"} : Bail(e)
        /\ UNCHANGED backup
  /\ UNCHANGED <<mode, failures, call, entry_addr>>

\* Where execute_remote_injection goes with the result of a call: `value` is a non-null
\* result, `ok` a call that came back to the return address.
After(f, ok, value) ==
  CASE f = "dlopen"  -> IF value THEN "dlsym" ELSE "dlerror"
    [] f = "dlerror" -> IF value THEN "strlen" ELSE "inject_false"
    [] f = "strlen"  -> "inject_false"
    [] f = "dlsym"   -> IF value THEN "entry" ELSE "inject_false"
    [] f = "entry"   -> IF ok THEN "inject_true" ELSE "inject_false"

\* remote_call up to PTRACE_CONT: push the arguments, set the registers, resume.  A string
\* that could not be pushed becomes a null argument, and the call returns null or faults.
RemoteCall ==
  /\ pc \in Calls
  /\ \/ /\ tgt.run = "trapped"
        /\ call' = pc
        /\ tgt' = [Cont(tgt) EXCEPT !.at = "callee",
                                    !.half = @ \/ tgt.at = "callee",
                                    !.entered = IF pc = "entry" THEN @ + 1 ELSE @]
        /\ Goes("call_wait")
     \/ /\ "lookup" \in failures /\ pc # "entry"
        /\ Goes("inject_false")
        /\ UNCHANGED <<call, tgt>>
     \/ /\ {"regs", "write"} \cap failures # {} \/ tgt.run # "trapped"
        /\ \E e \in IF "regs" \in failures THEN {"EIO", "other"} ELSE {"other"} : errno' = e
        /\ pc' = After(pc, FALSE, FALSE)
        /\ UNCHANGED <<call, tgt, via>>
  /\ UNCHANGED <<mode, failures, entry_addr, backup>>

\* remote_call after PTRACE_CONT: a seccomp event is skipped, any other stop ends the call.
CallWait ==
  /\ pc = "call_wait" /\ Reported
  /\ \/ ExitOnDeath
     \/ /\ Alive /\ tgt.stop = "SECCOMP"
        /\ \/ tgt' = Cont(tgt) /\ UNCHANGED pc
           \/ "regs" \in failures /\ tgt' = TracerExit(tgt) /\ pc' = "gone_died"
        /\ UNCHANGED <<via, errno>>
     \/ /\ Alive /\ tgt.stop # "SECCOMP"
        /\ LET ok == tgt.at = "return"
           IN  pc' = After(call, ok, ok /\ tgt.ret)
        /\ UNCHANGED <<via, errno, tgt>>
     \/ /\ "regs" \in failures /\ Alive /\ tgt.stop # "SECCOMP"
        /\ errno' \in {"EIO", "other"}
        /\ pc' = After(call, FALSE, FALSE)
        /\ UNCHANGED <<via, tgt>>
  /\ UNCHANGED Mutable

\* The end of inject_before_start and inject_after_start.  A late target gets its registers
\* back whatever happened; a spawned one only after a success, at its entry point.
SetBack == [tgt EXCEPT !.at = backup, !.half = @ \/ tgt.at = "callee"]
SetEntryKeepingIp == [tgt EXCEPT !.at = backup]
SetEntry == [tgt EXCEPT !.at = IF entry_addr = "entry" THEN "own" ELSE "break"]

SetRegsFails ==
  /\ "regs" \in failures \/ tgt.run # "trapped"
  /\ \E e \in IF "regs" \in failures THEN {"EIO", "other"} ELSE {"other"} : Bail(e)

InjectFalseUnrestored ==
  /\ pc = "inject_false"
  /\ Bail(errno)
  /\ UNCHANGED Mutable

InjectFalse ==
  /\ pc = "inject_false"
  /\ \/ /\ ~process_started
        /\ Bail(errno)
     \/ /\ process_started /\ tgt.run = "trapped"
        /\ Fails(errno)
        /\ tgt' = Detach(SetBack, "none")
     \/ process_started /\ SetRegsFails
  /\ UNCHANGED Mutable

InjectTrue ==
  /\ pc = "inject_true"
  /\ \/ /\ tgt.run = "trapped"
        /\ LET t == IF process_started THEN SetBack ELSE SetEntry
           IN  \/ /\ via = "seize" /\ process_started
                  /\ tgt' = Detach(t, "none")
                  /\ Goes("ok")
               \/ /\ ~ (via = "seize" /\ process_started)
                  /\ tgt' = t
                  /\ Goes(IF via = "seize" THEN "sigcont" ELSE "gki")
     \/ SetRegsFails
  /\ UNCHANGED Mutable

\* kill(SIGCONT), PTRACE_CONT and the one or two stops that follow.
SendSigcont ==
  /\ pc = "sigcont"
  /\ \/ /\ tgt.run = "trapped"
        /\ tgt' = Cont(Sigcont(tgt))
        /\ Goes("wait_cont")
     \/ /\ tgt.run # "trapped"
        /\ Bail("other")
  /\ UNCHANGED Mutable

WaitCont ==
  /\ pc \in {"wait_cont", "wait_cont2"} /\ Reported
  /\ \/ /\ Alive /\ tgt.stop = "SIGCONT"
        /\ Goes("gki")
        /\ UNCHANGED tgt
     \/ /\ Alive /\ tgt.stop = "SIGTRAP" /\ pc = "wait_cont"
        /\ tgt' = Cont(tgt)
        /\ Goes("wait_cont2")
     \/ /\ ~Alive \/ tgt.stop \notin IF pc = "wait_cont" THEN {"SIGCONT", "SIGTRAP"}
                                     ELSE {"SIGCONT"}
        /\ Bail(errno)
  /\ UNCHANGED Mutable

\* detach_with_gki_workaround: to the next system call, then detach with SIGCONT.
GkiStep ==
  /\ pc = "gki"
  /\ \/ /\ tgt.run = "trapped"
        /\ tgt' = [Cont(tgt) EXCEPT !.step = TRUE]
        /\ Goes("gki_wait")
     \/ /\ tgt.run # "trapped"
        /\ Fails("other")
        /\ UNCHANGED tgt
  /\ UNCHANGED Mutable

GkiDetach ==
  /\ pc = "gki_wait" /\ Reported
  /\ tgt' = Detach(tgt, "SIGCONT")
  /\ IF tgt.run = "trapped" THEN Goes("ok") ELSE Fails("other")
  /\ UNCHANGED Mutable

\* trace_with_attach up to the injection.  PTRACE_ATTACH queues a SIGSTOP even when the
\* target is stopped already.
Attach ==
  /\ pc = "attach"
  /\ \/ /\ Alive /\ ~tgt.traced
        /\ LET t == [tgt EXCEPT !.traced = TRUE, !.pend = "SIGSTOP"]
           IN  tgt' = IF t.run = "stopped" THEN Trapped(t, "SIGSTOP") ELSE t
        /\ Goes("wait_attach")
     \/ /\ "seize" \in failures \/ ~Alive \/ tgt.traced
        /\ Fails("other")
        /\ UNCHANGED tgt
  /\ UNCHANGED Mutable

\* Mutant: the fallback sets no options.
WaitAttachOptionless ==
  /\ pc = "wait_attach" /\ Reported
  /\ \/ /\ Alive /\ tgt.stop = "SIGSTOP"
        /\ \E ev \in BOOLEAN : tgt' = [tgt EXCEPT !.events = ev]
        /\ Goes("inject")
     \/ /\ ~Alive \/ tgt.stop # "SIGSTOP"
        /\ Bail(errno)
  /\ UNCHANGED Mutable

WaitAttach ==
  /\ pc = "wait_attach" /\ Reported
  /\ \/ /\ Alive /\ tgt.stop = "SIGSTOP"
        /\ \E ev \in BOOLEAN :
             tgt' = [tgt EXCEPT !.exitkill = (mode = "SPAWN"), !.events = ev]
        /\ Goes("inject")
     \/ /\ ~Alive \/ tgt.stop # "SIGSTOP"
        /\ Bail(errno)
  /\ UNCHANGED Mutable

ResumeUninjectedQuietly ==
  /\ pc = "failed"
  /\ tgt' = TracerExit(Detach(tgt, "none"))
  /\ Goes("gone_failed")
  /\ UNCHANGED Mutable

\* handle_trace after a failure: resume the target uninjected, then exit.
ResumeUninjected ==
  /\ pc = "failed"
  /\ tgt' = TracerExit(Sigcont(Detach(tgt, "SIGCONT")))
  /\ Goes("gone_failed")
  /\ UNCHANGED Mutable

ExitSuccess ==
  /\ pc = "ok"
  /\ tgt' = TracerExit(tgt)
  /\ Goes("gone_ok")
  /\ UNCHANGED Mutable

\* handle_interrupt on SIGINT or SIGTERM while g_traced_pid is set.
handle_interrupt ==
  /\ "sigint" \in failures
  /\ pc \notin Gone \cup {"ok"}
  /\ tgt' = TracerExit(Detach(tgt, "SIGCONT"))
  /\ Goes("gone_sigint")
  /\ UNCHANGED Mutable

\* The tracer crashes or is killed.
TracerDies ==
  /\ "die" \in failures
  /\ pc \notin Gone
  /\ tgt' = TracerExit(tgt)
  /\ Goes("gone_killed")
  /\ UNCHANGED Mutable

TracerStep ==
  \/ Seize \/ Interrupt \/ WaitSeize \/ Inject \/ HijackCont \/ HijackWait \/ AtTrap
  \/ RemoteCall \/ CallWait \/ InjectFalse \/ InjectTrue \/ SendSigcont \/ WaitCont
  \/ GkiStep \/ GkiDetach \/ Attach \/ WaitAttach \/ ResumeUninjected \/ ExitSuccess

\* Both sides are finished: the target runs its own code or is dead, for good.
Rest ==
  /\ pc \in Gone
  /\ tgt.run \in {"dead", "crashed"} \/ (Quiet /\ tgt.at = "own")
  /\ UNCHANGED vars

Next == TracerStep \/ handle_interrupt \/ TracerDies \/ TargetMoves \/ Rest

Spec == Init /\ [][Next]_vars

\* The tracer's calls do not wait except for the target, and code run in the target
\* returns, faults or meets its next system call: entry's own retries are bounded.
Fairness ==
  /\ WF_vars(TracerStep)
  /\ WF_vars(ReachEntry) /\ WF_vars(FaultsInPlace) /\ WF_vars(CalleeReturns)
  /\ WF_vars(SyscallStop) /\ WF_vars(PendingStop)
FairSpec == Spec /\ Fairness

-----------------------------------------------------------------------------
Targets ==
  [run: {"running", "stopped", "trapped", "dead", "crashed"}, stop: Stopped \cup {"none"},
   traced: BOOLEAN, exitkill: BOOLEAN, gstop: BOOLEAN,
   pend: {"none", "INTERRUPT", "SIGCONT", "SIGCONT2", "SIGSTOP"}, step: BOOLEAN,
   events: BOOLEAN, at: Places, auxv: {"entry", "break"}, ret: BOOLEAN, entered: 0..2,
   half: BOOLEAN]

TypeOK ==
  /\ pc \in {"seize", "interrupt", "wait_seize", "inject", "hijack_cont", "hijack_wait",
             "trapped", "call_wait", "inject_false", "inject_true", "sigcont", "wait_cont",
             "wait_cont2", "gki", "gki_wait", "attach", "wait_attach", "failed", "ok"}
            \cup Calls \cup Gone
  /\ mode \in Modes /\ failures \in Worlds /\ via \in {"seize", "attach"} /\ errno \in {"EIO", "other"}
  /\ call \in Calls /\ entry_addr \in {"entry", "break"} /\ backup \in Places
  /\ tgt \in Targets

\* A tracer that reports success let go of a target that runs its own code with its own
\* registers, and whose entry ran exactly once: whichever signals arrived, whichever lookups
\* or calls failed on the way, as long as registers can be accessed (ptracer.cpp
\* trace_target).
SuccessIntact ==
  pc = "gone_ok" /\ "regs" \notin failures =>
    /\ ~tgt.traced /\ tgt.run # "crashed" /\ tgt.run # "trapped"
    /\ tgt.at = "own" /\ tgt.entered = 1 /\ ~tgt.half

\* A late injection that failed gives a running process its registers back: "Restore State
\* directly, whether or not the injection worked" (ptracer.cpp:395), if it can write them.
LateRestored ==
  pc = "gone_failed" /\ process_started /\ "regs" \notin failures =>
    tgt.run = "dead" \/ (tgt.run # "crashed" /\ tgt.at = "own")

\* Wherever the tracer crashes or is killed, a spawned zygote it still traces dies with it
\* unless it was not hijacked yet, so that none goes on with a broken entry point or inside
\* a remote call ("PTRACE_O_EXITKILL ensures target dies if we crash", ptracer.cpp:545, and
\* "Set EXITKILL for parity with SEIZE", 674), and a process that was running before is
\* never taken along.  It is said of one attempt: an attach after a seize that failed on
\* the registers meets a target that may be broken already.
Unhijacked == tgt.auxv = "entry" /\ tgt.at \in {"linker", "own"}
DeathScoped ==
  [][pc # "gone_killed" /\ pc' = "gone_killed" =>
       /\ process_started => (tgt'.run = "dead" => tgt.run = "dead")
       /\ mode = "SPAWN" /\ tgt.traced /\ (via = "seize" \/ "regs" \notin failures) =>
            tgt'.run \in {"dead", "crashed"} \/ Unhijacked]_vars

\* However trace_target ends, a target in a stop is resumed or dead in the end: handle_trace
\* leaves nothing parked (main.cpp:290-301).  A tracer that a signal ends, or that exits
\* inside wait_for_trace, never gets back to handle_trace.
TargetResumes ==
  (tgt.run \in {"stopped", "trapped"}) ~>
    (tgt.run \in {"running", "dead", "crashed"} \/ pc \in {"gone_sigint", "gone_died", "gone_killed"})
=============================================================================
