---------------------------- MODULE TracerProofs ----------------------------
(***************************************************************************)
(* What the tracer guarantees about its target in every mode and with      *)
(* every set of failures: type correctness, SuccessIntact, LateRestored    *)
(* and DeathScoped.                                                        *)
(*                                                                         *)
(* The inductive invariant says, per step of the tracer, whether it holds  *)
(* the target (HoldInv), how often the library's entry may have run        *)
(* (EnterInv), where a late target's program counter is (LateInv), and     *)
(* what has been achieved when no register access fails (SoundInv).  The   *)
(* target's own moves are abstracted once, by Drifts.                      *)
(***************************************************************************)
EXTENDS Tracer, TLAPS

\* The tracer's steps, by what they mean for the target.
Pre == {"seize", "interrupt", "wait_seize", "attach", "wait_attach", "inject",
        "hijack_cont", "hijack_wait", "trapped"}
Injecting == Calls \cup {"call_wait", "inject_false", "inject_true"}
Achieved == {"sigcont", "wait_cont", "wait_cont2", "gki", "gki_wait", "ok", "gone_ok"}
Tracing == (Pre \ {"seize", "attach"}) \cup Injecting \cup (Achieved \ {"ok", "gone_ok"})
Holding == {"inject", "hijack_cont", "trapped", "inject_false", "inject_true", "sigcont", "gki"}
           \cup Calls

\* Ends that do not come from trace_target's result.
TornOff == {"gone_died", "gone_sigint", "gone_killed"}

\* A tracer at work traces its target, and a target that is to be written to is stopped, or
\* dead; only a traced target is in a ptrace stop, and it neither crashes nor stops otherwise.
\* PTRACE_O_EXITKILL is only on a traced target that was not running before, and a spawned
\* zygote that is traced and alive has it, save while an attach waits for its first stop.
ExitKillScoped == tgt.exitkill => tgt.traced /\ ~process_started
HoldInv ==
  /\ pc \in Tracing => tgt.traced
  /\ pc \in Holding => tgt.run \in {"trapped", "dead"}
  /\ tgt.traced => tgt.run \in {"running", "trapped", "dead"}
  /\ tgt.run = "trapped" => tgt.traced
  /\ pc \in {"ok", "gone_ok"} => ~tgt.traced
  /\ ExitKillScoped
  /\ mode = "SPAWN" /\ tgt.traced => tgt.exitkill \/ tgt.run = "dead" \/ pc = "wait_attach"
  /\ pc \in {"attach", "wait_attach"} => via = "attach"

\* entry is called once per strategy.
EnterInv ==
  /\ via = "seize" => tgt.entered <= 1
  /\ pc \in Pre \cup Calls \/ (pc = "call_wait" /\ call # "entry")
       => tgt.entered <= IF via = "seize" THEN 0 ELSE 1

\* A late target is outside its own code only during the remote calls, and is traced then.
LateInv ==
  process_started /\ "regs" \notin failures =>
    /\ tgt.run = "crashed" => pc \in TornOff
    /\ tgt.at # "own" /\ tgt.run # "dead" => pc \in Injecting \cup TornOff
    /\ pc \in Pre => tgt.at = "own"
    /\ pc \in Injecting => backup = "own"

\* Without register errors only the seize itself falls back to the attach, so nothing is
\* done to the target twice, and a call that was torn off never leads on to a success.
SoundInv ==
  "regs" \notin failures =>
    /\ via = "seize" => errno = "other"
    /\ entry_addr = "entry"
    /\ pc \in Pre \ {"hijack_cont", "hijack_wait", "trapped"} => Unhijacked
    /\ pc \in Pre \cup {"dlopen"} => tgt.at # "callee"
    /\ pc \in Pre \cup {"dlopen", "dlsym", "entry"} => tgt.entered = 0 /\ ~tgt.half
    /\ pc \in {"dlsym", "entry", "inject_true"} => tgt.at = "return"
    /\ pc = "call_wait" /\ call \in {"dlopen", "dlsym"} => tgt.entered = 0 /\ ~tgt.half
    /\ pc = "call_wait" /\ call = "entry" => tgt.entered = 1 /\ ~tgt.half
    /\ pc \in Achieved \cup {"inject_true"} => tgt.entered = 1 /\ ~tgt.half
    /\ pc \in Achieved => tgt.at = "own"
    /\ pc \in {"ok", "gone_ok"} => tgt.run # "crashed"

TracerInv == TypeOK /\ HoldInv /\ EnterInv /\ LateInv /\ SoundInv

-----------------------------------------------------------------------------
(* What the kernel's requests do to the fields of a target. *)

\* Where the target is, and what was done to it, is the same.
Same(t, u) ==
  /\ u.at = t.at /\ u.auxv = t.auxv /\ u.ret = t.ret /\ u.entered = t.entered
  /\ u.half = t.half

\* A ptrace stop changes the target's run state and nothing it holds.
LEMMA TrappedFacts ==
  ASSUME NEW t \in Targets, NEW sig \in Stopped \cup {"none"}, NEW u, u = Trapped(t, sig)
  PROVE  /\ u \in Targets /\ Same(t, u)
         /\ u.run = "trapped" /\ u.stop = sig
         /\ u.traced = t.traced /\ u.exitkill = t.exitkill /\ u.gstop = t.gstop
         /\ u.pend = t.pend /\ u.step = t.step /\ u.events = t.events
  BY Zenon DEF Trapped, Targets, Same

\* PTRACE_CONT lets the target run, as it is.
LEMMA ContFacts ==
  ASSUME NEW t \in Targets, NEW u, u = Cont(t)
  PROVE  /\ u \in Targets /\ Same(t, u)
         /\ u.run = "running" /\ u.traced = t.traced /\ u.exitkill = t.exitkill
  BY Zenon DEF Cont, Targets, Same

\* SIGCONT lets a stopped target run, as it is.
LEMMA SigcontFacts ==
  ASSUME NEW t \in Targets, NEW u, u = Sigcont(t)
  PROVE  /\ u \in Targets /\ Same(t, u)
         /\ u.traced = t.traced /\ u.exitkill = t.exitkill
         /\ u.run = IF t.run = "stopped" THEN "running" ELSE t.run
  BY ZenonT(40) DEF Sigcont, Targets, Same

\* PTRACE_DETACH lets go of a target in a ptrace stop and changes nothing else.
LEMMA DetachFacts ==
  ASSUME NEW t \in Targets, NEW sig, NEW u, u = Detach(t, sig)
  PROVE  /\ u \in Targets /\ Same(t, u)
         /\ t.run # "trapped" => u = t
         /\ t.run = "trapped" => ~u.traced /\ ~u.exitkill /\ u.run \in {"running", "stopped"}
<1>1. CASE t.run # "trapped"
  BY <1>1 DEF Detach, Same
<1>2. CASE t.run = "trapped"
  <2>1. PICK g \in BOOLEAN : g = (t.gstop /\ sig # "SIGCONT")
    BY Zenon
  <2>2. u = [t EXCEPT !.traced = FALSE, !.exitkill = FALSE, !.stop = "none", !.gstop = g,
                      !.pend = IF sig = "SIGCONT" THEN "none" ELSE @,
                      !.step = FALSE, !.run = IF g THEN "stopped" ELSE "running"]
    BY <1>2, <2>1, Zenon DEF Detach
  <2>3. QED
    BY ZenonT(40), <1>2, <2>2 DEF Targets, Same
<1>3. QED
  BY <1>1, <1>2

\* A fault traps a traced target, and ends one that is not.
LEMMA FaultedFacts ==
  ASSUME NEW t \in Targets, NEW u, u = Faulted(t)
  PROVE  /\ u \in Targets /\ Same(t, u)
         /\ u.traced = t.traced /\ u.exitkill = t.exitkill
         /\ u.run = IF t.traced THEN "trapped" ELSE "crashed"
  BY Zenon DEF Faulted, Trapped, Targets, Same, Stopped

\* A tracer that exits leaves no living target traced.
LEMMA TracerExitFacts ==
  ASSUME NEW t \in Targets, NEW u, u = TracerExit(t)
  PROVE  /\ u \in Targets /\ Same(t, u)
         /\ (~t.traced \/ t.run \in {"dead", "crashed"}) => u = t
         /\ t.traced /\ t.run \notin {"dead", "crashed"} =>
              \/ u.run = "dead" /\ u.traced = t.traced /\ u.exitkill = t.exitkill
              \/ u.run \in {"running", "stopped"} /\ ~u.traced /\ ~u.exitkill
<1>1. CASE ~t.traced \/ t.run \in {"dead", "crashed"}
  BY <1>1 DEF TracerExit, Same
<1>2. CASE t.traced /\ t.run \notin {"dead", "crashed"} /\ t.exitkill
  BY Zenon, <1>2 DEF TracerExit, Same, Targets
<1>3. CASE t.traced /\ t.run \notin {"dead", "crashed"} /\ ~t.exitkill
  <2>1. PICK v : v = Trapped(t, "none")
    OBVIOUS
  <2>2. v \in Targets /\ Same(t, v) /\ v.run = "trapped"
    BY <2>1, TrappedFacts
  <2>3. PICK w : w = Detach(v, "none")
    OBVIOUS
  <2>4. w \in Targets /\ Same(v, w) /\ ~w.traced /\ ~w.exitkill /\ w.run \in {"running", "stopped"}
    BY <2>2, <2>3, DetachFacts
  <2>5. u = [w EXCEPT !.pend = IF @ = "SIGSTOP" THEN @ ELSE "none"]
    BY <1>3, <2>1, <2>3 DEF TracerExit
  <2>6. u \in Targets /\ Same(w, u) /\ ~u.traced /\ ~u.exitkill /\ u.run = w.run
    BY <2>4, <2>5 DEF Targets, Same
  <2>7. QED
    BY Zenon, <1>3, <2>2, <2>4, <2>6 DEF Same
<1>4. QED
  BY <1>1, <1>2, <1>3

-----------------------------------------------------------------------------
(* The target's own moves. *)

\* Everything a step of the target alone can do to it: nothing while it is stopped, save
\* dying; a crash only outside its own code and untraced.
Drifts(t, u) ==
  /\ u \in Targets
  /\ u.traced = t.traced /\ u.exitkill = t.exitkill
  /\ u.auxv = t.auxv /\ u.entered = t.entered /\ u.half = t.half
  /\ t.run \in {"trapped", "dead"} => u.run \in {t.run, "dead"} /\ u.at = t.at
  /\ t.traced /\ t.run = "running" => u.run \in {"running", "trapped", "dead"}
  /\ u.run = "trapped" => t.traced
  /\ u.run = "crashed" => t.run = "crashed" \/ (t.at # "own" /\ ~t.traced)
  /\ t.at = "own" => u.at = "own"
  /\ t.at # "callee" => u.at # "callee"
  /\ t.auxv = "entry" /\ t.at \in {"linker", "own"} => u.at \in {"linker", "own"}

\* A fault of a target that runs where the tracer left it.
LEMMA FaultDrifts ==
  ASSUME NEW t \in Targets, t.run = "running", t.at # "own",
         NEW v \in Targets, v.traced = t.traced, v.exitkill = t.exitkill, v.auxv = t.auxv,
         v.entered = t.entered, v.half = t.half, t.at # "callee" => v.at # "callee",
         t.auxv = "break" \/ t.at # "linker",
         NEW u, u = Faulted(v)
  PROVE  Drifts(t, u)
<1>1. /\ u \in Targets /\ Same(v, u) /\ u.traced = v.traced /\ u.exitkill = v.exitkill
      /\ u.run = IF v.traced THEN "trapped" ELSE "crashed"
  BY FaultedFacts
<1>2. QED
  BY <1>1 DEF Drifts, Same

\* A traced target that runs into a stop.
LEMMA TrapDrifts ==
  ASSUME NEW t \in Targets, t.run = "running", t.traced, NEW sig \in Stopped,
         NEW v, v = Trapped(t, sig), NEW u \in Targets, u.run = v.run, u.traced = v.traced,
         u.exitkill = v.exitkill, Same(v, u)
  PROVE  Drifts(t, u)
<1>1. t \in Targets /\ sig \in Stopped \cup {"none"} /\ v = Trapped(t, sig)
  OBVIOUS
<1>2. /\ Same(t, v) /\ v.run = "trapped" /\ v.traced = t.traced /\ v.exitkill = t.exitkill
  BY ONLY <1>1, TrappedFacts
<1>3. QED
  BY <1>2 DEF Drifts, Same

\* What the target does on its own, whatever the tracer is at.
LEMMA MovesDrift ==
  ASSUME TypeOK, HoldInv, TargetMoves
  PROVE  Drifts(tgt, tgt') /\ TracerIdle
<1>0. tgt \in Targets
  BY DEF TypeOK
<1>1. CASE ReachEntry
  <2>1. CASE tgt.auxv = "entry"
    BY <1>0, <1>1, <2>1 DEF ReachEntry, Quiet, Drifts, Targets, Places
  <2>2. CASE tgt.auxv # "entry"
    <3>1. PICK v : v = [tgt EXCEPT !.at = "break"]
      BY Zenon
    <3>2. /\ v \in Targets /\ v.traced = tgt.traced /\ v.exitkill = tgt.exitkill
          /\ v.auxv = tgt.auxv /\ v.entered = tgt.entered /\ v.half = tgt.half /\ v.at # "callee"
      BY <1>0, <3>1 DEF Targets, Places
    <3>3. tgt' = Faulted(v) /\ tgt.run = "running" /\ tgt.at # "own" /\ tgt.auxv = "break"
      BY <1>0, <1>1, <2>2, <3>1 DEF ReachEntry, Quiet, Targets
    <3>4. Drifts(tgt, tgt')
      BY ONLY <1>0, <3>2, <3>3, FaultDrifts
    <3>5. QED
      BY <1>1, <3>4 DEF ReachEntry
  <2>3. QED
    BY <2>1, <2>2
<1>2. CASE FaultsInPlace
  <2>1. tgt' = Faulted(tgt) /\ tgt.run = "running" /\ tgt.at \notin {"own", "linker"} /\ TracerIdle
    BY <1>2 DEF FaultsInPlace, Quiet
  <2>2. Drifts(tgt, tgt')
    BY ONLY <1>0, <2>1, FaultDrifts
  <2>3. QED
    BY <2>1, <2>2
<1>3. CASE CalleeReturns
  <2>1. PICK r \in BOOLEAN : tgt' = Faulted([tgt EXCEPT !.at = "return", !.ret = r])
    BY Zenon, <1>3 DEF CalleeReturns
  <2>2. PICK v : v = [tgt EXCEPT !.at = "return", !.ret = r]
    OBVIOUS
  <2>3. /\ v \in Targets /\ v.traced = tgt.traced /\ v.exitkill = tgt.exitkill
        /\ v.auxv = tgt.auxv /\ v.entered = tgt.entered /\ v.half = tgt.half /\ v.at # "callee"
    BY Zenon, <1>0, <2>2 DEF Targets, Places
  <2>4. tgt' = Faulted(v) /\ tgt.run = "running" /\ tgt.at \notin {"own", "linker"} /\ TracerIdle
    BY <1>3, <2>1, <2>2 DEF CalleeReturns, Quiet
  <2>5. Drifts(tgt, tgt')
    BY ONLY <1>0, <2>3, <2>4, FaultDrifts
  <2>6. QED
    BY <2>4, <2>5
<1>4. CASE CalleeCrashes
  <2>1. PICK v : v = [tgt EXCEPT !.at = "fault"]
    BY Zenon
  <2>2. /\ v \in Targets /\ v.traced = tgt.traced /\ v.exitkill = tgt.exitkill
        /\ v.auxv = tgt.auxv /\ v.entered = tgt.entered /\ v.half = tgt.half /\ v.at # "callee"
    BY <1>0, <2>1 DEF Targets, Places
  <2>3. tgt' = Faulted(v) /\ tgt.run = "running" /\ tgt.at \notin {"own", "linker"} /\ TracerIdle
    BY <1>4, <2>1 DEF CalleeCrashes, Quiet
  <2>4. Drifts(tgt, tgt')
    BY ONLY <1>0, <2>2, <2>3, FaultDrifts
  <2>5. QED
    BY <2>3, <2>4
<1>5. CASE SeccompEvent \/ SyscallStop \/ SignalArrives
  <2>1. tgt.run = "running" /\ tgt.traced /\ TracerIdle
    BY <1>5 DEF SeccompEvent, SyscallStop, SignalArrives, Quiet
  <2>2. PICK sig \in Stopped : \/ tgt' = [Trapped(tgt, sig) EXCEPT !.events = FALSE]
                               \/ tgt' = [Trapped(tgt, sig) EXCEPT !.step = FALSE]
                               \/ tgt' = Trapped(tgt, sig)
    BY <1>5, Zenon DEF SeccompEvent, SyscallStop, SignalArrives, Stopped
  <2>3. PICK v : v = Trapped(tgt, sig)
    OBVIOUS
  <2>4. v \in Targets
    BY <1>0, <2>3, TrappedFacts
  <2>5. /\ tgt' \in Targets /\ tgt'.run = v.run /\ tgt'.traced = v.traced
        /\ tgt'.exitkill = v.exitkill /\ Same(v, tgt')
    <3>1. CASE tgt' = [v EXCEPT !.events = FALSE]
      BY ONLY <2>4, <3>1 DEF Targets, Same
    <3>2. CASE tgt' = [v EXCEPT !.step = FALSE]
      BY ONLY <2>4, <3>2 DEF Targets, Same
    <3>3. CASE tgt' = v
      BY Zenon, <2>4, <3>3 DEF Same
    <3>4. QED
      BY Zenon, <2>2, <2>3, <3>1, <3>2, <3>3
  <2>6. Drifts(tgt, tgt')
    BY ONLY <1>0, <2>1, <2>3, <2>5, TrapDrifts
  <2>7. QED
    BY <2>1, <2>6
<1>6. CASE PendingStop
  <2>1. tgt.run = "running" /\ TracerIdle
    BY <1>6 DEF PendingStop
  <2>2. CASE tgt.traced
    <3>1. PICK sig \in Stopped : \E p \in {"none", "SIGCONT2"} :
                                   tgt' = [Trapped(tgt, sig) EXCEPT !.pend = p]
      BY <1>6, <2>2, Zenon DEF PendingStop, Stopped
    <3>2. PICK v : v = Trapped(tgt, sig)
      OBVIOUS
    <3>3. v \in Targets
      BY <1>0, <3>2, TrappedFacts
    <3>4. /\ tgt' \in Targets /\ tgt'.run = v.run /\ tgt'.traced = v.traced
          /\ tgt'.exitkill = v.exitkill /\ Same(v, tgt')
      BY <3>1, <3>2, <3>3 DEF Targets, Same
    <3>5. Drifts(tgt, tgt')
      BY ONLY <1>0, <2>1, <2>2, <3>2, <3>4, TrapDrifts
    <3>6. QED
      BY <2>1, <3>5
  <2>3. CASE ~tgt.traced
    <3>1. \/ tgt' = [tgt EXCEPT !.pend = "none"]
          \/ tgt' = [tgt EXCEPT !.run = "stopped", !.gstop = TRUE, !.pend = "none"]
      BY <1>6, <2>3, Zenon DEF PendingStop
    <3>2. Drifts(tgt, tgt')
      BY ZenonT(40), <1>0, <2>1, <2>3, <3>1 DEF Drifts, Targets
    <3>3. QED
      BY <2>1, <3>2
  <2>4. QED
    BY <2>2, <2>3
<1>7. CASE TargetKilled
  BY <1>0, <1>7 DEF TargetKilled, Drifts, Targets, Alive
<1>8. QED
  BY <1>1, <1>2, <1>3, <1>4, <1>5, <1>6, <1>7 DEF TargetMoves

\* Whatever the target does alone, the invariant holds: the tracer is where it was.
LEMMA DriftStep ==
  ASSUME TracerInv, Drifts(tgt, tgt'), TracerIdle
  PROVE  TracerInv'
<1>1. tgt \in Targets /\ tgt' \in Targets
  BY DEF TracerInv, TypeOK, Drifts
<1>2. TypeOK'
  BY <1>1 DEF TracerInv, TypeOK, TracerIdle
<1>3. HoldInv'
  BY DEF TracerInv, HoldInv, ExitKillScoped, process_started, Drifts, TracerIdle
<1>4. EnterInv'
  BY DEF TracerInv, EnterInv, Drifts, TracerIdle
<1>5. LateInv'
  <2>1. HoldInv /\ LateInv
    BY DEF TracerInv
  <2>2. pc \in Injecting => tgt.traced
    BY <2>1 DEF HoldInv, Tracing
  <2>3. QED
    BY <1>1, <2>1, <2>2 DEF LateInv, process_started, Drifts, TracerIdle, Targets, TornOff
<1>6. SoundInv'
  <2>1. HoldInv /\ SoundInv
    BY DEF TracerInv
  <2>2. pc \in {"dlsym", "entry", "inject_true"} => tgt'.at = tgt.at
    BY <2>1 DEF HoldInv, Holding, Calls, Drifts
  <2>3. QED
    BY <2>1, <2>2 DEF SoundInv, Drifts, TracerIdle, Achieved, Unhijacked
<1>7. QED
  BY <1>2, <1>3, <1>4, <1>5, <1>6 DEF TracerInv

-----------------------------------------------------------------------------
(* The ways a strategy fails. *)

\* trace_with_seize or trace_with_attach returns false, and what it did to the target is to
\* let go of it or nothing: the invariant holds where trace_target goes on.
LEMMA FailStep ==
  ASSUME TracerInv, NEW e \in {"EIO", "other"}, Fails(e),
         via = "seize" /\ e = "EIO" => pc = "seize" \/ "regs" \in failures,
         UNCHANGED <<mode, failures, call, entry_addr, backup>>,
         tgt' \in Targets, tgt'.entered = tgt.entered,
         \/ tgt'.traced = tgt.traced /\ tgt'.exitkill = tgt.exitkill /\ tgt'.run = tgt.run
         \/ ~tgt'.traced /\ ~tgt'.exitkill /\ tgt'.run \in {"running", "stopped"},
         pc = "seize" => tgt' = tgt,
         pc = "wait_attach" => ~tgt'.traced \/ tgt'.run = "dead",
         process_started /\ "regs" \notin failures =>
           tgt'.run # "crashed" /\ (tgt'.at # "own" => tgt'.run = "dead")
  PROVE  TracerInv'
<1>1. /\ errno' = e /\ pc' \in {"attach", "failed"} /\ via' \in {"seize", "attach"}
      /\ pc' = "attach" => via = "seize" /\ via' = "attach" /\ e = "EIO"
      /\ pc' = "failed" => via' = via /\ ~(via = "seize" /\ e = "EIO")
  BY DEF Fails, TracerInv, TypeOK
<1>2. TypeOK'
  BY <1>1 DEF TracerInv, TypeOK
<1>3. HoldInv'
  BY <1>1 DEF TracerInv, HoldInv, ExitKillScoped, process_started, Tracing, Holding, Pre,
              Injecting, Achieved, Calls
<1>4. EnterInv'
  BY <1>1 DEF TracerInv, EnterInv, Pre, Calls
<1>5. LateInv'
  BY <1>1 DEF TracerInv, LateInv, process_started, Injecting, Calls, Pre, TornOff
<1>6. SoundInv'
  BY <1>1 DEF TracerInv, SoundInv, Pre, Achieved, Unhijacked
<1>7. QED
  BY <1>2, <1>3, <1>4, <1>5, <1>6 DEF TracerInv

\* BAIL_AND_DETACH outside the remote calls, or with a dead target.
LEMMA BailStep ==
  ASSUME TracerInv, NEW e \in {"EIO", "other"}, Bail(e),
         via = "seize" /\ e = "EIO" => "regs" \in failures,
         pc \notin {"seize", "gone_died", "gone_sigint", "gone_killed"},
         process_started /\ pc \in Injecting => tgt.run = "dead",
         pc = "wait_attach" => tgt.run \in {"trapped", "dead"},
         UNCHANGED <<mode, failures, call, entry_addr, backup>>
  PROVE  TracerInv'
<1>1. tgt \in Targets
  BY DEF TracerInv, TypeOK
<1>2. PICK f \in {"EIO", "other"} : f = IF tgt.run = "trapped" THEN e ELSE "other"
  OBVIOUS
<1>3. Fails(f) /\ tgt' = Detach(tgt, "none")
  BY <1>2 DEF Bail
<1>4. /\ tgt' \in Targets /\ Same(tgt, tgt')
      /\ tgt.run # "trapped" => tgt' = tgt
      /\ tgt.run = "trapped" => ~tgt'.traced /\ ~tgt'.exitkill /\ tgt'.run \in {"running", "stopped"}
  BY <1>1, <1>3, DetachFacts
<1>5. process_started /\ "regs" \notin failures =>
        tgt'.run # "crashed" /\ (tgt'.at # "own" => tgt'.run = "dead")
  BY <1>4 DEF TracerInv, LateInv, Same, TornOff
<1>6. via = "seize" /\ f = "EIO" => "regs" \in failures
  BY <1>2
<1>7. tgt'.entered = tgt.entered
  BY <1>4 DEF Same
<1>8. QED
  BY <1>3, <1>4, <1>5, <1>6, <1>7, FailStep

-----------------------------------------------------------------------------
(* Steps within a phase, and the tracer's end. *)

\* A step before the injection, or after it, that leaves the target where it is.
LEMMA PhaseStep ==
  ASSUME TracerInv, HoldInv', tgt' \in Targets,
         \/ pc \in Pre /\ pc' \in Pre
         \/ pc \in Achieved \ {"ok", "gone_ok"} /\ pc' \in Achieved \ {"ok", "gone_ok"},
         pc' \in Pre \ {"hijack_cont", "hijack_wait", "trapped"} =>
           /\ pc \in Pre \ {"hijack_cont", "hijack_wait", "trapped"}
           /\ tgt'.auxv = tgt.auxv,
         tgt'.at = tgt.at, tgt'.entered = tgt.entered, tgt'.half = tgt.half,
         tgt'.run # "crashed", tgt.run = "dead" => tgt'.run = "dead",
         UNCHANGED <<mode, failures, via, errno, call, backup>>,
         entry_addr' \in {"entry", "break"}, entry_addr' \in {entry_addr, tgt.auxv},
         entry_addr' # entry_addr => pc = "inject"
  PROVE  TracerInv'
<1>1. TypeOK'
  BY DEF TracerInv, TypeOK, Pre, Achieved
<1>2. EnterInv'
  BY DEF TracerInv, EnterInv, Pre, Achieved, Calls
<1>3. LateInv'
  BY DEF TracerInv, LateInv, process_started, Pre, Achieved, Injecting, Calls, TornOff
<1>4. SoundInv'
  <2>1. CASE pc \in Pre /\ pc' \in Pre
    <3>1. "regs" \notin failures => entry_addr' = "entry"
      BY <2>1 DEF TracerInv, SoundInv, Pre, Unhijacked
    <3>2. QED
      BY <2>1, <3>1 DEF TracerInv, SoundInv, Pre, Achieved, Unhijacked
  <2>2. CASE pc \in Achieved \ {"ok", "gone_ok"} /\ pc' \in Achieved \ {"ok", "gone_ok"}
    BY <2>2 DEF TracerInv, SoundInv, Pre, Achieved, Unhijacked
  <2>3. QED
    BY <2>1, <2>2
<1>5. QED
  BY <1>1, <1>2, <1>3, <1>4 DEF TracerInv

\* The tracer exits, and lets go of the target, kills it or leaves it.
Leaves(t, u) ==
  /\ u \in Targets /\ Same(t, u)
  /\ \/ /\ u.traced = t.traced /\ u.exitkill = t.exitkill
        /\ u.run \in {t.run, "dead"} \/ (t.run = "stopped" /\ u.run = "running")
     \/ /\ t.run \notin {"dead", "crashed"} /\ ~u.traced /\ ~u.exitkill
        /\ u.run \in {"running", "stopped", "dead"}
  /\ t.run = "dead" => u.run = "dead"

\* Leaving the target alone twice is leaving it alone.
LEMMA LeavesTwice ==
  ASSUME NEW t, NEW u, NEW v, Leaves(t, u), Leaves(u, v)
  PROVE  Leaves(t, v)
  BY DEF Leaves, Same

\* Exiting, SIGCONT and detaching leave the target's memory and registers alone.
LEMMA LeaveFacts ==
  ASSUME NEW t \in Targets
  PROVE  /\ Leaves(t, TracerExit(t)) /\ Leaves(t, Sigcont(t))
         /\ \A sig : Leaves(t, Detach(t, sig))
<1>1. Leaves(t, TracerExit(t))
  <2>1. PICK u : u = TracerExit(t)
    OBVIOUS
  <2>2. QED
    BY <2>1, TracerExitFacts DEF Leaves, Targets
<1>2. Leaves(t, Sigcont(t))
  <2>1. PICK u : u = Sigcont(t)
    OBVIOUS
  <2>2. QED
    BY <2>1, SigcontFacts DEF Leaves, Targets
<1>3. ASSUME NEW sig PROVE Leaves(t, Detach(t, sig))
  <2>1. PICK u : u = Detach(t, sig)
    OBVIOUS
  <2>2. u \in Targets /\ Same(t, u) /\ (t.run # "trapped" => u = t)
        /\ (t.run = "trapped" => ~u.traced /\ ~u.exitkill /\ u.run \in {"running", "stopped"})
    BY <2>1, DetachFacts
  <2>3. QED
    BY <2>1, <2>2 DEF Leaves, Targets
<1>4. QED
  BY <1>1, <1>2, <1>3

\* A target that is still traced when its tracer has exited is dead.
LEMMA ExitFrees ==
  ASSUME NEW t \in Targets, NEW u, u = TracerExit(t)
  PROVE  u.traced => u.run \in {"dead", "crashed"}
  BY TracerExitFacts

\* A tracer that exits without PTRACE_O_EXITKILL kills nobody.
LEMMA TracerExitFreesAlive ==
  ASSUME NEW t \in Targets, ~t.exitkill, t.run # "dead", NEW u, u = TracerExit(t)
  PROVE  u.run # "dead"
<1>1. CASE ~t.traced \/ t.run = "crashed"
  BY <1>1 DEF TracerExit
<1>2. CASE t.traced /\ t.run # "crashed"
  <2>1. PICK v : v = Trapped(t, "none")
    OBVIOUS
  <2>2. v \in Targets /\ v.run = "trapped"
    BY <2>1, TrappedFacts
  <2>3. PICK w : w = Detach(v, "none")
    OBVIOUS
  <2>4. w \in Targets /\ w.run \in {"running", "stopped"}
    BY <2>2, <2>3, DetachFacts
  <2>5. u = [w EXCEPT !.pend = IF @ = "SIGSTOP" THEN @ ELSE "none"]
    BY <1>2, <2>1, <2>3 DEF TracerExit
  <2>6. QED
    BY <2>4, <2>5 DEF Targets
<1>3. QED
  BY <1>1, <1>2

\* The tracer's last step.
LEMMA EndStep ==
  ASSUME TracerInv, Leaves(tgt, tgt'), pc' \in Gone,
         pc' = "gone_ok" => pc = "ok" /\ tgt' = tgt,
         pc' = "gone_failed" => pc = "failed",
         tgt'.traced => tgt'.run \in {"dead", "crashed"},
         UNCHANGED <<mode, failures, via, errno, call, entry_addr, backup>>
  PROVE  TracerInv'
<1>1. TypeOK'
  BY DEF TracerInv, TypeOK, Gone, Leaves
<1>2. HoldInv'
  BY DEF TracerInv, HoldInv, ExitKillScoped, process_started, Tracing, Holding, Pre,
         Injecting, Achieved, Calls, Gone, Leaves
<1>3. EnterInv'
  BY DEF TracerInv, EnterInv, Pre, Calls, Gone, Leaves, Same
<1>4. LateInv'
  BY DEF TracerInv, LateInv, process_started, Pre, Injecting, Calls, Gone, Leaves, Same, TornOff
<1>5. SoundInv'
  BY DEF TracerInv, SoundInv, Pre, Achieved, Gone, Leaves, Same, Unhijacked
<1>6. QED
  BY <1>1, <1>2, <1>3, <1>4, <1>5 DEF TracerInv

\* handle_trace's ways out, the signal handler, the tracer's death, and a tracer that exits inside a wait.
LEMMA EndSteps ==
  ASSUME TracerInv, ResumeUninjected \/ ExitSuccess \/ handle_interrupt \/ TracerDies
                    \/ (ExitOnDeath /\ UNCHANGED Mutable)
  PROVE  TracerInv'
<1>1. tgt \in Targets
  BY DEF TracerInv, TypeOK
<1>2. CASE ResumeUninjected
  <2>1. Leaves(tgt, Detach(tgt, "SIGCONT"))
    BY <1>1, LeaveFacts
  <2>2. PICK u : u = Detach(tgt, "SIGCONT")
    OBVIOUS
  <2>3. u \in Targets /\ Leaves(u, Sigcont(u))
    BY <2>1, <2>2, LeaveFacts DEF Leaves
  <2>4. PICK v : v = Sigcont(u)
    OBVIOUS
  <2>5. v \in Targets /\ Leaves(v, TracerExit(v))
    BY <2>3, <2>4, LeaveFacts DEF Leaves
  <2>6. Leaves(tgt, v)
    BY <2>1, <2>2, <2>3, <2>4, LeavesTwice
  <2>7. tgt' = TracerExit(v)
    BY <1>2, <2>2, <2>4 DEF ResumeUninjected
  <2>8. Leaves(tgt, tgt')
    BY <2>5, <2>6, <2>7, LeavesTwice
  <2>9. QED
    BY <1>2, <2>5, <2>7, <2>8, ExitFrees, EndStep DEF ResumeUninjected, Goes, Mutable, Gone
<1>3. CASE ExitSuccess
  <2>1. Leaves(tgt, tgt')
    BY <1>1, <1>3, LeaveFacts DEF ExitSuccess
  <2>2. ~tgt.traced
    BY <1>3 DEF TracerInv, HoldInv, ExitSuccess
  <2>3. QED
    BY <1>1, <1>3, <2>1, <2>2, ExitFrees, EndStep DEF ExitSuccess, TracerExit, Goes, Mutable, Gone
<1>4. CASE handle_interrupt
  <2>1. PICK u : u = Detach(tgt, "SIGCONT")
    OBVIOUS
  <2>2. Leaves(tgt, u) /\ u \in Targets
    BY <1>1, <2>1, LeaveFacts DEF Leaves
  <2>3. Leaves(u, tgt')
    BY <1>4, <2>1, <2>2, LeaveFacts DEF handle_interrupt
  <2>4. Leaves(tgt, tgt')
    BY <2>2, <2>3, LeavesTwice
  <2>5. QED
    BY <1>4, <2>1, <2>2, <2>4, ExitFrees, EndStep DEF handle_interrupt, Goes, Mutable, Gone
<1>5. CASE ExitOnDeath /\ UNCHANGED Mutable
  <2>1. Leaves(tgt, tgt')
    BY <1>1, <1>5, LeaveFacts DEF ExitOnDeath
  <2>2. QED
    BY <1>1, <1>5, <2>1, ExitFrees, EndStep DEF ExitOnDeath, Goes, Mutable, Gone
<1>6. CASE TracerDies
  <2>1. Leaves(tgt, tgt')
    BY <1>1, <1>6, LeaveFacts DEF TracerDies
  <2>2. QED
    BY <1>1, <1>6, <2>1, ExitFrees, EndStep DEF TracerDies, Goes, Mutable, Gone
<1>7. QED
  BY <1>2, <1>3, <1>4, <1>5, <1>6

-----------------------------------------------------------------------------
(* The steps before the injection. *)

\* PTRACE_SEIZE.
LEMMA SeizeStep == ASSUME TracerInv, Seize PROVE TracerInv'
<1>1. tgt \in Targets
  BY DEF TracerInv, TypeOK
<1>2. CASE Alive /\ Goes(IF process_started THEN "interrupt" ELSE "wait_seize")
  <2>1. PICK b \in BOOLEAN : b = ~process_started
    BY Zenon
  <2>2. PICK t : t = [tgt EXCEPT !.traced = TRUE, !.exitkill = b]
    OBVIOUS
  <2>3. t \in Targets /\ Same(tgt, t) /\ t.traced /\ t.exitkill = b /\ t.run = tgt.run
    BY Zenon, <1>1, <2>2 DEF Targets, Same
  <2>4. CASE tgt' = IF t.run = "stopped" THEN Trapped(t, "SIGSTOP") ELSE t
    <3>1. PICK v : v = Trapped(t, "SIGSTOP")
      OBVIOUS
    <3>2. v \in Targets /\ Same(t, v) /\ v.traced /\ v.exitkill = b /\ v.run = "trapped"
      BY <2>3, <3>1, TrappedFacts DEF Stopped
    <3>3. /\ tgt' \in Targets /\ Same(tgt, tgt') /\ tgt'.traced /\ tgt'.exitkill = b
          /\ tgt'.run \in {"running", "trapped"}
      BY <1>1, <1>2, <2>3, <2>4, <3>1, <3>2 DEF Alive, Same, Targets
    <3>4. /\ pc = "seize" /\ pc' \in {"interrupt", "wait_seize"}
          /\ UNCHANGED <<mode, failures, via, errno, call, entry_addr, backup>>
      BY <1>2 DEF Seize, Goes, Mutable
    <3>5. HoldInv'
      BY Zenon, <2>1, <3>3, <3>4 DEF HoldInv, ExitKillScoped, process_started, Holding, Calls
    <3>6. tgt.run # "dead" /\ entry_addr \in {"entry", "break"}
      BY <1>2 DEF Alive, TracerInv, TypeOK
    <3>7. QED
      BY <3>3, <3>4, <3>5, <3>6, PhaseStep DEF Pre, Same
  <2>5. CASE UNCHANGED tgt /\ \E e \in {"EIO", "other"} : Fails(e)
    BY <1>2, <2>5 DEF Goes, Fails, Seize
  <2>6. QED
    BY <1>2, <2>1, <2>2, <2>4, <2>5, Zenon DEF Seize
<1>3. CASE UNCHANGED tgt /\ \E e \in {"EIO", "other"} : Fails(e)
  <2>1. PICK e \in {"EIO", "other"} : Fails(e)
    BY <1>3
  <2>2. /\ pc = "seize" /\ tgt' = tgt
        /\ UNCHANGED <<mode, failures, call, entry_addr, backup>>
    BY <1>3 DEF Seize, Mutable
  <2>3. process_started /\ "regs" \notin failures =>
          tgt'.run # "crashed" /\ (tgt'.at # "own" => tgt'.run = "dead")
    BY <2>2 DEF TracerInv, LateInv, Injecting, Calls, TornOff
  <2>4. QED
    BY <1>1, <2>1, <2>2, <2>3, FailStep
<1>4. QED
  BY <1>2, <1>3, Zenon DEF Seize

\* PTRACE_INTERRUPT.
LEMMA InterruptStep == ASSUME TracerInv, Interrupt PROVE TracerInv'
<1>1. tgt \in Targets /\ pc = "interrupt" /\ UNCHANGED <<mode, failures, call, entry_addr, backup>>
  BY DEF TracerInv, TypeOK, Interrupt, Mutable
<1>2. CASE Alive /\ tgt' = [tgt EXCEPT !.pend = "INTERRUPT"] /\ Goes("wait_seize")
  <2>1. /\ tgt' \in Targets /\ Same(tgt, tgt') /\ tgt'.traced = tgt.traced
        /\ tgt'.exitkill = tgt.exitkill /\ tgt'.run = tgt.run
    BY <1>1, <1>2 DEF Targets, Same
  <2>2. HoldInv'
    BY <1>1, <1>2, <2>1 DEF Goes, TracerInv, HoldInv, ExitKillScoped, process_started, Holding,
                            Calls, Tracing, Pre
  <2>3. QED
    BY <1>1, <1>2, <2>1, <2>2, PhaseStep DEF Pre, Same, Goes, Alive, TracerInv, TypeOK
<1>3. CASE Bail("other")
  BY <1>1, <1>3, BailStep DEF Injecting, Calls
<1>4. QED
  BY <1>2, <1>3 DEF Interrupt

\* The wait for the stop of a seized target.
LEMMA WaitSeizeStep == ASSUME TracerInv, WaitSeize PROVE TracerInv'
<1>1. tgt \in Targets /\ pc = "wait_seize" /\ UNCHANGED <<mode, failures, call, entry_addr, backup>>
  BY DEF TracerInv, TypeOK, WaitSeize, Mutable
<1>2. CASE \E ev \in BOOLEAN : tgt.run = "trapped" /\ tgt' = [tgt EXCEPT !.events = ev] /\ Goes("inject")
  <2>1. /\ tgt' \in Targets /\ Same(tgt, tgt') /\ tgt'.traced = tgt.traced
        /\ tgt'.exitkill = tgt.exitkill /\ tgt'.run = tgt.run /\ tgt.run = "trapped"
    BY <1>1, <1>2 DEF Targets, Same
  <2>2. HoldInv'
    BY <1>1, <1>2, <2>1 DEF Goes, TracerInv, HoldInv, ExitKillScoped, process_started, Holding,
                            Calls, Tracing, Pre
  <2>3. QED
    BY <1>1, <1>2, <2>1, <2>2, PhaseStep DEF Pre, Same, Goes, TracerInv, TypeOK
<1>3. CASE Bail(errno)
  BY <1>1, <1>3, BailStep DEF Injecting, Calls, TracerInv, TypeOK, SoundInv, Unhijacked
<1>4. QED
  BY <1>2, <1>3 DEF WaitSeize

\* The target runs on to the entry point that was replaced.
LEMMA HijackContStep == ASSUME TracerInv, HijackCont PROVE TracerInv'
<1>1. tgt \in Targets /\ pc = "hijack_cont" /\ UNCHANGED <<mode, failures, call, entry_addr, backup>>
  BY DEF TracerInv, TypeOK, HijackCont, Mutable
<1>2. CASE tgt.run = "trapped" /\ tgt' = Cont(tgt) /\ Goes("hijack_wait")
  <2>1. /\ tgt' \in Targets /\ Same(tgt, tgt') /\ tgt'.traced = tgt.traced
        /\ tgt'.exitkill = tgt.exitkill /\ tgt'.run = "running"
    BY <1>1, <1>2, ContFacts
  <2>2. HoldInv'
    BY <1>1, <1>2, <2>1 DEF Goes, TracerInv, HoldInv, ExitKillScoped, process_started, Holding,
                            Calls, Tracing, Pre
  <2>3. QED
    BY <1>1, <1>2, <2>1, <2>2, PhaseStep DEF Pre, Same, Goes, TracerInv, TypeOK
<1>3. CASE Bail("other")
  BY <1>1, <1>3, BailStep DEF Injecting, Calls
<1>4. QED
  BY <1>2, <1>3 DEF HijackCont

\* The wait for the fault at the entry point.
LEMMA HijackWaitStep == ASSUME TracerInv, HijackWait PROVE TracerInv'
<1>1. tgt \in Targets /\ pc = "hijack_wait" /\ UNCHANGED <<mode, failures, call, entry_addr, backup>>
  BY DEF TracerInv, TypeOK, HijackWait, Mutable
<1>2. CASE ExitOnDeath
  BY <1>2, EndSteps DEF HijackWait
<1>3. CASE Alive /\ (Goes("trapped") \/ Goes("hijack_cont")) /\ UNCHANGED tgt
  <2>1. tgt.run = "trapped"
    BY <1>3 DEF HijackWait, Reported, Alive
  <2>2. HoldInv'
    BY <1>1, <1>3, <2>1 DEF Goes, TracerInv, HoldInv, ExitKillScoped, process_started, Holding,
                            Calls, Tracing, Pre
  <2>3. QED
    BY <1>1, <1>3, <2>1, <2>2, PhaseStep DEF Pre, Goes, TracerInv, TypeOK
<1>4. CASE Bail(errno)
  BY <1>1, <1>4, BailStep DEF Injecting, Calls, TracerInv, TypeOK, SoundInv, Unhijacked
<1>5. QED
  BY <1>2, <1>3, <1>4 DEF HijackWait

\* trace_with_attach begins with PTRACE_ATTACH.
LEMMA AttachStep == ASSUME TracerInv, Attach PROVE TracerInv'
<1>1. tgt \in Targets /\ pc = "attach" /\ UNCHANGED <<mode, failures, call, entry_addr, backup>>
  BY DEF TracerInv, TypeOK, Attach, Mutable
<1>2. PICK t : t = [tgt EXCEPT !.traced = TRUE, !.pend = "SIGSTOP"]
  OBVIOUS
<1>3. t \in Targets /\ Same(tgt, t) /\ t.traced /\ t.exitkill = tgt.exitkill /\ t.run = tgt.run
  BY Zenon, <1>1, <1>2 DEF Targets, Same
<1>4. CASE /\ Alive /\ ~tgt.traced /\ Goes("wait_attach")
           /\ tgt' = IF t.run = "stopped" THEN Trapped(t, "SIGSTOP") ELSE t
  <2>1. PICK v : v = Trapped(t, "SIGSTOP")
    OBVIOUS
  <2>2. v \in Targets /\ Same(t, v) /\ v.traced /\ v.exitkill = tgt.exitkill /\ v.run = "trapped"
    BY <1>3, <2>1, TrappedFacts DEF Stopped
  <2>3. /\ tgt' \in Targets /\ Same(tgt, tgt') /\ tgt'.traced /\ tgt'.exitkill = tgt.exitkill
        /\ tgt'.run \in {"running", "trapped"}
    BY <1>1, <1>3, <1>4, <2>1, <2>2 DEF Alive, Same, Targets
  <2>4. HoldInv'
    BY <1>1, <1>4, <2>3 DEF Goes, TracerInv, HoldInv, ExitKillScoped, process_started, Holding, Calls
  <2>5. tgt.run # "dead" /\ entry_addr \in {"entry", "break"}
    BY <1>4 DEF Alive, TracerInv, TypeOK
  <2>6. QED
    BY <1>1, <1>4, <2>3, <2>4, <2>5, PhaseStep DEF Pre, Same, Goes
<1>5. CASE Fails("other") /\ UNCHANGED tgt
  <2>1. process_started /\ "regs" \notin failures =>
          tgt'.run # "crashed" /\ (tgt'.at # "own" => tgt'.run = "dead")
    BY <1>1, <1>5 DEF TracerInv, LateInv, Injecting, Calls, TornOff
  <2>2. QED
    BY <1>1, <1>5, <2>1, FailStep
<1>6. QED
  BY <1>2, <1>4, <1>5, Zenon DEF Attach

\* The wait for the stop of an attached target.
LEMMA WaitAttachStep == ASSUME TracerInv, WaitAttach PROVE TracerInv'
<1>1. tgt \in Targets /\ pc = "wait_attach" /\ UNCHANGED <<mode, failures, call, entry_addr, backup>>
  BY Zenon DEF TracerInv, TypeOK, WaitAttach, Mutable
<1>2. CASE Bail(errno)
  <2>1. tgt.run \in {"trapped", "dead"}
    BY <1>1, Zenon DEF WaitAttach, Reported, TracerInv, HoldInv, Tracing, Pre
  <2>2. QED
    BY <1>1, <1>2, <2>1, BailStep DEF Injecting, Calls, TracerInv, TypeOK, SoundInv, Unhijacked
<1>3. CASE /\ Alive /\ Goes("inject")
           /\ \E ev \in BOOLEAN : tgt' = [tgt EXCEPT !.exitkill = (mode = "SPAWN"), !.events = ev]
  <2>1. PICK b \in BOOLEAN : b = (mode = "SPAWN")
    BY Zenon
  <2>2. PICK ev \in BOOLEAN : tgt' = [tgt EXCEPT !.exitkill = b, !.events = ev]
    BY <1>3, <2>1, Zenon
  <2>3. /\ tgt' \in Targets /\ Same(tgt, tgt') /\ tgt'.traced = tgt.traced
        /\ tgt'.exitkill = b /\ tgt'.run = tgt.run
    BY Zenon, <1>1, <2>2 DEF Targets, Same
  <2>4. tgt.run = "trapped"
    BY Zenon, <1>3 DEF WaitAttach, Reported, Alive
  <2>5. HoldInv'
    BY Zenon, <1>1, <1>3, <2>1, <2>3, <2>4 DEF Goes, TracerInv, HoldInv, ExitKillScoped,
                                      process_started, Holding, Calls, Tracing, Pre
  <2>6. QED
    BY <1>1, <1>3, <2>3, <2>4, <2>5, PhaseStep DEF Pre, Same, Goes, TracerInv, TypeOK
<1>4. QED
  BY Zenon, <1>2, <1>3 DEF WaitAttach

-----------------------------------------------------------------------------
(* The injection. *)

\* The remote calls begin: a late target's own registers are what is saved.
LEMMA BeginCalls ==
  ASSUME TracerInv, pc \in {"inject", "trapped"}, pc' = "dlopen", backup' = tgt.at,
         tgt' \in Targets, tgt'.run = tgt.run, tgt'.traced = tgt.traced,
         tgt'.exitkill = tgt.exitkill, tgt'.at = tgt.at, tgt'.entered = tgt.entered,
         tgt'.half = tgt.half, tgt.run = "trapped" \/ pc = "inject",
         UNCHANGED <<mode, failures, via, errno, call, entry_addr>>
  PROVE  TracerInv'
<1>1. TypeOK'
  BY DEF TracerInv, TypeOK, Calls, Targets
<1>2. HoldInv'
  BY DEF TracerInv, HoldInv, ExitKillScoped, process_started, Tracing, Holding, Pre, Injecting,
         Achieved, Calls
<1>3. EnterInv'
  BY DEF TracerInv, EnterInv, Pre, Calls
<1>4. LateInv'
  BY DEF TracerInv, LateInv, process_started, Injecting, Calls, Pre, TornOff
<1>5. SoundInv'
  BY DEF TracerInv, SoundInv, Pre, Achieved, Unhijacked
<1>6. QED
  BY <1>1, <1>2, <1>3, <1>4, <1>5 DEF TracerInv

\* inject_on_main begins.
LEMMA InjectStep == ASSUME TracerInv, Inject PROVE TracerInv'
<1>1. tgt \in Targets /\ pc = "inject" /\ UNCHANGED <<mode, failures, call>>
  BY DEF TracerInv, TypeOK, Inject
<1>2. CASE "regs" \in failures /\ (\E e \in {"EIO", "other"} : Bail(e)) /\ UNCHANGED <<entry_addr, backup>>
  BY <1>1, <1>2, BailStep DEF Injecting, Calls
<1>3. CASE process_started /\ backup' = tgt.at /\ Goes("dlopen") /\ UNCHANGED <<entry_addr, tgt>>
  BY <1>1, <1>3, BeginCalls DEF Goes
<1>4. CASE /\ ~process_started /\ entry_addr' = tgt.auxv /\ Goes("hijack_cont") /\ UNCHANGED backup
           /\ tgt' = [tgt EXCEPT !.auxv = "break"] \/ UNCHANGED tgt
  <2>1. /\ tgt' \in Targets /\ tgt'.at = tgt.at /\ tgt'.entered = tgt.entered
        /\ tgt'.half = tgt.half /\ tgt'.run = tgt.run /\ tgt'.traced = tgt.traced
        /\ tgt'.exitkill = tgt.exitkill /\ tgt.auxv \in {"entry", "break"}
    BY <1>1, <1>4 DEF Targets
  <2>2. HoldInv'
    BY <1>1, <1>4, <2>1 DEF Goes, TracerInv, HoldInv, ExitKillScoped, process_started, Holding,
                            Calls, Tracing, Pre
  <2>3. tgt.run # "crashed"
    BY <1>1 DEF TracerInv, HoldInv, Holding
  <2>4. QED
    BY <1>1, <1>4, <2>1, <2>2, <2>3, PhaseStep DEF Pre, Goes
<1>5. CASE Bail(errno) /\ UNCHANGED <<entry_addr, backup>>
  BY <1>1, <1>5, BailStep DEF Injecting, Calls, TracerInv, TypeOK, SoundInv, Unhijacked
<1>6. QED
  BY <1>2, <1>3, <1>4, <1>5, Zenon DEF Inject

\* The target is at the trap.
LEMMA AtTrapStep == ASSUME TracerInv, AtTrap PROVE TracerInv'
<1>1. tgt \in Targets /\ pc = "trapped" /\ UNCHANGED <<mode, failures, call, entry_addr>>
      /\ entry_addr \in {"entry", "break"}
  BY DEF TracerInv, TypeOK, AtTrap
<1>2. CASE /\ tgt.at = "break" /\ tgt.run = "trapped" /\ backup' = tgt.at /\ Goes("dlopen")
           /\ tgt' = [tgt EXCEPT !.auxv = entry_addr] \/ UNCHANGED tgt
  <2>1. /\ tgt' \in Targets /\ tgt'.at = tgt.at /\ tgt'.entered = tgt.entered
        /\ tgt'.half = tgt.half /\ tgt'.run = tgt.run /\ tgt'.traced = tgt.traced
        /\ tgt'.exitkill = tgt.exitkill
    BY <1>1, <1>2 DEF Targets
  <2>2. QED
    BY <1>1, <1>2, <2>1, BeginCalls DEF Goes
<1>3. CASE Bail(IF Alive THEN errno ELSE "other") /\ UNCHANGED backup
  <2>1. PICK e \in {"EIO", "other"} : e = IF Alive THEN errno ELSE "other"
    BY DEF TracerInv, TypeOK
  <2>2. Bail(e) /\ (via = "seize" /\ e = "EIO" => "regs" \in failures)
    BY <1>3, <2>1 DEF TracerInv, SoundInv, Unhijacked
  <2>3. QED
    BY <1>1, <1>3, <2>2, BailStep DEF Injecting, Calls
<1>4. CASE "regs" \in failures /\ (\E e \in {"EIO", "other"} : Bail(e)) /\ UNCHANGED backup
  BY <1>1, <1>4, BailStep DEF Injecting, Calls
<1>5. QED
  BY <1>2, <1>3, <1>4, Zenon DEF AtTrap

\* Where the tracer goes after a call.
LEMMA AfterFacts ==
  ASSUME NEW f \in Calls, NEW ok \in BOOLEAN, NEW value \in BOOLEAN, NEW next,
         next = After(f, ok, value)
  PROVE  /\ next \in (Calls \ {"dlopen"}) \cup {"inject_false", "inject_true"}
         /\ next = "dlsym" => f = "dlopen" /\ value
         /\ next = "entry" => f = "dlsym" /\ value
         /\ next = "inject_true" => f = "entry" /\ ok
  BY DEF After, Calls

\* The tracer goes on within the injection while the target stays stopped or dead; it goes
\* on to the next call only after one that came back.
LEMMA CallsStep ==
  ASSUME TracerInv, pc \in Calls \cup {"call_wait"},
         NEW f \in Calls, f = IF pc = "call_wait" THEN call ELSE pc,
         pc' \in (Calls \ {"dlopen"}) \cup {"inject_false", "inject_true"},
         "regs" \notin failures /\ pc' \in {"dlsym", "entry", "inject_true"} =>
           /\ pc = "call_wait" /\ tgt.at = "return"
           /\ call = CASE pc' = "dlsym" -> "dlopen" [] pc' = "entry" -> "dlsym" [] OTHER -> "entry",
         pc' \in Calls => f # "entry",
         tgt.run \in {"trapped", "dead"}, errno' \in {"EIO", "other"},
         errno' = errno \/ "regs" \in failures \/ errno' = "other",
         UNCHANGED <<mode, failures, via, call, entry_addr, backup, tgt>>
  PROVE  TracerInv'
<1>1. TypeOK'
  BY DEF TracerInv, TypeOK, Calls
<1>2. HoldInv'
  BY DEF TracerInv, HoldInv, ExitKillScoped, process_started, Tracing, Holding, Pre, Injecting,
         Achieved, Calls
<1>3. EnterInv'
  BY DEF TracerInv, EnterInv, Pre, Calls
<1>4. LateInv'
  BY DEF TracerInv, LateInv, process_started, Injecting, Calls, Pre, TornOff
<1>5. SoundInv'
  <2>1. SUFFICES ASSUME "regs" \notin failures PROVE SoundInv'
    BY DEF SoundInv, Unhijacked
  <2>2. SoundInv
    BY DEF TracerInv
  <2>3. CASE pc' \notin {"dlsym", "entry", "inject_true"}
    BY <2>1, <2>2, <2>3 DEF SoundInv, Pre, Achieved, Calls, Unhijacked
  <2>4. CASE pc' \in {"dlsym", "entry", "inject_true"}
    BY <2>1, <2>2, <2>4 DEF SoundInv, Pre, Achieved, Calls, Unhijacked
  <2>5. QED
    BY <2>3, <2>4
<1>6. QED
  BY <1>1, <1>2, <1>3, <1>4, <1>5 DEF TracerInv

\* remote_call sets the registers and lets the target run.
LEMMA RemoteCallStep == ASSUME TracerInv, RemoteCall PROVE TracerInv'
<1>1. tgt \in Targets /\ pc \in Calls /\ UNCHANGED <<mode, failures, entry_addr, backup>>
      /\ errno \in {"EIO", "other"} /\ tgt.run \in {"trapped", "dead"}
  BY DEF TracerInv, TypeOK, RemoteCall, HoldInv, Holding
<1>2. CASE /\ tgt.run = "trapped" /\ call' = pc /\ Goes("call_wait")
           /\ tgt' = [Cont(tgt) EXCEPT !.at = "callee",
                                       !.half = @ \/ tgt.at = "callee",
                                       !.entered = IF pc = "entry" THEN @ + 1 ELSE @]
  <2>1. tgt.entered \in 0..1 /\ (via = "seize" => tgt.entered = 0)
    BY <1>1 DEF TracerInv, EnterInv, Targets, Calls
  <2>2. PICK t : t = Cont(tgt)
    OBVIOUS
  <2>3. t \in Targets /\ Same(tgt, t) /\ t.run = "running" /\ t.traced = tgt.traced
        /\ t.exitkill = tgt.exitkill
    BY <1>1, <2>2, ContFacts
  <2>4. PICK n \in 0..2 : n = IF pc = "entry" THEN tgt.entered + 1 ELSE tgt.entered
    BY <2>1
  <2>5. PICK h \in BOOLEAN : h = (tgt.half \/ tgt.at = "callee")
    BY Zenon
  <2>6. tgt' = [t EXCEPT !.at = "callee", !.half = h, !.entered = n]
    BY <1>2, <2>2, <2>3, <2>4, <2>5 DEF Same
  <2>7. /\ tgt' \in Targets /\ tgt'.run = "running" /\ tgt'.traced = tgt.traced
        /\ tgt'.exitkill = tgt.exitkill /\ tgt'.at = "callee" /\ tgt'.half = h /\ tgt'.entered = n
    BY Zenon, <2>3, <2>6 DEF Targets, Places
  <2>8. pc' = "call_wait" /\ call' = pc /\ via' = via /\ errno' = errno
    BY <1>2 DEF Goes
  <2>9. TypeOK'
    BY <1>1, <2>7, <2>8 DEF TracerInv, TypeOK
  <2>10. HoldInv'
    BY <1>1, <1>2, <2>7, <2>8 DEF TracerInv, HoldInv, ExitKillScoped, process_started, Tracing, Holding,
                            Pre, Injecting, Achieved, Calls
  <2>11. EnterInv'
    BY <1>1, <2>1, <2>4, <2>7, <2>8 DEF TracerInv, EnterInv, Pre, Calls
  <2>12. LateInv'
    BY <1>1, <2>7, <2>8 DEF TracerInv, LateInv, process_started, Injecting, Pre, Calls, TornOff
  <2>13. SoundInv'
    <3>1. SUFFICES ASSUME "regs" \notin failures PROVE SoundInv'
      BY <1>1 DEF SoundInv, Unhijacked
    <3>2. SoundInv
      BY DEF TracerInv
    <3>3. pc \in {"dlopen", "dlsym", "entry"} => ~h /\ tgt.entered = 0
      BY Zenon, <2>5, <3>1, <3>2 DEF SoundInv, Unhijacked
    <3>4. QED
      BY <1>1, <2>4, <2>7, <2>8, <3>1, <3>2, <3>3 DEF SoundInv, Pre, Achieved, Calls, Unhijacked
  <2>14. QED
    BY <2>9, <2>10, <2>11, <2>12, <2>13 DEF TracerInv
<1>3. CASE pc # "entry" /\ Goes("inject_false") /\ UNCHANGED <<call, tgt>>
  BY <1>1, <1>3, CallsStep DEF Goes, Calls
<1>4. CASE /\ \E e \in IF "regs" \in failures THEN {"EIO", "other"} ELSE {"other"} : errno' = e
           /\ pc' = After(pc, FALSE, FALSE) /\ UNCHANGED <<call, tgt, via>>
  <2>1. /\ pc' \in (Calls \ {"dlopen"}) \cup {"inject_false", "inject_true"}
        /\ pc' \notin {"dlsym", "entry", "inject_true"} /\ (pc' \in Calls => pc # "entry")
    BY <1>1, <1>4 DEF After, Calls
  <2>2. errno' \in {"EIO", "other"} /\ ("regs" \in failures \/ errno' = "other")
    BY <1>4
  <2>3. QED
    BY Zenon, <1>1, <1>4, <2>1, <2>2, CallsStep DEF Calls
<1>5. QED
  BY <1>2, <1>3, <1>4, Zenon DEF RemoteCall

\* The wait for the return of a remote call.
LEMMA CallWaitStep == ASSUME TracerInv, CallWait PROVE TracerInv'
<1>1. tgt \in Targets /\ pc = "call_wait" /\ call \in Calls /\ errno \in {"EIO", "other"}
      /\ UNCHANGED <<mode, failures, call, entry_addr, backup>>
  BY DEF TracerInv, TypeOK, CallWait, Mutable
<1>2. CASE ExitOnDeath
  BY <1>2, EndSteps DEF CallWait
<1>3. CASE Alive /\ tgt.stop = "SECCOMP" /\ tgt' = Cont(tgt) /\ UNCHANGED <<pc, via, errno>>
  <2>1. /\ tgt' \in Targets /\ Same(tgt, tgt') /\ tgt'.traced = tgt.traced
        /\ tgt'.exitkill = tgt.exitkill /\ tgt'.run = "running"
    BY <1>1, <1>3, ContFacts
  <2>2. TypeOK'
    BY <1>1, <1>3, <2>1 DEF TracerInv, TypeOK
  <2>3. HoldInv'
    BY <1>1, <1>3, <2>1 DEF Alive, TracerInv, HoldInv, ExitKillScoped, process_started, Tracing, Holding,
                            Pre, Injecting, Achieved, Calls
  <2>4. EnterInv'
    BY <1>1, <1>3, <2>1 DEF TracerInv, EnterInv, Pre, Calls, Same
  <2>5. LateInv'
    BY <1>1, <1>3, <2>1 DEF TracerInv, LateInv, process_started, Injecting, Pre, Calls, TornOff
  <2>6. SoundInv'
    BY <1>1, <1>3, <2>1 DEF TracerInv, SoundInv, Pre, Achieved, Same, Unhijacked
  <2>7. QED
    BY <2>2, <2>3, <2>4, <2>5, <2>6 DEF TracerInv
<1>4. CASE "regs" \in failures /\ tgt' = TracerExit(tgt) /\ pc' = "gone_died" /\ UNCHANGED <<via, errno>>
  <2>1. Leaves(tgt, tgt')
    BY <1>1, <1>4, LeaveFacts
  <2>2. QED
    BY <1>1, <1>4, <2>1, ExitFrees, EndStep DEF Gone
<1>5. CASE Alive /\ pc' = After(call, tgt.at = "return", tgt.at = "return" /\ tgt.ret)
           /\ UNCHANGED <<via, errno, tgt>>
  <2>1. tgt.run = "trapped"
    BY <1>5 DEF CallWait, Reported, Alive
  <2>2. PICK ok \in BOOLEAN : ok = (tgt.at = "return")
    BY Zenon
  <2>3. PICK value \in BOOLEAN : value = (tgt.at = "return" /\ tgt.ret)
    BY Zenon
  <2>4. pc' = After(call, ok, value)
    BY <1>5, <2>2, <2>3, Zenon
  <2>5. /\ pc' \in (Calls \ {"dlopen"}) \cup {"inject_false", "inject_true"}
        /\ pc' = "dlsym" => call = "dlopen" /\ value
        /\ pc' = "entry" => call = "dlsym" /\ value
        /\ pc' = "inject_true" => call = "entry" /\ ok
    BY <1>1, <2>4, AfterFacts
  <2>6. pc' \in Calls => call # "entry"
    BY <2>4 DEF After, Calls
  <2>7. (ok => tgt.at = "return") /\ (value => tgt.at = "return")
    BY Zenon, <2>2, <2>3
  <2>8. QED
    BY <1>1, <1>5, <2>1, <2>5, <2>6, <2>7, CallsStep
<1>6. CASE /\ "regs" \in failures /\ Alive /\ errno' \in {"EIO", "other"}
           /\ pc' = After(call, FALSE, FALSE) /\ UNCHANGED <<via, tgt>>
  <2>1. tgt.run = "trapped"
    BY <1>6 DEF CallWait, Reported, Alive
  <2>2. /\ pc' \in (Calls \ {"dlopen"}) \cup {"inject_false", "inject_true"}
        /\ pc' \in Calls => call # "entry"
    BY <1>1, <1>6 DEF After, Calls
  <2>3. QED
    BY Zenon, <1>1, <1>6, <2>1, <2>2, CallsStep
<1>7. QED
  BY <1>2, <1>3, <1>4, <1>5, <1>6, Zenon DEF CallWait

\* set_regs fails with registers that cannot be accessed, or when the target is dead.
LEMMA SetRegsFailsStep ==
  ASSUME TracerInv, SetRegsFails, pc \in {"inject_false", "inject_true"},
         UNCHANGED <<mode, failures, call, entry_addr, backup>>
  PROVE  TracerInv'
<1>1. PICK e \in {"EIO", "other"} :
        /\ Bail(e) /\ (e = "EIO" => "regs" \in failures)
        /\ "regs" \notin failures => tgt.run # "trapped"
  BY DEF SetRegsFails
<1>2. CASE "regs" \notin failures
  <2>1. tgt.run = "dead"
    BY <1>1, <1>2 DEF TracerInv, HoldInv, Holding
  <2>2. QED
    BY <1>1, <2>1, BailStep
<1>3. CASE "regs" \in failures
  <2>1. tgt \in Targets
    BY DEF TracerInv, TypeOK
  <2>2. PICK f \in {"EIO", "other"} : f = IF tgt.run = "trapped" THEN e ELSE "other"
    OBVIOUS
  <2>3. Fails(f) /\ tgt' = Detach(tgt, "none")
    BY <1>1, <2>2 DEF Bail
  <2>4. /\ tgt' \in Targets /\ Same(tgt, tgt')
        /\ tgt.run # "trapped" => tgt' = tgt
        /\ tgt.run = "trapped" => ~tgt'.traced /\ ~tgt'.exitkill /\ tgt'.run \in {"running", "stopped"}
    BY <2>1, <2>3, DetachFacts
  <2>5. tgt'.entered = tgt.entered
    BY <2>4 DEF Same
  <2>6. QED
    BY <1>3, <2>3, <2>4, <2>5, FailStep
<1>4. QED
  BY <1>2, <1>3

\* The registers a late target gets back are its own.
LEMMA SetBackFacts ==
  ASSUME TracerInv, NEW t, t = SetBack
  PROVE  /\ t \in Targets /\ t.at = backup /\ t.half = (tgt.half \/ tgt.at = "callee")
         /\ t.entered = tgt.entered /\ t.run = tgt.run /\ t.traced = tgt.traced
         /\ t.exitkill = tgt.exitkill
<1>1. tgt \in Targets /\ backup \in Places
  BY DEF TracerInv, TypeOK
<1>2. PICK h \in BOOLEAN : h = (tgt.half \/ tgt.at = "callee")
  BY Zenon
<1>3. t = [tgt EXCEPT !.at = backup, !.half = h]
  BY <1>2, Zenon DEF SetBack
<1>4. QED
  BY Zenon, <1>1, <1>2, <1>3 DEF Targets

\* inject_on_main returns false.
LEMMA InjectFalseStep == ASSUME TracerInv, InjectFalse PROVE TracerInv'
<1>1. tgt \in Targets /\ pc = "inject_false" /\ errno \in {"EIO", "other"}
      /\ UNCHANGED <<mode, failures, call, entry_addr, backup>>
  BY DEF TracerInv, TypeOK, InjectFalse, Mutable
<1>2. CASE ~process_started /\ Bail(errno)
  BY <1>1, <1>2, BailStep DEF TracerInv, SoundInv, Unhijacked
<1>3. CASE process_started /\ tgt.run = "trapped" /\ Fails(errno) /\ tgt' = Detach(SetBack, "none")
  <2>1. PICK t : t = SetBack
    OBVIOUS
  <2>2. t \in Targets /\ t.at = backup /\ t.entered = tgt.entered /\ t.run = "trapped"
    BY <1>3, <2>1, SetBackFacts
  <2>3. /\ tgt' \in Targets /\ Same(t, tgt')
        /\ ~tgt'.traced /\ ~tgt'.exitkill /\ tgt'.run \in {"running", "stopped"}
    BY <1>3, <2>1, <2>2, DetachFacts
  <2>4. "regs" \notin failures => tgt'.at = "own"
    BY <1>1, <1>3, <2>2, <2>3 DEF TracerInv, LateInv, Injecting, Same, TornOff
  <2>5. via = "seize" /\ errno = "EIO" => "regs" \in failures
    BY DEF TracerInv, SoundInv, Unhijacked
  <2>6. tgt'.entered = tgt.entered
    BY <2>2, <2>3 DEF Same
  <2>7. QED
    BY <1>1, <1>3, <2>3, <2>4, <2>5, <2>6, FailStep
<1>4. CASE SetRegsFails
  BY <1>1, <1>4, SetRegsFailsStep
<1>5. QED
  BY <1>2, <1>3, <1>4 DEF InjectFalse

\* A success puts a late target back where it was, and a spawned one at its entry point.
LEMMA InjectTrueStep == ASSUME TracerInv, InjectTrue PROVE TracerInv'
<1>1. tgt \in Targets /\ pc = "inject_true" /\ via \in {"seize", "attach"}
      /\ UNCHANGED <<mode, failures, call, entry_addr, backup>>
  BY DEF TracerInv, TypeOK, InjectTrue, Mutable
<1>2. CASE SetRegsFails
  BY <1>1, <1>2, SetRegsFailsStep
<1>3. CASE tgt.run = "trapped" /\ ~SetRegsFails
  <2>1. PICK t : t = IF process_started THEN SetBack ELSE SetEntry
    OBVIOUS
  <2>2. \/ via = "seize" /\ process_started /\ tgt' = Detach(t, "none") /\ Goes("ok")
        \/ /\ ~(via = "seize" /\ process_started) /\ tgt' = t
           /\ Goes(IF via = "seize" THEN "sigcont" ELSE "gki")
    BY <1>3, <2>1, Zenon DEF InjectTrue
  <2>3. /\ t \in Targets /\ t.entered = tgt.entered /\ t.run = "trapped"
        /\ t.traced = tgt.traced /\ t.exitkill = tgt.exitkill
        /\ "regs" \notin failures => t.at = "own" /\ ~t.half /\ t.entered = 1
    <3>1. CASE process_started
      BY Zenon, <1>1, <1>3, <2>1, <3>1, SetBackFacts DEF TracerInv, LateInv, SoundInv,
         Injecting, TornOff, Unhijacked
    <3>2. CASE ~process_started
      <4>1. t = [tgt EXCEPT !.at = IF entry_addr = "entry" THEN "own" ELSE "break"]
        BY <2>1, <3>2 DEF SetEntry
      <4>2. QED
        BY <1>1, <1>3, <4>1 DEF Targets, Places, TracerInv, SoundInv, Unhijacked
    <3>3. QED
      BY <3>1, <3>2
  <2>4. PICK d : d = Detach(t, "none")
    OBVIOUS
  <2>5. /\ d \in Targets /\ Same(t, d)
        /\ ~d.traced /\ ~d.exitkill /\ d.run \in {"running", "stopped"}
    BY <2>3, <2>4, DetachFacts
  <2>6. /\ tgt' \in Targets /\ tgt'.entered = tgt.entered
        /\ "regs" \notin failures => tgt'.at = "own" /\ ~tgt'.half /\ tgt'.entered = 1
        /\ UNCHANGED <<via, errno>>
        /\ \/ pc' = "ok" /\ ~tgt'.traced /\ ~tgt'.exitkill /\ tgt'.run \in {"running", "stopped"}
           \/ /\ pc' \in {"sigcont", "gki"} /\ tgt'.traced = tgt.traced
              /\ tgt'.exitkill = tgt.exitkill /\ tgt'.run = "trapped"
    BY <1>1, <2>2, <2>3, <2>4, <2>5 DEF Goes, Same
  <2>7. TypeOK'
    BY <1>1, <2>6 DEF TracerInv, TypeOK
  <2>8. HoldInv'
    BY <1>1, <1>3, <2>6 DEF TracerInv, HoldInv, ExitKillScoped, process_started, Tracing, Holding,
                      Pre, Injecting, Achieved, Calls
  <2>9. EnterInv'
    BY <1>1, <2>6 DEF TracerInv, EnterInv, Pre, Calls
  <2>10. LateInv'
    BY <1>1, <2>6 DEF TracerInv, LateInv, process_started, Injecting, Pre, Calls, TornOff
  <2>11. SoundInv'
    BY <1>1, <2>6 DEF TracerInv, SoundInv, Pre, Achieved, Unhijacked
  <2>12. QED
    BY <2>7, <2>8, <2>9, <2>10, <2>11 DEF TracerInv
<1>4. QED
  BY <1>2, <1>3 DEF InjectTrue

-----------------------------------------------------------------------------
(* The steps after the injection. *)

\* kill(SIGCONT), and PTRACE_CONT.
LEMMA SendSigcontStep == ASSUME TracerInv, SendSigcont PROVE TracerInv'
<1>1. tgt \in Targets /\ pc = "sigcont" /\ UNCHANGED <<mode, failures, call, entry_addr, backup>>
      /\ entry_addr \in {"entry", "break"}
  BY DEF TracerInv, TypeOK, SendSigcont, Mutable
<1>2. CASE tgt.run = "trapped" /\ tgt' = Cont(Sigcont(tgt)) /\ Goes("wait_cont")
  <2>1. PICK t : t = Sigcont(tgt)
    OBVIOUS
  <2>2. t \in Targets /\ Same(tgt, t) /\ t.traced = tgt.traced /\ t.exitkill = tgt.exitkill
    BY <1>1, <2>1, SigcontFacts
  <2>3. /\ tgt' \in Targets /\ Same(t, tgt') /\ tgt'.run = "running"
        /\ tgt'.traced = t.traced /\ tgt'.exitkill = t.exitkill
    BY <1>2, <2>1, <2>2, ContFacts
  <2>4. HoldInv'
    BY <1>1, <1>2, <2>2, <2>3 DEF Goes, TracerInv, HoldInv, ExitKillScoped, process_started,
                                  Holding, Calls, Tracing, Achieved
  <2>5. QED
    BY <1>1, <1>2, <2>2, <2>3, <2>4, PhaseStep DEF Pre, Achieved, Same, Goes
<1>3. CASE Bail("other")
  BY <1>1, <1>3, BailStep DEF Injecting, Calls
<1>4. QED
  BY <1>2, <1>3 DEF SendSigcont

\* The one or two stops that follow.
LEMMA WaitContStep == ASSUME TracerInv, WaitCont PROVE TracerInv'
<1>1. tgt \in Targets /\ pc \in {"wait_cont", "wait_cont2"} /\ entry_addr \in {"entry", "break"}
      /\ UNCHANGED <<mode, failures, call, entry_addr, backup>>
  BY DEF TracerInv, TypeOK, WaitCont, Mutable
<1>2. CASE Alive /\ Goes("gki") /\ UNCHANGED tgt
  <2>1. tgt.run = "trapped"
    BY <1>2 DEF WaitCont, Reported, Alive
  <2>2. HoldInv'
    BY <1>1, <1>2, <2>1 DEF Goes, TracerInv, HoldInv, ExitKillScoped, process_started,
                            Holding, Calls, Tracing, Achieved
  <2>3. QED
    BY <1>1, <1>2, <2>1, <2>2, PhaseStep DEF Pre, Achieved, Goes
<1>3. CASE Alive /\ tgt' = Cont(tgt) /\ Goes("wait_cont2")
  <2>1. /\ tgt' \in Targets /\ Same(tgt, tgt') /\ tgt'.traced = tgt.traced
        /\ tgt'.exitkill = tgt.exitkill /\ tgt'.run = "running"
    BY <1>1, <1>3, ContFacts
  <2>2. HoldInv'
    BY <1>1, <1>3, <2>1 DEF Goes, Alive, TracerInv, HoldInv, ExitKillScoped, process_started,
                            Holding, Calls, Tracing, Achieved
  <2>3. QED
    BY <1>1, <1>3, <2>1, <2>2, PhaseStep DEF Pre, Achieved, Same, Goes, Alive
<1>4. CASE Bail(errno)
  BY <1>1, <1>4, BailStep DEF Injecting, Calls, TracerInv, TypeOK, SoundInv, Unhijacked
<1>5. QED
  BY <1>2, <1>3, <1>4 DEF WaitCont

\* detach_with_gki_workaround: to the next system call.
LEMMA GkiStepStep == ASSUME TracerInv, GkiStep PROVE TracerInv'
<1>1. tgt \in Targets /\ pc = "gki" /\ UNCHANGED <<mode, failures, call, entry_addr, backup>>
      /\ entry_addr \in {"entry", "break"}
  BY DEF TracerInv, TypeOK, GkiStep, Mutable
<1>2. CASE tgt.run = "trapped" /\ tgt' = [Cont(tgt) EXCEPT !.step = TRUE] /\ Goes("gki_wait")
  <2>1. PICK t : t = Cont(tgt)
    OBVIOUS
  <2>2. t \in Targets /\ Same(tgt, t) /\ t.traced = tgt.traced /\ t.exitkill = tgt.exitkill
        /\ t.run = "running"
    BY <1>1, <2>1, ContFacts
  <2>3. /\ tgt' \in Targets /\ Same(t, tgt') /\ tgt'.run = "running"
        /\ tgt'.traced = t.traced /\ tgt'.exitkill = t.exitkill
    BY Zenon, <1>2, <2>1, <2>2 DEF Targets, Same
  <2>4. HoldInv'
    BY <1>1, <1>2, <2>2, <2>3 DEF Goes, TracerInv, HoldInv, ExitKillScoped, process_started,
                                  Holding, Calls, Tracing, Achieved
  <2>5. QED
    BY <1>1, <1>2, <2>2, <2>3, <2>4, PhaseStep DEF Pre, Achieved, Same, Goes
<1>3. CASE Fails("other") /\ UNCHANGED tgt
  <2>1. process_started /\ "regs" \notin failures =>
          tgt'.run # "crashed" /\ (tgt'.at # "own" => tgt'.run = "dead")
    BY <1>1, <1>3 DEF TracerInv, LateInv, Injecting, Calls, TornOff
  <2>2. QED
    BY <1>1, <1>3, <2>1, FailStep
<1>4. QED
  BY <1>2, <1>3 DEF GkiStep

\* And the detach with SIGCONT.
LEMMA GkiDetachStep == ASSUME TracerInv, GkiDetach PROVE TracerInv'
<1>1. tgt \in Targets /\ pc = "gki_wait" /\ UNCHANGED <<mode, failures, call, entry_addr, backup>>
      /\ tgt' = Detach(tgt, "SIGCONT")
  BY DEF TracerInv, TypeOK, GkiDetach, Mutable
<1>2. /\ tgt' \in Targets /\ Same(tgt, tgt')
      /\ tgt.run # "trapped" => tgt' = tgt
      /\ tgt.run = "trapped" => ~tgt'.traced /\ ~tgt'.exitkill /\ tgt'.run \in {"running", "stopped"}
  BY <1>1, DetachFacts
<1>3. CASE tgt.run = "trapped"
  <2>1. Goes("ok")
    BY <1>3 DEF GkiDetach
  <2>2. TypeOK'
    BY <1>1, <1>2, <2>1 DEF TracerInv, TypeOK, Goes
  <2>3. HoldInv'
    BY <1>1, <1>2, <1>3, <2>1 DEF Goes, HoldInv, ExitKillScoped, Holding, Calls, Tracing, Pre,
                                  Injecting, Achieved
  <2>4. EnterInv'
    BY <1>1, <1>2, <2>1 DEF Goes, TracerInv, EnterInv, Pre, Calls, Same
  <2>5. LateInv'
    BY <1>1, <1>2, <1>3, <2>1 DEF Goes, TracerInv, LateInv, process_started,
                                  Injecting, Pre, Calls, Same, TornOff
  <2>6. SoundInv'
    BY <1>1, <1>2, <1>3, <2>1 DEF Goes, TracerInv, SoundInv, Pre, Achieved, Same, Unhijacked
  <2>7. QED
    BY <2>2, <2>3, <2>4, <2>5, <2>6 DEF TracerInv
<1>4. CASE tgt.run # "trapped"
  <2>1. Fails("other") /\ tgt' = tgt
    BY <1>2, <1>4 DEF GkiDetach
  <2>2. process_started /\ "regs" \notin failures =>
          tgt'.run # "crashed" /\ (tgt'.at # "own" => tgt'.run = "dead")
    BY <1>1, <2>1 DEF TracerInv, LateInv, Injecting, Calls, TornOff
  <2>3. QED
    BY <1>1, <2>1, <2>2, FailStep
<1>5. QED
  BY <1>3, <1>4

-----------------------------------------------------------------------------
\* The invariant holds when the tracer starts.
LEMMA TracerInit == Init => TracerInv
<1> SUFFICES ASSUME Init PROVE TracerInv
  OBVIOUS
<1>1. PICK n \in BOOLEAN : n = ~process_started
  BY Zenon
<1>2. tgt = Target(process_started)
  BY DEF Init
<1>3. tgt = [run |-> IF ~n THEN "running" ELSE "stopped", stop |-> "none",
             traced |-> FALSE, exitkill |-> FALSE, gstop |-> n, pend |-> "none",
             step |-> FALSE, events |-> FALSE, at |-> IF ~n THEN "own" ELSE "linker",
             auxv |-> "entry", ret |-> FALSE, entered |-> 0, half |-> FALSE]
  BY Zenon, <1>1, <1>2 DEF Target
<1>4. /\ tgt \in Targets /\ ~tgt.traced /\ ~tgt.exitkill /\ tgt.run \in {"running", "stopped"}
      /\ tgt.at = (IF ~n THEN "own" ELSE "linker") /\ tgt.auxv = "entry" /\ tgt.entered = 0
      /\ ~tgt.half
  BY <1>3 DEF Targets, Places, Stopped
<1>5. TypeOK
  BY <1>4 DEF Init, TypeOK, Calls, Places
<1>6. HoldInv
  BY <1>4 DEF Init, HoldInv, ExitKillScoped, Holding, Calls, Tracing, Pre, Injecting, Achieved
<1>7. EnterInv /\ LateInv
  <2>1. process_started => ~n
    BY <1>1, Zenon
  <2>2. process_started => tgt.at = "own"
    BY <1>4, <2>1
  <2>3. QED
    BY <1>4, <2>2 DEF Init, EnterInv, LateInv, Pre, Injecting, Calls, TornOff
<1>8. SoundInv
  BY <1>4 DEF Init, SoundInv, Pre, Achieved, Unhijacked
<1>9. QED
  BY <1>5, <1>6, <1>7, <1>8 DEF TracerInv

\* Every step keeps the invariant.
LEMMA TracerNext == TracerInv /\ [Next]_vars => TracerInv'
<1> SUFFICES ASSUME TracerInv, [Next]_vars PROVE TracerInv'
  OBVIOUS
<1>1. CASE TracerStep
  BY <1>1, SeizeStep, InterruptStep, WaitSeizeStep, InjectStep, HijackContStep, HijackWaitStep,
     AtTrapStep, RemoteCallStep, CallWaitStep, InjectFalseStep, InjectTrueStep, SendSigcontStep,
     WaitContStep, GkiStepStep, GkiDetachStep, AttachStep, WaitAttachStep, EndSteps, Zenon
     DEF TracerStep
<1>2. CASE handle_interrupt \/ TracerDies
  BY <1>2, EndSteps
<1>3. CASE TargetMoves
  BY <1>3, MovesDrift, DriftStep DEF TracerInv
<1>4. CASE Rest \/ UNCHANGED vars
  <2>1. UNCHANGED vars
    BY <1>4, Zenon DEF Rest
  <2>2. TypeOK' /\ HoldInv'
    BY <2>1 DEF vars, TracerInv, TypeOK, HoldInv, ExitKillScoped, process_started, TornOff
  <2>3. EnterInv' /\ LateInv'
    BY <2>1 DEF vars, TracerInv, EnterInv, LateInv, process_started, TornOff
  <2>4. SoundInv'
    BY <2>1 DEF vars, TracerInv, SoundInv, process_started, Unhijacked, TornOff
  <2>5. QED
    BY <2>2, <2>3, <2>4, Zenon DEF TracerInv
<1>5. QED
  BY <1>1, <1>2, <1>3, <1>4 DEF Next

\* A late injection that failed leaves the process dead, by another's hand, or in its own code
\* with its own registers, as long as registers can be accessed (ptracer.cpp:395).
THEOREM FailureRestores == Spec => []LateRestored
<1>1. TracerInv => LateRestored
  BY DEF TracerInv, LateInv, LateRestored, Injecting, Calls, TornOff
<1>2. QED
  BY TracerInit, TracerNext, <1>1, PTL DEF Spec

\* A tracer that reports success ran entry exactly once and let go of a target that runs its
\* own code, in every mode and with every strategy, as long as registers can be accessed
\* (ptracer.cpp, trace_target).
THEOREM SuccessLeavesIntact == Spec => []SuccessIntact
<1>1. TracerInv => SuccessIntact
  BY DEF TracerInv, HoldInv, SoundInv, SuccessIntact, Achieved, Unhijacked
<1>2. QED
  BY TracerInit, TracerNext, <1>1, PTL DEF Spec

\* Only the death of the tracer makes it a killed one, and that step is its exit.
LEMMA OnlyDies ==
  ASSUME TracerInv, [Next]_vars, pc # "gone_killed", pc' = "gone_killed"
  PROVE  tgt' = TracerExit(tgt) /\ UNCHANGED mode
<1>1. ~TargetMoves /\ ~Rest /\ ~UNCHANGED vars
  BY Zenon DEF TargetMoves, ReachEntry, FaultsInPlace, CalleeReturns, CalleeCrashes, SeccompEvent,
         SyscallStop, SignalArrives, PendingStop, TargetKilled, TracerIdle, Rest, vars
<1>2. \A e : ~Fails(e)
  BY DEF Fails
<1>3. \A e : ~Bail(e)
  BY <1>2, Zenon DEF Bail
<1>4. \A next : Goes(next) => next = "gone_killed"
  BY Zenon DEF Goes
<1>5. \A f \in Calls, ok, value \in BOOLEAN : After(f, ok, value) # "gone_killed"
  BY DEF After, Calls
<1>6. ~TracerStep
  <2>1. ~Seize /\ ~Interrupt /\ ~WaitSeize /\ ~Inject /\ ~HijackCont /\ ~HijackWait /\ ~AtTrap
    BY <1>2, <1>3, <1>4 DEF Seize, Interrupt, WaitSeize, Inject, HijackCont, HijackWait, AtTrap,
                            ExitOnDeath
  <2>2. ~RemoteCall
    BY <1>4, <1>5 DEF RemoteCall
  <2>3. ~CallWait
    <3>1. call \in Calls
      BY DEF TracerInv, TypeOK
    <3>2. QED
      BY <1>4, <1>5, <3>1 DEF CallWait, ExitOnDeath
  <2>4. ~InjectFalse /\ ~InjectTrue
    BY <1>2, <1>3, <1>4 DEF InjectFalse, InjectTrue, SetRegsFails
  <2>5. ~SendSigcont /\ ~WaitCont /\ ~GkiStep /\ ~GkiDetach /\ ~Attach /\ ~WaitAttach
    BY <1>2, <1>3, <1>4 DEF SendSigcont, WaitCont, GkiStep, GkiDetach, Attach, WaitAttach
  <2>6. ~ResumeUninjected /\ ~ExitSuccess
    BY <1>4 DEF ResumeUninjected, ExitSuccess
  <2>7. QED
    BY <2>1, <2>2, <2>3, <2>4, <2>5, <2>6, Zenon DEF TracerStep
<1>7. ~handle_interrupt
  BY <1>4 DEF handle_interrupt
<1>8. QED
  BY <1>1, <1>6, <1>7, Zenon DEF Next, TracerDies, Mutable

\* A tracer that dies takes a spawned zygote along, wherever it had got with it, unless the
\* zygote was not hijacked yet; it never takes along a process that was running before
\* (ptracer.cpp:545 and 674, PTRACE_O_EXITKILL).
THEOREM DeathIsScoped == Spec => DeathScoped
<1>1. ASSUME TracerInv, [Next]_vars, pc # "gone_killed", pc' = "gone_killed"
      PROVE  /\ process_started => (tgt'.run = "dead" => tgt.run = "dead")
             /\ mode = "SPAWN" /\ tgt.traced /\ (via = "seize" \/ "regs" \notin failures) =>
                  tgt'.run \in {"dead", "crashed"} \/ Unhijacked
  <2>1. tgt' = TracerExit(tgt) /\ tgt \in Targets /\ HoldInv /\ SoundInv
    BY <1>1, OnlyDies DEF TracerInv, TypeOK
  <2>2. process_started => (tgt'.run = "dead" => tgt.run = "dead")
    <3>1. process_started => ~tgt.exitkill
      BY <2>1, Zenon DEF HoldInv, ExitKillScoped
    <3>2. PICK u : u = TracerExit(tgt)
      OBVIOUS
    <3>3. process_started /\ tgt.run # "dead" => u.run # "dead"
      BY <2>1, <3>1, <3>2, TracerExitFreesAlive
    <3>4. QED
      BY <2>1, <3>2, <3>3
  <2>3. mode = "SPAWN" /\ tgt.traced /\ (via = "seize" \/ "regs" \notin failures) =>
          tgt'.run \in {"dead", "crashed"} \/ Unhijacked
    <3>1. mode = "SPAWN" /\ tgt.traced => tgt.exitkill \/ tgt.run = "dead" \/ pc = "wait_attach"
      BY <2>1 DEF HoldInv
    <3>2. tgt.traced /\ (tgt.exitkill \/ tgt.run = "dead") => tgt'.run \in {"dead", "crashed"}
      BY <2>1 DEF TracerExit, Targets
    <3>3. pc = "wait_attach" /\ (via = "seize" \/ "regs" \notin failures) => Unhijacked
      BY <2>1 DEF HoldInv, SoundInv, Pre, Unhijacked
    <3>4. QED
      BY <3>1, <3>2, <3>3, Zenon
  <2>4. QED
    BY <2>2, <2>3
<1>2. TracerInv /\ [Next]_vars =>
        [pc # "gone_killed" /\ pc' = "gone_killed" =>
           /\ process_started => (tgt'.run = "dead" => tgt.run = "dead")
           /\ mode = "SPAWN" /\ tgt.traced /\ (via = "seize" \/ "regs" \notin failures) =>
                tgt'.run \in {"dead", "crashed"} \/ Unhijacked]_vars
  BY <1>1, Zenon
<1>3. QED
  BY TracerInit, TracerNext, <1>2, PTL DEF Spec, DeathScoped
=============================================================================
