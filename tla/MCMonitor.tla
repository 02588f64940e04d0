------------------------------ MODULE MCMonitor ------------------------------
(* Instances of Monitor for model checking: the worlds of the two runs. *)
EXTENDS Monitor, TLC

PidSymmetry == Permutations(Pids)

World(programs, commands, faults, room) ==
  [programs |-> programs, commands |-> commands, faults |-> faults, room |-> room]

\* Safety: commands against a zygote that keeps crashing; the process tree with its
\* signals, kills and stubs; rearm with a system_server and forks that fail; stops
\* lifted by every command while writes and the seizing of init fail.
SafeWorlds ==
  {World({"zygote"}, {"START", "EXIT"}, {"exit"}, 2),
   World({"zygote", "stub", "hyos", "other"}, {"START", "STOP"}, {"signal", "kill"}, 2),
   World({"zygote", "system_server"}, {"REARM"}, {"fork"}, 3),
   World({"zygote"}, {"START", "STOP", "REARM"}, {"write", "seize"}, 2)}

\* Liveness: stops and commands with the faults of the process tree; hand-offs
\* without faults.
LiveWorlds ==
  {World({"zygote", "stub", "other"}, {"START", "STOP", "EXIT"},
         {"exit", "signal", "kill", "fork"}, 1),
   World({"zygote", "hyos"}, {"START", "STOP"}, {}, 2)}
=============================================================================
