------------------------------ MODULE MCZygiskd ------------------------------
(* Two modules, two clients; the one ZN library is named after a module. *)
EXTENDS Zygiskd, TLC

CONSTANTS m1, m2, x1, x2, c1, c2

OneZn == <<m1>>

World(ops, names, clients, companions) ==
  [ops |-> ops, names |-> names, clients |-> clients, companions |-> companions]

AllWorlds ==
  {\* every request, with companions of both kinds and a list that changes
   World({"companion", "zn", "restart", "refresh"}, {m1}, {x1}, {c1, c2}),
   \* companions across a zygote restart: the modules of one client, the clients of one module
   World({"companion", "restart"}, {m1, m2}, {x1}, {c1}),
   World({"companion", "restart"}, {m1}, {x1, x2}, {c1}),
   \* replies across a refresh
   World({"refresh"}, {m1, m2}, {x1}, {})}

\* Companions asked for while the module list changes.
IndexWorlds == {World({"companion", "refresh"}, {m1, m2}, {x1}, {c1})}
==============================================================================
