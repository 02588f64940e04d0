--------------------------------- MODULE MCZn ---------------------------------
(* Three libraries register a HYOS module, some after they were loaded, and the table holds
   two; the fourth targets an API that is too new. *)
EXTENDS Zn, TLC

CONSTANTS k1, k2, t1, t2, la, lb, lc, ld, n1, n2

Line(lib, for, usable) == [for |-> for, companion |-> FALSE, lib |-> lib, usable |-> usable]

\* A library named twice, the first time by a line that cannot be used.
AllLines == <<Line(la, {Spawner}, FALSE), Line(la, Loaders, TRUE), Line(lb, {Spawner}, TRUE),
              Line(lc, {Spawner}, TRUE), Line(ld, {Zygote}, TRUE), Line(la, {Spawner}, TRUE)>>
AllApi == la :> 4 @@ lb :> 4 @@ lc :> 4 @@ ld :> 5
AllHyos == la :> 1 @@ lb :> 1 @@ lc :> 1 @@ ld :> 0
Symmetry == Permutations({k1, k2}) \cup Permutations({t1, t2}) \cup Permutations({n1, n2})

Plt == {Exe, <<"plt", "setcontext">>, <<"plt", "setname">>}
Inline == {<<"inline", "setcontext">>, <<"inline", "setname">>}

Quiet == [ways |-> {}, faults |-> {}, threads |-> 0, targets |-> {}, kids |-> 0, restarts |-> 0,
          loaders |-> {Spawner}, late |-> {}, later |-> {}, anon |-> TRUE]

AllWorlds ==
  {\* forks, with hooks that come late by either way
   [Quiet EXCEPT !.kids = 2, !.later = Plt, !.late = {lb}],
   [Quiet EXCEPT !.kids = 1, !.ways = {<<"plt", "setcontext">>}, !.later = {Exe} \cup Inline, !.late = {lb, lc}],
   \* the hook API: two threads next to the runtime's PLT hooks and its inline hooks
   [Quiet EXCEPT !.threads = 2, !.ways = Plt, !.targets = {"setname", "other"}, !.faults = {"dobby"}],
   [Quiet EXCEPT !.threads = 2, !.kids = 1, !.later = Inline, !.targets = {"setcontext"}],
   \* reports of two processes across zygote restarts
   [Quiet EXCEPT !.loaders = Loaders, !.restarts = 1, !.faults = {"open"}],
   [Quiet EXCEPT !.loaders = Loaders, !.restarts = 2, !.anon = FALSE],
   [Quiet EXCEPT !.loaders = Loaders, !.faults = {"open", "connect"}]}
==============================================================================
