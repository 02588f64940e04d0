------------------------------ MODULE MCTracer ------------------------------
(* Instances of Tracer for model checking: the failures of each run. *)
EXTENDS Tracer

\* Every failure at once, with and without registers that cannot be accessed.
AllWorlds == {AllFailures, AllFailures \ {"regs"}}
=============================================================================
