----------------------------- MODULE MCExclusion -----------------------------
(* One app id that two packages may share, three configurations, two package lists. *)
EXTENDS WebUi, TLC

CONSTANTS p, q, a, t1, t2

MCConfigs == {[packages |-> {}, unmount |-> TRUE], [packages |-> {p}, unmount |-> FALSE],
              [packages |-> {p, q}, unmount |-> TRUE]}
MCLists == {(p :> a @@ q :> a), (p :> a @@ q :> NoApp)}
OneList == {(p :> a @@ q :> NoApp)}
==============================================================================
