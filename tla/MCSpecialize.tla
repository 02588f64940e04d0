----------------------------- MODULE MCSpecialize -----------------------------
(* One app of each kind the flags tell apart; uid 9 is an isolated uid, to which the daemon
   gives no flag of its own. *)
EXTENDS Specialize, TLC

CONSTANTS c1, c2, t1, t2

MCFlags == (1 :> {"root"}) @@ (2 :> {"root", "granted"}) @@ (3 :> {"root", "denied"})
           @@ (4 :> {"root", "excluded", "denied"}) @@ (9 :> {"root"})
App(u) == [uid |-> u, owner |-> u, kind |-> "app"]
Webview == [uid |-> 1, owner |-> 1, kind |-> "webview"]
Isolated(owner) == [uid |-> 9, owner |-> owner, kind |-> "isolated"]

MCApps == {App(2), App(3), App(4), Webview, Isolated(3)}
IsolatedApps == {Isolated(4)}

World(faults, late, room, apps) ==
  [faults |-> faults, late |-> late, room |-> room, apps |-> apps, traces |-> {t1, t2},
   missing |-> {}]

\* Two processes from boot on with unmounts that fail; one process with every other fault; one
\* process of a zygote without traces that may lack imports the library hooks: but not fork,
\* without which the library has no fork to call, nor unshare.
Missing == {"strdup", "property_get", Unloader} \cup LibSlots
HookWorld(faults, late) ==
  [World(faults, late, 1, {App(2)}) EXCEPT !.missing = Missing, !.traces = {}]
AllWorlds ==
  {World({"umount"}, FALSE, 2, MCApps),
   World(FaultKinds \ {"jni", "restore", "natives"}, TRUE, 1, MCApps)}
  \cup {HookWorld({"fork", "restore", "jni"} \cup more, late) : more \in {{}, {"natives"}}, late \in BOOLEAN}
BootWorlds == {World({}, FALSE, 2, IsolatedApps)}

Symmetry == Permutations({c1, c2}) \cup Permutations({t1, t2})
===============================================================================
