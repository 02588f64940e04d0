------------------------------- MODULE FlagMap -------------------------------
(***************************************************************************)
(* What the process-flag cache promises its readers: a map from uid to     *)
(* flags that is filled one uid at a time, dropped as a whole, and looked  *)
(* up atomically.  A lookup may always decline and send its caller to the  *)
(* daemon, but a lookup that answers gives the flags the map holds.        *)
(* ShmCache.tla is the shared-memory implementation of this module.        *)
(***************************************************************************)
CONSTANTS Uids,     \* the uids the daemon caches
          Flags,    \* the flag words it computes
          NoFlags,  \* "this uid is not cached"
          Readers   \* the processes that look uids up

VARIABLES map,      \* uid -> its cached flags, or NoFlags
          answer    \* reader -> flags of its last lookup, NoFlags: go to the daemon

vars == <<map, answer>>

Init == /\ map = [u \in Uids |-> NoFlags]
        /\ answer = [r \in Readers |-> NoFlags]

Put(u, f) == /\ map' = [map EXCEPT ![u] = f]
             /\ UNCHANGED answer

Flush == /\ map' = [u \in Uids |-> NoFlags]
         /\ UNCHANGED answer

Lookup(r, u) == /\ map[u] # NoFlags
                /\ answer' = [answer EXCEPT ![r] = map[u]]
                /\ UNCHANGED map

Decline(r) == /\ answer' = [answer EXCEPT ![r] = NoFlags]
              /\ UNCHANGED map

Next == \/ \E u \in Uids, f \in Flags : Put(u, f)
        \/ Flush
        \/ \E r \in Readers, u \in Uids : Lookup(r, u)
        \/ \E r \in Readers : Decline(r)

Spec == Init /\ [][Next]_vars
=============================================================================
