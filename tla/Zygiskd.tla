------------------------------- MODULE Zygiskd -------------------------------
(***************************************************************************)
(* The request side of zygiskd: the accept loop, the handler threads, the  *)
(* module snapshots an Arc keeps alive, the companion processes and their  *)
(* sockets, the reaping of companions, and the zygote restart.             *)
(*                                                                         *)
(* A snapshot is the sequence of module names load_modules found, in the   *)
(* arbitrary order of read_dir.  A slot <<s, k>> is the companion field of *)
(* module k of snapshot s; the ZN companions, which one table under one    *)
(* mutex holds for the daemon's whole life, are the slots of snapshot 0.   *)
(***************************************************************************)
EXTENDS Naturals, Sequences, Functions, FiniteSets

CONSTANTS Names, ZnLibs,     \* modules; the sequence of ZN libraries
          Clients,           \* injected processes
          Companions,        \* companion processes, a bound on those not yet reaped
          None,
          Worlds,            \* see world
          MaxSnaps, MaxGen   \* bounds: published snapshots, zygote restarts

Main == "main"

ASSUME ZygiskdAssumption ==
  /\ None \notin Companions /\ Main \notin Clients /\ None \notin Clients
  /\ ZnLibs \in Seq(Names) /\ IsFiniteSet(Names)
  /\ MaxSnaps \in Nat \ {0} /\ MaxGen \in Nat
  /\ Worlds \subseteq [ops: SUBSET {"companion", "zn", "restart", "refresh"}, names: SUBSET Names,
                       clients: SUBSET Clients, companions: SUBSET Companions]

VARIABLES
  snaps, cur,  \* the snapshots built so far, and the one in context.modules
  held,        \* per slot: the companion whose socket it holds
  lock,        \* per slot: the holder of its mutex
  comp,        \* companion processes
  pending,     \* pending_companions
  client,      \* the injected processes
  handler,     \* the daemon's thread for each client's connection
  backlog,     \* connections waiting for accept
  main,        \* the accept loop
  gen,         \* zygote restarts handled
  world        \* chosen once: the requests that are made, the modules, clients and companions

vars == <<snaps, cur, held, lock, comp, pending, client, handler, backlog, main, gen, world>>

ModuleLists == UNION {Bijection(1..Cardinality(S), S) : S \in SUBSET world.names}
MaxLen == IF Cardinality(Names) > Len(ZnLibs) THEN Cardinality(Names) ELSE Len(ZnLibs)
Slots == (0..MaxSnaps) \X (1..MaxLen)

\* The mutex of a slot: its own, or the table's.
MutexOf(slot) == IF slot[1] = 0 THEN <<0, 1>> ELSE slot
Listed(s) == IF s = 0 THEN ZnLibs ELSE snaps[s]

Idle == [pc |-> "idle", s |-> 0, k |-> 0, n |-> 0, c |-> None]
Dead == [alive |-> FALSE, mods |-> <<>>, read |-> FALSE, waits |-> FALSE, want |-> None,
         conn |-> None]
NoProcess == [st |-> "exited", name |-> None, gen |-> 0, queue |-> <<>>, zn |-> FALSE]
Accepting == [pc |-> "accept", s |-> 0, k |-> 0]

Init ==
  /\ world \in Worlds
  /\ \E l \in ModuleLists : snaps = <<l>>
  /\ cur = 1
  /\ held = [x \in Slots |-> None] /\ lock = [x \in Slots |-> None]
  /\ comp = [c \in Companions |-> NoProcess] /\ pending = {}
  /\ client = [x \in Clients |-> Dead] /\ handler = [x \in Clients |-> Idle]
  /\ backlog = <<>> /\ main = Accepting /\ gen = 0

Running(c) == comp[c].st \in {"setup", "poll", "recv"}

\* A socket every Arc keeps, whether or not its snapshot is still in use.
HeldByAnySnapshot(c) ==
  \/ \E slot \in Slots : held[slot] = c
  \/ \E x \in Clients : handler[x].pc = "setup" /\ handler[x].c = c

\* The daemon's end of c's socket is open: a slot of a snapshot somebody still refers to
\* holds it, or the handler that is setting c up does.
Held(c) ==
  \/ \E slot \in Slots :
       /\ held[slot] = c
       /\ \/ slot[1] \in {0, cur}
          \/ main.pc = "take" /\ main.s = slot[1]
          \/ \E x \in Clients : handler[x].pc # "idle" /\ handler[x].s = slot[1]
  \/ \E x \in Clients : handler[x].pc = "setup" /\ handler[x].c = c

\* try_wait on every pending companion.
reap_companions == pending' = {c \in pending : Running(c)}

\* No trace of an exited companion is left: the model may use its name for the next one.
Forgotten(c) == ~Running(c) /\ c \notin pending /\ ~Held(c) /\ \A x \in Clients : client[x].conn # c

\* The client of a closed connection reads 0: no companion.
Refused(x) == IF client[x].waits THEN [client[x] EXCEPT !.waits = FALSE] ELSE client[x]

-----------------------------------------------------------------------------
(* The injected processes. *)

Queued(x) == \/ \E i \in 1..Len(backlog) : backlog[i].x = x
             \/ \E c \in Companions : \E i \in 1..Len(comp[c].queue) : comp[c].queue[i] = x

Connect(x, op, k) == backlog' = Append(backlog, [op |-> op, x |-> x, k |-> k])

\* A process is forked and asks for its modules.
ClientStarts(x) ==
  /\ x \in world.clients /\ ~client[x].alive /\ handler[x].pc = "idle" /\ ~Queued(x)
  /\ client' = [client EXCEPT ![x] = [Dead EXCEPT !.alive = TRUE, !.waits = TRUE]]
  /\ Connect(x, "read", 0)
  /\ UNCHANGED <<snaps, cur, held, lock, comp, pending, handler, main, gen, world>>

\* ConnectCompanion with the index of a module it read.
AsksCompanion(x, k) ==
  /\ "companion" \in world.ops
  /\ client[x].read /\ ~client[x].waits /\ client[x].conn = None
  /\ handler[x].pc = "idle" /\ ~Queued(x)
  /\ k \in 1..Len(client[x].mods)
  /\ client' = [client EXCEPT ![x].waits = TRUE, ![x].want = client[x].mods[k]]
  /\ Connect(x, "companion", k)
  /\ UNCHANGED <<snaps, cur, held, lock, comp, pending, handler, main, gen, world>>

AsksZnCompanion(x, k) ==
  /\ "zn" \in world.ops
  /\ client[x].read /\ ~client[x].waits /\ client[x].conn = None
  /\ handler[x].pc = "idle" /\ ~Queued(x)
  /\ k \in 1..Len(ZnLibs)
  /\ client' = [client EXCEPT ![x].waits = TRUE, ![x].want = ZnLibs[k]]
  /\ Connect(x, "zn", k)
  /\ UNCHANGED <<snaps, cur, held, lock, comp, pending, handler, main, gen, world>>

\* It dies, or its three-second timeout closes the connection.
ClientGone(x) ==
  /\ client[x].alive
  /\ client' = [client EXCEPT ![x] = Dead]
  /\ UNCHANGED <<snaps, cur, held, lock, comp, pending, handler, backlog, main, gen, world>>

\* The zygote dies with every process it forked; the tracer of the next one reports it
\* before it injects, or cannot connect.
ZygoteRestarts ==
  /\ "restart" \in world.ops /\ gen < MaxGen
  /\ ~\E i \in 1..Len(backlog) : backlog[i].op = "restart"
  /\ client' = [x \in Clients |-> Dead]
  /\ \/ Connect(None, "restart", 0)
     \/ UNCHANGED backlog
  /\ UNCHANGED <<snaps, cur, held, lock, comp, pending, handler, main, gen, world>>

\* The monitor rearms.
RearmRefreshes ==
  /\ "refresh" \in world.ops /\ cur < MaxSnaps
  /\ ~\E i \in 1..Len(backlog) : backlog[i].op = "refresh"
  /\ Connect(None, "refresh", 0)
  /\ UNCHANGED <<snaps, cur, held, lock, comp, pending, client, handler, main, gen, world>>

-----------------------------------------------------------------------------
(* The accept loop: handle_connection. *)

AcceptThreaded ==
  /\ main.pc = "accept" /\ backlog # <<>>
  /\ LET r == Head(backlog)
     IN /\ r.op \in {"read", "companion", "zn"}
        /\ handler' = [handler EXCEPT ![r.x] = [Idle EXCEPT !.pc = r.op, !.k = r.k]]
  /\ backlog' = Tail(backlog)
  /\ UNCHANGED <<snaps, cur, held, lock, comp, pending, client, main, gen, world>>

\* ZygoteRestart: the companions first, one mutex after the other.
AcceptRestart ==
  /\ main.pc = "accept" /\ backlog # <<>> /\ Head(backlog).op = "restart"
  /\ backlog' = Tail(backlog)
  /\ gen' = gen + 1
  /\ main' = [pc |-> "take", s |-> cur, k |-> 1]
  /\ UNCHANGED <<snaps, cur, held, lock, comp, pending, client, handler, world>>

TakeFrom(slots) == held' = [x \in Slots |-> IF x \in slots THEN None ELSE held[x]]

\* Starts over after each companion.
TakeCompanionAgain ==
  /\ main.pc = "take" /\ main.k <= Len(snaps[main.s])
  /\ lock[<<main.s, main.k>>] = None
  /\ TakeFrom({<<main.s, main.k>>})
  /\ main' = [main EXCEPT !.k = 1]
  /\ UNCHANGED <<snaps, cur, lock, comp, pending, client, handler, backlog, gen, world>>

TakeCompanion ==
  /\ main.pc = "take" /\ main.k <= Len(snaps[main.s])
  /\ lock[<<main.s, main.k>>] = None
  /\ TakeFrom({<<main.s, main.k>>})
  /\ main' = [main EXCEPT !.k = @ + 1]
  /\ UNCHANGED <<snaps, cur, lock, comp, pending, client, handler, backlog, gen, world>>

\* Leaves the companions to the snapshot swap.
ClearZnCompanionsOnly ==
  /\ main.pc = "take"
  /\ lock[<<0, 1>>] = None
  /\ TakeFrom({x \in Slots : x[1] = 0})
  /\ main' = [Accepting EXCEPT !.pc = "rescan"]
  /\ UNCHANGED <<snaps, cur, lock, comp, pending, client, handler, backlog, gen, world>>

\* zn_companions.lock().clear()
ClearZnCompanions ==
  /\ main.pc = "take" /\ main.k > Len(snaps[main.s])
  /\ lock[<<0, 1>>] = None
  /\ TakeFrom({x \in Slots : x[1] = 0})
  /\ main' = [Accepting EXCEPT !.pc = "rescan"]
  /\ UNCHANGED <<snaps, cur, lock, comp, pending, client, handler, backlog, gen, world>>

\* Built completely, then published, then the companions that have exited are reaped.
Publish ==
  /\ cur < MaxSnaps
  /\ \E l \in ModuleLists : snaps' = Append(snaps, l)
  /\ cur' = cur + 1
  /\ reap_companions

\* The rescan failed: the daemon serves the previous set.
KeepSnapshot == UNCHANGED <<snaps, cur, pending>>

refresh_modules == Publish \/ KeepSnapshot

AcceptRefresh ==
  /\ main.pc = "accept" /\ backlog # <<>> /\ Head(backlog).op = "refresh"
  /\ backlog' = Tail(backlog)
  /\ refresh_modules
  /\ UNCHANGED <<held, lock, comp, client, handler, main, gen, world>>

Rescan ==
  /\ main.pc = "rescan"
  /\ refresh_modules
  /\ main' = Accepting
  /\ UNCHANGED <<held, lock, comp, client, handler, backlog, gen, world>>

-----------------------------------------------------------------------------
(* handle_read_modules: one snapshot for the whole reply. *)

StartReply(x) ==
  /\ handler[x].pc = "read"
  /\ reap_companions
  /\ handler' = [handler EXCEPT ![x].pc = "reply", ![x].s = cur, ![x].n = Len(snaps[cur])]
  /\ UNCHANGED <<snaps, cur, held, lock, comp, client, backlog, main, gen, world>>

\* Each entry of the reply from the snapshot of the moment.
EntryOfTheMoment(x) ==
  LET l == snaps[IF handler[x].k < Len(snaps[cur]) THEN cur ELSE handler[x].s]
  IN l[handler[x].k + 1]

Entry(x) == snaps[handler[x].s][handler[x].k + 1]

\* A write to a client that has gone ends the handler.
SendEntry(x) ==
  /\ handler[x].pc = "reply" /\ handler[x].k < handler[x].n
  /\ IF client[x].waits
     THEN /\ client' = [client EXCEPT ![x].mods = Append(@, Entry(x))]
          /\ handler' = [handler EXCEPT ![x].k = @ + 1]
     ELSE handler' = [handler EXCEPT ![x] = Idle] /\ UNCHANGED client
  /\ UNCHANGED <<snaps, cur, held, lock, comp, pending, backlog, main, gen, world>>

EndReply(x) ==
  /\ handler[x].pc = "reply" /\ handler[x].k = handler[x].n
  /\ client' = IF client[x].waits
               THEN [client EXCEPT ![x].waits = FALSE, ![x].read = TRUE] ELSE client
  /\ handler' = [handler EXCEPT ![x] = Idle]
  /\ UNCHANGED <<snaps, cur, held, lock, comp, pending, backlog, main, gen, world>>

-----------------------------------------------------------------------------
(* handle_request_companion_socket and handle_request_zn_companion_socket. *)

Slot(x) == <<handler[x].s, handler[x].k>>

\* context.modules() and module_at.
TakeSnapshot(x) ==
  /\ handler[x].pc \in {"companion", "zn"}
  /\ LET s == IF handler[x].pc = "zn" THEN 0 ELSE cur
     IN IF handler[x].k <= Len(Listed(s))
        THEN /\ handler' = [handler EXCEPT ![x].pc = "lock", ![x].s = s]
             /\ UNCHANGED client
        ELSE /\ client' = [client EXCEPT ![x] = Refused(x)]
             /\ handler' = [handler EXCEPT ![x] = Idle]
  /\ UNCHANGED <<snaps, cur, held, lock, comp, pending, backlog, main, gen, world>>

\* The mutex is taken and a socket whose companion has exited is dropped.
LockSlot(x) ==
  /\ handler[x].pc = "lock"
  /\ lock[MutexOf(Slot(x))] = None
  /\ lock' = [lock EXCEPT ![MutexOf(Slot(x))] = x]
  /\ LET c == held[Slot(x)]
     IN IF c # None /\ Running(c)
        THEN /\ handler' = [handler EXCEPT ![x].pc = "send"]
             /\ UNCHANGED held
        ELSE /\ handler' = [handler EXCEPT ![x].pc = "spawn"]
             /\ held' = [held EXCEPT ![Slot(x)] = None]
  /\ UNCHANGED <<snaps, cur, comp, pending, client, backlog, main, gen, world>>

\* The module list read at startup.
NewCompanionOfFirst(x) ==
  LET l == IF handler[x].k <= Len(snaps[1]) THEN snaps[1] ELSE Listed(handler[x].s)
  IN [st |-> "setup", name |-> l[handler[x].k], gen |-> gen, queue |-> <<>>,
      zn |-> handler[x].s = 0]

NewCompanion(x) == [st |-> "setup", name |-> Listed(handler[x].s)[handler[x].k], gen |-> gen,
                    queue |-> <<>>, zn |-> handler[x].s = 0]

\* spawn_companion, spawn_zn_companion up to the read of the companion's answer.
Spawn(x) ==
  /\ handler[x].pc = "spawn"
  /\ \E c \in world.companions :
       /\ Forgotten(c)
       /\ comp' = [comp EXCEPT ![c] = NewCompanion(x)]
       /\ pending' = pending \cup {c}
       /\ handler' = [handler EXCEPT ![x].pc = "setup", ![x].c = c]
  /\ UNCHANGED <<snaps, cur, held, lock, client, backlog, main, gen, world>>

SpawnFails(x) ==
  /\ handler[x].pc = "spawn"
  /\ handler' = [handler EXCEPT ![x].pc = "send"]
  /\ UNCHANGED <<snaps, cur, held, lock, comp, pending, client, backlog, main, gen, world>>

\* The answer 1 has been read.
SetUp(x) ==
  /\ handler[x].pc = "setup" /\ comp[handler[x].c].st \in {"poll", "recv"}
  /\ held' = [held EXCEPT ![Slot(x)] = handler[x].c]
  /\ handler' = [handler EXCEPT ![x].pc = "send", ![x].c = None]
  /\ UNCHANGED <<snaps, cur, lock, comp, pending, client, backlog, main, gen, world>>

\* The answer 0, or the end of file of a companion that died.
SetUpFails(x) ==
  /\ handler[x].pc = "setup" /\ ~Running(handler[x].c)
  /\ handler' = [handler EXCEPT ![x].pc = "send", ![x].c = None]
  /\ UNCHANGED <<snaps, cur, held, lock, comp, pending, client, backlog, main, gen, world>>

\* The client's socket goes to the companion, or the client is told there is none.  The
\* guard and the Arc are dropped.
SendToCompanion(x) ==
  /\ handler[x].pc = "send"
  /\ LET c == held[Slot(x)]
     IN IF c # None /\ Running(c)
        THEN comp' = [comp EXCEPT ![c].queue = Append(@, x)] /\ UNCHANGED client
        ELSE client' = [client EXCEPT ![x] = Refused(x)] /\ UNCHANGED comp
  /\ lock' = [lock EXCEPT ![MutexOf(Slot(x))] = None]
  /\ handler' = [handler EXCEPT ![x] = Idle]
  /\ UNCHANGED <<snaps, cur, held, pending, backlog, main, gen, world>>

-----------------------------------------------------------------------------
(* run_companion and run_zn_companion. *)

\* The process ends; whoever waits in its queue sees the connection closed.
Exit(c) ==
  /\ comp' = [comp EXCEPT ![c].st = "exited", ![c].queue = <<>>]
  /\ client' = [x \in Clients |-> IF \E i \in 1..Len(comp[c].queue) : comp[c].queue[i] = x
                                 THEN Refused(x) ELSE client[x]]
  /\ UNCHANGED <<snaps, cur, held, lock, pending, handler, backlog, main, gen, world>>

Loaded(c) ==
  /\ comp[c].st = "setup"
  /\ comp' = [comp EXCEPT ![c].st = "poll"]
  /\ UNCHANGED <<snaps, cur, held, lock, pending, client, handler, backlog, main, gen, world>>

\* No entry point, a library that does not load, or a crash in it.
NotLoaded(c) == comp[c].st = "setup" /\ Exit(c)

\* is_socket_alive
Poll(c) ==
  /\ comp[c].st = "poll"
  /\ IF Held(c)
     THEN /\ comp' = [comp EXCEPT ![c].st = "recv"]
          /\ UNCHANGED <<snaps, cur, held, lock, pending, client, handler, backlog, main, gen, world>>
     ELSE Exit(c)

\* The acknowledgement is written.
Serve(c) ==
  /\ comp[c].st = "recv" /\ comp[c].queue # <<>>
  /\ LET x == Head(comp[c].queue)
     IN /\ client[x].waits
        /\ client' = [client EXCEPT ![x].waits = FALSE, ![x].conn = c]
  /\ comp' = [comp EXCEPT ![c].st = "poll", ![c].queue = Tail(@)]
  /\ UNCHANGED <<snaps, cur, held, lock, pending, handler, backlog, main, gen, world>>

\* The client has gone: run_companion returns, run_zn_companion goes on.
AckFails(c) ==
  /\ comp[c].st = "recv" /\ comp[c].queue # <<>>
  /\ ~client[Head(comp[c].queue)].waits
  /\ IF comp[c].zn
     THEN /\ comp' = [comp EXCEPT ![c].st = "poll", ![c].queue = Tail(@)]
          /\ UNCHANGED <<snaps, cur, held, lock, pending, client, handler, backlog, main, gen, world>>
     ELSE Exit(c)

SocketClosed(c) == comp[c].st = "recv" /\ comp[c].queue = <<>> /\ ~Held(c) /\ Exit(c)

-----------------------------------------------------------------------------
MainStep == AcceptThreaded \/ AcceptRestart \/ TakeCompanion \/ ClearZnCompanions
            \/ AcceptRefresh \/ Rescan
HandlerStep(x) ==
  \/ StartReply(x) \/ SendEntry(x) \/ EndReply(x) \/ TakeSnapshot(x) \/ LockSlot(x)
  \/ Spawn(x) \/ SpawnFails(x) \/ SetUp(x) \/ SetUpFails(x) \/ SendToCompanion(x)
CompanionLoop(c) == Poll(c) \/ Serve(c) \/ AckFails(c) \/ SocketClosed(c)

Next ==
  \/ \E x \in Clients :
       \/ ClientStarts(x) \/ ClientGone(x) \/ HandlerStep(x)
       \/ \E k \in 1..MaxLen : AsksCompanion(x, k) \/ AsksZnCompanion(x, k)
  \/ ZygoteRestarts \/ RearmRefreshes \/ MainStep
  \/ \E c \in Companions : Loaded(c) \/ NotLoaded(c) \/ CompanionLoop(c)

Spec == Init /\ [][Next]_vars

\* The daemon's threads and the companions' loops are scheduled; a mutex is handed on.
Scheduling ==
  /\ WF_vars(MainStep) /\ SF_vars(TakeCompanion) /\ SF_vars(ClearZnCompanions)
  /\ \A x \in Clients : WF_vars(HandlerStep(x))
  /\ \A c \in Companions : WF_vars(CompanionLoop(c))

\* Besides, a module's library loads, fails or crashes: it does not hang.
LoadsEnd == \A c \in Companions : WF_vars(Loaded(c) \/ NotLoaded(c))

FairSpec == Spec /\ Scheduling /\ LoadsEnd

-----------------------------------------------------------------------------
Processes == [st: {"setup", "poll", "recv", "exited"}, name: Names \cup {None}, gen: Nat,
              queue: Seq(Clients), zn: BOOLEAN]
Injected == [alive: BOOLEAN, mods: Seq(Names), read: BOOLEAN, waits: BOOLEAN,
             want: Names \cup {None}, conn: Companions \cup {None}]
Handlers == [pc: {"idle", "read", "reply", "companion", "zn", "lock", "spawn", "setup", "send"},
             s: Nat, k: Nat, n: Nat, c: Companions \cup {None}]
Requests == [op: {"read", "companion", "zn", "restart", "refresh"}, x: Clients \cup {None}, k: Nat]

TypeOK ==
  /\ snaps \in Seq(Seq(Names)) /\ cur = Len(snaps) /\ cur \in 1..MaxSnaps
  /\ held \in [Slots -> Companions \cup {None}] /\ lock \in [Slots -> Clients \cup {None}]
  /\ comp \in [Companions -> Processes] /\ pending \subseteq Companions
  /\ client \in [Clients -> Injected] /\ handler \in [Clients -> Handlers]
  /\ backlog \in Seq(Requests) /\ gen \in Nat
  /\ main \in [pc: {"accept", "take", "rescan"}, s: Nat, k: Nat]

\* zygiskd.rs:643: "One snapshot for the whole reply, so the count written first always
\* matches the number of entries that follow even if a refresh lands mid-reply."  The list a
\* process holds is one the daemon published.
ReplyConsistent == \A x \in Clients : client[x].read => \E s \in 1..cur : client[x].mods = snaps[s]

\* zygiskd.rs:232: "a module handle is an index into the list its process read at startup".
\* The companion a process is connected to is that of the module it asked for.
CompanionMatchesModule ==
  \A x \in Clients : client[x].conn # None => comp[client[x].conn].name = client[x].want

\* zygiskd.rs:218: "Drop the companions first and unconditionally".  When the accept loop
\* is back from a zygote restart no slot in use holds a companion from before it, also when
\* the rescan failed or a handler was setting one up meanwhile.
RestartDrops ==
  main.pc = "accept" => \A slot \in Slots :
    held[slot] # None /\ slot[1] \in {0, cur} /\ Running(held[slot]) => comp[held[slot]].gen = gen

\* zygiskd.rs:105: "A companion whose socket is closed has no remaining caller, so it exits
\* on its own."  Companions of no present module exit.
RetiredExit ==
  \A c \in Companions :
    (/\ comp[c].st \in {"poll", "recv"}
     /\ \A slot \in Slots : held[slot] = c => slot[1] \notin {0, cur}
     /\ \A x \in Clients : handler[x].c # c) ~> ~Running(c)

\* zygiskd.rs:193: "These actions are lightweight and handled synchronously."  The accept
\* loop gets back to accepting after a zygote restart.
RestartEnds == (main.pc = "take") ~> (main.pc = "accept")
=============================================================================
