---------------------------- MODULE ZygiskdProofs ----------------------------
(***************************************************************************)
(* Proofs about Zygiskd, for all sets of modules, clients and companions   *)
(* and every world: a reply is one published snapshot, and a zygote        *)
(* restart leaves no companion of an earlier generation in use.            *)
(***************************************************************************)
EXTENDS Zygiskd, FiniteSetTheorems, TLAPS

------------------------------------------------------------------------------
(* The inductive invariant.                                                 *)

\* m is the first k entries of l.
Matches(m, l, k) == Len(m) = k /\ \A i \in 1..k : m[i] = l[i]

\* A reply under way, by handler h to client c: what was sent so far is the
\* beginning of one snapshot; and what a client has read is a whole one.
ReplyInv(h, c, lists) ==
  /\ h.pc = "read" => h.k = 0 /\ ~c.read /\ c.mods = <<>>
  /\ h.pc = "reply" =>
       /\ h.s \in 1..Len(lists) /\ h.n = Len(lists[h.s]) /\ h.k <= h.n /\ ~c.read
       /\ c.waits => Matches(c.mods, lists[h.s], h.k)
  /\ c.read => \E s \in 1..Len(lists) : c.mods = lists[s]

\* A request r not accepted yet: its client has no handler, and has no list if
\* it asks for one.
RequestInv(r, handlers, clients) ==
  /\ r.op \in {"restart", "refresh"} <=> r.x = None
  /\ r.x # None => handlers[r.x].pc = "idle"
  /\ r.op = "read" => r.k = 0 /\ ~clients[r.x].read /\ clients[r.x].mods = <<>>
  /\ r.op \in {"companion", "zn"} => r.k \in 1..MaxLen

BacklogInv ==
  /\ \A i \in 1..Len(backlog) : RequestInv(backlog[i], handler, client)
  /\ \A i, j \in 1..Len(backlog) : backlog[i].x = backlog[j].x /\ backlog[i].x # None => i = j

\* A handler past its snapshot is within that snapshot's list; past the lock it
\* holds the mutex of its slot.
LockInv(x, h, locks) ==
  /\ h.pc \in {"companion", "zn"} => h.k \in 1..MaxLen
  /\ h.pc \in {"lock", "spawn", "setup", "send"} =>
       h.s \in 0..cur /\ h.k \in 1..MaxLen /\ h.k <= Len(Listed(h.s))
  /\ h.pc \in {"spawn", "setup", "send"} => locks[MutexOf(<<h.s, h.k>>)] = x
  /\ h.pc = "setup" => h.c \in Companions

\* The slots the accept loop has dealt with since the last zygote restart: all in
\* use once it has cleared the ZN table, before that the ones it has passed.
Swept(slot) ==
  \/ main.pc # "take" /\ slot[1] \in {0, cur}
  \/ main.pc = "take" /\ slot[1] = main.s /\ slot[2] < main.k

\* A companion in a swept slot, or about to be put there, is of this generation.
Current(c) == c # None /\ Running(c) => comp[c].gen = gen

SlotInv(slot) ==
  /\ held[slot] # None => slot[1] <= cur /\ slot[2] <= Len(Listed(slot[1]))
  /\ Swept(slot) => Current(held[slot])

ZygiskdInv ==
  /\ TypeOK /\ world \in Worlds
  /\ \A x \in Clients : ReplyInv(handler[x], client[x], snaps)
  /\ BacklogInv
  /\ \A x \in Clients : LockInv(x, handler[x], lock)
  /\ \A x \in Clients : handler[x].pc = "setup" /\ Swept(Slot(x)) => Current(handler[x].c)
  /\ \A slot \in Slots : SlotInv(slot)
  /\ main.pc = "take" => main.s = cur

------------------------------------------------------------------------------
(* Lists, slots and mutexes.                                                *)

\* The longest list is a number.
LEMMA MaxLenNat == MaxLen \in Nat
<1>1. Cardinality(Names) \in Nat
  BY Zenon, ZygiskdAssumption, FS_CardinalityType
<1>2. Len(ZnLibs) \in Nat
  BY ZygiskdAssumption
<1>3. QED
  BY Zenon, <1>1, <1>2 DEF MaxLen

\* What load_modules finds is a list of module names.
LEMMA ListFacts ==
  ASSUME world \in Worlds, NEW l \in ModuleLists
  PROVE  l \in Seq(Names)
<1>1. PICK S \in SUBSET world.names : l \in Bijection(1..Cardinality(S), S)
  BY Zenon DEF ModuleLists
<1>2. S \subseteq Names
  BY Zenon, ZygiskdAssumption
<1>3. Cardinality(S) \in Nat
  BY Zenon, <1>2, ZygiskdAssumption, FS_Subset, FS_CardinalityType
<1>4. l \in [1..Cardinality(S) -> S]
  BY Zenon, <1>1 DEF Bijection, Injection, Surjection
<1>5. l \in [1..Cardinality(S) -> Names]
  BY Zenon, <1>2, <1>4
<1>6. QED
  BY <1>3, <1>5

\* The mutex of a slot is one of the slots' mutexes, and two slots of a snapshot
\* in use have two.
LEMMA MutexFacts ==
  ASSUME NEW s \in 0..MaxSnaps, NEW k \in 1..MaxLen
  PROVE  /\ <<s, k>> \in Slots /\ MutexOf(<<s, k>>) \in Slots
         /\ s = 0 => MutexOf(<<s, k>>) = <<0, 1>>
         /\ s # 0 => MutexOf(<<s, k>>) = <<s, k>>
<1>1. 1 \in 1..MaxLen /\ 0 \in 0..MaxSnaps
  BY MaxLenNat, ZygiskdAssumption
<1>2. QED
  BY Zenon, <1>1 DEF Slots, MutexOf

\* The module lists are sequences, ZnLibs included.
LEMMA ListedSeq ==
  ASSUME ZygiskdInv, NEW s \in 0..cur
  PROVE  Listed(s) \in Seq(Names)
BY ZygiskdAssumption DEF ZygiskdInv, TypeOK, Listed

\* The invariant in the initial state.
LEMMA ZygiskdInit == Init => ZygiskdInv
<1> SUFFICES ASSUME Init
             PROVE  ZygiskdInv
  OBVIOUS
<1>1. /\ world \in Worlds /\ cur = 1 /\ pending = {} /\ gen = 0 /\ backlog = <<>>
      /\ held = [x \in Slots |-> None] /\ lock = [x \in Slots |-> None]
      /\ comp = [c \in Companions |-> NoProcess]
      /\ client = [x \in Clients |-> Dead] /\ handler = [x \in Clients |-> Idle]
      /\ main = Accepting
  BY Zenon DEF Init
<1>2. PICK l \in ModuleLists : snaps = <<l>>
  BY Zenon DEF Init
<1>3. snaps \in Seq(Seq(Names)) /\ Len(snaps) = 1
  BY <1>1, <1>2, ListFacts
<1>4. Idle \in Handlers /\ Idle.pc = "idle"
  BY Zenon DEF Idle, Handlers
<1>5. Dead \in Injected /\ ~Dead.read
  BY DEF Dead, Injected
<1>6. NoProcess \in Processes
  BY DEF NoProcess, Processes
<1>7. TypeOK
  <2>1. cur \in 1..MaxSnaps
    BY <1>1, ZygiskdAssumption
  <2>2. main \in [pc: {"accept", "take", "rescan"}, s: Nat, k: Nat]
    BY Zenon, <1>1 DEF Accepting
  <2>3. QED
    BY <1>1, <1>3, <1>4, <1>5, <1>6, <2>1, <2>2 DEF TypeOK
<1>8. \A x \in Clients : handler[x] = Idle /\ client[x] = Dead
  BY Zenon, <1>1
<1>9. \A x \in Clients : ReplyInv(handler[x], client[x], snaps) /\ LockInv(x, handler[x], lock)
  BY Zenon, <1>4, <1>5, <1>8 DEF ReplyInv, LockInv
<1>10. BacklogInv
  BY <1>1 DEF BacklogInv
<1>11. \A slot \in Slots : SlotInv(slot)
  BY Zenon, <1>1 DEF SlotInv, Current
<1>12. main.pc = "accept"
  BY Zenon, <1>1 DEF Accepting
<1>13. QED
  BY Zenon, <1>1, <1>4, <1>7, <1>8, <1>9, <1>10, <1>11, <1>12 DEF ZygiskdInv

------------------------------------------------------------------------------
(* The parts of the invariant, and the steps that hardly touch them.        *)

RepliesInv == BacklogInv /\ \A x \in Clients : ReplyInv(handler[x], client[x], snaps)
LocksInv == \A x \in Clients : LockInv(x, handler[x], lock)
GenInv ==
  /\ \A x \in Clients : handler[x].pc = "setup" /\ Swept(Slot(x)) => Current(handler[x].c)
  /\ \A slot \in Slots : SlotInv(slot)
  /\ main.pc = "take" => main.s = cur

\* A client c that has become d has lost no entry of a list it still reads.
Calmer(c, d) ==
  /\ d.read => c.read /\ d.mods = c.mods
  /\ d.mods \in {c.mods, <<>>}
  /\ d.waits => c.waits /\ d.mods = c.mods

\* Clients that die, or are refused or served, disturb no reply.
LEMMA CalmClients ==
  ASSUME ZygiskdInv, UNCHANGED <<snaps, handler, backlog>>,
         \A x \in Clients : Calmer(client[x], client'[x])
  PROVE  RepliesInv'
<1>1. BacklogInv /\ \A x \in Clients : ReplyInv(handler[x], client[x], snaps)
  BY Zenon DEF ZygiskdInv
<1>2. ASSUME NEW x \in Clients
      PROVE  ReplyInv(handler[x], client'[x], snaps)
  BY ZenonT(60), <1>1 DEF ReplyInv, Calmer
<1>3. ASSUME NEW i \in 1..Len(backlog)
      PROVE  RequestInv(backlog[i], handler, client')
  <2>1. PICK r : r = backlog[i]
    OBVIOUS
  <2>2. r \in Requests
    BY <2>1 DEF ZygiskdInv, TypeOK
  <2>3. RequestInv(r, handler, client)
    BY Zenon, <1>1, <2>1 DEF BacklogInv
  <2>4. r.op = "read" => r.x \in Clients
    BY Zenon, <2>2, <2>3 DEF Requests, RequestInv
  <2>5. r.op = "read" => ~client'[r.x].read /\ client'[r.x].mods = <<>>
    BY Zenon, <2>3, <2>4 DEF RequestInv, Calmer
  <2>6. QED
    BY Zenon, <2>1, <2>3, <2>5 DEF RequestInv
<1>4. BacklogInv'
  BY Zenon, <1>1, <1>3 DEF BacklogInv
<1>5. QED
  BY Zenon, <1>2, <1>4 DEF RepliesInv

\* Nobody waits in the backlog whose handler is at work.
LEMMA AtWork ==
  ASSUME ZygiskdInv, NEW x \in Clients, handler[x].pc # "idle", NEW i \in 1..Len(backlog)
  PROVE  backlog[i].x # x
<1>1. RequestInv(backlog[i], handler, client) /\ x # None
  BY Zenon, ZygiskdAssumption DEF ZygiskdInv, BacklogInv
<1>2. QED
  BY Zenon, <1>1 DEF RequestInv

\* A handler's step: its own client's reply is all it can disturb.
LEMMA HandlerReplies ==
  ASSUME ZygiskdInv, UNCHANGED <<snaps, backlog>>, NEW x \in Clients, handler[x].pc # "idle",
         NEW h, NEW c, ReplyInv(h, c, snaps),
         handler' = [handler EXCEPT ![x] = h], client' = [client EXCEPT ![x] = c]
  PROVE  RepliesInv'
<1>1. /\ handler \in [Clients -> Handlers] /\ client \in [Clients -> Injected] /\ BacklogInv
      /\ \A y \in Clients : ReplyInv(handler[y], client[y], snaps)
  BY Zenon DEF ZygiskdInv, TypeOK
<1>2. /\ handler'[x] = h /\ client'[x] = c
      /\ \A y \in Clients \ {x} : handler'[y] = handler[y] /\ client'[y] = client[y]
  BY Zenon, <1>1
<1>3. \A y \in Clients : ReplyInv(handler'[y], client'[y], snaps)
  BY Zenon, <1>1, <1>2
<1>4. ASSUME NEW i \in 1..Len(backlog)
      PROVE  RequestInv(backlog[i], handler', client')
  <2>1. PICK r : r = backlog[i]
    OBVIOUS
  <2>2. r \in Requests /\ r.x # x
    BY <2>1, AtWork DEF ZygiskdInv, TypeOK
  <2>3. RequestInv(r, handler, client)
    BY Zenon, <1>1, <2>1 DEF BacklogInv
  <2>4. r.x # None => r.x \in Clients \ {x}
    BY Zenon, <2>2 DEF Requests
  <2>5. r.op = "read" => r.x # None
    BY Zenon, <2>3 DEF RequestInv
  <2>6. RequestInv(r, handler', client')
    BY Zenon, <1>2, <2>3, <2>4, <2>5 DEF RequestInv
  <2>7. QED
    BY Zenon, <2>1, <2>6
<1>5. BacklogInv'
  BY Zenon, <1>1, <1>4 DEF BacklogInv
<1>6. QED
  BY Zenon, <1>3, <1>5 DEF RepliesInv

\* A handler moves on without letting go of, or taking, a mutex.
LEMMA HandlerLocks ==
  ASSUME ZygiskdInv, UNCHANGED <<snaps, cur, lock>>, NEW x \in Clients,
         NEW h, LockInv(x, h, lock), handler' = [handler EXCEPT ![x] = h]
  PROVE  LocksInv'
<1>1. handler \in [Clients -> Handlers] /\ \A y \in Clients : LockInv(y, handler[y], lock)
  BY Zenon DEF ZygiskdInv, TypeOK
<1>2. handler'[x] = h /\ \A y \in Clients \ {x} : handler'[y] = handler[y]
  BY Zenon, <1>1
<1>3. \A y \in Clients : LockInv(y, handler'[y], lock)
  BY Zenon, <1>1, <1>2
<1>4. QED
  BY <1>3 DEF LocksInv, LockInv, Listed

\* A step that leaves the locks alone.
LEMMA SameLocks ==
  ASSUME ZygiskdInv, UNCHANGED <<snaps, cur, lock, handler>>
  PROVE  LocksInv'
BY Zenon DEF ZygiskdInv, LocksInv, LockInv, Listed

\* Companions may only end, slots only lose theirs.
LEMMA CalmGen ==
  ASSUME ZygiskdInv, UNCHANGED <<snaps, cur, main, gen>>,
         \A x \in Clients : handler'[x].pc = "setup" => handler'[x] = handler[x],
         \A slot \in Slots : held'[slot] \in {held[slot], None},
         \A c \in Companions : Running(c)' => Running(c) /\ comp'[c].gen = comp[c].gen
  PROVE  GenInv'
<1>1. /\ held \in [Slots -> Companions \cup {None}] /\ (main.pc = "take" => main.s = cur)
      /\ \A slot \in Slots : SlotInv(slot)
      /\ \A x \in Clients : handler[x].pc = "setup" /\ Swept(Slot(x)) => Current(handler[x].c)
      /\ \A x \in Clients : LockInv(x, handler[x], lock)
  BY Zenon DEF ZygiskdInv, TypeOK
<1>2. \A slot : Swept(slot)' <=> Swept(slot)
  BY Zenon DEF Swept
<1>3. \A c \in Companions : Current(c) => Current(c)'
  BY Zenon DEF Current
<1>4. ASSUME NEW x \in Clients, handler'[x].pc = "setup", Swept(Slot(x))'
      PROVE  Current(handler[x].c)'
  <2>1. handler'[x] = handler[x]
    BY Zenon, <1>4
  <2>2. Slot(x)' = Slot(x)
    BY Zenon, <2>1 DEF Slot
  <2>3. Swept(Slot(x)) /\ handler[x].c \in Companions
    BY Zenon, <1>1, <1>2, <1>4, <2>1, <2>2 DEF LockInv
  <2>4. PICK c \in Companions : c = handler[x].c
    BY Zenon, <2>3
  <2>5. Current(c)
    BY Zenon, <1>1, <1>4, <2>1, <2>3, <2>4
  <2>6. Current(c)' /\ handler'[x].c = c
    BY Zenon, <1>3, <2>1, <2>4, <2>5
  <2>7. QED
    BY Zenon, <2>6 DEF Current, Running
<1>5. ASSUME NEW slot \in Slots
      PROVE  SlotInv(slot)'
  <2>1. SlotInv(slot) /\ held[slot] \in Companions \cup {None}
    BY Zenon, <1>1
  <2>2. CASE held'[slot] = None
    BY Zenon, <2>2 DEF SlotInv, Current
  <2>3. CASE held'[slot] = held[slot] /\ held[slot] # None
    BY Zenon, <1>2, <1>3, <2>1, <2>3 DEF SlotInv, Listed
  <2>4. QED
    BY Zenon, <2>2, <2>3
<1>6. QED
  BY Zenon, <1>1, <1>4, <1>5 DEF GenInv

\* The invariant, part by part, after a step.
LEMMA Parts ==
  ASSUME TypeOK', (world \in Worlds)', RepliesInv', LocksInv', GenInv'
  PROVE  ZygiskdInv'
BY Zenon DEF ZygiskdInv, RepliesInv, LocksInv, GenInv

\* handler and held as they were, companions too.
LEMMA SameGen ==
  ASSUME ZygiskdInv, UNCHANGED <<snaps, cur, main, gen, handler, held, comp>>
  PROVE  GenInv'
<1>1. \A c \in Companions : Running(c)' => Running(c) /\ comp'[c].gen = comp[c].gen
  BY Zenon DEF Running
<1>2. QED
  BY Zenon, <1>1, CalmGen

------------------------------------------------------------------------------
(* The injected processes.                                                  *)

\* A request joins the backlog.
LEMMA AppendRequest ==
  ASSUME ZygiskdInv, NEW r \in Requests, backlog' = Append(backlog, r), UNCHANGED handler,
         RequestInv(r, handler, client'),
         \A i \in 1..Len(backlog) : RequestInv(backlog[i], handler, client'),
         r.x # None => \A i \in 1..Len(backlog) : backlog[i].x # r.x
  PROVE  BacklogInv'
<1>1. backlog \in Seq(Requests) /\ BacklogInv
  BY Zenon DEF ZygiskdInv, TypeOK
<1>2. /\ Len(backlog') = Len(backlog) + 1 /\ backlog'[Len(backlog) + 1] = r
      /\ Len(backlog) \in Nat /\ \A i \in 1..Len(backlog) : backlog'[i] = backlog[i]
  BY <1>1
<1>3. \A i \in 1..Len(backlog') : i \in 1..Len(backlog) \/ i = Len(backlog) + 1
  BY <1>2
<1>4. \A i \in 1..Len(backlog') : RequestInv(backlog'[i], handler', client')
  BY Zenon, <1>2, <1>3
<1>5. ASSUME NEW i \in 1..Len(backlog'), NEW j \in 1..Len(backlog'),
             backlog'[i].x = backlog'[j].x, backlog'[i].x # None
      PROVE  i = j
  <2>1. CASE i \in 1..Len(backlog) /\ j \in 1..Len(backlog)
    BY Zenon, <1>1, <1>2, <1>5, <2>1 DEF BacklogInv
  <2>2. CASE i \in 1..Len(backlog) /\ j = Len(backlog) + 1
    BY Zenon, <1>2, <1>5, <2>2
  <2>3. CASE i = Len(backlog) + 1 /\ j \in 1..Len(backlog)
    BY Zenon, <1>2, <1>5, <2>3
  <2>4. QED
    BY Zenon, <1>3, <2>1, <2>2, <2>3
<1>6. QED
  BY Zenon, <1>4, <1>5 DEF BacklogInv

\* A process without a connection to the daemon makes one.
LEMMA AsksReplies ==
  ASSUME ZygiskdInv, UNCHANGED <<snaps, handler>>, NEW x \in Clients, handler[x].pc = "idle",
         ~Queued(x), NEW c, client' = [client EXCEPT ![x] = c],
         NEW r \in Requests, r.x = x, backlog' = Append(backlog, r),
         r.op \in {"read", "companion", "zn"},
         r.op = "read" => r.k = 0 /\ ~c.read /\ c.mods = <<>>,
         r.op # "read" => r.k \in 1..MaxLen,
         c.read => client[x].read /\ c.mods = client[x].mods
  PROVE  RepliesInv'
<1>1. /\ client \in [Clients -> Injected] /\ BacklogInv /\ x # None
      /\ \A y \in Clients : ReplyInv(handler[y], client[y], snaps)
  BY Zenon, ZygiskdAssumption DEF ZygiskdInv, TypeOK
<1>2. client'[x] = c /\ \A y \in Clients \ {x} : client'[y] = client[y]
  BY Zenon, <1>1
<1>3. \A i \in 1..Len(backlog) : backlog[i].x # x
  BY Zenon DEF Queued
<1>4. ReplyInv(handler[x], c, snaps)
  BY ZenonT(60), <1>1 DEF ReplyInv
<1>5. \A y \in Clients : ReplyInv(handler[y], client'[y], snaps)
  BY Zenon, <1>1, <1>2, <1>4
<1>6. RequestInv(r, handler, client')
  BY Zenon, <1>1, <1>2 DEF RequestInv
<1>7. ASSUME NEW i \in 1..Len(backlog)
      PROVE  RequestInv(backlog[i], handler, client')
  <2>1. PICK q : q = backlog[i]
    OBVIOUS
  <2>2. q \in Requests /\ RequestInv(q, handler, client) /\ q.x # x
    BY <1>1, <1>3, <2>1 DEF ZygiskdInv, TypeOK, BacklogInv
  <2>3. q.op = "read" => q.x \in Clients \ {x}
    BY Zenon, <2>2 DEF Requests, RequestInv
  <2>4. QED
    BY Zenon, <1>2, <2>1, <2>2, <2>3 DEF RequestInv
<1>8. BacklogInv'
  BY Zenon, <1>3, <1>6, <1>7, AppendRequest
<1>9. QED
  BY Zenon, <1>5, <1>8 DEF RepliesInv

\* A process starts.
LEMMA ClientStartsStep ==
  ASSUME ZygiskdInv, NEW x \in Clients, ClientStarts(x)
  PROVE  ZygiskdInv'
<1>1. /\ UNCHANGED <<snaps, cur, held, lock, comp, pending, handler, main, gen, world>>
      /\ handler[x].pc = "idle" /\ ~Queued(x) /\ TypeOK
  BY Zenon DEF ClientStarts, ZygiskdInv
<1>2. PICK d : d = Dead
  OBVIOUS
<1>3. PICK c : c = [d EXCEPT !.alive = TRUE, !.waits = TRUE]
  OBVIOUS
<1>4. client' = [client EXCEPT ![x] = c]
  BY Zenon, <1>2, <1>3 DEF ClientStarts
<1>5. d \in Injected /\ ~d.read /\ d.mods = <<>>
  BY <1>2 DEF Dead, Injected
<1>6. c \in Injected /\ ~c.read /\ c.mods = <<>>
  BY ONLY Zenon, <1>3, <1>5 DEF Injected
<1>7. PICK r : r = [op |-> "read", x |-> x, k |-> 0]
  BY Zenon
<1>8. r \in Requests /\ r.op = "read" /\ r.x = x /\ r.k = 0
  BY Zenon, <1>7 DEF Requests
<1>9. backlog' = Append(backlog, r)
  BY Zenon, <1>7 DEF ClientStarts, Connect
<1>10. RepliesInv'
  BY Zenon, <1>1, <1>4, <1>6, <1>8, <1>9, AsksReplies
<1>11. TypeOK'
  <2>1. client' \in [Clients -> Injected]
    BY Zenon, <1>1, <1>4, <1>6 DEF TypeOK
  <2>2. backlog' \in Seq(Requests)
    BY SMTT(30), <1>1, <1>8, <1>9 DEF TypeOK
  <2>3. QED
    BY Zenon, <1>1, <2>1, <2>2 DEF TypeOK
<1>12. QED
  BY Zenon, <1>1, <1>10, <1>11, SameLocks, SameGen, Parts DEF ZygiskdInv

\* A process sends its request.
LEMMA AsksStep ==
  ASSUME ZygiskdInv, NEW x \in Clients, NEW k \in 1..MaxLen,
         AsksCompanion(x, k) \/ AsksZnCompanion(x, k)
  PROVE  ZygiskdInv'
<1>1. /\ UNCHANGED <<snaps, cur, held, lock, comp, pending, handler, main, gen, world>>
      /\ handler[x].pc = "idle" /\ ~Queued(x) /\ TypeOK /\ client[x] \in Injected
  BY Zenon DEF AsksCompanion, AsksZnCompanion, ZygiskdInv, TypeOK
<1>2. PICK op \in {"companion", "zn"}, name \in Names :
        /\ client' = [client EXCEPT ![x].waits = TRUE, ![x].want = name]
        /\ backlog' = Append(backlog, [op |-> op, x |-> x, k |-> k])
  <2>1. CASE AsksCompanion(x, k)
    <3>1. client[x].mods[k] \in Names
      <4>1. PICK m \in Seq(Names) : m = client[x].mods
        BY Zenon, <1>1 DEF Injected
      <4>2. k \in 1..Len(m)
        BY Zenon, <2>1, <4>1 DEF AsksCompanion
      <4>3. QED
        BY <4>1, <4>2
    <3>2. QED
      BY <2>1, <3>1, Zenon DEF AsksCompanion, Connect
  <2>2. CASE AsksZnCompanion(x, k)
    <3>1. ZnLibs[k] \in Names
      BY <2>2, ZygiskdAssumption DEF AsksZnCompanion
    <3>2. QED
      BY <2>2, <3>1, Zenon DEF AsksZnCompanion, Connect
  <2>3. QED
    BY Zenon, <2>1, <2>2
<1>3. PICK c : c = [client[x] EXCEPT !.waits = TRUE, !.want = name]
  OBVIOUS
<1>4. client' = [client EXCEPT ![x] = c]
  <2>1. client \in [Clients -> Injected]
    BY Zenon, <1>1 DEF TypeOK
  <2>2. QED
    BY ONLY Zenon, <1>2, <1>3, <2>1, x \in Clients DEF Injected
<1>5. c \in Injected /\ c.read = client[x].read /\ c.mods = client[x].mods
  BY ONLY Zenon, <1>1, <1>2, <1>3 DEF Injected
<1>6. PICK r : r = [op |-> op, x |-> x, k |-> k]
  BY Zenon
<1>7. r \in Requests /\ r.op = op /\ r.x = x /\ r.k = k
  BY <1>6 DEF Requests
<1>8. backlog' = Append(backlog, r)
  BY Zenon, <1>2, <1>6
<1>9. RepliesInv'
  BY Zenon, <1>1, <1>4, <1>5, <1>7, <1>8, AsksReplies
<1>10. TypeOK'
  <2>1. client' \in [Clients -> Injected]
    BY Zenon, <1>1, <1>4, <1>5 DEF TypeOK
  <2>2. backlog' \in Seq(Requests)
    BY <1>1, <1>7, <1>8 DEF TypeOK
  <2>3. QED
    BY Zenon, <1>1, <2>1, <2>2 DEF TypeOK
<1>11. QED
  BY Zenon, <1>1, <1>9, <1>10, SameLocks, SameGen, Parts DEF ZygiskdInv

\* A dead process reads nothing.
LEMMA DeadFacts ==
  Dead \in Injected /\ ~Dead.read /\ ~Dead.waits /\ Dead.mods = <<>> /\ ~Dead.alive
BY SMTT(30) DEF Dead, Injected

\* A process goes away.
LEMMA ClientGoneStep ==
  ASSUME ZygiskdInv, NEW x \in Clients, ClientGone(x)
  PROVE  ZygiskdInv'
<1>1. /\ UNCHANGED <<snaps, cur, held, lock, comp, pending, handler, backlog, main, gen, world>>
      /\ client' = [client EXCEPT ![x] = Dead] /\ TypeOK
  BY ZenonT(30) DEF ClientGone, ZygiskdInv
<1>2. /\ client' \in [Clients -> Injected]
      /\ \A y \in Clients : client'[y] = Dead \/ client'[y] = client[y]
  BY Zenon, <1>1, DeadFacts DEF TypeOK
<1>3. \A y \in Clients : Calmer(client[y], client'[y])
  BY Zenon, <1>2, DeadFacts DEF Calmer
<1>4. TypeOK'
  BY Zenon, <1>1, <1>2 DEF TypeOK
<1>5. QED
  BY ZenonT(30), <1>1, <1>3, <1>4, CalmClients, SameLocks, SameGen, Parts DEF ZygiskdInv

\* Requests that concern no one client.
LEMMA NoticeStep ==
  ASSUME ZygiskdInv, ZygoteRestarts \/ RearmRefreshes
  PROVE  ZygiskdInv'
<1>1. /\ UNCHANGED <<snaps, cur, held, lock, comp, pending, handler, main, gen, world>>
      /\ TypeOK /\ client \in [Clients -> Injected]
      /\ client' = [x \in Clients |-> Dead] \/ client' = client
  BY Zenon DEF ZygoteRestarts, RearmRefreshes, ZygiskdInv, TypeOK
<1>2. \/ backlog' = backlog
      \/ \E op \in {"restart", "refresh"} : backlog' = Append(backlog, [op |-> op, x |-> None, k |-> 0])
  BY Zenon DEF ZygoteRestarts, RearmRefreshes, Connect
<1>3. /\ client' \in [Clients -> Injected]
      /\ \A y \in Clients : client'[y] = Dead \/ client'[y] = client[y]
  BY Zenon, <1>1, DeadFacts
<1>4. \A y \in Clients : Calmer(client[y], client'[y])
  BY Zenon, <1>3, DeadFacts DEF Calmer
<1>5. CASE backlog' = backlog
  <2>1. TypeOK'
    BY Zenon, <1>1, <1>3, <1>5 DEF TypeOK
  <2>2. QED
    BY Zenon, <1>1, <1>4, <1>5, <2>1, CalmClients, SameLocks, SameGen, Parts DEF ZygiskdInv
<1>6. ASSUME NEW op \in {"restart", "refresh"},
             backlog' = Append(backlog, [op |-> op, x |-> None, k |-> 0])
      PROVE  ZygiskdInv'
  <2>1. PICK r : r = [op |-> op, x |-> None, k |-> 0]
    BY Zenon
  <2>2. r \in Requests /\ r.op = op /\ r.x = None
    BY Zenon, <2>1 DEF Requests
  <2>3. RequestInv(r, handler, client')
    BY Zenon, <2>2 DEF RequestInv
  <2>4. ASSUME NEW i \in 1..Len(backlog)
        PROVE  RequestInv(backlog[i], handler, client')
    <3>1. PICK q : q = backlog[i]
      OBVIOUS
    <3>2. q \in Requests /\ RequestInv(q, handler, client)
      BY <3>1 DEF ZygiskdInv, TypeOK, BacklogInv
    <3>3. q.op = "read" => q.x \in Clients
      BY Zenon, <3>2 DEF Requests, RequestInv
    <3>4. QED
      BY Zenon, <1>4, <3>1, <3>2, <3>3 DEF RequestInv, Calmer
  <2>5. BacklogInv'
    BY Zenon, <1>1, <1>6, <2>1, <2>2, <2>3, <2>4, AppendRequest
  <2>6. \A y \in Clients : ReplyInv(handler[y], client'[y], snaps)
    BY ZenonT(60), <1>4 DEF ZygiskdInv, ReplyInv, Calmer
  <2>7. RepliesInv'
    BY Zenon, <1>1, <2>5, <2>6 DEF RepliesInv
  <2>8. TypeOK'
    <3>1. backlog' \in Seq(Requests)
      BY <1>1, <1>6, <2>1, <2>2 DEF TypeOK
    <3>2. QED
      BY Zenon, <1>1, <1>3, <3>1 DEF TypeOK
  <2>9. QED
    BY Zenon, <1>1, <2>7, <2>8, SameLocks, SameGen, Parts DEF ZygiskdInv
<1>7. QED
  BY Zenon, <1>2, <1>5, <1>6

------------------------------------------------------------------------------
(* The accept loop.                                                         *)

\* The first request leaves the backlog; only its client's handler may change.
LEMMA TailRequests ==
  ASSUME ZygiskdInv, backlog # <<>>, backlog' = Tail(backlog), UNCHANGED client,
         \A y \in Clients : y # Head(backlog).x => handler'[y] = handler[y],
         Head(backlog).x = None => UNCHANGED handler
  PROVE  BacklogInv' /\ backlog' \in Seq(Requests)
<1>1. backlog \in Seq(Requests) /\ BacklogInv
  BY Zenon DEF ZygiskdInv, TypeOK
<1>2. PICK n \in Nat : n = Len(backlog) /\ n > 0
  BY <1>1
<1>3. /\ Len(backlog') = n - 1 /\ \A i \in 1..(n - 1) : backlog'[i] = backlog[i + 1]
      /\ backlog' \in Seq(Requests) /\ Head(backlog) = backlog[1]
  BY <1>1, <1>2
<1>4. ASSUME NEW i \in 1..(n - 1)
      PROVE  RequestInv(backlog'[i], handler', client')
  <2>1. PICK r : r = backlog[i + 1]
    OBVIOUS
  <2>2. i + 1 \in 1..n /\ 1 \in 1..n /\ i + 1 # 1
    BY <1>2
  <2>3. r \in Requests /\ RequestInv(r, handler, client)
    BY <1>1, <1>2, <2>1, <2>2 DEF BacklogInv
  <2>4. r.x # None => r.x # backlog[1].x
    BY Zenon, <1>1, <1>2, <2>1, <2>2 DEF BacklogInv
  <2>5. r.x # None => r.x \in Clients /\ handler'[r.x] = handler[r.x]
    BY Zenon, <1>3, <2>3, <2>4 DEF Requests
  <2>6. RequestInv(r, handler', client')
    BY Zenon, <2>3, <2>5 DEF RequestInv
  <2>7. QED
    BY Zenon, <1>3, <2>1, <2>6
<1>5. ASSUME NEW i \in 1..(n - 1), NEW j \in 1..(n - 1),
             backlog'[i].x = backlog'[j].x, backlog'[i].x # None
      PROVE  i = j
  <2>1. i + 1 \in 1..n /\ j + 1 \in 1..n
    BY <1>2
  <2>2. backlog[i + 1].x = backlog[j + 1].x /\ backlog[i + 1].x # None
    BY Zenon, <1>3, <1>5
  <2>3. i + 1 = j + 1
    BY Zenon, <1>1, <1>2, <2>1, <2>2 DEF BacklogInv
  <2>4. QED
    BY <2>3
<1>6. QED
  BY Zenon, <1>3, <1>4, <1>5 DEF BacklogInv

\* The first request, as the accept loop finds it.
LEMMA HeadRequest ==
  ASSUME ZygiskdInv, backlog # <<>>
  PROVE  Head(backlog) \in Requests /\ RequestInv(Head(backlog), handler, client)
<1>1. backlog \in Seq(Requests) /\ BacklogInv
  BY Zenon DEF ZygiskdInv, TypeOK
<1>2. 1 \in 1..Len(backlog) /\ Head(backlog) = backlog[1]
  BY SMTT(30), <1>1
<1>3. QED
  BY <1>1, <1>2 DEF BacklogInv

\* A thread for a client's request.
LEMMA AcceptThreadedStep == ASSUME ZygiskdInv, AcceptThreaded PROVE ZygiskdInv'
<1>1. PICK r : r = Head(backlog)
  OBVIOUS
<1>2. PICK o : o = Idle
  OBVIOUS
<1>3. PICK h : h = [o EXCEPT !.pc = r.op, !.k = r.k]
  OBVIOUS
<1>4. /\ UNCHANGED <<snaps, cur, held, lock, comp, pending, client, main, gen, world>>
      /\ backlog # <<>> /\ backlog' = Tail(backlog) /\ TypeOK
  BY Zenon DEF AcceptThreaded, ZygiskdInv
<1>5. r.op \in {"read", "companion", "zn"} /\ handler' = [handler EXCEPT ![r.x] = h]
  BY <1>1, <1>2, <1>3, Zenon DEF AcceptThreaded
<1>6. r \in Requests /\ RequestInv(r, handler, client)
  BY Zenon, <1>1, <1>4, HeadRequest
<1>7. PICK x \in Clients : x = r.x
  BY Zenon, <1>5, <1>6 DEF Requests, RequestInv
<1>8. o \in Handlers
  BY Zenon, <1>2 DEF Idle, Handlers
<1>9. h \in Handlers /\ h.pc = r.op /\ h.k = r.k
  BY ONLY Zenon, <1>3, <1>5, <1>6, <1>8 DEF Handlers, Requests
<1>10. handler \in [Clients -> Handlers]
  BY Zenon, <1>4 DEF TypeOK
<1>11. /\ handler' \in [Clients -> Handlers] /\ handler'[x] = h
       /\ \A y \in Clients \ {x} : handler'[y] = handler[y]
  BY ONLY Zenon, <1>5, <1>7, <1>9, <1>10
<1>12. BacklogInv' /\ backlog' \in Seq(Requests)
  <2>1. x # None /\ Head(backlog).x = x
    BY Zenon, <1>1, <1>7, ZygiskdAssumption
  <2>2. QED
    BY Zenon, <1>4, <1>11, <2>1, TailRequests
<1>13. ReplyInv(h, client[x], snaps)
  <2>1. ReplyInv(handler[x], client[x], snaps)
    BY Zenon DEF ZygiskdInv
  <2>2. QED
    BY Zenon, <1>5, <1>6, <1>7, <1>9, <2>1 DEF ReplyInv, RequestInv
<1>14. \A y \in Clients : ReplyInv(handler'[y], client[y], snaps)
  BY Zenon, <1>11, <1>13 DEF ZygiskdInv
<1>15. RepliesInv'
  BY Zenon, <1>4, <1>12, <1>14 DEF RepliesInv
<1>16. LockInv(x, h, lock)
  BY Zenon, <1>5, <1>6, <1>9 DEF LockInv, RequestInv
<1>17. LocksInv'
  BY Zenon, <1>4, <1>5, <1>7, <1>16, HandlerLocks
<1>18. GenInv'
  <2>1. \A y \in Clients : handler'[y].pc = "setup" => handler'[y] = handler[y]
    BY Zenon, <1>5, <1>9, <1>11
  <2>2. \A c \in Companions : Running(c)' => Running(c) /\ comp'[c].gen = comp[c].gen
    BY Zenon, <1>4 DEF Running
  <2>3. QED
    BY Zenon, <1>4, <2>1, <2>2, CalmGen
<1>19. TypeOK'
  BY Zenon, <1>4, <1>11, <1>12 DEF TypeOK
<1>20. QED
  BY Zenon, <1>4, <1>15, <1>17, <1>18, <1>19, Parts DEF ZygiskdInv

\* A zygote restart begins: no slot is swept yet.
LEMMA AcceptRestartStep == ASSUME ZygiskdInv, AcceptRestart PROVE ZygiskdInv'
<1>1. /\ UNCHANGED <<snaps, cur, held, lock, comp, pending, client, handler, world>>
      /\ backlog # <<>> /\ backlog' = Tail(backlog) /\ TypeOK /\ gen' = gen + 1
      /\ main' = [pc |-> "take", s |-> cur, k |-> 1]
  BY Zenon DEF AcceptRestart, ZygiskdInv
<1>2. main'.pc = "take" /\ main'.s = cur /\ main'.k = 1
  BY Zenon, <1>1
<1>3. BacklogInv' /\ backlog' \in Seq(Requests)
  BY Zenon, <1>1, TailRequests
<1>4. TypeOK'
  <2>1. gen' \in Nat /\ main' \in [pc: {"accept", "take", "rescan"}, s: Nat, k: Nat]
    BY <1>1 DEF TypeOK
  <2>2. QED
    BY Zenon, <1>1, <1>3, <2>1 DEF TypeOK
<1>5. RepliesInv'
  BY Zenon, <1>1, <1>3 DEF ZygiskdInv, RepliesInv
<1>6. \A slot \in Slots : ~Swept(slot)'
  <2>1. \A slot \in Slots : slot[2] \in 1..MaxLen
    BY Zenon DEF Slots
  <2>2. QED
    BY <1>2, <2>1, MaxLenNat DEF Swept
<1>7. \A x \in Clients : handler[x].pc = "setup" => Slot(x) \in Slots
  <2> SUFFICES ASSUME NEW x \in Clients, handler[x].pc = "setup"
               PROVE  Slot(x) \in Slots
    OBVIOUS
  <2>1. handler[x].s \in 0..cur /\ handler[x].k \in 1..MaxLen /\ cur \in 1..MaxSnaps
    BY Zenon, <1>1 DEF ZygiskdInv, LockInv, TypeOK
  <2>2. handler[x].s \in 0..MaxSnaps
    BY <2>1, ZygiskdAssumption
  <2>3. QED
    BY Zenon, <2>1, <2>2 DEF Slot, Slots
<1>8. GenInv'
  <2>1. ASSUME NEW x \in Clients, handler'[x].pc = "setup"
        PROVE  ~Swept(Slot(x))'
    <3>1. PICK slot \in Slots : slot = Slot(x)
      BY Zenon, <1>1, <1>7, <2>1
    <3>2. Slot(x)' = slot
      BY Zenon, <1>1, <3>1 DEF Slot
    <3>3. QED
      BY Zenon, <1>6, <3>2 DEF Swept
  <2>2. \A slot \in Slots : SlotInv(slot)'
    BY Zenon, <1>1, <1>6 DEF ZygiskdInv, SlotInv, Listed
  <2>3. QED
    BY Zenon, <1>1, <1>2, <2>1, <2>2 DEF GenInv
<1>9. QED
  BY ZenonT(30), <1>1, <1>4, <1>5, <1>8, SameLocks, Parts DEF ZygiskdInv

\* A handler past its snapshot names a slot, and the mutex of it.
LEMMA SlotFacts ==
  ASSUME ZygiskdInv, NEW x \in Clients, handler[x].pc \in {"lock", "spawn", "setup", "send"}
  PROVE  /\ Slot(x) \in Slots /\ Slot(x)[1] = handler[x].s /\ Slot(x)[2] = handler[x].k
         /\ MutexOf(Slot(x)) \in Slots
         /\ handler[x].s \in 0..cur /\ handler[x].k \in 1..MaxLen
         /\ handler[x].k <= Len(Listed(handler[x].s))
         /\ handler[x].s = 0 => MutexOf(Slot(x)) = <<0, 1>>
         /\ handler[x].s # 0 => MutexOf(Slot(x)) = Slot(x)
<1>1. /\ handler[x].s \in 0..cur /\ handler[x].k \in 1..MaxLen /\ cur \in 1..MaxSnaps
      /\ handler[x].k <= Len(Listed(handler[x].s))
  BY Zenon DEF ZygiskdInv, LockInv, TypeOK
<1>2. handler[x].s \in 0..MaxSnaps
  BY <1>1, ZygiskdAssumption
<1>3. QED
  BY Zenon, <1>1, <1>2, MutexFacts DEF Slot

\* The accept loop takes a companion out of its slot, whose mutex is free: nobody
\* is about to put another one there.
LEMMA TakeCompanionStep == ASSUME ZygiskdInv, TakeCompanion PROVE ZygiskdInv'
<1>1. /\ UNCHANGED <<snaps, cur, lock, comp, pending, client, handler, backlog, gen, world>>
      /\ main.pc = "take" /\ main.s = cur /\ lock[<<main.s, main.k>>] = None /\ TypeOK
      /\ main' = [main EXCEPT !.k = main.k + 1]
      /\ held' = [x \in Slots |-> IF x \in {<<main.s, main.k>>} THEN None ELSE held[x]]
  BY Zenon DEF TakeCompanion, TakeFrom, ZygiskdInv
<1>2. main \in [pc: {"accept", "take", "rescan"}, s: Nat, k: Nat] /\ cur # 0
  BY <1>1, ZygiskdAssumption DEF TypeOK
<1>3. PICK k \in Nat : k = main.k
  BY Zenon, <1>2
<1>4. /\ main' \in [pc: {"accept", "take", "rescan"}, s: Nat, k: Nat]
      /\ main'.pc = "take" /\ main'.s = cur /\ main'.k = k + 1
  <2>1. PICK n \in Nat : n = k + 1
    BY <1>3
  <2>2. main' = [main EXCEPT !.k = n]
    BY Zenon, <1>1, <1>3, <2>1
  <2>3. QED
    BY ONLY Zenon, <1>1, <1>2, <2>1, <2>2
<1>5. ASSUME NEW slot \in Slots, Swept(slot)', ~Swept(slot)
      PROVE  slot = <<cur, k>>
  <2>1. slot[1] = cur /\ slot[2] < k + 1 /\ ~(slot[2] < k)
    BY Zenon, <1>1, <1>3, <1>4, <1>5 DEF Swept
  <2>2. slot[2] \in 1..MaxLen /\ slot = <<slot[1], slot[2]>>
    BY DEF Slots
  <2>3. slot[2] = k
    BY <2>1, <2>2, MaxLenNat
  <2>4. QED
    BY Zenon, <2>1, <2>2, <2>3
<1>6. \A c : Current(c)' <=> Current(c)
  BY Zenon, <1>1 DEF Current, Running
<1>7. ASSUME NEW slot \in Slots
      PROVE  SlotInv(slot)'
  <2>1. SlotInv(slot)
    BY Zenon DEF ZygiskdInv
  <2>2. CASE slot = <<cur, k>>
    <3>1. held'[slot] = None
      BY Zenon, <1>1, <1>3, <2>2
    <3>2. QED
      BY Zenon, <3>1 DEF SlotInv, Current
  <2>3. CASE slot # <<cur, k>>
    <3>1. held'[slot] = held[slot]
      BY Zenon, <1>1, <1>3, <2>3
    <3>2. Swept(slot)' => Swept(slot)
      BY Zenon, <1>5, <2>3
    <3>3. QED
      BY Zenon, <1>1, <1>6, <2>1, <3>1, <3>2 DEF SlotInv, Listed
  <2>4. QED
    BY Zenon, <2>2, <2>3
<1>8. ASSUME NEW x \in Clients, handler'[x].pc = "setup", Swept(Slot(x))'
      PROVE  Current(handler[x].c)'
  <2>1. handler'[x] = handler[x] /\ handler[x].pc = "setup"
    BY Zenon, <1>1, <1>8
  <2>2. /\ Slot(x) \in Slots /\ Slot(x)[1] = handler[x].s
        /\ (handler[x].s # 0 => MutexOf(Slot(x)) = Slot(x))
    BY Zenon, <2>1, SlotFacts
  <2>3. lock[MutexOf(Slot(x))] = x /\ x # None
    BY Zenon, <2>1, ZygiskdAssumption DEF ZygiskdInv, LockInv, Slot
  <2>4. PICK slot \in Slots : slot = Slot(x)
    BY Zenon, <2>2
  <2>5. slot # <<cur, k>>
    <3>1. SUFFICES ASSUME slot = <<cur, k>>
                   PROVE  FALSE
      OBVIOUS
    <3>2. handler[x].s # 0
      BY <1>2, <2>2, <2>4, <3>1
    <3>3. QED
      BY Zenon, <1>1, <1>3, <2>2, <2>3, <2>4, <3>1, <3>2
  <2>6. Slot(x)' = slot
    BY Zenon, <2>1, <2>4 DEF Slot
  <2>7. Swept(slot)'
    BY Zenon, <1>8, <2>6 DEF Swept
  <2>8. Swept(Slot(x))
    BY Zenon, <1>5, <2>4, <2>5, <2>7
  <2>9. Current(handler[x].c)
    BY Zenon, <2>1, <2>8 DEF ZygiskdInv
  <2>10. QED
    BY Zenon, <1>1, <2>9 DEF Current, Running
<1>9. GenInv'
  BY Zenon, <1>1, <1>4, <1>7, <1>8 DEF GenInv
<1>10. TypeOK'
  <2>1. held' \in [Slots -> Companions \cup {None}]
    BY Zenon, <1>1 DEF TypeOK
  <2>2. QED
    BY Zenon, <1>1, <1>4, <2>1 DEF TypeOK
<1>11. RepliesInv'
  BY Zenon, <1>1 DEF ZygiskdInv, RepliesInv, BacklogInv
<1>12. QED
  BY Zenon, <1>1, <1>9, <1>10, <1>11, SameLocks, Parts DEF ZygiskdInv

\* The ZN table is cleared under its mutex, after the last module of the snapshot.
LEMMA ClearZnStep == ASSUME ZygiskdInv, ClearZnCompanions PROVE ZygiskdInv'
<1>1. /\ UNCHANGED <<snaps, cur, lock, comp, pending, client, handler, backlog, gen, world>>
      /\ main.pc = "take" /\ main.s = cur /\ main.k > Len(snaps[main.s]) /\ lock[<<0, 1>>] = None
      /\ held' = [x \in Slots |-> IF x \in {y \in Slots : y[1] = 0} THEN None ELSE held[x]]
      /\ TypeOK
  BY Zenon DEF ClearZnCompanions, TakeFrom, ZygiskdInv
<1>2. PICK a : a = Accepting
  OBVIOUS
<1>3. main' = [a EXCEPT !.pc = "rescan"] /\ a \in [pc: {"accept", "take", "rescan"}, s: Nat, k: Nat]
  BY Zenon, <1>2 DEF ClearZnCompanions, Accepting
<1>4. main' \in [pc: {"accept", "take", "rescan"}, s: Nat, k: Nat] /\ main'.pc = "rescan"
  BY ONLY Zenon, <1>3
<1>5. /\ Listed(cur) = snaps[cur] /\ Len(snaps[cur]) \in Nat /\ main.k \in Nat /\ cur \in Nat
      /\ main.k > Len(snaps[cur])
  <2>1. snaps \in Seq(Seq(Names)) /\ cur = Len(snaps) /\ cur \in 1..MaxSnaps /\ main.k \in Nat
    BY Zenon, <1>1 DEF TypeOK
  <2>2. QED
    BY <1>1, <2>1, ZygiskdAssumption DEF Listed
<1>6. ASSUME NEW slot \in Slots, slot[1] = cur, slot[2] <= Len(Listed(cur))
      PROVE  Swept(slot)
  <2>1. slot[2] \in 1..MaxLen
    BY Zenon DEF Slots
  <2>2. slot[2] < main.k
    BY <1>5, <1>6, <2>1, MaxLenNat
  <2>3. QED
    BY Zenon, <1>1, <1>6, <2>2 DEF Swept
<1>7. \A slot : Swept(slot)' => slot[1] = 0 \/ slot[1] = cur
  BY Zenon, <1>1, <1>4 DEF Swept
<1>8. \A c : Current(c)' <=> Current(c)
  BY Zenon, <1>1 DEF Current, Running
<1>9. ASSUME NEW slot \in Slots
      PROVE  SlotInv(slot)'
  <2>1. SlotInv(slot)
    BY Zenon DEF ZygiskdInv
  <2>2. CASE slot[1] = 0 \/ held[slot] = None
    <3>1. held'[slot] = None
      BY Zenon, <1>1, <2>2
    <3>2. QED
      BY Zenon, <3>1 DEF SlotInv, Current
  <2>3. CASE slot[1] # 0 /\ held[slot] # None
    <3>1. held'[slot] = held[slot]
      BY Zenon, <1>1, <2>3
    <3>2. Swept(slot)' => Swept(slot)
      BY Zenon, <1>6, <1>7, <2>1, <2>3 DEF SlotInv
    <3>3. QED
      BY Zenon, <1>1, <1>8, <2>1, <3>1, <3>2 DEF SlotInv, Listed
  <2>4. QED
    BY Zenon, <2>2, <2>3
<1>10. ASSUME NEW x \in Clients, handler'[x].pc = "setup", Swept(Slot(x))'
       PROVE  Current(handler[x].c)'
  <2>1. handler'[x] = handler[x] /\ handler[x].pc = "setup"
    BY Zenon, <1>1, <1>10
  <2>2. /\ Slot(x) \in Slots /\ Slot(x)[1] = handler[x].s /\ Slot(x)[2] = handler[x].k
        /\ (handler[x].s = 0 => MutexOf(Slot(x)) = <<0, 1>>)
        /\ handler[x].k <= Len(Listed(handler[x].s))
    BY Zenon, <2>1, SlotFacts
  <2>3. lock[MutexOf(Slot(x))] = x /\ x # None
    BY Zenon, <2>1, ZygiskdAssumption DEF ZygiskdInv, LockInv, Slot
  <2>4. handler[x].s # 0
    BY Zenon, <1>1, <2>2, <2>3
  <2>5. PICK slot \in Slots : slot = Slot(x)
    BY Zenon, <2>2
  <2>6. Slot(x)' = slot
    BY Zenon, <2>1, <2>5 DEF Slot
  <2>7. Swept(slot)'
    BY Zenon, <1>10, <2>6 DEF Swept
  <2>8. Swept(Slot(x))
    BY Zenon, <1>6, <1>7, <2>2, <2>4, <2>5, <2>7
  <2>9. Current(handler[x].c)
    BY Zenon, <2>1, <2>8 DEF ZygiskdInv
  <2>10. QED
    BY Zenon, <1>1, <2>9 DEF Current, Running
<1>11. GenInv'
  BY Zenon, <1>4, <1>9, <1>10 DEF GenInv
<1>12. TypeOK'
  <2>1. held' \in [Slots -> Companions \cup {None}]
    BY Zenon, <1>1 DEF TypeOK
  <2>2. QED
    BY Zenon, <1>1, <1>4, <2>1 DEF TypeOK
<1>13. RepliesInv'
  BY ZenonT(30), <1>1 DEF ZygiskdInv, RepliesInv, BacklogInv
<1>14. QED
  BY Zenon, <1>1, <1>11, <1>12, <1>13, SameLocks, Parts DEF ZygiskdInv

\* refresh_modules, while the accept loop is not taking companions: the lists
\* that were there stay what they are, and the new one has no companion yet.
LEMMA RefreshParts ==
  ASSUME ZygiskdInv, refresh_modules, main.pc # "take", main'.pc # "take",
         UNCHANGED <<held, lock, comp, client, handler, gen>>
  PROVE  /\ \A x \in Clients : ReplyInv(handler[x], client[x], snaps')
         /\ LocksInv' /\ GenInv' /\ pending' \subseteq Companions
         /\ snaps' \in Seq(Seq(Names)) /\ cur' = Len(snaps') /\ cur' \in 1..MaxSnaps
<1>1. /\ TypeOK /\ snaps \in Seq(Seq(Names)) /\ cur = Len(snaps) /\ cur \in 1..MaxSnaps
      /\ pending \subseteq Companions
  BY Zenon DEF ZygiskdInv, TypeOK
<1>2. /\ snaps' \in Seq(Seq(Names)) /\ cur' = Len(snaps') /\ cur' \in 1..MaxSnaps
      /\ cur' \in {cur, cur + 1} /\ pending' \subseteq Companions
      /\ \A s \in 1..cur : snaps'[s] = snaps[s]
  <2>1. CASE KeepSnapshot
    BY Zenon, <1>1, <2>1 DEF KeepSnapshot
  <2>2. CASE Publish
    <3>1. PICK l \in ModuleLists : snaps' = Append(snaps, l)
      BY Zenon, <2>2 DEF Publish
    <3>2. l \in Seq(Names)
      BY Zenon, <3>1, ListFacts DEF ZygiskdInv
    <3>3. cur' = cur + 1 /\ cur < MaxSnaps /\ pending' \subseteq pending
      BY Zenon, <2>2 DEF Publish, reap_companions
    <3>4. QED
      BY <1>1, <3>1, <3>2, <3>3, ZygiskdAssumption
  <2>3. QED
    BY Zenon, <2>1, <2>2 DEF refresh_modules
<1>3. \A s \in 0..cur : Listed(s)' = Listed(s) /\ s \in 0..cur'
  BY SMTT(30), <1>1, <1>2, ZygiskdAssumption DEF Listed
<1>4. ASSUME NEW x \in Clients
      PROVE  ReplyInv(handler[x], client[x], snaps')
  <2>1. ReplyInv(handler[x], client[x], snaps)
    BY Zenon DEF ZygiskdInv
  <2>2. \A s \in 1..Len(snaps) : s \in 1..Len(snaps') /\ snaps'[s] = snaps[s]
    BY SMTT(30), <1>1, <1>2, ZygiskdAssumption
  <2>3. QED
    BY Zenon, <2>1, <2>2 DEF ReplyInv
<1>5. LocksInv'
  <2> SUFFICES ASSUME NEW x \in Clients
               PROVE  LockInv(x, handler[x], lock)'
    BY Zenon DEF LocksInv
  <2>1. LockInv(x, handler[x], lock)
    BY Zenon DEF ZygiskdInv
  <2>2. QED
    BY Zenon, <1>3, <2>1 DEF LockInv
<1>6. \A slot : Swept(slot)' => slot[1] = cur + 1 \/ Swept(slot)
  BY Zenon, <1>2 DEF Swept
<1>7. \A c : Current(c)' <=> Current(c)
  BY Zenon DEF Current, Running
<1>8. ASSUME NEW slot \in Slots
      PROVE  SlotInv(slot)'
  <2>1. SlotInv(slot) /\ slot[1] \in 0..MaxSnaps
    BY Zenon DEF ZygiskdInv, Slots
  <2>2. CASE held[slot] = None
    BY Zenon, <2>2 DEF SlotInv, Current
  <2>3. CASE held[slot] # None
    <3>1. slot[1] \in 0..cur /\ slot[1] # cur + 1
      BY <1>1, <2>1, <2>3, ZygiskdAssumption DEF SlotInv
    <3>2. slot[1] <= cur' /\ Listed(slot[1])' = Listed(slot[1])
      BY <1>2, <1>3, <3>1
    <3>3. Swept(slot)' => Swept(slot)
      BY Zenon, <1>6, <3>1
    <3>4. QED
      BY Zenon, <1>7, <2>1, <2>3, <3>2, <3>3 DEF SlotInv
  <2>4. QED
    BY Zenon, <2>2, <2>3
<1>9. ASSUME NEW x \in Clients, handler'[x].pc = "setup", Swept(Slot(x))'
      PROVE  Current(handler[x].c)'
  <2>1. handler'[x] = handler[x] /\ handler[x].pc = "setup"
    BY Zenon, <1>9
  <2>2. Slot(x) \in Slots /\ Slot(x)[1] \in 0..cur
    BY Zenon, <2>1, SlotFacts
  <2>3. PICK slot \in Slots : slot = Slot(x)
    BY Zenon, <2>2
  <2>4. Slot(x)' = slot
    BY Zenon, <2>1, <2>3 DEF Slot
  <2>5. Swept(slot)'
    BY Zenon, <1>9, <2>4 DEF Swept
  <2>6. slot[1] # cur + 1
    BY SMTT(30), <1>1, <2>2, <2>3
  <2>7. Current(handler[x].c)
    BY ZenonT(30), <1>6, <2>1, <2>3, <2>5, <2>6 DEF ZygiskdInv
  <2>8. QED
    BY Zenon, <2>7 DEF Current, Running
<1>10. QED
  BY Zenon, <1>2, <1>4, <1>5, <1>8, <1>9 DEF GenInv

\* The daemon accepts a zygote restart.
LEMMA AcceptRefreshStep == ASSUME ZygiskdInv, AcceptRefresh PROVE ZygiskdInv'
<1>1. /\ UNCHANGED <<held, lock, comp, client, handler, main, gen, world>> /\ main.pc = "accept"
      /\ backlog # <<>> /\ backlog' = Tail(backlog) /\ refresh_modules /\ TypeOK
  BY Zenon DEF AcceptRefresh, ZygiskdInv
<1>2. /\ \A x \in Clients : ReplyInv(handler[x], client[x], snaps')
      /\ LocksInv' /\ GenInv' /\ pending' \subseteq Companions
      /\ snaps' \in Seq(Seq(Names)) /\ cur' = Len(snaps') /\ cur' \in 1..MaxSnaps
  BY Zenon, <1>1, RefreshParts
<1>3. BacklogInv' /\ backlog' \in Seq(Requests)
  BY Zenon, <1>1, TailRequests
<1>4. TypeOK'
  BY Zenon, <1>1, <1>2, <1>3 DEF TypeOK
<1>5. RepliesInv'
  BY Zenon, <1>1, <1>2, <1>3 DEF RepliesInv
<1>6. QED
  BY ZenonT(30), <1>1, <1>2, <1>4, <1>5, Parts DEF ZygiskdInv

\* The modules are scanned again.
LEMMA RescanStep == ASSUME ZygiskdInv, Rescan PROVE ZygiskdInv'
<1>1. /\ UNCHANGED <<held, lock, comp, client, handler, backlog, gen, world>> /\ main.pc = "rescan"
      /\ refresh_modules /\ TypeOK /\ main' = Accepting
  BY Zenon DEF Rescan, ZygiskdInv
<1>2. main' \in [pc: {"accept", "take", "rescan"}, s: Nat, k: Nat] /\ main'.pc = "accept"
  BY Zenon, <1>1 DEF Accepting
<1>3. /\ \A x \in Clients : ReplyInv(handler[x], client[x], snaps')
      /\ LocksInv' /\ GenInv' /\ pending' \subseteq Companions
      /\ snaps' \in Seq(Seq(Names)) /\ cur' = Len(snaps') /\ cur' \in 1..MaxSnaps
  BY Zenon, <1>1, <1>2, RefreshParts
<1>4. TypeOK'
  BY Zenon, <1>1, <1>2, <1>3 DEF TypeOK
<1>5. RepliesInv'
  BY ZenonT(30), <1>1, <1>3 DEF RepliesInv, ZygiskdInv, BacklogInv
<1>6. QED
  BY ZenonT(30), <1>1, <1>3, <1>4, <1>5, Parts DEF ZygiskdInv

------------------------------------------------------------------------------
(* The handler threads.                                                     *)

\* A handler that reaches neither a slot nor a companion.
LEMMA ReplyStep ==
  ASSUME ZygiskdInv, UNCHANGED <<snaps, cur, held, lock, comp, backlog, main, gen, world>>,
         pending' \subseteq Companions, NEW x \in Clients, handler[x].pc # "idle",
         NEW h \in Handlers, NEW c \in Injected, ReplyInv(h, c, snaps), LockInv(x, h, lock),
         h.pc # "setup",
         handler' = [handler EXCEPT ![x] = h], client' = [client EXCEPT ![x] = c]
  PROVE  ZygiskdInv'
<1>1. RepliesInv'
  BY Zenon, HandlerReplies
<1>2. LocksInv'
  BY Zenon, HandlerLocks
<1>3. handler \in [Clients -> Handlers] /\ client \in [Clients -> Injected]
  BY Zenon DEF ZygiskdInv, TypeOK
<1>4. GenInv'
  <2>1. \A y \in Clients : handler'[y].pc = "setup" => handler'[y] = handler[y]
    BY Zenon, <1>3
  <2>2. \A d \in Companions : Running(d)' => Running(d) /\ comp'[d].gen = comp[d].gen
    BY Zenon DEF Running
  <2>3. QED
    BY Zenon, <2>1, <2>2, CalmGen
<1>5. TypeOK'
  BY Zenon, <1>3 DEF ZygiskdInv, TypeOK
<1>6. QED
  BY Zenon, <1>1, <1>2, <1>4, <1>5, Parts DEF ZygiskdInv

\* A client as it was.
LEMMA SameClient ==
  ASSUME ZygiskdInv, NEW x \in Clients
  PROVE  /\ client = [client EXCEPT ![x] = client[x]] /\ client[x] \in Injected
         /\ handler[x] \in Handlers /\ ReplyInv(handler[x], client[x], snaps)
         /\ LockInv(x, handler[x], lock)
BY Zenon DEF ZygiskdInv, TypeOK

\* A handler that has ended.
LEMMA IdleFacts == Idle \in Handlers /\ Idle.pc = "idle"
BY Zenon DEF Idle, Handlers

\* The count is written: the handler has its snapshot.
LEMMA StartReplyStep ==
  ASSUME ZygiskdInv, NEW x \in Clients, StartReply(x)
  PROVE  ZygiskdInv'
<1>1. /\ handler[x].pc = "read" /\ reap_companions
      /\ UNCHANGED <<snaps, cur, held, lock, comp, client, backlog, main, gen, world>>
      /\ handler' = [handler EXCEPT ![x].pc = "reply", ![x].s = cur, ![x].n = Len(snaps[cur])]
  BY Zenon DEF StartReply
<1>2. /\ snaps \in Seq(Seq(Names)) /\ cur = Len(snaps) /\ cur \in 1..MaxSnaps
      /\ handler \in [Clients -> Handlers] /\ pending \subseteq Companions
  BY Zenon DEF ZygiskdInv, TypeOK
<1>3. PICK n \in Nat : n = Len(snaps[cur])
  BY <1>2, ZygiskdAssumption
<1>4. cur \in 1..Len(snaps) /\ cur \in Nat
  BY <1>2, ZygiskdAssumption
<1>5. PICK h : h = [handler[x] EXCEPT !.pc = "reply", !.s = cur, !.n = n]
  OBVIOUS
<1>6. handler' = [handler EXCEPT ![x] = h]
  BY ONLY Zenon, <1>1, <1>2, <1>3, <1>5, x \in Clients DEF Handlers
<1>7. h \in Handlers /\ h.pc = "reply" /\ h.s = cur /\ h.n = n /\ h.k = handler[x].k
  BY ONLY ZenonT(30), <1>2, <1>3, <1>4, <1>5, x \in Clients DEF Handlers
<1>8. ReplyInv(h, client[x], snaps)
  <2>1. handler[x].k = 0 /\ ~client[x].read /\ client[x].mods = <<>>
    BY Zenon, <1>1, SameClient DEF ReplyInv
  <2>2. Matches(<<>>, snaps[cur], 0)
    BY DEF Matches
  <2>3. h.k <= h.n
    BY <1>3, <1>7, <2>1
  <2>4. QED
    BY Zenon, <1>3, <1>4, <1>7, <2>1, <2>2, <2>3 DEF ReplyInv
<1>9. LockInv(x, h, lock)
  BY Zenon, <1>7 DEF LockInv
<1>10. pending' \subseteq Companions
  BY Zenon, <1>1, <1>2 DEF reap_companions
<1>11. QED
  BY Zenon, <1>1, <1>6, <1>7, <1>8, <1>9, <1>10, SameClient, ReplyStep

\* A refused client keeps all but its wait.
LEMMA RefusedFacts ==
  ASSUME ZygiskdInv, NEW x \in Clients
  PROVE  /\ Refused(x) \in Injected /\ Refused(x).read = client[x].read
         /\ Refused(x).mods = client[x].mods /\ ~Refused(x).waits
<1>1. PICK c \in Injected : c = client[x]
  BY Zenon, SameClient
<1>2. PICK d : d = [c EXCEPT !.waits = FALSE]
  BY Zenon
<1>3. d \in Injected /\ d.read = c.read /\ d.mods = c.mods /\ ~d.waits
  BY ONLY Zenon, <1>1, <1>2 DEF Injected
<1>4. CASE c.waits
  <2>1. Refused(x) = d
    BY Zenon, <1>1, <1>2, <1>4 DEF Refused
  <2>2. QED
    BY Zenon, <1>1, <1>3, <2>1
<1>5. CASE ~c.waits
  <2>1. Refused(x) = c
    BY Zenon, <1>1, <1>5 DEF Refused
  <2>2. QED
    BY Zenon, <1>1, <1>5, <2>1
<1>6. QED
  BY Zenon, <1>4, <1>5

\* A handler that ends after its client was told, or has gone.
LEMMA EndsStep ==
  ASSUME ZygiskdInv, UNCHANGED <<snaps, cur, held, lock, comp, pending, backlog, main, gen, world>>,
         NEW x \in Clients, handler[x].pc # "idle", handler' = [handler EXCEPT ![x] = Idle],
         NEW c \in Injected, client' = [client EXCEPT ![x] = c],
         c.read => \E s \in 1..Len(snaps) : c.mods = snaps[s]
  PROVE  ZygiskdInv'
<1>1. ReplyInv(Idle, c, snaps) /\ LockInv(x, Idle, lock)
  BY ZenonT(30), IdleFacts DEF ReplyInv, LockInv
<1>2. pending' \subseteq Companions
  BY Zenon DEF ZygiskdInv, TypeOK
<1>3. QED
  BY ZenonT(30), <1>1, <1>2, IdleFacts, ReplyStep

\* An entry of the snapshot the reply started with.
LEMMA SendEntryStep ==
  ASSUME ZygiskdInv, NEW x \in Clients, SendEntry(x)
  PROVE  ZygiskdInv'
<1>1. /\ handler[x].pc = "reply" /\ handler[x].k < handler[x].n
      /\ UNCHANGED <<snaps, cur, held, lock, comp, pending, backlog, main, gen, world>>
  BY Zenon DEF SendEntry
<1>2. /\ client[x] \in Injected /\ handler[x] \in Handlers /\ ReplyInv(handler[x], client[x], snaps)
      /\ client = [client EXCEPT ![x] = client[x]]
  BY Zenon, SameClient
<1>3. CASE ~client[x].waits
  <2>1. handler' = [handler EXCEPT ![x] = Idle] /\ client' = client
    BY Zenon, <1>3 DEF SendEntry
  <2>2. QED
    BY Zenon, <1>1, <1>2, <2>1, EndsStep DEF ReplyInv
<1>4. CASE client[x].waits
  <2> PICK s \in 1..Len(snaps) : s = handler[x].s
    BY Zenon, <1>1, <1>2 DEF ReplyInv
  <2> PICK l \in Seq(Names) : l = snaps[s]
    BY DEF ZygiskdInv, TypeOK
  <2> PICK m \in Seq(Names) : m = client[x].mods
    BY Zenon, <1>2 DEF Injected
  <2> PICK k \in Nat : k = handler[x].k
    BY Zenon, <1>2 DEF Handlers
  <2>1. k = handler[x].k /\ s = handler[x].s /\ l = snaps[s] /\ m = client[x].mods
    BY Zenon
  <2>2. l \in Seq(Names) /\ handler[x].n = Len(l) /\ k < Len(l) /\ Matches(m, l, k) /\ ~client[x].read
    <3>1. snaps \in Seq(Seq(Names))
      BY Zenon DEF ZygiskdInv, TypeOK
    <3>2. QED
      BY Zenon, <1>1, <1>2, <1>4, <2>1, <3>1 DEF ReplyInv
  <2>3. PICK n \in Nat : n = k + 1
    BY ONLY k \in Nat
  <2>4. PICK e \in Names : e = l[n]
    <3>1. l[n] \in Names
      BY ONLY <2>2, <2>3, k \in Nat
    <3>2. QED
      BY Zenon, <3>1
  <2>5. Entry(x) = e
    BY Zenon, <2>1, <2>3, <2>4 DEF Entry
  <2>6. PICK mods : mods = Append(m, e)
    BY Zenon
  <2>7. mods \in Seq(Names) /\ Matches(mods, l, n)
    BY ONLY m \in Seq(Names), l \in Seq(Names), k \in Nat, n \in Nat, e \in Names,
            <2>2, <2>3, <2>4, <2>6 DEF Matches
  <2>8. PICK h : h = [handler[x] EXCEPT !.k = n]
    BY Zenon
  <2>9. PICK c : c = [client[x] EXCEPT !.mods = mods]
    BY Zenon
  <2>10. handler \in [Clients -> Handlers] /\ client \in [Clients -> Injected]
    BY Zenon DEF ZygiskdInv, TypeOK
  <2>11. handler' = [handler EXCEPT ![x] = h]
    <3>1. handler' = [handler EXCEPT ![x].k = n]
      BY Zenon, <1>4, <2>1, <2>3 DEF SendEntry
    <3>2. QED
      BY ONLY Zenon, <2>8, <2>10, <3>1, x \in Clients DEF Handlers
  <2>12. client' = [client EXCEPT ![x] = c]
    <3>1. client' = [client EXCEPT ![x].mods = mods]
      BY Zenon, <1>4, <2>1, <2>5, <2>6 DEF SendEntry
    <3>2. QED
      BY ONLY Zenon, <2>9, <2>10, <3>1, x \in Clients DEF Injected
  <2>13. h \in Handlers /\ h.pc = "reply" /\ h.s = s /\ h.k = n /\ h.n = Len(l)
    BY ONLY Zenon, <1>1, <1>2, <2>1, <2>2, <2>3, <2>8 DEF Handlers
  <2>14. c \in Injected /\ ~c.read /\ c.mods = mods
    BY ONLY ZenonT(30), <1>2, <2>2, <2>7, <2>9 DEF Injected
  <2>15. ReplyInv(h, c, snaps)
    <3>1. h.k <= h.n
      BY ONLY k \in Nat, l \in Seq(Names), <2>2, <2>3, <2>13
    <3>2. QED
      BY Zenon, <2>1, <2>7, <2>13, <2>14, <3>1 DEF ReplyInv
  <2>16. LockInv(x, h, lock)
    BY ONLY Zenon, <2>13 DEF LockInv
  <2>17. pending' \subseteq Companions
    BY Zenon, <1>1 DEF ZygiskdInv, TypeOK
  <2>18. QED
    BY Zenon, <1>1, <2>11, <2>12, <2>13, <2>14, <2>15, <2>16, <2>17, ReplyStep
<1>5. QED
  BY Zenon, <1>3, <1>4

\* The last entry was sent: the client holds the whole snapshot.
LEMMA EndReplyStep ==
  ASSUME ZygiskdInv, NEW x \in Clients, EndReply(x)
  PROVE  ZygiskdInv'
<1>1. /\ handler[x].pc = "reply" /\ handler[x].k = handler[x].n
      /\ UNCHANGED <<snaps, cur, held, lock, comp, pending, backlog, main, gen, world>>
      /\ handler' = [handler EXCEPT ![x] = Idle]
  BY Zenon DEF EndReply
<1>2. /\ client[x] \in Injected /\ handler[x] \in Handlers /\ ReplyInv(handler[x], client[x], snaps)
      /\ client = [client EXCEPT ![x] = client[x]]
  BY Zenon, SameClient
<1>3. CASE ~client[x].waits
  <2>1. client' = client
    BY Zenon, <1>3 DEF EndReply
  <2>2. QED
    BY Zenon, <1>1, <1>2, <2>1, EndsStep DEF ReplyInv
<1>4. CASE client[x].waits
  <2> PICK s \in 1..Len(snaps) : s = handler[x].s
    BY Zenon, <1>1, <1>2 DEF ReplyInv
  <2> PICK l \in Seq(Names) : l = snaps[s]
    BY DEF ZygiskdInv, TypeOK
  <2> PICK m \in Seq(Names) : m = client[x].mods
    BY Zenon, <1>2 DEF Injected
  <2>1. s = handler[x].s /\ l = snaps[s] /\ m = client[x].mods
    BY Zenon
  <2>2. l \in Seq(Names) /\ Matches(m, l, Len(l))
    <3>1. snaps \in Seq(Seq(Names))
      BY Zenon DEF ZygiskdInv, TypeOK
    <3>2. QED
      BY Zenon, <1>1, <1>2, <1>4, <2>1, <3>1 DEF ReplyInv
  <2>3. m = l
    BY ONLY <2>2, m \in Seq(Names) DEF Matches
  <2>4. PICK c : c = [client[x] EXCEPT !.waits = FALSE, !.read = TRUE]
    OBVIOUS
  <2>5. client' = [client EXCEPT ![x] = c]
    <3>1. client \in [Clients -> Injected]
      BY Zenon DEF ZygiskdInv, TypeOK
    <3>2. client' = [client EXCEPT ![x].waits = FALSE, ![x].read = TRUE]
      BY Zenon, <1>4 DEF EndReply
    <3>3. QED
      BY ONLY Zenon, <2>4, <3>1, <3>2, x \in Clients DEF Injected
  <2>6. c \in Injected /\ c.mods = m
    BY ONLY ZenonT(30), <1>2, <2>1, <2>4 DEF Injected
  <2>7. QED
    BY ZenonT(30), <1>1, <2>1, <2>3, <2>5, <2>6, EndsStep
<1>5. QED
  BY Zenon, <1>3, <1>4

\* The handler settles on a snapshot, or tells its client there is no such module.
LEMMA TakeSnapshotStep ==
  ASSUME ZygiskdInv, NEW x \in Clients, TakeSnapshot(x)
  PROVE  ZygiskdInv'
<1>1. /\ handler[x].pc \in {"companion", "zn"}
      /\ UNCHANGED <<snaps, cur, held, lock, comp, pending, backlog, main, gen, world>>
      /\ pending' \subseteq Companions
  BY Zenon DEF TakeSnapshot, ZygiskdInv, TypeOK
<1>2. /\ client[x] \in Injected /\ handler[x] \in Handlers /\ ReplyInv(handler[x], client[x], snaps)
      /\ client = [client EXCEPT ![x] = client[x]] /\ LockInv(x, handler[x], lock)
      /\ handler \in [Clients -> Handlers]
  BY Zenon, SameClient DEF ZygiskdInv, TypeOK
<1>3. PICK s : s = IF handler[x].pc = "zn" THEN 0 ELSE cur
  OBVIOUS
<1>4. s \in 0..cur /\ s \in Nat
  BY <1>3, ZygiskdAssumption DEF ZygiskdInv, TypeOK
<1>5. CASE handler[x].k <= Len(Listed(s))
  <2>1. handler' = [handler EXCEPT ![x].pc = "lock", ![x].s = s] /\ client' = client
    BY <1>3, <1>5, Zenon DEF TakeSnapshot
  <2>2. PICK h : h = [handler[x] EXCEPT !.pc = "lock", !.s = s]
    OBVIOUS
  <2>3. handler' = [handler EXCEPT ![x] = h]
    BY ONLY Zenon, <1>2, <2>1, <2>2, x \in Clients DEF Handlers
  <2>4. h \in Handlers /\ h.pc = "lock" /\ h.s = s /\ h.k = handler[x].k
    BY ONLY Zenon, <1>2, <1>4, <2>2 DEF Handlers
  <2>5. ReplyInv(h, client[x], snaps) /\ LockInv(x, h, lock)
    BY Zenon, <1>1, <1>2, <1>4, <1>5, <2>4 DEF ReplyInv, LockInv
  <2>6. QED
    BY Zenon, <1>1, <1>2, <2>1, <2>3, <2>4, <2>5, ReplyStep
<1>6. CASE ~(handler[x].k <= Len(Listed(s)))
  <2>1. client' = [client EXCEPT ![x] = Refused(x)] /\ handler' = [handler EXCEPT ![x] = Idle]
    BY <1>3, <1>6, Zenon DEF TakeSnapshot
  <2>2. QED
    BY ZenonT(30), <1>1, <1>2, <2>1, RefusedFacts, EndsStep DEF ReplyInv
<1>7. QED
  BY Zenon, <1>5, <1>6

\* A handler takes or frees a mutex nobody else holds.
LEMMA OwnMutex ==
  ASSUME ZygiskdInv, UNCHANGED <<snaps, cur>>, NEW x \in Clients, NEW h,
         handler' = [handler EXCEPT ![x] = h], NEW m \in Slots, NEW v,
         lock[m] \in {None, x}, lock' = [lock EXCEPT ![m] = v], LockInv(x, h, lock')
  PROVE  LocksInv'
<1>1. /\ handler \in [Clients -> Handlers] /\ lock \in [Slots -> Clients \cup {None}]
      /\ \A y \in Clients : LockInv(y, handler[y], lock)
  BY Zenon DEF ZygiskdInv, TypeOK
<1>2. handler'[x] = h /\ \A y \in Clients \ {x} : handler'[y] = handler[y]
  BY Zenon, <1>1
<1>3. ASSUME NEW y \in Clients \ {x}
      PROVE  LockInv(y, handler[y], lock')
  <2>1. LockInv(y, handler[y], lock) /\ y # None
    BY Zenon, <1>1, ZygiskdAssumption
  <2>2. CASE handler[y].pc \in {"spawn", "setup", "send"}
    <3>1. lock[MutexOf(Slot(y))] = y /\ MutexOf(Slot(y)) \in Slots
      BY Zenon, <2>1, <2>2, SlotFacts DEF LockInv, Slot
    <3>2. MutexOf(Slot(y)) # m
      BY Zenon, <2>1, <3>1
    <3>3. lock'[MutexOf(Slot(y))] = y
      BY Zenon, <1>1, <3>1, <3>2
    <3>4. QED
      BY Zenon, <2>1, <3>3 DEF LockInv, Slot
  <2>3. CASE handler[y].pc \notin {"spawn", "setup", "send"}
    BY Zenon, <2>1, <2>3 DEF LockInv
  <2>4. QED
    BY Zenon, <2>2, <2>3
<1>4. \A y \in Clients : LockInv(y, handler'[y], lock')
  BY Zenon, <1>2, <1>3
<1>5. ASSUME NEW y \in Clients
      PROVE  LockInv(y, handler[y], lock)'
  <2>1. LockInv(y, handler'[y], lock')
    BY Zenon, <1>4
  <2>2. QED
    BY <2>1 DEF LockInv, Listed
<1>6. QED
  BY Zenon, <1>5 DEF LocksInv

\* A handler of a companion request that goes on to another of its steps.
Moved(h, p, c) == [h EXCEPT !.pc = p, !.c = c]

CompanionSteps == {"lock", "spawn", "setup", "send"}

\* It keeps its snapshot and index, and its client as it was.
LEMMA MovesOn ==
  ASSUME ZygiskdInv, NEW x \in Clients, handler[x].pc \in CompanionSteps,
         NEW p \in CompanionSteps, NEW c \in Companions \cup {None}
  PROVE  /\ Moved(handler[x], p, c) \in Handlers
         /\ Moved(handler[x], p, c).pc = p /\ Moved(handler[x], p, c).c = c
         /\ Moved(handler[x], p, c).s = handler[x].s /\ Moved(handler[x], p, c).k = handler[x].k
         /\ ReplyInv(Moved(handler[x], p, c), client[x], snaps)
<1>1. handler[x] \in Handlers /\ ReplyInv(handler[x], client[x], snaps)
  BY Zenon, SameClient
<1>2. PICK h : h = Moved(handler[x], p, c)
  OBVIOUS
<1>3. h \in Handlers /\ h.pc = p /\ h.s = handler[x].s /\ h.k = handler[x].k /\ h.c = c
  BY ONLY ZenonT(30), <1>1, <1>2, c \in Companions \cup {None}, p \in CompanionSteps
     DEF Handlers, Moved, CompanionSteps
<1>4. ReplyInv(h, client[x], snaps)
  BY Zenon, <1>1, <1>3 DEF ReplyInv, CompanionSteps
<1>5. QED
  BY Zenon, <1>2, <1>3, <1>4

\* The mutex of the slot is taken; a companion that has exited is dropped.
LEMMA LockSlotStep ==
  ASSUME ZygiskdInv, NEW x \in Clients, LockSlot(x)
  PROVE  ZygiskdInv'
<1>1. /\ handler[x].pc = "lock" /\ lock[MutexOf(Slot(x))] = None
      /\ lock' = [lock EXCEPT ![MutexOf(Slot(x))] = x]
      /\ UNCHANGED <<snaps, cur, comp, pending, client, backlog, main, gen, world>>
  BY Zenon DEF LockSlot
<1>2. PICK p \in {"send", "spawn"} :
        /\ handler' = [handler EXCEPT ![x].pc = p]
        /\ held' = held \/ held' = [held EXCEPT ![Slot(x)] = None]
  BY Zenon DEF LockSlot
<1>3. /\ handler \in [Clients -> Handlers] /\ held \in [Slots -> Companions \cup {None}]
      /\ lock \in [Slots -> Clients \cup {None}] /\ TypeOK
  BY Zenon DEF ZygiskdInv, TypeOK
<1>4. /\ Slot(x) \in Slots /\ MutexOf(Slot(x)) \in Slots /\ handler[x].c \in Companions \cup {None}
      /\ LockInv(x, handler[x], lock)
  BY Zenon, <1>1, <1>3, SlotFacts DEF Handlers, ZygiskdInv
<1>5. PICK h : h = Moved(handler[x], p, handler[x].c) /\ handler' = [handler EXCEPT ![x] = h]
  <2>1. handler' = [handler EXCEPT ![x] = Moved(handler[x], p, handler[x].c)]
    BY ONLY ZenonT(30), <1>2, <1>3, x \in Clients DEF Handlers, Moved
  <2>2. QED
    BY Zenon, <2>1
<1>6. /\ h \in Handlers /\ h.pc = p /\ h.s = handler[x].s /\ h.k = handler[x].k
      /\ ReplyInv(h, client[x], snaps) /\ client = [client EXCEPT ![x] = client[x]]
  <2>1. p \in CompanionSteps /\ handler[x].pc \in CompanionSteps
    BY Zenon, <1>1, <1>2 DEF CompanionSteps
  <2>2. QED
    BY <1>4, <1>5, <2>1, MovesOn, SameClient
<1>7. RepliesInv'
  BY ZenonT(30), <1>1, <1>5, <1>6, HandlerReplies
<1>8. LocksInv'
  <2>1. lock'[MutexOf(Slot(x))] = x
    BY Zenon, <1>1, <1>3, <1>4
  <2>2. LockInv(x, h, lock')
    BY Zenon, <1>1, <1>2, <1>4, <1>6, <2>1 DEF LockInv, Slot
  <2>3. QED
    BY Zenon, <1>1, <1>4, <1>5, <2>2, OwnMutex
<1>9. GenInv'
  <2>1. \A y \in Clients : handler'[y].pc = "setup" => handler'[y] = handler[y]
    BY Zenon, <1>2, <1>3, <1>5, <1>6
  <2>2. \A slot \in Slots : held'[slot] \in {held[slot], None}
    BY Zenon, <1>2, <1>3, <1>4
  <2>3. \A d \in Companions : Running(d)' => Running(d) /\ comp'[d].gen = comp[d].gen
    BY ZenonT(30), <1>1 DEF Running
  <2>4. QED
    BY Zenon, <1>1, <2>1, <2>2, <2>3, CalmGen
<1>10. TypeOK'
  <2>1. handler' \in [Clients -> Handlers]
    BY Zenon, <1>3, <1>5, <1>6
  <2>2. held' \in [Slots -> Companions \cup {None}]
    BY Zenon, <1>2, <1>3, <1>4
  <2>3. lock' \in [Slots -> Clients \cup {None}]
    BY Zenon, <1>1, <1>3
  <2>4. QED
    BY ZenonT(30), <1>1, <1>3, <2>1, <2>2, <2>3 DEF TypeOK
<1>11. QED
  BY ZenonT(30), <1>1, <1>7, <1>8, <1>9, <1>10, Parts DEF ZygiskdInv

\* No companion: the process did not start, or did not answer.
LEMMA NoCompanionStep ==
  ASSUME ZygiskdInv, NEW x \in Clients, SpawnFails(x) \/ SetUpFails(x)
  PROVE  ZygiskdInv'
<1>1. /\ handler[x].pc \in {"spawn", "setup"}
      /\ UNCHANGED <<snaps, cur, held, lock, comp, pending, client, backlog, main, gen, world>>
      /\ pending' \subseteq Companions
  BY Zenon DEF SpawnFails, SetUpFails, ZygiskdInv, TypeOK
<1>2. client[x] \in Injected /\ handler[x] \in Handlers /\ LockInv(x, handler[x], lock)
  BY Zenon, SameClient
<1>3. PICK c \in Companions \cup {None} : handler' = [handler EXCEPT ![x] = Moved(handler[x], "send", c)]
  <2>1. handler[x].c \in Companions \cup {None} /\ None \in Companions \cup {None}
    BY Zenon, <1>2 DEF Handlers
  <2>2. CASE SpawnFails(x)
    <3>1. handler' = [handler EXCEPT ![x].pc = "send"] /\ handler \in [Clients -> Handlers]
      BY Zenon, <2>2 DEF SpawnFails, ZygiskdInv, TypeOK
    <3>2. handler' = [handler EXCEPT ![x] = Moved(handler[x], "send", handler[x].c)]
      BY ONLY ZenonT(30), <3>1, x \in Clients DEF Handlers, Moved
    <3>3. QED
      BY Zenon, <2>1, <3>2
  <2>3. CASE SetUpFails(x)
    <3>1. handler' = [handler EXCEPT ![x].pc = "send", ![x].c = None] /\ handler \in [Clients -> Handlers]
      BY Zenon, <2>3 DEF SetUpFails, ZygiskdInv, TypeOK
    <3>2. handler' = [handler EXCEPT ![x] = Moved(handler[x], "send", None)]
      BY ONLY Zenon, <3>1, x \in Clients DEF Handlers, Moved
    <3>3. QED
      BY Zenon, <2>1, <3>2
  <2>4. QED
    BY Zenon, <2>2, <2>3
<1>4. PICK h : h = Moved(handler[x], "send", c)
  OBVIOUS
<1>5. /\ h \in Handlers /\ h.pc = "send" /\ h.s = handler[x].s /\ h.k = handler[x].k
      /\ ReplyInv(h, client[x], snaps) /\ client = [client EXCEPT ![x] = client[x]]
      /\ handler' = [handler EXCEPT ![x] = h]
  <2>1. "send" \in CompanionSteps /\ handler[x].pc \in CompanionSteps
    BY Zenon, <1>1 DEF CompanionSteps
  <2>2. QED
    BY <1>3, <1>4, <2>1, MovesOn, SameClient
<1>6. LockInv(x, h, lock)
  BY ZenonT(30), <1>1, <1>2, <1>5 DEF LockInv
<1>7. QED
  BY Zenon, <1>1, <1>2, <1>5, <1>6, ReplyStep

\* A new companion is of the present generation.
LEMMA SpawnStep ==
  ASSUME ZygiskdInv, NEW x \in Clients, Spawn(x)
  PROVE  ZygiskdInv'
<1>1. /\ handler[x].pc = "spawn" /\ TypeOK
      /\ UNCHANGED <<snaps, cur, held, lock, client, backlog, main, gen, world>>
  BY Zenon DEF Spawn, ZygiskdInv
<1>2. PICK c \in world.companions :
        /\ comp' = [comp EXCEPT ![c] = NewCompanion(x)]
        /\ pending' = pending \cup {c}
        /\ handler' = [handler EXCEPT ![x].pc = "setup", ![x].c = c]
  BY Zenon DEF Spawn
<1>3. c \in Companions
  BY Zenon, <1>2, ZygiskdAssumption DEF ZygiskdInv
<1>4. /\ handler \in [Clients -> Handlers] /\ comp \in [Companions -> Processes]
      /\ pending \subseteq Companions /\ held \in [Slots -> Companions \cup {None}]
      /\ LockInv(x, handler[x], lock)
  BY Zenon, <1>1 DEF TypeOK, ZygiskdInv
<1>5. PICK h : h = Moved(handler[x], "setup", c) /\ handler' = [handler EXCEPT ![x] = h]
  <2>1. handler' = [handler EXCEPT ![x] = Moved(handler[x], "setup", c)]
    BY ONLY ZenonT(30), <1>2, <1>4, x \in Clients DEF Handlers, Moved
  <2>2. QED
    BY Zenon, <2>1
<1>6. /\ h \in Handlers /\ h.pc = "setup" /\ h.s = handler[x].s /\ h.k = handler[x].k /\ h.c = c
      /\ ReplyInv(h, client[x], snaps) /\ client = [client EXCEPT ![x] = client[x]]
  <2>1. "setup" \in CompanionSteps /\ handler[x].pc \in CompanionSteps
    BY ZenonT(30), <1>1 DEF CompanionSteps
  <2>2. QED
    BY SMTT(30), <1>3, <1>5, <2>1, MovesOn, SameClient
<1>7. RepliesInv'
  BY ZenonT(30), <1>1, <1>5, <1>6, HandlerReplies
<1>8. LocksInv'
  <2>1. LockInv(x, h, lock)
    BY ZenonT(30), <1>1, <1>3, <1>4, <1>6 DEF LockInv
  <2>2. QED
    BY Zenon, <1>1, <1>5, <2>1, HandlerLocks
<1>9. PICK n : n = NewCompanion(x)
  BY Zenon
<1>10. n \in Processes /\ n.gen = gen
  <2>1. handler[x].s \in 0..cur /\ handler[x].k \in 1..MaxLen /\ handler[x].k <= Len(Listed(handler[x].s))
    BY Zenon, <1>1, SlotFacts
  <2>2. PICK l \in Seq(Names) : l = Listed(handler[x].s)
    BY Zenon, <2>1, ListedSeq
  <2>3. l[handler[x].k] \in Names
    BY <2>1, <2>2, MaxLenNat
  <2>4. PICK b \in BOOLEAN : b = (handler[x].s = 0)
    BY Zenon
  <2>5. n = [st |-> "setup", name |-> l[handler[x].k], gen |-> gen, queue |-> <<>>, zn |-> b]
    BY <1>9, <2>2, <2>4, Zenon DEF NewCompanion
  <2>6. gen \in Nat
    BY Zenon, <1>1 DEF TypeOK
  <2>7. PICK e : e = l[handler[x].k] /\ e \in Names
    BY Zenon, <2>3
  <2>8. PICK q : q = <<>>
    BY Zenon
  <2>9. q \in Seq(Clients)
    BY ONLY <2>8
  <2>10. n = [st |-> "setup", name |-> e, gen |-> gen, queue |-> q, zn |-> b]
    BY ONLY Zenon, <2>5, <2>7, <2>8
  <2>11. QED
    BY ONLY Zenon, <2>4, <2>6, <2>7, <2>9, <2>10 DEF Processes
<1>11. /\ comp' \in [Companions -> Processes] /\ comp'[c] = n
       /\ \A d \in Companions \ {c} : comp'[d] = comp[d]
  BY Zenon, <1>2, <1>3, <1>4, <1>9, <1>10
<1>12. ASSUME NEW d \in Companions, d = c \/ Current(d)
       PROVE  Current(d)'
  BY Zenon, <1>1, <1>10, <1>11, <1>12 DEF Current, Running
<1>13. \A slot : Swept(slot)' <=> Swept(slot)
  BY Zenon, <1>1 DEF Swept
<1>14. ASSUME NEW slot \in Slots
       PROVE  SlotInv(slot)'
  <2>1. SlotInv(slot) /\ held[slot] \in Companions \cup {None}
    BY ZenonT(30), <1>4 DEF ZygiskdInv
  <2>2. CASE held[slot] = None
    BY ZenonT(30), <1>1, <2>2 DEF SlotInv, Current
  <2>3. ASSUME NEW d \in Companions, d = held[slot]
        PROVE  SlotInv(slot)'
    <3>1. Swept(slot) => Current(d)'
      BY Zenon, <1>12, <2>1, <2>3 DEF SlotInv
    <3>2. held'[slot] = d
      BY Zenon, <1>1, <2>3
    <3>3. Swept(slot)' => Current(held[slot])'
      BY Zenon, <1>13, <3>1, <3>2 DEF Current, Running
    <3>4. QED
      BY ZenonT(30), <1>1, <2>1, <3>3 DEF SlotInv, Listed
  <2>4. QED
    BY Zenon, <2>1, <2>2, <2>3
<1>15. ASSUME NEW y \in Clients, handler'[y].pc = "setup", Swept(Slot(y))'
       PROVE  Current(handler[y].c)'
  <2>1. CASE y = x
    <3>1. handler'[y].c = c
      BY Zenon, <1>4, <1>5, <1>6, <2>1
    <3>2. Current(c)'
      BY Zenon, <1>3, <1>12
    <3>3. QED
      BY Zenon, <3>1, <3>2 DEF Current, Running
  <2>2. CASE y # x
    <3>1. handler'[y] = handler[y]
      BY Zenon, <1>4, <1>5, <2>2
    <3>2. Slot(y)' = Slot(y)
      BY Zenon, <3>1 DEF Slot
    <3>3. Swept(Slot(y)) /\ handler[y].pc = "setup"
      BY Zenon, <1>13, <1>15, <3>1, <3>2
    <3>4. PICK d \in Companions : d = handler[y].c
      BY ZenonT(30), <3>3 DEF ZygiskdInv, LockInv
    <3>5. Current(d)
      BY ZenonT(30), <3>3, <3>4 DEF ZygiskdInv
    <3>6. Current(d)' /\ handler'[y].c = d
      BY Zenon, <1>12, <3>1, <3>4, <3>5
    <3>7. QED
      BY Zenon, <3>6 DEF Current, Running
  <2>3. QED
    BY Zenon, <2>1, <2>2
<1>16. GenInv'
  BY ZenonT(30), <1>1, <1>14, <1>15 DEF GenInv, ZygiskdInv
<1>17. TypeOK'
  <2>1. handler' \in [Clients -> Handlers]
    BY Zenon, <1>4, <1>5, <1>6
  <2>2. pending' \subseteq Companions
    BY Zenon, <1>2, <1>3, <1>4
  <2>3. QED
    BY Zenon, <1>1, <1>11, <2>1, <2>2 DEF TypeOK
<1>18. QED
  BY ZenonT(30), <1>1, <1>7, <1>8, <1>16, <1>17, Parts DEF ZygiskdInv

\* The companion goes into its slot.
LEMMA SetUpStep ==
  ASSUME ZygiskdInv, NEW x \in Clients, SetUp(x)
  PROVE  ZygiskdInv'
<1>1. /\ handler[x].pc = "setup" /\ TypeOK
      /\ UNCHANGED <<snaps, cur, lock, comp, pending, client, backlog, main, gen, world>>
      /\ held' = [held EXCEPT ![Slot(x)] = handler[x].c]
      /\ handler' = [handler EXCEPT ![x].pc = "send", ![x].c = None]
  BY Zenon DEF SetUp, ZygiskdInv
<1>2. /\ handler \in [Clients -> Handlers] /\ held \in [Slots -> Companions \cup {None}]
      /\ LockInv(x, handler[x], lock)
  BY Zenon, <1>1 DEF TypeOK, ZygiskdInv
<1>3. PICK c \in Companions : c = handler[x].c
  BY Zenon, <1>1, <1>2 DEF LockInv
<1>4. PICK h : h = Moved(handler[x], "send", None) /\ handler' = [handler EXCEPT ![x] = h]
  <2>1. handler' = [handler EXCEPT ![x] = Moved(handler[x], "send", None)]
    BY ONLY ZenonT(30), <1>1, <1>2, x \in Clients DEF Handlers, Moved
  <2>2. QED
    BY Zenon, <2>1
<1>5. /\ h \in Handlers /\ h.pc = "send" /\ h.s = handler[x].s /\ h.k = handler[x].k
      /\ ReplyInv(h, client[x], snaps) /\ client = [client EXCEPT ![x] = client[x]]
  <2>1. "send" \in CompanionSteps /\ handler[x].pc \in CompanionSteps
    BY Zenon, <1>1 DEF CompanionSteps
  <2>2. QED
    BY <1>4, <2>1, MovesOn, SameClient
<1>6. RepliesInv'
  BY Zenon, <1>1, <1>4, <1>5, HandlerReplies
<1>7. LocksInv'
  <2>1. LockInv(x, h, lock)
    BY Zenon, <1>1, <1>2, <1>5 DEF LockInv
  <2>2. QED
    BY Zenon, <1>1, <1>4, <2>1, HandlerLocks
<1>8. /\ Slot(x) \in Slots /\ Slot(x)[1] = handler[x].s /\ Slot(x)[2] = handler[x].k
      /\ handler[x].s \in 0..cur /\ handler[x].k <= Len(Listed(handler[x].s))
  BY Zenon, <1>1, SlotFacts
<1>9. \A slot : Swept(slot)' <=> Swept(slot)
  BY Zenon, <1>1 DEF Swept
<1>10. \A d : Current(d)' <=> Current(d)
  BY Zenon, <1>1 DEF Current, Running
<1>11. ASSUME NEW slot \in Slots
       PROVE  SlotInv(slot)'
  <2>1. CASE slot = Slot(x)
    <3>1. held'[slot] = c
      BY Zenon, <1>1, <1>2, <1>3, <1>8, <2>1
    <3>2. Swept(slot) => Current(c)
      BY Zenon, <1>1, <1>3, <2>1 DEF ZygiskdInv
    <3>3. slot[1] <= cur /\ slot[2] <= Len(Listed(slot[1]))
      BY <1>8, <2>1
    <3>4. QED
      BY Zenon, <1>1, <1>9, <1>10, <3>1, <3>2, <3>3 DEF SlotInv, Listed
  <2>2. CASE slot # Slot(x)
    <3>1. held'[slot] = held[slot] /\ SlotInv(slot)
      BY Zenon, <1>1, <1>2, <2>2 DEF ZygiskdInv
    <3>2. QED
      BY Zenon, <1>1, <1>9, <1>10, <3>1 DEF SlotInv, Listed
  <2>3. QED
    BY Zenon, <2>1, <2>2
<1>12. ASSUME NEW y \in Clients, handler'[y].pc = "setup", Swept(Slot(y))'
       PROVE  Current(handler[y].c)'
  <2>1. y # x
    BY Zenon, <1>2, <1>4, <1>5, <1>12
  <2>2. handler'[y] = handler[y]
    BY Zenon, <1>2, <1>4, <2>1
  <2>3. Slot(y)' = Slot(y)
    BY Zenon, <2>2 DEF Slot
  <2>4. Swept(Slot(y)) /\ handler[y].pc = "setup"
    BY Zenon, <1>9, <1>12, <2>2, <2>3
  <2>5. Current(handler[y].c)
    BY Zenon, <2>4 DEF ZygiskdInv
  <2>6. QED
    BY Zenon, <1>1, <2>2, <2>5 DEF Current, Running
<1>13. GenInv'
  BY Zenon, <1>1, <1>11, <1>12 DEF GenInv, ZygiskdInv
<1>14. TypeOK'
  <2>1. handler' \in [Clients -> Handlers] /\ held' \in [Slots -> Companions \cup {None}]
    BY ZenonT(30), <1>1, <1>2, <1>3, <1>4, <1>5, <1>8
  <2>2. QED
    BY Zenon, <1>1, <2>1 DEF TypeOK
<1>15. QED
  BY Zenon, <1>1, <1>6, <1>7, <1>13, <1>14, Parts DEF ZygiskdInv

\* The client's socket goes to the companion, or back; the mutex is free again.
LEMMA SendToCompanionStep ==
  ASSUME ZygiskdInv, NEW x \in Clients, SendToCompanion(x)
  PROVE  ZygiskdInv'
<1>1. /\ handler[x].pc = "send" /\ TypeOK
      /\ UNCHANGED <<snaps, cur, held, pending, backlog, main, gen, world>>
      /\ lock' = [lock EXCEPT ![MutexOf(Slot(x))] = None]
      /\ handler' = [handler EXCEPT ![x] = Idle]
  BY Zenon DEF SendToCompanion, ZygiskdInv
<1>2. PICK c : c = held[Slot(x)]
  OBVIOUS
<1>3. /\ Slot(x) \in Slots /\ MutexOf(Slot(x)) \in Slots
      /\ handler \in [Clients -> Handlers] /\ comp \in [Companions -> Processes]
      /\ client \in [Clients -> Injected] /\ lock \in [Slots -> Clients \cup {None}]
      /\ held \in [Slots -> Companions \cup {None}]
      /\ LockInv(x, handler[x], lock) /\ ReplyInv(handler[x], client[x], snaps)
  BY Zenon, <1>1, SlotFacts DEF ZygiskdInv, TypeOK
<1>4. LocksInv'
  <2>1. lock[MutexOf(Slot(x))] = x
    BY Zenon, <1>1, <1>3 DEF LockInv, Slot
  <2>2. LockInv(x, Idle, lock')
    BY Zenon, IdleFacts DEF LockInv
  <2>3. QED
    BY Zenon, <1>1, <1>3, <2>1, <2>2, OwnMutex
<1>5. \A y \in Clients : handler'[y].pc = "setup" => handler'[y] = handler[y]
  BY Zenon, <1>1, <1>3, IdleFacts
<1>6. /\ handler' \in [Clients -> Handlers] /\ lock' \in [Slots -> Clients \cup {None}]
  BY Zenon, <1>1, <1>3, IdleFacts
<1>7. ASSUME c # None, Running(c)
      PROVE  ZygiskdInv'
  <2>1. comp' = [comp EXCEPT ![c].queue = Append(comp[c].queue, x)] /\ client' = client
    BY Zenon, <1>2, <1>7 DEF SendToCompanion
  <2>2. c \in Companions
    BY Zenon, <1>2, <1>3, <1>7
  <2>3. PICK q \in Seq(Clients) : q = comp[c].queue
    BY Zenon, <1>3, <2>2 DEF Processes
  <2> PICK r : r = Append(q, x)
    BY Zenon
  <2>4. r \in Seq(Clients)
    BY ONLY q \in Seq(Clients), x \in Clients, r = Append(q, x)
  <2>5. comp' = [comp EXCEPT ![c].queue = r]
    BY Zenon, <2>1, <2>3
  <2>6. /\ comp' \in [Companions -> Processes]
        /\ \A d \in Companions : comp'[d].st = comp[d].st /\ comp'[d].gen = comp[d].gen
    BY ONLY ZenonT(30), <1>3, <2>2, <2>4, <2>5 DEF Processes
  <2>7. \A d \in Companions : Running(d)' => Running(d) /\ comp'[d].gen = comp[d].gen
    BY Zenon, <2>6 DEF Running
  <2>8. GenInv'
    BY Zenon, <1>1, <1>5, <2>7, CalmGen
  <2>9. RepliesInv'
    <3>1. ReplyInv(Idle, client[x], snaps)
      BY Zenon, <1>3, IdleFacts DEF ReplyInv
    <3>2. client' = [client EXCEPT ![x] = client[x]]
      BY Zenon, <1>3, <2>1
    <3>3. QED
      BY Zenon, <1>1, <3>1, <3>2, HandlerReplies
  <2>10. TypeOK'
    BY Zenon, <1>1, <1>6, <2>1, <2>6 DEF TypeOK
  <2>11. QED
    BY Zenon, <1>1, <1>4, <2>8, <2>9, <2>10, Parts DEF ZygiskdInv
<1>8. ASSUME ~(c # None /\ Running(c))
      PROVE  ZygiskdInv'
  <2>1. client' = [client EXCEPT ![x] = Refused(x)] /\ comp' = comp
    BY Zenon, <1>2, <1>8 DEF SendToCompanion
  <2>2. \A d \in Companions : Running(d)' => Running(d) /\ comp'[d].gen = comp[d].gen
    BY Zenon, <2>1 DEF Running
  <2>3. GenInv'
    BY Zenon, <1>1, <1>5, <2>2, CalmGen
  <2>4. RepliesInv'
    <3>1. ReplyInv(Idle, Refused(x), snaps)
      BY ZenonT(30), <1>3, IdleFacts, RefusedFacts DEF ReplyInv
    <3>2. QED
      BY Zenon, <1>1, <2>1, <3>1, HandlerReplies
  <2>5. TypeOK'
    <3>1. client' \in [Clients -> Injected]
      BY Zenon, <1>3, <2>1, RefusedFacts
    <3>2. QED
      BY Zenon, <1>1, <1>6, <2>1, <3>1 DEF TypeOK
  <2>6. QED
    BY Zenon, <1>1, <1>4, <2>3, <2>4, <2>5, Parts DEF ZygiskdInv
<1>9. QED
  BY Zenon, <1>7, <1>8

------------------------------------------------------------------------------
(* The companions.                                                          *)

\* A companion's step: it stays of its generation, and clients are only served
\* or refused.
LEMMA CompanionStep ==
  ASSUME ZygiskdInv, UNCHANGED <<snaps, cur, held, lock, pending, handler, backlog, main, gen, world>>,
         NEW c \in Companions, Running(c), NEW n \in Processes, n.gen = comp[c].gen,
         comp' = [comp EXCEPT ![c] = n], client' \in [Clients -> Injected],
         \A x \in Clients : Calmer(client[x], client'[x])
  PROVE  ZygiskdInv'
<1>1. comp \in [Companions -> Processes] /\ TypeOK
  BY Zenon DEF ZygiskdInv, TypeOK
<1>2. \A d \in Companions : Running(d)' => Running(d) /\ comp'[d].gen = comp[d].gen
  BY Zenon, <1>1 DEF Running
<1>3. GenInv'
  BY Zenon, <1>2, CalmGen
<1>4. comp' \in [Companions -> Processes]
  BY Zenon, <1>1
<1>5. TypeOK'
  BY Zenon, <1>1, <1>4 DEF TypeOK
<1>6. QED
  BY ZenonT(30), <1>3, <1>5, CalmClients, SameLocks, Parts DEF ZygiskdInv

\* Clients that do not move.
LEMMA SameClients ==
  ASSUME ZygiskdInv, UNCHANGED client
  PROVE  client' \in [Clients -> Injected] /\ \A x \in Clients : Calmer(client[x], client'[x])
BY Zenon DEF ZygiskdInv, TypeOK, Calmer

\* A companion's record with a new state and queue.
LEMMA ProcessMoves ==
  ASSUME ZygiskdInv, NEW c \in Companions, NEW st \in {"setup", "poll", "recv", "exited"},
         NEW q \in Seq(Clients), comp' = [comp EXCEPT ![c].st = st, ![c].queue = q]
  PROVE  \E n \in Processes : n.gen = comp[c].gen /\ comp' = [comp EXCEPT ![c] = n]
<1>1. comp \in [Companions -> Processes]
  BY Zenon DEF ZygiskdInv, TypeOK
<1>2. PICK n : n = [comp[c] EXCEPT !.st = st, !.queue = q]
  OBVIOUS
<1>3. n \in Processes /\ n.gen = comp[c].gen /\ comp' = [comp EXCEPT ![c] = n]
  BY ONLY Zenon, <1>1, <1>2, c \in Companions, st \in {"setup", "poll", "recv", "exited"}, q \in Seq(Clients),
          comp' = [comp EXCEPT ![c].st = st, ![c].queue = q] DEF Processes
<1>4. QED
  BY Zenon, <1>3

\* The process ends and those who wait for it are refused.
LEMMA ExitStep ==
  ASSUME ZygiskdInv, NEW c \in Companions, Running(c), Exit(c)
  PROVE  ZygiskdInv'
<1>1. /\ UNCHANGED <<snaps, cur, held, lock, pending, handler, backlog, main, gen, world>>
      /\ comp' = [comp EXCEPT ![c].st = "exited", ![c].queue = <<>>]
      /\ client' = [x \in Clients |-> IF \E i \in 1..Len(comp[c].queue) : comp[c].queue[i] = x
                                     THEN Refused(x) ELSE client[x]]
  BY Zenon DEF Exit
<1>2. <<>> \in Seq(Clients)
  OBVIOUS
<1>3. PICK n \in Processes : n.gen = comp[c].gen /\ comp' = [comp EXCEPT ![c] = n]
  BY ZenonT(30), <1>1, <1>2, ProcessMoves
<1>4. \A x \in Clients : client'[x] \in {Refused(x), client[x]}
  BY Zenon, <1>1
<1>5. \A x \in Clients : client[x] \in Injected
  BY Zenon, SameClient
<1>6. client' \in [Clients -> Injected]
  BY Zenon, <1>1, <1>4, <1>5, RefusedFacts
<1>7. \A x \in Clients : Calmer(client[x], client'[x])
  BY Zenon, <1>4, RefusedFacts DEF Calmer
<1>8. QED
  BY Zenon, <1>1, <1>3, <1>6, <1>7, CompanionStep

\* The state alone changes.
LEMMA StateMoves ==
  ASSUME ZygiskdInv, NEW c \in Companions, NEW st \in {"setup", "poll", "recv", "exited"},
         comp' = [comp EXCEPT ![c].st = st]
  PROVE  \E n \in Processes : n.gen = comp[c].gen /\ comp' = [comp EXCEPT ![c] = n]
<1>1. comp \in [Companions -> Processes]
  BY Zenon DEF ZygiskdInv, TypeOK
<1>2. PICK n : n = [comp[c] EXCEPT !.st = st]
  BY Zenon
<1>3. n \in Processes /\ n.gen = comp[c].gen /\ comp' = [comp EXCEPT ![c] = n]
  BY ONLY Zenon, <1>1, <1>2, c \in Companions, st \in {"setup", "poll", "recv", "exited"},
          comp' = [comp EXCEPT ![c].st = st] DEF Processes
<1>4. QED
  BY Zenon, <1>3

\* The library is loaded, or there is nothing to load.
LEMMA LoadStep ==
  ASSUME ZygiskdInv, NEW c \in Companions, Loaded(c) \/ NotLoaded(c)
  PROVE  ZygiskdInv'
<1>1. Running(c)
  BY Zenon DEF Loaded, NotLoaded, Running
<1>2. CASE Loaded(c)
  <2>1. /\ UNCHANGED <<snaps, cur, held, lock, pending, client, handler, backlog, main, gen, world>>
        /\ comp' = [comp EXCEPT ![c].st = "poll"]
    BY Zenon, <1>2 DEF Loaded
  <2>2. PICK n \in Processes : n.gen = comp[c].gen /\ comp' = [comp EXCEPT ![c] = n]
    BY ZenonT(30), <2>1, StateMoves
  <2>3. QED
    BY Zenon, <1>1, <2>1, <2>2, SameClients, CompanionStep
<1>3. CASE NotLoaded(c)
  BY Zenon, <1>1, <1>3, ExitStep DEF NotLoaded
<1>4. QED
  BY Zenon, <1>2, <1>3

\* is_socket_alive answers.
LEMMA PollStep ==
  ASSUME ZygiskdInv, NEW c \in Companions, Poll(c)
  PROVE  ZygiskdInv'
<1>1. Running(c)
  BY Zenon DEF Poll, Running
<1>2. CASE Held(c)
  <2>1. /\ UNCHANGED <<snaps, cur, held, lock, pending, client, handler, backlog, main, gen, world>>
        /\ comp' = [comp EXCEPT ![c].st = "recv"]
    BY Zenon, <1>2 DEF Poll
  <2>2. PICK n \in Processes : n.gen = comp[c].gen /\ comp' = [comp EXCEPT ![c] = n]
    BY Zenon, <2>1, StateMoves
  <2>3. QED
    BY Zenon, <1>1, <2>1, <2>2, SameClients, CompanionStep
<1>3. CASE ~Held(c)
  BY Zenon, <1>1, <1>3, ExitStep DEF Poll
<1>4. QED
  BY Zenon, <1>2, <1>3

\* The first in a companion's queue leaves it.
LEMMA TailQueue ==
  ASSUME ZygiskdInv, NEW c \in Companions, comp[c].queue # <<>>,
         comp' = [comp EXCEPT ![c].st = "poll", ![c].queue = Tail(comp[c].queue)]
  PROVE  /\ Head(comp[c].queue) \in Clients
         /\ \E n \in Processes : n.gen = comp[c].gen /\ comp' = [comp EXCEPT ![c] = n]
<1>1. PICK q \in Seq(Clients) : q = comp[c].queue
  BY Zenon DEF ZygiskdInv, TypeOK, Processes
<1>2. q # <<>>
  BY Zenon, <1>1
<1>3. Head(q) \in Clients /\ Tail(q) \in Seq(Clients)
  BY ONLY q \in Seq(Clients), <1>2
<1>4. PICK t \in Seq(Clients) : t = Tail(q)
  BY Zenon, <1>3
<1>5. comp' = [comp EXCEPT ![c].st = "poll", ![c].queue = t]
  BY Zenon, <1>1, <1>4
<1>6. QED
  BY Zenon, <1>1, <1>3, <1>5, ProcessMoves

\* A client is served: it has its companion and waits no more.
LEMMA ServeStep ==
  ASSUME ZygiskdInv, NEW c \in Companions, Serve(c)
  PROVE  ZygiskdInv'
<1>1. /\ UNCHANGED <<snaps, cur, held, lock, pending, handler, backlog, main, gen, world>>
      /\ comp[c].queue # <<>> /\ Running(c)
      /\ comp' = [comp EXCEPT ![c].st = "poll", ![c].queue = Tail(comp[c].queue)]
  BY Zenon DEF Serve, Running
<1>2. /\ Head(comp[c].queue) \in Clients
      /\ \E n \in Processes : n.gen = comp[c].gen /\ comp' = [comp EXCEPT ![c] = n]
  BY Zenon, <1>1, TailQueue
<1>3. PICK n \in Processes : n.gen = comp[c].gen /\ comp' = [comp EXCEPT ![c] = n]
  BY ZenonT(30), <1>2
<1>4. PICK x \in Clients : x = Head(comp[c].queue)
  BY Zenon, <1>2
<1>5. client' = [client EXCEPT ![x].waits = FALSE, ![x].conn = c]
  BY ZenonT(30), <1>4 DEF Serve
<1>6. client \in [Clients -> Injected]
  BY Zenon DEF ZygiskdInv, TypeOK
<1>7. /\ client' \in [Clients -> Injected] /\ ~client'[x].waits
      /\ client'[x].read = client[x].read /\ client'[x].mods = client[x].mods
      /\ \A y \in Clients \ {x} : client'[y] = client[y]
  BY ONLY ZenonT(30), <1>5, <1>6, x \in Clients, c \in Companions DEF Injected
<1>8. \A y \in Clients : Calmer(client[y], client'[y])
  BY Zenon, <1>7 DEF Calmer
<1>9. QED
  BY Zenon, <1>1, <1>3, <1>7, <1>8, CompanionStep

\* The client has gone.
LEMMA AckFailsStep ==
  ASSUME ZygiskdInv, NEW c \in Companions, AckFails(c)
  PROVE  ZygiskdInv'
<1>1. comp[c].queue # <<>> /\ Running(c)
  BY Zenon DEF AckFails, Running
<1>2. CASE comp[c].zn
  <2>1. /\ UNCHANGED <<snaps, cur, held, lock, pending, client, handler, backlog, main, gen, world>>
        /\ comp' = [comp EXCEPT ![c].st = "poll", ![c].queue = Tail(comp[c].queue)]
    BY Zenon, <1>2 DEF AckFails
  <2>2. PICK n \in Processes : n.gen = comp[c].gen /\ comp' = [comp EXCEPT ![c] = n]
    BY Zenon, <1>1, <2>1, TailQueue
  <2>3. QED
    BY Zenon, <1>1, <2>1, <2>2, SameClients, CompanionStep
<1>3. CASE ~comp[c].zn
  BY Zenon, <1>1, <1>3, ExitStep DEF AckFails
<1>4. QED
  BY Zenon, <1>2, <1>3

\* Every step of the daemon, its clients and its companions keeps the invariant.
LEMMA ZygiskdNext == ZygiskdInv /\ [Next]_vars => ZygiskdInv'
<1> SUFFICES ASSUME ZygiskdInv, [Next]_vars
             PROVE  ZygiskdInv'
  OBVIOUS
<1>1. ASSUME NEW x \in Clients, HandlerStep(x)
      PROVE  ZygiskdInv'
  BY Zenon, <1>1, StartReplyStep, SendEntryStep, EndReplyStep, TakeSnapshotStep, LockSlotStep,
     SpawnStep, NoCompanionStep, SetUpStep, SendToCompanionStep, Zenon DEF HandlerStep
<1>2. ASSUME NEW c \in Companions, CompanionLoop(c)
      PROVE  ZygiskdInv'
  <2>1. CASE SocketClosed(c)
    BY Zenon, <2>1, ExitStep DEF SocketClosed, Running
  <2>2. QED
    BY <1>2, <2>1, PollStep, ServeStep, AckFailsStep, Zenon DEF CompanionLoop
<1>3. CASE MainStep
  BY Zenon, <1>3, AcceptThreadedStep, AcceptRestartStep, TakeCompanionStep, ClearZnStep,
     AcceptRefreshStep, RescanStep, Zenon DEF MainStep
<1>4. CASE UNCHANGED vars
  <2>1. /\ UNCHANGED <<snaps, cur, held, lock, comp, pending, handler, main, gen, world>>
        /\ UNCHANGED <<client, backlog>>
    BY Zenon, <1>4 DEF vars
  <2>2. TypeOK'
    BY Zenon, <2>1 DEF ZygiskdInv, TypeOK
  <2>3. RepliesInv'
    BY Zenon, <2>1, SameClients, CalmClients
  <2>4. QED
    BY ZenonT(30), <2>1, <2>2, <2>3, SameLocks, SameGen, Parts DEF ZygiskdInv
<1>5. QED
  BY Zenon, <1>1, <1>2, <1>3, <1>4, ClientStartsStep, ClientGoneStep, AsksStep, NoticeStep, LoadStep,
     Zenon DEF Next

\* The invariant holds in every behaviour.
LEMMA ZygiskdAlways == Spec => []ZygiskdInv
BY ZygiskdInit, ZygiskdNext, PTL DEF Spec

\* "One snapshot for the whole reply, so the count written first always matches the number
\* of entries that follow even if a refresh lands mid-reply" (zygiskd.rs:646): whatever the
\* refreshes, restarts and deaths in between, a list a process has read is one the daemon
\* published.
THEOREM RepliesWhole == Spec => []ReplyConsistent
<1>1. ZygiskdInv => ReplyConsistent
  BY ZenonT(30) DEF ZygiskdInv, TypeOK, ReplyInv, ReplyConsistent
<1>2. QED
  BY <1>1, ZygiskdAlways, PTL

\* "Drop the companions first and unconditionally" (zygiskd.rs:218): once the accept loop is
\* back from a zygote restart, no slot in use holds a running companion from before it,
\* whatever handlers were setting up meanwhile and whether or not the rescan succeeded.
THEOREM RestartsDrop == Spec => []RestartDrops
<1>1. ZygiskdInv => RestartDrops
  BY Zenon DEF ZygiskdInv, SlotInv, Swept, Current, RestartDrops
<1>2. QED
  BY <1>1, ZygiskdAlways, PTL
==============================================================================
