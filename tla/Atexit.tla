------------------------------- MODULE Atexit -------------------------------
(***************************************************************************)
(* libc's array of exit handlers, and the scrub (scrubFingerprint) that    *)
(* removes from it the traces of modules that were unloaded.               *)
(*                                                                         *)
(* The array is bionic's: what __cxa_atexit and __cxa_finalize do with it  *)
(* is modelled from how atexit.cpp uses it.  An entry is a handler of a    *)
(* library, or the hole a handler that ran leaves.  The loading thread     *)
(* runs the scrub; one other thread registers handlers, or closes a        *)
(* library of the app whose handlers may register others as they run.      *)
(***************************************************************************)
EXTENDS Integers, Sequences, FiniteSets, SequencesExt

CONSTANTS PerPage,       \* entries on a page of the array
          LockAttempts,  \* kLockAttempts
          MaxAppends     \* bound on the handlers the other thread registers

ASSUME AtexitAssumption == PerPage \in Nat \ {0} /\ LockAttempts \in Nat /\ MaxAppends \in Nat

VARIABLES
  g_array,        \* entries up to size_, extracted_count_, total_appends_, and whether the
                  \* pages are writable
  g_atexit_lock,  \* its holder
  user,           \* the other thread: its step, where it registers from, the position and the
                  \* appends of its pass, the handlers it registered, and (history) whether it
                  \* stored to pages that were not writable, the appends were rewound during
                  \* its pass, and the pass left a handler behind
  libc,           \* the scrub: its step, its attempts, its status
  handlers        \* history: the handlers registered and not run, in order

atexitVars == <<g_array, g_atexit_lock, user, libc, handlers>>

Free == "free"
Main == "main"
User == "user"
Orphan == "orphan"   \* a thread this process did not inherit
App == 0           \* the library the other thread closes; modules are numbered from 1
Hole == [dso |-> -1, n |-> 0]
Size(a) == Len(a.array)
Holes(a) == {i \in DOMAIN a.array : a.array[i] = Hole}
Live(a) == SelectSeq(a.array, LAMBDA e : e # Hole)

AtexitInit(orphan) ==
  /\ handlers = <<[dso |-> App, n |-> 1], [dso |-> App, n |-> 2]>>
  /\ g_array = [array |-> handlers, extracted |-> 0, appends |-> 2, writable |-> FALSE]
  /\ g_atexit_lock = IF orphan THEN Orphan ELSE Free
  /\ user = [pc |-> "idle", from |-> "idle", i |-> 0, total |-> 0, made |-> 0, bad |-> FALSE,
             rewound |-> FALSE, left |-> FALSE]
  /\ libc = [pc |-> "off", attempt |-> 0, status |-> "none"]

-----------------------------------------------------------------------------
(* bionic: AtexitArray and __cxa_finalize. *)

Appended(a, e) == [a EXCEPT !.array = Append(@, e), !.appends = @ + 1]
Extracted(a, i) == [a EXCEPT !.array[i] = Hole, !.extracted = @ + 1]
PagesOf(n) == (n + PerPage - 1) \div PerPage
Compacted(a) == [a EXCEPT !.array = Live(a), !.extracted = 0]
RecompactedByLibc(a) ==
  IF PagesOf(Size(a) - a.extracted) < PagesOf(Size(a)) THEN Compacted(a) ELSE a

\* A handler of the library that is being closed runs.
InPass == "call" \in {user.pc, user.from}

\* __cxa_finalize of a library whose handlers register none; only the last pass under way
\* compacts the array.
Finalized(a, dso) ==
  LET mine == {i \in DOMAIN a.array : a.array[i].dso = dso}
      ran == [a EXCEPT !.array = [i \in DOMAIN @ |-> IF i \in mine THEN Hole ELSE @[i]],
                       !.extracted = @ + Cardinality(mine)]
  IN IF InPass THEN ran ELSE RecompactedByLibc(ran)

Without(dso) == SelectSeq(handlers, LAMBDA e : e.dso # dso)

\* The loading thread registers a handler of a module, and runs those of one it unloads.
Registers(dso) ==
  /\ g_atexit_lock = Free
  /\ g_array' = Appended(g_array, [dso |-> dso, n |-> 1])
  /\ handlers' = Append(handlers, [dso |-> dso, n |-> 1])
  /\ UNCHANGED <<g_atexit_lock, user, libc>>

Finalizes(dso) ==
  /\ g_atexit_lock = Free
  /\ g_array' = Finalized(g_array, dso)
  /\ handlers' = Without(dso)
  /\ UNCHANGED <<g_atexit_lock, user, libc>>

\* The other thread: __cxa_atexit opens the pages, stores, and closes them.
UserLocks(at) ==
  /\ user.pc = at /\ user.made < MaxAppends /\ g_atexit_lock = Free
  /\ g_atexit_lock' = User /\ g_array' = [g_array EXCEPT !.writable = TRUE]
  /\ user' = [user EXCEPT !.pc = "store", !.from = at] /\ UNCHANGED <<libc, handlers>>

UserStores ==
  /\ user.pc = "store"
  /\ LET e == [dso |-> App, n |-> user.made + 3]
     IN g_array' = Appended(g_array, e) /\ handlers' = Append(handlers, e)
  /\ user' = [user EXCEPT !.pc = "close", !.made = @ + 1, !.bad = @ \/ ~g_array.writable]
  /\ UNCHANGED <<g_atexit_lock, libc>>

UserCloses ==
  /\ user.pc = "close"
  /\ g_array' = [g_array EXCEPT !.writable = FALSE] /\ g_atexit_lock' = Free
  /\ user' = [user EXCEPT !.pc = user.from, !.from = "idle"] /\ UNCHANGED <<libc, handlers>>

\* __cxa_finalize(App): from the end to the beginning, the lock released around each handler;
\* if handlers were appended meanwhile the pass starts again.
PassBegins ==
  /\ user.pc = "idle" /\ g_atexit_lock = Free
  /\ g_atexit_lock' = User
  /\ user' = [user EXCEPT !.pc = "pass", !.i = Size(g_array), !.total = g_array.appends]
  /\ UNCHANGED <<g_array, libc, handlers>>

Matches(i) == i <= user.i /\ g_array.array[i].dso = App

PassRuns ==
  /\ user.pc = "pass"
  /\ \E i \in DOMAIN g_array.array :
       /\ Matches(i) /\ \A j \in DOMAIN g_array.array : Matches(j) => j <= i
       /\ g_array' = Extracted(g_array, i)
       /\ handlers' = SelectSeq(handlers, LAMBDA e : e # g_array.array[i])
       /\ user' = [user EXCEPT !.pc = "call", !.i = i - 1]
  /\ g_atexit_lock' = Free
  /\ UNCHANGED libc

PassRelocks ==
  /\ user.pc = "call" /\ g_atexit_lock = Free
  /\ g_atexit_lock' = User
  /\ user' = IF g_array.appends = user.total THEN [user EXCEPT !.pc = "pass"]
             ELSE [user EXCEPT !.pc = "pass", !.i = Size(g_array), !.total = g_array.appends]
  /\ UNCHANGED <<g_array, libc, handlers>>

PassEnds ==
  /\ user.pc = "pass" /\ ~\E i \in DOMAIN g_array.array : Matches(i)
  /\ g_array' = RecompactedByLibc(g_array)
  /\ g_atexit_lock' = Free
  /\ user' = [user EXCEPT !.pc = "closed", !.i = 0, !.total = 0,
                          !.left = \E e \in Range(Live(g_array)) : e.dso = App]
  /\ UNCHANGED <<libc, handlers>>

-----------------------------------------------------------------------------
(* scrubFingerprint. *)

has_fingerprint(a) == a.extracted > 0 \/ a.appends > Size(a)
LibcGoes(pc) == libc' = [libc EXCEPT !.pc = pc]
Ends(status) == libc' = [pc |-> "done", attempt |-> 0, status |-> status]

\* findArray and findLock: libc's symbols may be missing.
FindSymbols(missing) ==
  /\ libc.pc = "find"
  /\ LibcGoes("lock") \/ (missing /\ \E status \in {"kNoArray", "kNoLock"} : Ends(status))
  /\ UNCHANGED <<g_array, g_atexit_lock, user, handlers>>

\* Mutant: the array is changed without the lock.
TryLockNever ==
  /\ libc.pc = "lock" /\ LibcGoes("recompact")
  /\ UNCHANGED <<g_array, g_atexit_lock, user, handlers>>

\* The lock is tried a few times and never waited for.
TryLock ==
  /\ libc.pc = "lock"
  /\ \/ g_atexit_lock = Free /\ g_atexit_lock' = Main /\ LibcGoes("recompact")
     \/ /\ g_atexit_lock # Free /\ UNCHANGED g_atexit_lock
        /\ IF libc.attempt + 1 < LockAttempts THEN libc' = [libc EXCEPT !.attempt = @ + 1]
           ELSE Ends("kLockBusy")
  /\ UNCHANGED <<g_array, user, handlers>>

Unlocks(status) == g_atexit_lock' = Free /\ Ends(status)
Rewinds(n) == user' = [user EXCEPT !.rewound = @ \/ (InPass /\ g_array.appends # n)]

\* recompact up to the first store: pages are opened only when there are holes.
Recompact(fails) ==
  /\ libc.pc = "recompact"
  /\ \/ /\ ~has_fingerprint(g_array) /\ Unlocks("kNothingToScrub") /\ UNCHANGED <<g_array, user>>
     \/ /\ has_fingerprint(g_array) /\ g_array.extracted = 0
        /\ Unlocks("kDone") /\ g_array' = [g_array EXCEPT !.appends = Size(g_array)]
        /\ Rewinds(Size(g_array))
     \/ /\ g_array.extracted > 0 /\ fails /\ Unlocks("kNotWritable") /\ UNCHANGED <<g_array, user>>
     \/ /\ g_array.extracted > 0 /\ LibcGoes("shift") /\ UNCHANGED g_atexit_lock
        /\ g_array' = [g_array EXCEPT !.writable = TRUE] /\ UNCHANGED user
  /\ UNCHANGED handlers

\* The entries move forward over the holes, the places they leave are cleared.
Shift ==
  /\ libc.pc = "shift" /\ LibcGoes("seal")
  /\ g_array' = [g_array EXCEPT !.array =
                   Live(g_array) \o [i \in 1 .. Cardinality(Holes(g_array)) |-> Hole]]
  /\ UNCHANGED <<g_atexit_lock, user, handlers>>

\* The pages are closed, the counters rewound.
Seal(fails) ==
  /\ libc.pc = "seal"
  /\ LET done == [Compacted(g_array) EXCEPT !.appends = Len(Live(g_array))]
     IN \/ g_array' = [done EXCEPT !.writable = FALSE] /\ Unlocks("kDone")
        \/ fails /\ g_array' = done /\ Unlocks("kLeftWritable")
  /\ Rewinds(Len(Live(g_array)))
  /\ UNCHANGED handlers

scrubFingerprint(missing, fails) ==
  FindSymbols(missing) \/ TryLock \/ Recompact(fails) \/ Shift \/ Seal(fails)
UserAppends(at) == UserLocks(at) \/ UserStores \/ UserCloses
UserFinalizes == PassBegins \/ PassRuns \/ PassRelocks \/ PassEnds

-----------------------------------------------------------------------------
AtexitTypeOK ==
  /\ g_array.extracted \in Nat /\ g_array.appends \in Nat /\ g_array.writable \in BOOLEAN
  /\ g_atexit_lock \in {Free, Main, User, Orphan}
  /\ user.pc \in {"idle", "store", "close", "pass", "call", "closed"}
  /\ libc.pc \in {"off", "find", "lock", "recompact", "shift", "seal", "done"}

\* atexit.hpp:109, "The caller must hold libc's atexit lock": whatever other threads register
\* or finalize meanwhile, whenever the lock is free the handlers in the array are those
\* registered and not run, in their order, the counts agree with it and the pages are
\* read-only, unless they could not be protected again; and no store of another thread
\* faulted.  A pass of __cxa_finalize leaves no handler of its library behind, except in
\* the one case atexit.hpp:125 keeps the count of appends for: a handler registers another
\* as it runs, and atexit.cpp:137 rewinds that count before the pass compares it.
AtexitIntact ==
  /\ ~user.bad
  /\ user.left => user.rewound /\ user.made > 0
  /\ g_atexit_lock = Free =>
       /\ Live(g_array) = handlers
       /\ g_array.extracted = Cardinality(Holes(g_array)) /\ g_array.appends >= Size(g_array)
       /\ g_array.writable => libc.status = "kLeftWritable"
=============================================================================
