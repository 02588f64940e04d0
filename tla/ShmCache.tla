------------------------------- MODULE ShmCache ------------------------------
(***************************************************************************)
(* The shared-memory cache of process flags.  zygiskd owns a memfd with a  *)
(* version word and an open-addressing table of (uid, flags) slots.  Its   *)
(* handler threads fill the table (cache_process_flags) and its config     *)
(* watcher empties it (invalidate_process_flag_cache), serialised by       *)
(* write_lock; app processes map the memfd read-only and look their uid up *)
(* without a lock (zygiskd::GetProcessFlags), validating what they read    *)
(* against the version word.                                               *)
(*                                                                         *)
(* One step is one access to shared memory.  Steps interleave in program   *)
(* order: the release and acquire fences of the two sides rule out every   *)
(* other order a reader that validates could observe.                      *)
(***************************************************************************)
EXTENDS Integers

CONSTANTS Uids,          \* the uids that get cached or looked up
          EmptyUid,      \* u32::MAX, the uid of a free slot
          Flags,         \* the flag words the daemon computes
          NoFlags,       \* history value: "not cached"
          Size,          \* SHM_HASH_MAP_SIZE
          VersionMod,    \* 2^32: the version word wraps
          Readers,       \* app processes
          MaxOvertakes   \* bound: write sections begun during one lookup

ASSUME UidsAssumption == Uids \subseteq Nat /\ EmptyUid \in Nat \ Uids
ASSUME FlagsAssumption == Flags \subseteq Nat /\ NoFlags \in Nat \ (Flags \cup {0})
ASSUME SizeAssumption == Size \in Nat \ {0}
ASSUME VersionAssumption ==
  /\ VersionMod \in Nat /\ VersionMod % 2 = 0
  /\ MaxOvertakes \in Nat /\ 2 * MaxOvertakes + 2 < VersionMod

VARIABLES
  version,      \* ShmLayout.version
  entry_uid,    \* slot -> ShmEntry.uid
  entry_flags,  \* slot -> ShmEntry.flags
  wpc,          \* where the holder of write_lock is; "idle" when it is free
  wuid, wflags, \* arguments of the cache_process_flags in progress
  widx,         \* its index, or the slot the flush has reached
  rpc,          \* reader -> where its GetProcessFlags is
  ruid,         \* reader -> uid it looks up
  ridx,         \* reader -> index
  rversion,     \* reader -> version_before
  rflags,       \* reader -> cached_flags
  answer,       \* reader -> flags of the last lookup, NoFlags: asked the daemon
  drift,        \* history: version stores since the reader loaded version_before
  published     \* history: uid -> flags as of the last completed write section

shared == <<version, entry_uid, entry_flags>>
writer == <<wpc, wuid, wflags, widx>>
reader == <<rpc, ruid, ridx, rversion, rflags, answer>>
vars == <<version, entry_uid, entry_flags, wpc, wuid, wflags, widx,
          rpc, ruid, ridx, rversion, rflags, answer, drift, published>>

Slots == 0 .. Size - 1

\* (uid as usize) & mask, and (index + 1) & mask: Size is a power of two.
Home(u) == u % Size
\* Mutant: saturation instead of wrapping.
NextSlotClamped(i) == IF i + 1 = Size THEN i ELSE i + 1
NextSlot(i) == IF i + 1 = Size THEN 0 ELSE i + 1

wrapping_add(v, n) == IF v + n < VersionMod THEN v + n ELSE v + n - VersionMod

Init ==
  /\ version = 0
  /\ entry_uid = [i \in Slots |-> EmptyUid]
  /\ entry_flags = [i \in Slots |-> 0]
  /\ wpc = "idle" /\ wuid = EmptyUid /\ wflags = 0 /\ widx = 0
  /\ rpc = [r \in Readers |-> "idle"]
  /\ ruid = [r \in Readers |-> EmptyUid]
  /\ ridx = [r \in Readers |-> 0]
  /\ rversion = [r \in Readers |-> 0]
  /\ rflags = [r \in Readers |-> 0]
  /\ answer = [r \in Readers |-> NoFlags]
  /\ drift = [r \in Readers |-> 0]
  /\ published = [u \in Uids |-> NoFlags]

------------------------------------------------------------------------------
(* The daemon's writers, under write_lock.                                  *)

\* A store to the version word; every lookup in progress drifts by one.
StoreVersion(v) ==
  /\ version' = v
  /\ drift' = [r \in Readers |-> IF rpc[r] = "idle" THEN 0 ELSE drift[r] + 1]

\* Takes write_lock and publishes the odd version.
BeginSection ==
  /\ wpc = "idle"
  /\ \A r \in Readers : rpc[r] # "idle" => drift[r] < 2 * MaxOvertakes
  /\ StoreVersion(wrapping_add(version, 1))

BeginCacheAt(u, f, start) ==
  /\ BeginSection
  /\ wpc' = "probe" /\ wuid' = u /\ wflags' = f /\ widx' = start
  /\ UNCHANGED <<entry_uid, entry_flags, reader, published>>

\* Mutant: the writer starts at slot 0 instead of the slot the uid hashes to.
BeginCacheAtZero(u, f) == BeginCacheAt(u, f, 0)

BeginCache(u, f) == BeginCacheAt(u, f, Home(u))

\* One round of the probing loop: claim a free or own slot, or go on; a probe
\* that is back where it started finds the table full.
ProbeFor(claimable) ==
  /\ wpc = "probe"
  /\ \/ /\ entry_uid[widx] \in claimable
        /\ entry_uid' = [entry_uid EXCEPT ![widx] = wuid]
        /\ wpc' = "flags"
        /\ UNCHANGED widx
     \/ /\ entry_uid[widx] \notin claimable
        /\ widx' = NextSlot(widx)
        /\ wpc' = IF widx' = Home(wuid) THEN "full" ELSE "probe"
        /\ UNCHANGED entry_uid
  /\ UNCHANGED <<version, entry_flags, wuid, wflags, reader, drift, published>>

\* Mutant: a slot that already holds the uid is passed over.
ProbeFreeOnly == ProbeFor({EmptyUid})

Probe == ProbeFor({EmptyUid, wuid})

StoreFlags ==
  /\ wpc = "flags"
  /\ entry_flags' = [entry_flags EXCEPT ![widx] = wflags]
  /\ wpc' = "stored"
  /\ UNCHANGED <<version, entry_uid, wuid, wflags, widx, reader, drift, published>>

BeginInvalidate ==
  /\ BeginSection
  /\ wpc' = "clear_uid" /\ widx' = 0
  /\ UNCHANGED <<entry_uid, entry_flags, wuid, wflags, reader, published>>

ClearUid ==
  /\ wpc = "clear_uid"
  /\ entry_uid' = [entry_uid EXCEPT ![widx] = EmptyUid]
  /\ wpc' = "clear_flags"
  /\ UNCHANGED <<version, entry_flags, wuid, wflags, widx, reader, drift, published>>

ClearFlags ==
  /\ wpc = "clear_flags"
  /\ entry_flags' = [entry_flags EXCEPT ![widx] = 0]
  /\ widx' = NextSlot(widx)
  /\ wpc' = IF widx' = 0 THEN "cleared" ELSE "clear_uid"
  /\ UNCHANGED <<version, entry_uid, wuid, wflags, reader, drift, published>>

\* Publishes the even version and drops write_lock.
EndSection ==
  /\ StoreVersion(wrapping_add(version, 1))
  /\ wpc' = "idle" /\ wuid' = EmptyUid /\ wflags' = 0 /\ widx' = 0
  /\ \/ wpc = "stored" /\ published' = [published EXCEPT ![wuid] = wflags]
     \/ wpc = "full" /\ published' = published
     \/ wpc = "cleared" /\ published' = [u \in Uids |-> NoFlags]
  /\ UNCHANGED <<entry_uid, entry_flags, reader>>

------------------------------------------------------------------------------
(* GetProcessFlags in an app process.                                       *)

\* Loads version_before; an odd one sends the lookup to the daemon at once.
LoadVersion(r, u, usable) ==
  /\ rpc[r] = "idle"
  /\ ruid' = [ruid EXCEPT ![r] = u]
  /\ rversion' = [rversion EXCEPT ![r] = version]
  /\ ridx' = [ridx EXCEPT ![r] = Home(u)]
  /\ drift' = [drift EXCEPT ![r] = 0]
  /\ rpc' = [rpc EXCEPT ![r] = IF usable THEN "probe" ELSE "ask"]
  /\ UNCHANGED <<shared, writer, rflags, answer, published>>

\* Mutant: the parity of version_before is not looked at.
ReadVersionAnyParity(r, u) == LoadVersion(r, u, TRUE)

ReadVersion(r, u) == LoadVersion(r, u, version % 2 = 0)

ReadUid(r) ==
  /\ rpc[r] = "probe"
  /\ LET next == NextSlot(ridx[r]) IN
     \/ /\ entry_uid[ridx[r]] = ruid[r]
        /\ rpc' = [rpc EXCEPT ![r] = "flags"]
        /\ UNCHANGED ridx
     \/ /\ entry_uid[ridx[r]] = EmptyUid
        /\ rpc' = [rpc EXCEPT ![r] = "ask"]
        /\ UNCHANGED ridx
     \/ /\ entry_uid[ridx[r]] \notin {EmptyUid, ruid[r]}
        /\ ridx' = [ridx EXCEPT ![r] = next]
        /\ rpc' = [rpc EXCEPT ![r] = IF next = Home(ruid[r]) THEN "ask" ELSE "probe"]
  /\ UNCHANGED <<shared, writer, ruid, rversion, rflags, answer, drift, published>>

ReadFlags(r) ==
  /\ rpc[r] = "flags"
  /\ rflags' = [rflags EXCEPT ![r] = entry_flags[ridx[r]]]
  /\ rpc' = [rpc EXCEPT ![r] = "validate"]
  /\ UNCHANGED <<shared, writer, ruid, ridx, rversion, answer, drift, published>>

\* The lookup is over and its locals are gone.
Return(r, a) ==
  /\ answer' = [answer EXCEPT ![r] = a]
  /\ rpc' = [rpc EXCEPT ![r] = "idle"]
  /\ ruid' = [ruid EXCEPT ![r] = EmptyUid]
  /\ ridx' = [ridx EXCEPT ![r] = 0]
  /\ rversion' = [rversion EXCEPT ![r] = 0]
  /\ rflags' = [rflags EXCEPT ![r] = 0]
  /\ drift' = [drift EXCEPT ![r] = 0]
  /\ UNCHANGED <<shared, writer, published>>

\* Mutant: version_after is not compared.
ValidateUnchecked(r) == rpc[r] = "validate" /\ Return(r, rflags[r])

\* Loads version_after and returns the cached flags if it is version_before.
Validate(r) ==
  /\ rpc[r] = "validate"
  /\ \/ /\ version = rversion[r]
        /\ Return(r, rflags[r])
     \/ /\ version # rversion[r]
        /\ rpc' = [rpc EXCEPT ![r] = "ask"]
        /\ UNCHANGED <<shared, writer, ruid, ridx, rversion, rflags, answer,
                       drift, published>>

\* No usable entry: the lookup goes to the daemon over the socket.
AskDaemon(r) == rpc[r] = "ask" /\ Return(r, NoFlags)

Write == \/ \E u \in Uids, f \in Flags : BeginCache(u, f)
         \/ Probe
         \/ StoreFlags
         \/ BeginInvalidate
         \/ ClearUid
         \/ ClearFlags
         \/ EndSection

Read(r) == \/ \E u \in Uids : ReadVersion(r, u)
           \/ ReadUid(r)
           \/ ReadFlags(r)
           \/ Validate(r)
           \/ AskDaemon(r)

Next == Write \/ \E r \in Readers : Read(r)

\* A section that holds write_lock runs to its end, and a lookup runs on: both
\* are straight-line code with bounded loops.
Fairness ==
  /\ WF_vars(Probe \/ StoreFlags \/ ClearUid \/ ClearFlags \/ EndSection)
  /\ \A r \in Readers : WF_vars(ReadUid(r) \/ ReadFlags(r) \/ Validate(r) \/ AskDaemon(r))

Spec == Init /\ [][Next]_vars
FairSpec == Spec /\ Fairness

------------------------------------------------------------------------------
(* Properties.                                                              *)

TypeOK ==
  /\ version \in 0 .. VersionMod - 1
  /\ entry_uid \in [Slots -> Uids \cup {EmptyUid}]
  /\ entry_flags \in [Slots -> Flags \cup {0}]
  /\ wpc \in {"idle", "probe", "flags", "stored", "full",
              "clear_uid", "clear_flags", "cleared"}
  /\ wuid \in Uids \cup {EmptyUid}
  /\ wflags \in Flags \cup {0}
  /\ widx \in Slots
  /\ rpc \in [Readers -> {"idle", "probe", "flags", "validate", "ask"}]
  /\ ruid \in [Readers -> Uids \cup {EmptyUid}]
  /\ ridx \in [Readers -> Slots]
  /\ rversion \in [Readers -> 0 .. VersionMod - 1]
  /\ rflags \in [Readers -> Flags \cup {0}]
  /\ answer \in [Readers -> Flags \cup {0, NoFlags}]
  /\ drift \in [Readers -> 0 .. 2 * MaxOvertakes + 1]
  /\ published \in [Uids -> Flags \cup {NoFlags}]

\* A lookup that validates returns what the last completed write section left
\* for that uid: no mixture of two sections, no flags of another uid whose slot
\* was reused, nothing a flush removed (GetProcessFlags against
\* cache_process_flags and invalidate_process_flag_cache).
HitIsPublished ==
  \A r \in Readers :
    rpc[r] = "validate" /\ version = rversion[r] => rflags[r] = published[ruid[r]]

\* A lookup that no writer overtook gives up on the table only when the uid is
\* not in it: the probe of GetProcessFlags never stops short of an entry that
\* cache_process_flags placed.
MissIsReal ==
  \A r \in Readers :
    rpc[r] = "ask" /\ rversion[r] % 2 = 0 /\ drift[r] = 0
      => published[ruid[r]] = NoFlags

\* A uid occupies at most one slot outside a flush, so a later answer for it
\* replaces the earlier one instead of hiding behind it (the probe loop of
\* cache_process_flags).
OneSlotPerUid ==
  wpc \notin {"clear_uid", "clear_flags"} =>
    \A i, j \in Slots :
      entry_uid[i] = entry_uid[j] /\ entry_uid[i] # EmptyUid => i = j

\* A lookup never waits for a writer: it returns although sections keep starting
\* (GetProcessFlags has no retry loop).
LookupReturns == \A r \in Readers : rpc[r] # "idle" ~> rpc[r] = "idle"

\* The inductive strengthening.  How far slot i is from the home slot h:
Displacement(h, i) == IF i >= h THEN i - h ELSE i - h + Size

\* Every slot a probe for u visits before slot k is taken by another uid.
ProbedUpTo(u, k) ==
  \A j \in Slots : Displacement(Home(u), j) < Displacement(Home(u), k)
                     => entry_uid[j] \notin {EmptyUid, u}

\* The table holds for u what the last completed section left for it.
Agrees(u) ==
  /\ \A i \in Slots : entry_uid[i] = u => published[u] = entry_flags[i]
  /\ (\A i \in Slots : entry_uid[i] # u) => published[u] = NoFlags

LockInv == (wpc = "idle") <=> (version % 2 = 0)

ChainInv ==
  wpc \notin {"clear_uid", "clear_flags"} =>
    \A i \in Slots : entry_uid[i] # EmptyUid => ProbedUpTo(entry_uid[i], i)

WriterInv ==
  /\ wpc \in {"probe", "flags", "stored", "full"} => wuid \in Uids /\ wflags \in Flags
  /\ wpc = "probe" => ProbedUpTo(wuid, widx)
  /\ wpc \in {"flags", "stored"} => entry_uid[widx] = wuid
  /\ wpc = "stored" => entry_flags[widx] = wflags
  /\ wpc = "clear_uid" => \A j \in Slots : j < widx => entry_uid[j] = EmptyUid
  /\ wpc = "clear_flags" => \A j \in Slots : j <= widx => entry_uid[j] = EmptyUid
  /\ wpc = "cleared" => \A j \in Slots : entry_uid[j] = EmptyUid

PublishedInv ==
  /\ wpc \in {"idle", "probe", "full"} => \A u \in Uids : Agrees(u)
  /\ wpc \in {"flags", "stored"} => \A u \in Uids \ {wuid} : Agrees(u)

DriftInv ==
  \A r \in Readers : rpc[r] # "idle" =>
    /\ version = wrapping_add(rversion[r], drift[r])
    /\ wpc # "idle" => drift[r] <= 2 * MaxOvertakes

ReaderInv ==
  \A r \in Readers :
    /\ rpc[r] # "idle" => ruid[r] \in Uids
    /\ rpc[r] \in {"probe", "flags", "validate"} => rversion[r] % 2 = 0
    /\ drift[r] = 0 =>
         /\ rpc[r] = "probe" => ProbedUpTo(ruid[r], ridx[r])
         /\ rpc[r] \in {"flags", "validate"} => entry_uid[ridx[r]] = ruid[r]
         /\ rpc[r] = "validate" => rflags[r] = entry_flags[ridx[r]]

\* What every step of the cache preserves, with the table's probe chains, the
\* slots of a half-done section and the reads of a lookup nobody overtook
\* (cache_process_flags, invalidate_process_flag_cache, GetProcessFlags).
IndInv == /\ TypeOK /\ LockInv /\ ChainInv /\ WriterInv
          /\ PublishedInv /\ DriftInv /\ ReaderInv /\ MissIsReal

\* The seqlock and the probing implement the atomic map of FlagMap: a completed
\* section is one Put or Flush, a validated lookup one Lookup (cache_process_flags,
\* invalidate_process_flag_cache, GetProcessFlags).
Map == INSTANCE FlagMap WITH map <- published
ImplementsFlagMap == Map!Spec
=============================================================================
