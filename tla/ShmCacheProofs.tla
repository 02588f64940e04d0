--------------------------- MODULE ShmCacheProofs ----------------------------
(***************************************************************************)
(* Proofs about ShmCache for every table size, every set of uids, flags    *)
(* and readers, and every even modulus of the version word larger than the *)
(* number of version stores that may overtake one lookup.                  *)
(***************************************************************************)
EXTENDS ShmCache, TLAPS

USE UidsAssumption, FlagsAssumption, SizeAssumption, VersionAssumption

------------------------------------------------------------------------------
(* Arithmetic of slots and versions.                                        *)

\* The slot a uid hashes to is a slot of the table.
LEMMA HomeSlot == \A u \in Nat : Home(u) \in Slots
  BY DEF Home, Slots

\* The slot after a slot is a slot of the table.
LEMMA NextSlotIsSlot == \A i \in Slots : NextSlot(i) \in Slots
  BY DEF NextSlot, Slots

\* Displacements count the slots of the table from the home slot on, each once.
LEMMA DisplacementFacts ==
  ASSUME NEW h \in Slots, NEW i \in Slots, NEW j \in Slots
  PROVE  /\ Displacement(h, i) \in Nat /\ Displacement(h, i) < Size
         /\ Displacement(h, h) = 0
         /\ Displacement(h, i) = Displacement(h, j) => i = j
  BY DEF Displacement, Slots

\* One round of a probe moves one further from the home slot, and a probe that
\* returns to its home slot has seen every slot.
LEMMA DisplacementNext ==
  ASSUME NEW h \in Slots, NEW i \in Slots
  PROVE  /\ NextSlot(i) # h => Displacement(h, NextSlot(i)) = Displacement(h, i) + 1
         /\ NextSlot(i) = h => Displacement(h, i) = Size - 1
  BY DEF Displacement, Slots, NextSlot

\* A version store keeps the word in range and flips its parity.
LEMMA VersionStep ==
  ASSUME NEW v \in 0 .. VersionMod - 1
  PROVE  /\ wrapping_add(v, 1) \in 0 .. VersionMod - 1
         /\ (wrapping_add(v, 1) % 2 = 0) <=> (v % 2 # 0)
  BY DEF wrapping_add

\* A word that is one store further from version_before has drifted one more.
LEMMA DriftStep ==
  ASSUME NEW v \in 0 .. VersionMod - 1, NEW d \in 0 .. 2 * MaxOvertakes
  PROVE  wrapping_add(wrapping_add(v, d), 1) = wrapping_add(v, d + 1)
  BY DEF wrapping_add

\* The version word cannot be back at version_before after a bounded drift.
LEMMA NoWrapAround ==
  ASSUME NEW v \in 0 .. VersionMod - 1, NEW d \in 0 .. 2 * MaxOvertakes + 1
  PROVE  wrapping_add(v, d) = v => d = 0
  BY DEF wrapping_add

------------------------------------------------------------------------------
(* Type correctness.                                                        *)

\* Every step keeps the variables in their types; the bound on drift needs that
\* a section in progress has already spent one of the stores it may add.
LEMMA TypeStep == TypeOK /\ DriftInv /\ WriterInv /\ [Next]_vars => TypeOK'
<1> SUFFICES ASSUME TypeOK, DriftInv, WriterInv, [Next]_vars PROVE TypeOK'
  OBVIOUS
<1> USE HomeSlot, NextSlotIsSlot
<1>1. ASSUME NEW u \in Uids, NEW f \in Flags, BeginCache(u, f) PROVE TypeOK'
  <2>1. version' \in 0 .. VersionMod - 1
    BY <1>1, VersionStep DEF BeginCache, BeginCacheAt, BeginSection, StoreVersion, TypeOK
  <2>2. drift' \in [Readers -> 0 .. 2 * MaxOvertakes + 1]
    BY <1>1 DEF BeginCache, BeginCacheAt, BeginSection, StoreVersion, TypeOK
  <2>3. QED
    BY <1>1, <2>1, <2>2 DEF BeginCache, BeginCacheAt, TypeOK, reader
<1>2. CASE Probe
  BY <1>2 DEF Probe, ProbeFor, TypeOK, reader
<1>3. CASE StoreFlags
  BY <1>3 DEF StoreFlags, TypeOK, reader
<1>4. CASE BeginInvalidate
  <2>1. version' \in 0 .. VersionMod - 1
    BY <1>4, VersionStep DEF BeginInvalidate, BeginSection, StoreVersion, TypeOK
  <2>2. drift' \in [Readers -> 0 .. 2 * MaxOvertakes + 1]
    BY <1>4 DEF BeginInvalidate, BeginSection, StoreVersion, TypeOK
  <2>3. 0 \in Slots
    BY DEF Slots
  <2>4. QED
    BY <1>4, <2>1, <2>2, <2>3 DEF BeginInvalidate, TypeOK, reader
<1>5. CASE ClearUid
  BY <1>5 DEF ClearUid, TypeOK, reader
<1>6. CASE ClearFlags
  BY <1>6 DEF ClearFlags, TypeOK, reader
<1>7. CASE EndSection
  <2>1. version' \in 0 .. VersionMod - 1
    BY <1>7, VersionStep DEF EndSection, StoreVersion, TypeOK
  <2>2. drift' \in [Readers -> 0 .. 2 * MaxOvertakes + 1]
    BY <1>7 DEF EndSection, StoreVersion, TypeOK, DriftInv
  <2>3. 0 \in Slots
    BY DEF Slots
  <2>4. published' \in [Uids -> Flags \cup {NoFlags}]
    BY <1>7 DEF EndSection, TypeOK, WriterInv
  <2>5. QED
    BY <1>7, <2>1, <2>2, <2>3, <2>4 DEF EndSection, TypeOK, reader
<1>8. ASSUME NEW r \in Readers, NEW u \in Uids, ReadVersion(r, u) PROVE TypeOK'
  BY <1>8 DEF ReadVersion, LoadVersion, TypeOK, shared, writer
<1>9. ASSUME NEW r \in Readers, ReadUid(r) PROVE TypeOK'
  BY <1>9 DEF ReadUid, TypeOK, shared, writer
<1>10. ASSUME NEW r \in Readers, ReadFlags(r) PROVE TypeOK'
  BY <1>10 DEF ReadFlags, TypeOK, shared, writer
<1>11. ASSUME NEW r \in Readers, NEW a \in Flags \cup {0, NoFlags}, Return(r, a)
       PROVE  TypeOK'
  <2>1. 0 \in Slots
    BY DEF Slots
  <2>2. QED
    BY <1>11, <2>1 DEF Return, TypeOK, shared, writer
<1>12. ASSUME NEW r \in Readers, Validate(r) PROVE TypeOK'
  <2>1. CASE Return(r, rflags[r])
    BY <1>11, <2>1 DEF TypeOK
  <2>2. CASE version # rversion[r]
    BY <1>12, <2>2 DEF Validate, TypeOK, shared, writer
  <2>3. QED
    BY <1>12, <2>1, <2>2 DEF Validate
<1>13. ASSUME NEW r \in Readers, AskDaemon(r) PROVE TypeOK'
  BY <1>11, <1>13 DEF AskDaemon
<1>14. CASE UNCHANGED vars
  BY <1>14 DEF vars, TypeOK
<1>15. QED
  BY <1>1, <1>2, <1>3, <1>4, <1>5, <1>6, <1>7, <1>8, <1>9, <1>10, <1>12, <1>13, <1>14
  DEF Next, Write, Read

------------------------------------------------------------------------------
(* The inductive invariant: one lemma per group of actions.                 *)

\* The initial state satisfies the invariant.
LEMMA InitIndInv == Init => IndInv
<1> SUFFICES ASSUME Init PROVE IndInv
  OBVIOUS
<1> 0 \in Slots /\ 0 \in 0 .. VersionMod - 1 /\ 0 % 2 = 0
  BY DEF Slots
<1>1. TypeOK
  BY DEF Init, TypeOK
<1>2. LockInv /\ ChainInv /\ WriterInv /\ DriftInv /\ ReaderInv /\ MissIsReal
  BY DEF Init, LockInv, ChainInv, WriterInv, DriftInv, ReaderInv, MissIsReal
<1>3. PublishedInv
  BY DEF Init, PublishedInv, Agrees
<1>4. QED
  BY <1>1, <1>2, <1>3 DEF IndInv

\* A version store moves every lookup in progress away from version_before.
LEMMA StoreDrift ==
  ASSUME IndInv, StoreVersion(wrapping_add(version, 1)), UNCHANGED rpc, UNCHANGED rversion,
         \A r \in Readers : rpc[r] # "idle" => drift[r] <= 2 * MaxOvertakes
  PROVE  \A r \in Readers : rpc[r] # "idle" =>
           /\ version' = wrapping_add(rversion'[r], drift'[r])
           /\ drift'[r] = drift[r] + 1
           /\ drift'[r] # 0
<1> SUFFICES ASSUME NEW r \in Readers, rpc[r] # "idle"
             PROVE  /\ version' = wrapping_add(rversion'[r], drift'[r])
                    /\ drift'[r] = drift[r] + 1
                    /\ drift'[r] # 0
  OBVIOUS
<1>1. drift[r] \in 0 .. 2 * MaxOvertakes /\ rversion[r] \in 0 .. VersionMod - 1
  BY DEF IndInv, TypeOK
<1>2. drift'[r] = drift[r] + 1
  BY DEF StoreVersion
<1>3. version = wrapping_add(rversion[r], drift[r])
  BY DEF IndInv, DriftInv
<1>4. version' = wrapping_add(rversion[r], drift[r] + 1)
  BY <1>1, <1>3, DriftStep DEF StoreVersion
<1>5. QED
  BY <1>1, <1>2, <1>4

\* Taking write_lock preserves the invariant: no slot changes yet.
LEMMA BeginStep ==
  IndInv /\ (BeginInvalidate \/ \E u \in Uids, f \in Flags : BeginCache(u, f)) => IndInv'
<1> SUFFICES ASSUME IndInv, BeginInvalidate \/ \E u \in Uids, f \in Flags : BeginCache(u, f)
             PROVE  IndInv'
  OBVIOUS
<1>1. /\ wpc = "idle" /\ wpc' # "idle"
      /\ StoreVersion(wrapping_add(version, 1))
      /\ \A r \in Readers : rpc[r] # "idle" => drift[r] < 2 * MaxOvertakes
      /\ UNCHANGED <<entry_uid, entry_flags, reader, published>>
  BY DEF BeginInvalidate, BeginCache, BeginCacheAt, BeginSection
<1>2. TypeOK'
  BY TypeStep DEF IndInv, Next, Write
<1>3. LockInv'
  BY <1>1, VersionStep DEF IndInv, TypeOK, LockInv, StoreVersion
<1>4. \A r \in Readers : rpc[r] # "idle" =>
        /\ version' = wrapping_add(rversion'[r], drift'[r])
        /\ drift'[r] = drift[r] + 1
        /\ drift'[r] # 0
  <2>1. \A r \in Readers : rpc[r] # "idle" => drift[r] <= 2 * MaxOvertakes
    BY <1>1 DEF IndInv, TypeOK
  <2>2. QED
    BY <1>1, <2>1, StoreDrift DEF reader
<1>5. DriftInv'
  BY <1>1, <1>4 DEF DriftInv, IndInv, TypeOK, reader
<1>6. ReaderInv' /\ MissIsReal'
  BY <1>1, <1>4 DEF IndInv, ReaderInv, MissIsReal, reader
<1>7. CASE BeginInvalidate
  <2>1. ChainInv' /\ PublishedInv'
    BY <1>7 DEF BeginInvalidate, ChainInv, PublishedInv
  <2>2. WriterInv'
    BY <1>7 DEF BeginInvalidate, WriterInv, Slots
  <2>3. QED
    BY <1>2, <1>3, <1>5, <1>6, <2>1, <2>2 DEF IndInv
<1>8. ASSUME NEW u \in Uids, NEW f \in Flags, BeginCache(u, f)
      PROVE  IndInv'
  <2>1. ChainInv'
    BY <1>1, <1>8 DEF BeginCache, BeginCacheAt, IndInv, ChainInv, ProbedUpTo
  <2>2. PublishedInv'
    BY <1>1, <1>8 DEF BeginCache, BeginCacheAt, IndInv, PublishedInv, Agrees
  <2>3. ProbedUpTo(u, Home(u))'
    <3>1. Home(u) \in Slots
      BY HomeSlot
    <3>2. \A j \in Slots : ~(Displacement(Home(u), j) < Displacement(Home(u), Home(u)))
      <4>1. TAKE j \in Slots
      <4>2. Displacement(Home(u), Home(u)) = 0 /\ Displacement(Home(u), j) \in Nat
        BY <3>1, DisplacementFacts
      <4>3. QED
        BY <4>2
    <3>3. QED
      BY <3>2 DEF ProbedUpTo
  <2>4. WriterInv'
    BY <1>8, <2>3 DEF BeginCache, BeginCacheAt, WriterInv, ProbedUpTo
  <2>5. QED
    BY <1>2, <1>3, <1>5, <1>6, <2>1, <2>2, <2>4 DEF IndInv
<1>9. QED
  BY <1>7, <1>8

\* Publishing the even version preserves the invariant: what the section did to
\* its uid, or to the whole table, becomes what is published.
LEMMA EndStep == IndInv /\ EndSection => IndInv'
<1> SUFFICES ASSUME IndInv, EndSection PROVE IndInv'
  OBVIOUS
<1>1. /\ wpc \in {"stored", "full", "cleared"} /\ wpc' = "idle"
      /\ StoreVersion(wrapping_add(version, 1))
      /\ UNCHANGED <<entry_uid, entry_flags, reader>>
  BY DEF EndSection
<1>2. TypeOK'
  BY TypeStep DEF IndInv, Next, Write
<1>3. LockInv'
  BY <1>1, VersionStep DEF IndInv, TypeOK, LockInv, StoreVersion
<1>4. \A r \in Readers : rpc[r] # "idle" =>
        /\ version' = wrapping_add(rversion'[r], drift'[r])
        /\ drift'[r] = drift[r] + 1
        /\ drift'[r] # 0
  <2>1. \A r \in Readers : rpc[r] # "idle" => drift[r] <= 2 * MaxOvertakes
    BY <1>1 DEF IndInv, DriftInv
  <2>2. QED
    BY <1>1, <2>1, StoreDrift DEF reader
<1>5. DriftInv'
  BY <1>1, <1>4 DEF DriftInv, reader
<1>6. ReaderInv' /\ MissIsReal'
  BY <1>1, <1>4 DEF IndInv, ReaderInv, MissIsReal, reader
<1>7. ChainInv'
  BY <1>1 DEF IndInv, ChainInv, ProbedUpTo
<1>8. WriterInv'
  BY <1>1 DEF WriterInv
<1>9. PublishedInv'
  <2>1. CASE wpc = "stored" /\ published' = [published EXCEPT ![wuid] = wflags]
    <3>1. /\ wuid \in Uids /\ widx \in Slots
          /\ entry_uid[widx] = wuid /\ entry_flags[widx] = wflags
      BY <2>1 DEF IndInv, WriterInv, TypeOK
    <3>2. \A i \in Slots : entry_uid[i] = wuid => i = widx
      <4>1. SUFFICES ASSUME NEW i \in Slots, entry_uid[i] = wuid, i # widx PROVE FALSE
        OBVIOUS
      <4>2. ProbedUpTo(wuid, i) /\ ProbedUpTo(wuid, widx)
        BY <2>1, <3>1, <4>1 DEF IndInv, ChainInv
      <4>3. Home(wuid) \in Slots
        BY <3>1, HomeSlot
      <4>4. Displacement(Home(wuid), i) # Displacement(Home(wuid), widx)
        BY <3>1, <4>1, <4>3, DisplacementFacts
      <4>5. /\ Displacement(Home(wuid), i) \in Nat
            /\ Displacement(Home(wuid), widx) \in Nat
        BY <3>1, <4>3, DisplacementFacts
      <4>6. QED
        BY <3>1, <4>1, <4>2, <4>4, <4>5 DEF ProbedUpTo
    <3>3. ASSUME NEW u \in Uids, u = wuid PROVE Agrees(u)'
      BY <1>1, <2>1, <3>1, <3>2, <3>3 DEF Agrees, IndInv, TypeOK
    <3>4. ASSUME NEW u \in Uids, u # wuid PROVE Agrees(u)'
      BY <1>1, <2>1, <3>1, <3>4 DEF Agrees, IndInv, PublishedInv, TypeOK
    <3>5. QED
      BY <1>1, <3>3, <3>4 DEF PublishedInv
  <2>2. CASE wpc = "full" /\ published' = published
    BY <1>1, <2>2 DEF PublishedInv, IndInv, Agrees
  <2>3. CASE wpc = "cleared" /\ published' = [u \in Uids |-> NoFlags]
    BY <1>1, <2>3 DEF PublishedInv, IndInv, WriterInv, Agrees
  <2>4. QED
    BY <2>1, <2>2, <2>3 DEF EndSection
<1>10. QED
  BY <1>2, <1>3, <1>5, <1>6, <1>7, <1>8, <1>9 DEF IndInv

\* While a section is open no lookup that started before it is undisturbed.
LEMMA BusyDrift ==
  IndInv /\ wpc # "idle" =>
    \A r \in Readers : rpc[r] # "idle" /\ rversion[r] % 2 = 0 => drift[r] # 0
<1> SUFFICES ASSUME IndInv, wpc # "idle", NEW r \in Readers, rpc[r] # "idle",
                    rversion[r] % 2 = 0, drift[r] = 0
             PROVE  FALSE
  OBVIOUS
<1>1. version = wrapping_add(rversion[r], 0) /\ version % 2 # 0
  BY DEF IndInv, DriftInv, LockInv
<1>2. rversion[r] \in 0 .. VersionMod - 1
  BY DEF IndInv, TypeOK
<1>3. QED
  BY <1>1, <1>2 DEF wrapping_add

\* A step inside a section concerns no undisturbed lookup.
LEMMA InsideSection ==
  ASSUME IndInv, wpc # "idle", wpc' # "idle", UNCHANGED <<version, reader, drift, published>>
  PROVE  LockInv' /\ DriftInv' /\ ReaderInv' /\ MissIsReal'
<1>1. LockInv' /\ DriftInv'
  BY DEF IndInv, LockInv, DriftInv, reader
<1>2. ReaderInv'
  BY BusyDrift DEF IndInv, ReaderInv, reader
<1>3. MissIsReal'
  BY DEF IndInv, MissIsReal, reader
<1>4. QED
  BY <1>1, <1>2, <1>3

\* One round of the probing loop preserves the invariant: the slot it claims is
\* the first one on the probe path that is free or already holds the uid.
LEMMA ProbeStep == IndInv /\ Probe => IndInv'
<1> SUFFICES ASSUME IndInv, Probe PROVE IndInv'
  OBVIOUS
<1>1. TypeOK'
  BY TypeStep DEF IndInv, Next, Write
<1>2. LockInv' /\ DriftInv' /\ ReaderInv' /\ MissIsReal'
  BY InsideSection DEF Probe, ProbeFor
<1>3. /\ wuid \in Uids /\ wflags \in Flags /\ widx \in Slots /\ Home(wuid) \in Slots
      /\ ProbedUpTo(wuid, widx)
  BY HomeSlot DEF Probe, ProbeFor, IndInv, WriterInv, TypeOK
<1>4. CASE entry_uid[widx] \in {EmptyUid, wuid}
  <2>1. /\ wpc' = "flags" /\ UNCHANGED <<widx, wuid, wflags, entry_flags, published>>
        /\ entry_uid' = [entry_uid EXCEPT ![widx] = wuid]
    BY <1>4 DEF Probe, ProbeFor
  <2>2. WriterInv'
    BY <1>3, <2>1 DEF WriterInv, IndInv, TypeOK
  <2>3. \A i \in Slots : entry_uid[i] = wuid => i = widx
    <3>1. SUFFICES ASSUME NEW i \in Slots, entry_uid[i] = wuid, i # widx PROVE FALSE
      OBVIOUS
    <3>2. ProbedUpTo(wuid, i)
      BY <1>3, <3>1 DEF IndInv, ChainInv, Probe, ProbeFor
    <3>3. /\ Displacement(Home(wuid), i) # Displacement(Home(wuid), widx)
          /\ Displacement(Home(wuid), i) \in Nat
          /\ Displacement(Home(wuid), widx) \in Nat
      BY <1>3, <3>1, DisplacementFacts
    <3>4. QED
      BY <1>3, <1>4, <3>1, <3>2, <3>3 DEF ProbedUpTo
  <2>4. ChainInv'
    <3>1. SUFFICES ASSUME NEW i \in Slots, entry_uid'[i] # EmptyUid,
                          NEW j \in Slots,
                          Displacement(Home(entry_uid'[i]), j)
                            < Displacement(Home(entry_uid'[i]), i)
                   PROVE  entry_uid'[j] \notin {EmptyUid, entry_uid'[i]}
      BY DEF ChainInv, ProbedUpTo
    <3>2. CASE i = widx
      <4>1. entry_uid'[i] = wuid
        BY <2>1, <3>2 DEF IndInv, TypeOK
      <4>2. j # widx
        <5>1. Displacement(Home(wuid), widx) \in Nat
          BY <1>3, DisplacementFacts
        <5>2. QED
          BY <3>1, <3>2, <4>1, <5>1
      <4>3. entry_uid'[j] = entry_uid[j]
        BY <2>1, <4>2 DEF IndInv, TypeOK
      <4>4. QED
        BY <1>3, <3>1, <3>2, <4>1, <4>3 DEF ProbedUpTo
    <3>3. CASE i # widx
      <4>1. entry_uid'[i] = entry_uid[i] /\ entry_uid[i] # wuid
        BY <2>1, <2>3, <3>3 DEF IndInv, TypeOK
      <4>2. ProbedUpTo(entry_uid[i], i)
        BY <3>1, <4>1 DEF IndInv, ChainInv, Probe, ProbeFor
      <4>3. CASE j = widx
        BY <1>3, <2>1, <4>1, <4>3 DEF IndInv, TypeOK
      <4>4. CASE j # widx
        BY <2>1, <3>1, <4>1, <4>2, <4>4 DEF IndInv, TypeOK, ProbedUpTo
      <4>5. QED
        BY <4>3, <4>4
    <3>4. QED
      BY <3>2, <3>3
  <2>5. PublishedInv'
    <3>1. ASSUME NEW u \in Uids, u # wuid PROVE Agrees(u)'
      <4>1. Agrees(u)
        BY DEF IndInv, PublishedInv, Probe, ProbeFor
      <4>2. \A i \in Slots : entry_uid'[i] = u <=> entry_uid[i] = u
        BY <1>3, <1>4, <2>1, <3>1 DEF IndInv, TypeOK
      <4>3. QED
        BY <2>1, <4>1, <4>2 DEF Agrees
    <3>2. QED
      BY <2>1, <3>1 DEF PublishedInv
  <2>6. QED
    BY <1>1, <1>2, <2>2, <2>4, <2>5 DEF IndInv
<1>5. CASE entry_uid[widx] \notin {EmptyUid, wuid}
  <2>1. /\ widx' = NextSlot(widx) /\ UNCHANGED <<entry_uid, wuid, wflags, entry_flags, published>>
        /\ wpc' = IF NextSlot(widx) = Home(wuid) THEN "full" ELSE "probe"
    BY <1>5 DEF Probe, ProbeFor
  <2>2. ChainInv' /\ PublishedInv'
    BY <2>1 DEF IndInv, ChainInv, PublishedInv, Probe, ProbeFor, ProbedUpTo, Agrees
  <2>3. NextSlot(widx) # Home(wuid) => ProbedUpTo(wuid, NextSlot(widx))
    <3>1. SUFFICES ASSUME NextSlot(widx) # Home(wuid), NEW j \in Slots,
                          Displacement(Home(wuid), j)
                            < Displacement(Home(wuid), NextSlot(widx))
                   PROVE  entry_uid[j] \notin {EmptyUid, wuid}
      BY DEF ProbedUpTo
    <3>2. Displacement(Home(wuid), j) < Displacement(Home(wuid), widx) + 1
      BY <1>3, <3>1, DisplacementNext
    <3>3. /\ Displacement(Home(wuid), j) \in Nat
          /\ Displacement(Home(wuid), widx) \in Nat
          /\ Displacement(Home(wuid), j) = Displacement(Home(wuid), widx) => j = widx
      BY <1>3, DisplacementFacts
    <3>4. QED
      BY <1>3, <1>5, <3>2, <3>3 DEF ProbedUpTo
  <2>4. WriterInv'
    BY <1>3, <2>1, <2>3 DEF WriterInv, ProbedUpTo
  <2>5. QED
    BY <1>1, <1>2, <2>2, <2>4 DEF IndInv
<1>6. QED
  BY <1>4, <1>5

\* Storing the flags, and clearing slot after slot, preserve the invariant.
LEMMA StoreStep == IndInv /\ (StoreFlags \/ ClearUid \/ ClearFlags) => IndInv'
<1> SUFFICES ASSUME IndInv, StoreFlags \/ ClearUid \/ ClearFlags PROVE IndInv'
  OBVIOUS
<1>1. TypeOK'
  BY TypeStep DEF IndInv, Next, Write
<1>2. LockInv' /\ DriftInv' /\ ReaderInv' /\ MissIsReal'
  BY InsideSection DEF StoreFlags, ClearUid, ClearFlags
<1>3. CASE StoreFlags
  <2>1. ChainInv' /\ WriterInv'
    BY <1>3 DEF StoreFlags, IndInv, TypeOK, ChainInv, WriterInv, ProbedUpTo
  <2>2. PublishedInv'
    BY <1>3 DEF StoreFlags, IndInv, TypeOK, PublishedInv, Agrees, WriterInv
  <2>3. QED
    BY <1>1, <1>2, <2>1, <2>2 DEF IndInv
<1>4. CASE ClearUid
  <2>1. ChainInv' /\ PublishedInv'
    BY <1>4 DEF ClearUid, ChainInv, PublishedInv
  <2>2. WriterInv'
    BY <1>4 DEF ClearUid, IndInv, TypeOK, WriterInv, Slots
  <2>3. QED
    BY <1>1, <1>2, <2>1, <2>2 DEF IndInv
<1>5. CASE ClearFlags
  <2>1. WriterInv'
    BY <1>5 DEF ClearFlags, IndInv, TypeOK, WriterInv, Slots, NextSlot
  <2>2. PublishedInv'
    BY <1>5 DEF ClearFlags, PublishedInv
  <2>3. ChainInv'
    BY <1>5, <2>1 DEF ClearFlags, ChainInv, WriterInv
  <2>4. QED
    BY <1>1, <1>2, <2>1, <2>2, <2>3 DEF IndInv
<1>6. QED
  BY <1>3, <1>4, <1>5

\* An undisturbed lookup runs while no section is open, on a table that agrees
\* with what is published.
LEMMA UndisturbedIdle ==
  ASSUME IndInv, NEW r \in Readers, rpc[r] # "idle", rversion[r] % 2 = 0, drift[r] = 0
  PROVE  wpc = "idle" /\ version = rversion[r] /\ ruid[r] \in Uids /\ Agrees(ruid[r])
<1>1. version = rversion[r]
  <2>1. version = wrapping_add(rversion[r], 0) /\ rversion[r] \in 0 .. VersionMod - 1
    BY DEF IndInv, DriftInv, TypeOK
  <2>2. QED
    BY <2>1 DEF wrapping_add
<1>2. wpc = "idle" /\ ruid[r] \in Uids
  BY BusyDrift DEF IndInv, ReaderInv
<1>3. QED
  BY <1>1, <1>2 DEF IndInv, PublishedInv

\* A lookup step leaves what the writers rely on alone.
LEMMA ReadersDoNotWrite ==
  ASSUME IndInv, UNCHANGED <<shared, writer, published>>
  PROVE  LockInv' /\ ChainInv' /\ WriterInv' /\ PublishedInv'
<1>1. LockInv' /\ ChainInv' /\ WriterInv'
  BY DEF IndInv, LockInv, ChainInv, WriterInv, ProbedUpTo, shared, writer
<1>2. PublishedInv'
  BY DEF IndInv, PublishedInv, Agrees, shared, writer
<1>3. QED
  BY <1>1, <1>2

\* Loading version_before starts an undisturbed lookup at the home slot.
LEMMA ReadVersionStep ==
  ASSUME IndInv, NEW r \in Readers, NEW u \in Uids, ReadVersion(r, u)
  PROVE  IndInv'
<1>1. TypeOK'
  BY TypeStep DEF IndInv, Next, Read
<1>2. LockInv' /\ ChainInv' /\ WriterInv' /\ PublishedInv'
  BY ReadersDoNotWrite DEF ReadVersion, LoadVersion
<1>3. DriftInv'
  <2>1. version = wrapping_add(version, 0) /\ 0 <= 2 * MaxOvertakes
    BY DEF IndInv, TypeOK, wrapping_add
  <2>2. QED
    BY <2>1 DEF ReadVersion, LoadVersion, IndInv, TypeOK, DriftInv, shared, writer
<1>4. ProbedUpTo(u, Home(u))
  <2>1. Home(u) \in Slots
    BY HomeSlot
  <2>2. \A j \in Slots : ~(Displacement(Home(u), j) < Displacement(Home(u), Home(u)))
    <3>1. TAKE j \in Slots
    <3>2. Displacement(Home(u), Home(u)) = 0 /\ Displacement(Home(u), j) \in Nat
      BY <2>1, DisplacementFacts
    <3>3. QED
      BY <3>2
  <2>3. QED
    BY <2>2 DEF ProbedUpTo
<1>5. ReaderInv'
  <2>1. ProbedUpTo(u, Home(u))'
    BY <1>4 DEF ProbedUpTo, ReadVersion, LoadVersion, shared
  <2>2. ASSUME NEW q \in Readers, q # r
        PROVE  /\ rpc'[q] = rpc[q] /\ ruid'[q] = ruid[q] /\ ridx'[q] = ridx[q]
               /\ rversion'[q] = rversion[q] /\ rflags'[q] = rflags[q] /\ drift'[q] = drift[q]
    BY <2>2 DEF ReadVersion, LoadVersion, IndInv, TypeOK
  <2>3. /\ rpc'[r] = IF version % 2 = 0 THEN "probe" ELSE "ask"
        /\ ruid'[r] = u /\ ridx'[r] = Home(u) /\ rversion'[r] = version
    BY DEF ReadVersion, LoadVersion, IndInv, TypeOK
  <2>4. QED
    BY <2>1, <2>2, <2>3 DEF ReaderInv, IndInv, ProbedUpTo, ReadVersion, LoadVersion, shared
<1>6. MissIsReal'
  BY DEF MissIsReal, IndInv, TypeOK, ReadVersion, LoadVersion
<1>7. QED
  BY <1>1, <1>2, <1>3, <1>5, <1>6 DEF IndInv

\* One round of the lookup's probe: it finds the uid, goes on, or has shown that
\* the table does not hold it.
LEMMA ReadUidStep == ASSUME IndInv, NEW r \in Readers, ReadUid(r) PROVE IndInv'
<1>1. TypeOK'
  BY TypeStep DEF IndInv, Next, Read
<1>2. LockInv' /\ ChainInv' /\ WriterInv' /\ PublishedInv'
  BY ReadersDoNotWrite DEF ReadUid
<1>3. DriftInv'
  BY DEF ReadUid, IndInv, TypeOK, DriftInv, shared, writer
<1>4. /\ rpc[r] = "probe" /\ ruid[r] \in Uids /\ ridx[r] \in Slots
      /\ Home(ruid[r]) \in Slots /\ rversion[r] % 2 = 0
  BY HomeSlot DEF ReadUid, IndInv, ReaderInv, TypeOK
<1>5. ASSUME drift[r] = 0, entry_uid[ridx[r]] # ruid[r],
             entry_uid[ridx[r]] = EmptyUid \/ NextSlot(ridx[r]) = Home(ruid[r])
      PROVE  published[ruid[r]] = NoFlags
  <2>1. wpc = "idle" /\ Agrees(ruid[r]) /\ ProbedUpTo(ruid[r], ridx[r])
    BY <1>4, <1>5, UndisturbedIdle DEF IndInv, ReaderInv
  <2>2. SUFFICES ASSUME NEW i \in Slots, entry_uid[i] = ruid[r] PROVE FALSE
    BY <2>1 DEF Agrees
  <2>3. ProbedUpTo(ruid[r], i)
    BY <1>4, <2>1, <2>2 DEF IndInv, ChainInv
  <2>4. /\ Displacement(Home(ruid[r]), i) \in Nat
        /\ Displacement(Home(ruid[r]), ridx[r]) \in Nat
        /\ Displacement(Home(ruid[r]), i) < Size
        /\ Displacement(Home(ruid[r]), i) # Displacement(Home(ruid[r]), ridx[r])
    BY <1>4, <1>5, <2>2, DisplacementFacts
  <2>5. ~(Displacement(Home(ruid[r]), i) < Displacement(Home(ruid[r]), ridx[r]))
    BY <2>1, <2>2 DEF ProbedUpTo
  <2>6. Displacement(Home(ruid[r]), ridx[r]) < Displacement(Home(ruid[r]), i)
    BY <2>4, <2>5
  <2>7. entry_uid[ridx[r]] # EmptyUid
    BY <1>4, <2>3, <2>6 DEF ProbedUpTo
  <2>8. Displacement(Home(ruid[r]), ridx[r]) = Size - 1
    BY <1>4, <1>5, <2>7, DisplacementNext
  <2>9. QED
    BY <2>4, <2>6, <2>8
<1>6. ASSUME drift[r] = 0, entry_uid[ridx[r]] \notin {EmptyUid, ruid[r]},
             NextSlot(ridx[r]) # Home(ruid[r])
      PROVE  ProbedUpTo(ruid[r], NextSlot(ridx[r]))
  <2>1. SUFFICES ASSUME NEW j \in Slots,
                        Displacement(Home(ruid[r]), j)
                          < Displacement(Home(ruid[r]), NextSlot(ridx[r]))
                 PROVE  entry_uid[j] \notin {EmptyUid, ruid[r]}
    BY DEF ProbedUpTo
  <2>2. Displacement(Home(ruid[r]), j) < Displacement(Home(ruid[r]), ridx[r]) + 1
    BY <1>4, <1>6, <2>1, DisplacementNext
  <2>3. /\ Displacement(Home(ruid[r]), j) \in Nat
        /\ Displacement(Home(ruid[r]), ridx[r]) \in Nat
        /\ Displacement(Home(ruid[r]), j) = Displacement(Home(ruid[r]), ridx[r]) => j = ridx[r]
    BY <1>4, DisplacementFacts
  <2>4. ProbedUpTo(ruid[r], ridx[r])
    BY <1>4, <1>6 DEF IndInv, ReaderInv
  <2>5. QED
    BY <1>6, <2>2, <2>3, <2>4 DEF ProbedUpTo
<1>7. ASSUME NEW q \in Readers, q # r
      PROVE  rpc'[q] = rpc[q] /\ ridx'[q] = ridx[q]
  BY <1>7 DEF ReadUid, IndInv, TypeOK
<1>8. ReaderInv'
  BY <1>4, <1>6, <1>7 DEF ReadUid, ReaderInv, IndInv, TypeOK, ProbedUpTo, shared
<1>9. MissIsReal'
  <2>1. rpc'[r] = "ask" /\ drift[r] = 0 => published[ruid[r]] = NoFlags
    BY <1>4, <1>5 DEF ReadUid, IndInv, TypeOK
  <2>2. QED
    BY <1>7, <2>1 DEF MissIsReal, IndInv, ReadUid
<1>10. QED
  BY <1>1, <1>2, <1>3, <1>8, <1>9 DEF IndInv

\* The remaining steps of a lookup preserve the invariant.
LEMMA ReadRestStep ==
  ASSUME IndInv, NEW r \in Readers, ReadFlags(r) \/ Validate(r) \/ AskDaemon(r)
  PROVE  IndInv'
<1>1. TypeOK'
  BY TypeStep DEF IndInv, Next, Read
<1>2. LockInv' /\ ChainInv' /\ WriterInv' /\ PublishedInv'
  BY ReadersDoNotWrite DEF ReadFlags, Validate, AskDaemon, Return
<1>3. CASE ReadFlags(r)
  <2>1. DriftInv' /\ MissIsReal'
    BY <1>3 DEF ReadFlags, IndInv, TypeOK, DriftInv, MissIsReal, shared, writer
  <2>2. ReaderInv'
    BY <1>3 DEF ReadFlags, IndInv, TypeOK, ReaderInv, ProbedUpTo, shared
  <2>3. QED
    BY <1>1, <1>2, <2>1, <2>2 DEF IndInv
<1>4. ASSUME NEW a, Return(r, a) PROVE IndInv'
  <2>1. DriftInv' /\ MissIsReal'
    BY <1>4 DEF Return, IndInv, TypeOK, DriftInv, MissIsReal, shared, writer
  <2>2. ReaderInv'
    BY <1>4 DEF Return, IndInv, TypeOK, ReaderInv, ProbedUpTo, shared
  <2>3. QED
    BY <1>1, <1>2, <2>1, <2>2 DEF IndInv
<1>5. CASE Validate(r) /\ version # rversion[r]
  <2>1. drift[r] # 0
    BY <1>5, UndisturbedIdle DEF Validate, IndInv, ReaderInv
  <2>2. DriftInv' /\ MissIsReal'
    BY <1>5, <2>1 DEF Validate, IndInv, TypeOK, DriftInv, MissIsReal, shared, writer
  <2>3. ReaderInv'
    BY <1>5 DEF Validate, IndInv, TypeOK, ReaderInv, ProbedUpTo, shared
  <2>4. QED
    BY <1>1, <1>2, <2>2, <2>3 DEF IndInv
<1>6. QED
  BY <1>3, <1>4, <1>5 DEF Validate, AskDaemon

\* Every step preserves the invariant.
LEMMA IndInvStep == IndInv /\ [Next]_vars => IndInv'
<1> SUFFICES ASSUME IndInv, [Next]_vars PROVE IndInv'
  OBVIOUS
<1>1. CASE Write
  BY <1>1, BeginStep, ProbeStep, StoreStep, EndStep DEF Write
<1>2. ASSUME NEW r \in Readers, Read(r) PROVE IndInv'
  BY <1>2, ReadVersionStep, ReadUidStep, ReadRestStep DEF Read
<1>3. CASE UNCHANGED vars
  <2>1. TypeOK' /\ LockInv' /\ WriterInv' /\ ChainInv'
    BY <1>3 DEF vars, IndInv, TypeOK, LockInv, WriterInv, ChainInv, ProbedUpTo
  <2>2. PublishedInv' /\ DriftInv'
    BY <1>3 DEF vars, IndInv, PublishedInv, Agrees, DriftInv
  <2>3. ReaderInv' /\ MissIsReal'
    BY <1>3 DEF vars, IndInv, ReaderInv, ProbedUpTo, MissIsReal
  <2>4. QED
    BY <2>1, <2>2, <2>3 DEF IndInv
<1>4. QED
  BY <1>1, <1>2, <1>3 DEF Next

------------------------------------------------------------------------------
(* The theorems.                                                            *)

\* The inductive invariant holds in every behaviour of the cache, for every table
\* size and every number of readers (cache_process_flags,
\* invalidate_process_flag_cache, GetProcessFlags).
THEOREM CacheInvariant == Spec => []IndInv
  BY InitIndInv, IndInvStep, PTL DEF Spec

\* The invariant gives a validated lookup the published flags of its uid.
LEMMA IndInvHit == IndInv => HitIsPublished
<1> SUFFICES ASSUME IndInv, NEW r \in Readers, rpc[r] = "validate", version = rversion[r]
             PROVE  rflags[r] = published[ruid[r]]
  BY DEF HitIsPublished
<1>1. /\ rversion[r] \in 0 .. VersionMod - 1 /\ drift[r] \in 0 .. 2 * MaxOvertakes + 1
      /\ version = wrapping_add(rversion[r], drift[r]) /\ rversion[r] % 2 = 0
  BY DEF IndInv, TypeOK, DriftInv, ReaderInv
<1>2. drift[r] = 0
  BY <1>1, NoWrapAround
<1>3. ruid[r] \in Uids /\ Agrees(ruid[r])
  BY <1>1, <1>2, UndisturbedIdle
<1>4. entry_uid[ridx[r]] = ruid[r] /\ rflags[r] = entry_flags[ridx[r]] /\ ridx[r] \in Slots
  BY <1>2 DEF IndInv, ReaderInv, TypeOK
<1>5. QED
  BY <1>3, <1>4 DEF Agrees

\* A lookup that validates returns what the last completed section left for its
\* uid, although GetProcessFlags reads uid, flags and version one by one and
\* without a lock.
THEOREM SeqlockHit == Spec => []HitIsPublished
  BY CacheInvariant, IndInvHit, PTL

\* A lookup no writer overtook goes to the daemon only for a uid that is not in
\* the table: linear probing in GetProcessFlags finds what linear probing in
\* cache_process_flags placed.
THEOREM UndisturbedMiss == Spec => []MissIsReal
<1>1. IndInv => MissIsReal
  BY DEF IndInv
<1>2. QED
  BY <1>1, CacheInvariant, PTL

\* cache_process_flags never gives a uid a second slot.
THEOREM UniqueSlot == Spec => []OneSlotPerUid
<1>1. IndInv => OneSlotPerUid
  <2> SUFFICES ASSUME IndInv, wpc \notin {"clear_uid", "clear_flags"},
                      NEW i \in Slots, NEW j \in Slots,
                      entry_uid[i] = entry_uid[j], entry_uid[i] # EmptyUid, i # j
               PROVE  FALSE
    BY DEF OneSlotPerUid
  <2> DEFINE u == entry_uid[i]
  <2>1. u \in Uids /\ Home(u) \in Slots /\ ProbedUpTo(u, i) /\ ProbedUpTo(u, j)
    BY HomeSlot DEF IndInv, TypeOK, ChainInv
  <2> HIDE DEF u
  <2>2. /\ Displacement(Home(u), i) \in Nat /\ Displacement(Home(u), j) \in Nat
        /\ Displacement(Home(u), i) # Displacement(Home(u), j)
    BY <2>1, DisplacementFacts
  <2>3. QED
    BY <2>1, <2>2 DEF ProbedUpTo, u
<1>2. QED
  BY <1>1, CacheInvariant, PTL

\* The shared-memory table implements the atomic map of FlagMap: a completed
\* section is one Put, one Flush or nothing, a validated lookup is one Lookup, and
\* every other step of the code is invisible.
THEOREM Refinement == Spec => ImplementsFlagMap
<1>1. Init => Map!Init
  BY DEF Init, Map!Init
<1>2. IndInv /\ [Next]_vars => [Map!Next]_(Map!vars)
  <2> SUFFICES ASSUME IndInv, [Next]_vars PROVE [Map!Next]_(Map!vars)
    OBVIOUS
  <2>1. ASSUME NEW u \in Uids, NEW f \in Flags, BeginCache(u, f) PROVE UNCHANGED Map!vars
    BY <2>1 DEF BeginCache, BeginCacheAt, Map!vars, reader
  <2>2. CASE Probe \/ StoreFlags \/ BeginInvalidate \/ ClearUid \/ ClearFlags
    BY <2>2 DEF Probe, ProbeFor, StoreFlags, BeginInvalidate, ClearUid, ClearFlags, Map!vars, reader
  <2>3. CASE EndSection
    <3>1. CASE wpc = "stored" /\ published' = [published EXCEPT ![wuid] = wflags]
      <4>1. wuid \in Uids /\ wflags \in Flags
        BY <3>1 DEF IndInv, WriterInv
      <4>2. Map!Put(wuid, wflags)
        BY <2>3, <3>1 DEF EndSection, Map!Put, reader
      <4>3. QED
        BY <4>1, <4>2 DEF Map!Next
    <3>2. CASE published' = published
      BY <2>3, <3>2 DEF EndSection, Map!vars, reader
    <3>3. CASE published' = [u \in Uids |-> NoFlags]
      BY <2>3, <3>3 DEF EndSection, Map!Next, Map!Flush, reader
    <3>4. QED
      BY <2>3, <3>1, <3>2, <3>3 DEF EndSection
  <2>4. ASSUME NEW r \in Readers, NEW u \in Uids, ReadVersion(r, u) PROVE UNCHANGED Map!vars
    BY <2>4 DEF ReadVersion, LoadVersion, Map!vars
  <2>5. ASSUME NEW r \in Readers, ReadUid(r) \/ ReadFlags(r) PROVE UNCHANGED Map!vars
    BY <2>5 DEF ReadUid, ReadFlags, Map!vars
  <2>6. ASSUME NEW r \in Readers, Validate(r) PROVE [Map!Next]_(Map!vars)
    <3>1. CASE version = rversion[r] /\ Return(r, rflags[r])
      <4>1. rflags[r] = published[ruid[r]] /\ ruid[r] \in Uids
        BY <2>6, <3>1, IndInvHit DEF HitIsPublished, Validate, IndInv, ReaderInv
      <4>2. rflags[r] # NoFlags
        BY DEF IndInv, TypeOK
      <4>3. Map!Lookup(r, ruid[r])
        BY <3>1, <4>1, <4>2 DEF Map!Lookup, Return
      <4>4. QED
        BY <4>1, <4>3 DEF Map!Next
    <3>2. CASE version # rversion[r]
      BY <2>6, <3>2 DEF Validate, Map!vars
    <3>3. QED
      BY <2>6, <3>1, <3>2 DEF Validate
  <2>7. ASSUME NEW r \in Readers, AskDaemon(r) PROVE [Map!Next]_(Map!vars)
    BY <2>7 DEF AskDaemon, Return, Map!Next, Map!Decline
  <2>8. CASE UNCHANGED vars
    BY <2>8 DEF vars, Map!vars
  <2>9. QED
    BY <2>1, <2>2, <2>3, <2>4, <2>5, <2>6, <2>7, <2>8 DEF Next, Write, Read
<1>3. QED
  BY <1>1, <1>2, CacheInvariant, PTL DEF Spec, ImplementsFlagMap, Map!Spec
=============================================================================
