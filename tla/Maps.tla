-------------------------------- MODULE Maps --------------------------------
(***************************************************************************)
(* The mappings of modules that stay loaded, and spoof_module_maps, which  *)
(* replaces each by an anonymous copy of itself just before the injected   *)
(* library unmaps itself.  Threads of the module run on, and may store to  *)
(* its writable mappings, all the while.                                   *)
(*                                                                         *)
(* A mapping has a protection, the name /proc/self/maps shows, whether it  *)
(* is private, and its contents as one value.                              *)
(***************************************************************************)
EXTENDS Naturals, Sequences, FiniteSets, SequencesExt

CONSTANT MaxRanges   \* MapRange ranges[64]

ASSUME MapsAssumption == MaxRanges \in Nat

VARIABLES
  maps,    \* the mappings, in the order of their addresses
  found,   \* history: the mappings as the spoof found them
  spoof    \* its step, the names still to scan for, the ranges still to replace, and the
           \* scratch copy

mapsVars == <<maps, found, spoof>>

\* Name of a mapping with no name.
Anonymous == ""
NoCopy == <<>>
Paths == <<"jit-cache-zygisk", "zygisk-module", "zn-module">>
Unstarted == [pc |-> "off", paths |-> <<>>, ranges |-> <<>>, copy |-> NoCopy]

MapsInit(rest) == maps = rest /\ found = <<>> /\ spoof = Unstarted

\* The system linker maps a module, and unmaps it.
Mmaps(ranges) == maps' = maps \o ranges /\ UNCHANGED <<found, spoof>>
Munmaps(id) ==
  maps' = SelectSeq(maps, LAMBDA r : r.id # id) /\ UNCHANGED <<found, spoof>>

\* A thread of a module stores to one of its mappings.
ModuleStores ==
  /\ \E k \in DOMAIN maps :
       /\ "w" \in maps[k].prot /\ maps[k].val = 0
       /\ maps' = [maps EXCEPT ![k].val = 1]
  /\ UNCHANGED <<found, spoof>>

-----------------------------------------------------------------------------
spoof_module_maps ==
  /\ spoof.pc = "off"
  /\ spoof' = [spoof EXCEPT !.pc = "scan", !.paths = Paths]
  /\ found' = maps /\ UNCHANGED maps

\* The private mappings with a name, up to the limit, and their protection when read.
Matching(path) ==
  LET those == SelectSeq([k \in DOMAIN maps |-> k],
                         LAMBDA k : maps[k].name = path /\ maps[k].private)
      some == SubSeq(those, 1, Min({MaxRanges, Len(those)}))
  IN [n \in DOMAIN some |-> [k |-> some[n], prot |-> maps[some[n]].prot]]

\* spoof_virtual_maps: fopen may fail; otherwise the maps are read to their end first.
spoof_virtual_maps(fails) ==
  /\ spoof.pc = "scan" /\ spoof.ranges = <<>>
  /\ IF spoof.paths = <<>> THEN spoof' = [spoof EXCEPT !.pc = "done"]
     ELSE \E ranges \in {Matching(Head(spoof.paths))} \cup (IF fails THEN {<<>>} ELSE {}) :
            spoof' = [spoof EXCEPT !.paths = Tail(@), !.ranges = ranges]
  /\ UNCHANGED <<maps, found>>

\* anonymize_ranges, for one range: each call may fail, and the next range is tried.
Range1 == Head(spoof.ranges)
Skips == spoof' = [spoof EXCEPT !.pc = "scan", !.ranges = Tail(@), !.copy = NoCopy]
WasRwx(prot) == prot = {"r", "w", "x"}
FinalProt(prot) == IF WasRwx(prot) THEN prot \ {"w"} ELSE prot
SourceProt(prot) == maps' = [maps EXCEPT ![Range1.k].prot = prot]

\* Mutant: the copy is mapped with every right the range will ever need.
ScratchProtFull(prot) == prot \cup {"r", "w"}

ScratchProt(prot) == {"r", "w"}

\* mmap of the copy; a range that cannot be read is made readable.
MakeCopy(fails) ==
  /\ spoof.pc = "scan" /\ spoof.ranges # <<>> /\ UNCHANGED found
  /\ \/ fails /\ Skips /\ UNCHANGED maps
     \/ /\ spoof' = [spoof EXCEPT !.pc = "copy",
                       !.copy = <<[val |-> 0, prot |-> ScratchProt(Range1.prot)]>>]
        /\ SourceProt(Range1.prot \cup {"r"})

\* memcpy; the source's protection is put back.
CopyContents(fails) ==
  /\ spoof.pc = "copy" /\ UNCHANGED found
  /\ \/ /\ fails /\ "r" \notin Range1.prot /\ Skips /\ UNCHANGED maps
     \/ /\ spoof' = [spoof EXCEPT !.pc = "protect", !.copy[1].val = maps[Range1.k].val]
        /\ SourceProt(Range1.prot)

\* The copy gets its final protection while it is at its own address.
ProtectCopy(fails) ==
  /\ spoof.pc = "protect" /\ UNCHANGED <<maps, found>>
  /\ (fails /\ Skips) \/ spoof' = [spoof EXCEPT !.pc = "remap", !.copy[1].prot = FinalProt(Range1.prot)]

\* mremap puts the copy in the range's place, and its name is cleared.
Remap(fails) ==
  /\ spoof.pc = "remap" /\ UNCHANGED found
  /\ \/ fails /\ UNCHANGED maps
     \/ maps' = [maps EXCEPT ![Range1.k] =
                   [@ EXCEPT !.name = Anonymous, !.val = spoof.copy[1].val, !.prot = spoof.copy[1].prot]]
  /\ Skips

anonymize_ranges(fails) == MakeCopy(fails) \/ CopyContents(fails) \/ ProtectCopy(fails) \/ Remap(fails)
SpoofSteps(fails) == spoof_virtual_maps(fails) \/ anonymize_ranges(fails)

-----------------------------------------------------------------------------
\* The promise of spoof_module_maps, when the module does or does not store meanwhile and
\* calls do or do not fail.
Faithful(stores, fails) ==
  spoof.pc # "off" =>
    /\ \A k \in DOMAIN found :
         LET old == found[k]
             new == maps[k]
             renamed == new.name # old.name
         IN /\ renamed => old.name \in Range(Paths) /\ old.private
            /\ old.prot \ new.prot \subseteq (IF renamed /\ WasRwx(old.prot) THEN {"w"} ELSE {})
            /\ new.prot \ old.prot \subseteq {"r"}
            /\ renamed => ~WasRwx(new.prot)
            /\ ~stores => new.val = old.val
    /\ \A copy \in Range(spoof.copy) : {"w", "x"} \subseteq copy.prot => "r" \notin Range1.prot
    /\ spoof.pc = "done" =>
         /\ spoof.copy = NoCopy
         /\ \A path \in Range(Paths) :
              ~fails /\ Cardinality({k \in DOMAIN found : found[k].name = path}) <= MaxRanges
                => \A k \in DOMAIN maps : maps[k].private => maps[k].name # path
=============================================================================
