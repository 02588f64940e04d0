------------------------------- MODULE Linker -------------------------------
(***************************************************************************)
(* How a forked process loads its modules (run_modules_pre), unloads them  *)
(* again and hides that it did (run_modules_post): the custom linker, the  *)
(* system linker it falls back to, and the scrub of the system linker's    *)
(* list and counters, of libc's exit handlers (Atexit) and of the mappings *)
(* that stay (Maps).  Beside the thread that loads, a thread of a module   *)
(* walks the images with dl_iterate_phdr, registers handlers, closes a     *)
(* library and stores to its memory.                                       *)
(*                                                                         *)
(* Memory is modelled word by word, one address per word; every image has  *)
(* an address space of its own.  A word holds a number, 0 when cleared.    *)
(***************************************************************************)
EXTENDS Integers, Sequences, FiniteSets, SequencesExt, Atexit, Maps

CONSTANTS Page,       \* PageSize(), in words
          RelrBits,   \* slots one RELR bitmap covers: 8 * sizeof(ElfW(Relr)) - 1
          RawBases,   \* where the kernel may place a reservation
          Libs,       \* libraries named by DT_NEEDED
          Worlds      \* see world

ASSUME PageAssumption == Page \in Nat \ {0} /\ RelrBits \in Nat \ {0}
ASSUME BasesAssumption == \A r \in RawBases : r \in Nat /\ r % Page = 0

VARIABLES
  world,       \* chosen once: elfs (the modules in the daemon's order), custom and
               \* anonymous (config.prop), resident (libraries already loaded), faults,
               \* user (what the other thread does with exit handlers), orphan (whether
               \* the fork left g_atexit_lock held), stores (whether modules store), rest
               \* (the mappings that are there)
  main,        \* the loading thread: its place, and the module it is at
  img,         \* module -> what the custom linker has of it (class Image)
  g_images,    \* the registry
  modules,     \* ZygiskContext::modules: the modules with an entry point
  solist,      \* the system linker's list: modules it loaded
  refs,        \* library -> handles open on it
  counters,    \* g_module_load_counter, g_module_unload_counter, as changed here
  scrub,       \* what run_modules_post counted
  walk,        \* the walking thread: whether it holds g_images_lock, and the images
               \* it has still to report
  segv         \* history: an access that faults has happened

vars == <<world, main, img, g_images, modules, solist, refs, counters, scrub, walk, segv,
          atexitVars, mapsVars>>

Elfs == world.elfs
Ids == DOMAIN Elfs
Fails(kind) == kind \in world.faults
RW == {"r", "w"}

\* mem: what is mapped.  map: map_start_ and map_size_, what the image knows of it.  segs: the
\* segments filled so far.
NoImage == [stage |-> "none", mem |-> <<>>, map |-> {}, segs |-> 0, bias |-> 0, handles |-> {}]

Init ==
  /\ world \in Worlds
  /\ main = [at |-> "load", id |-> 1]
  /\ img = [i \in Ids |-> NoImage]
  /\ g_images = {} /\ modules = <<>> /\ solist = {}
  /\ refs = [l \in Libs |-> IF l \in world.resident THEN 1 ELSE 0]
  /\ counters = [load |-> 0, unload |-> 0]
  /\ scrub = [loaded |-> 0]
  /\ walk = [on |-> FALSE, left |-> {}] /\ segv = FALSE
  /\ AtexitInit(world.orphan) /\ MapsInit(world.rest)

------------------------------------------------------------------------------
(* Mapping.                                                                 *)

PageStart(a) == a - (a % Page)
PageEnd(a) == PageStart(a + Page - 1)

Loads(elf) == {elf.loads[k] : k \in DOMAIN elf.loads}
MinVaddr(elf) == PageStart(Min({ph.vaddr : ph \in Loads(elf)}))
Span(elf) == PageEnd(Max({ph.vaddr + ph.memsz : ph \in Loads(elf)})) - MinVaddr(elf)
MaxAlign(elf) == Max({Page} \cup {ph.align : ph \in Loads(elf)})
Aligned(elf, raw) == ((raw + MaxAlign(elf) - 1) \div MaxAlign(elf)) * MaxAlign(elf)

\* The word of the file at an offset: nothing of the file is 0.
FileWord(offset) == offset + 1

\* The reservation, over-sized by one alignment unit, with its slack trimmed.
Reserved(elf, raw) ==
  LET reserve == raw .. raw + Span(elf) + MaxAlign(elf) - 1
      front == raw .. Aligned(elf, raw) - 1
      back == Aligned(elf, raw) + Span(elf) .. raw + Span(elf) + MaxAlign(elf) - 1
  IN [a \in reserve \ (front \cup back) |-> [val |-> 0, prot |-> {}]]

\* anonymous: open the pages for writing and read the file's words into them.
FillAnonymous(mem, bias, ph) ==
  [a \in DOMAIN mem |->
     IF a \in bias + ph.vaddr .. bias + ph.vaddr + ph.filesz - 1
     THEN [val |-> FileWord(ph.offset + a - bias - ph.vaddr), prot |-> RW]
     ELSE IF a \in bias + PageStart(ph.vaddr) .. bias + PageEnd(ph.vaddr + ph.memsz) - 1
     THEN [mem[a] EXCEPT !.prot = RW] ELSE mem[a]]

\* file-backed: map whole pages of the file, clear what of the last one is .bss,
\* and map the remaining .bss pages.
FillMapped(mem, bias, ph, clears) ==
  LET start == bias + PageStart(ph.vaddr)
      file_end == bias + ph.vaddr + ph.filesz
      page_end == PageEnd(file_end)
      mem_end == bias + PageEnd(ph.vaddr + ph.memsz)
  IN [a \in DOMAIN mem |->
        IF ph.filesz > 0 /\ a \in start .. page_end - 1
        THEN [val |-> IF clears /\ a >= file_end THEN 0
                      ELSE FileWord(PageStart(ph.offset) + a - start), prot |-> RW]
        ELSE IF a \in page_end .. mem_end - 1 THEN [val |-> 0, prot |-> RW]
        ELSE mem[a]]

\* Mutant: the guard the comment in MapSegments warns of.
FillPastLastPage(mem, bias, ph) ==
  FillMapped(mem, bias, ph, PageEnd(ph.vaddr + ph.memsz) > PageEnd(ph.vaddr + ph.filesz))

Fill(mem, bias, ph) == FillMapped(mem, bias, ph, ph.memsz > ph.filesz)

Filled(mem, bias, ph) ==
  IF world.anonymous THEN FillAnonymous(mem, bias, ph) ELSE Fill(mem, bias, ph)

------------------------------------------------------------------------------
(* Relocations.                                                             *)

\* An even entry is an address, an odd one a bitmap of the slots that follow.
ForEachRelr(table) ==
  LET Step(acc, entry) ==
        IF entry % 2 = 0
        THEN [base |-> (entry \div 2) + 1, slots |-> Append(acc.slots, entry \div 2)]
        ELSE [base |-> acc.base + RelrBits,
              slots |-> acc.slots \o SetToSeq({acc.base + k : k \in
                {n \in 0 .. RelrBits - 1 : (entry \div 2^(n + 1)) % 2 = 1}})]
  IN FoldLeft(Step, [base |-> 0, slots |-> <<>>], table).slots

\* The addend a group starts with.  It accumulates over the whole stream.
GroupAddend(group, addend) ==
  IF "has" \notin group.flags THEN 0
  ELSE IF "addend" \in group.flags THEN addend + group.addend ELSE addend

\* The APS2 stream, its SLEB128 numbers already read.
ForEachPackedReloc(packed) ==
  LET Item(group, acc, item) ==
        LET offset == acc.offset + (IF "delta" \in group.flags THEN group.delta ELSE item.delta)
            info == IF "info" \in group.flags THEN group.info ELSE item.info
            addend == IF "has" \in group.flags /\ "addend" \notin group.flags
                      THEN acc.addend + item.addend ELSE acc.addend
        IN [offset |-> offset, addend |-> addend,
            out |-> Append(acc.out, [off |-> offset, info |-> info, addend |-> addend])]
      Group(acc, group) ==
        FoldLeft(LAMBDA a, item : Item(group, a, item),
                 [acc EXCEPT !.addend = GroupAddend(group, acc.addend)], group.items)
  IN FoldLeft(Group, [offset |-> packed.offset, addend |-> 0, out |-> <<>>], packed.groups).out

\* A definition of its own, the interposed functions, DT_NEEDED, the global scope;
\* a weak symbol found nowhere is 0.  Addresses outside the image are small numbers.
ResolveSymbol(sym, bias, handles) ==
  IF sym.own THEN bias + sym.value
  ELSE IF "interpose" \in sym.scopes THEN 1
  ELSE IF "needed" \in sym.scopes /\ handles # {} THEN 2
  ELSE IF "default" \in sym.scopes THEN 3 ELSE 0
Unresolved(sym, handles) ==
  ~sym.own /\ ~sym.weak /\ ResolveSymbol(sym, 0, handles) = 0

Executable(mem, a) == a \in DOMAIN mem /\ "x" \in mem[a].prot
Write(acc, where, v) ==
  IF where \in DOMAIN acc.mem /\ "w" \in acc.mem[where].prot
  THEN [acc EXCEPT !.mem[where].val = v] ELSE [acc EXCEPT !.segv = TRUE]

\* The lambda apply of Relocate.  A resolver returns its own address; GLOB_DAT is as
\* JUMP_SLOT.
Apply(elf, bias, handles, acc, rel) ==
  LET where == bias + rel.off
      type == rel.info.type
      sym == elf.syms[rel.info.sym]
      value == ResolveSymbol(sym, bias, handles)
  IN IF where \notin DOMAIN acc.mem THEN [acc EXCEPT !.ok = FALSE]
     ELSE IF type = "none" THEN acc
     ELSE IF type = "tls" THEN [acc EXCEPT !.ok = FALSE]
     ELSE IF type = "relative" THEN Write(acc, where, bias + rel.addend)
     ELSE IF type = "irelative"
     THEN IF Executable(acc.mem, bias + rel.addend)
          THEN Write(acc, where, bias + rel.addend) ELSE [acc EXCEPT !.segv = TRUE]
     ELSE IF Unresolved(sym, handles) THEN [acc EXCEPT !.ok = FALSE]
     ELSE IF sym.own /\ sym.ifunc /\ ~Executable(acc.mem, value) THEN [acc EXCEPT !.segv = TRUE]
     ELSE IF type = "jump_slot" THEN Write(acc, where, value)
     ELSE IF type = "abs" THEN Write(acc, where, value + rel.addend)
     ELSE [acc EXCEPT !.ok = FALSE]

\* RELR, then APS2 to its end, then the plain tables up to the first failure: RELA with
\* an addend of its own, REL with the word in place.
Relocated(elf, im, handles) ==
  LET bias == im.bias
      Relative(acc, slot) ==
        IF bias + slot \in DOMAIN acc.mem
        THEN Write(acc, bias + slot, acc.mem[bias + slot].val + bias)
        ELSE [acc EXCEPT !.segv = TRUE]
      ApplyOne(acc, rel) == Apply(elf, bias, handles, acc, rel)
      WhileOk(acc, rel) ==
        IF ~acc.ok THEN acc
        ELSE IF elf.rela THEN ApplyOne(acc, rel)
        ELSE IF bias + rel.off \notin DOMAIN acc.mem THEN [acc EXCEPT !.segv = TRUE]
        ELSE ApplyOne(acc, [rel EXCEPT !.addend = acc.mem[bias + rel.off].val])
      relr == FoldLeft(Relative, [mem |-> im.mem, ok |-> TRUE, segv |-> FALSE],
                       ForEachRelr(elf.relr))
      packed == FoldLeft(ApplyOne, relr, ForEachPackedReloc(elf.packed))
  IN FoldLeft(WhileOk, packed, elf.plain)

------------------------------------------------------------------------------
(* Image::Load, a step at a time, and modloader::Dlopen around it.          *)

Held == walk.on                             \* g_images_lock
At(stage) == main.at = "load" /\ img[main.id].stage = stage
This == Elfs[main.id]
Becomes(im) == img' = [img EXCEPT ![main.id] = im]

\* Opening a library that is not resident loads it, closing its last handle unloads it.
OpenLibs(S) ==
  /\ refs' = [l \in Libs |-> IF l \in S THEN refs[l] + 1 ELSE refs[l]]
  /\ counters' = [counters EXCEPT !.load = @ + Cardinality({l \in S : refs[l] = 0})]
CloseLibs(open, S, more) ==
  /\ refs' = [l \in Libs |-> IF l \in S THEN open[l] - 1 ELSE open[l]]
  /\ counters' = [load |-> counters.load + more,
                  unload |-> counters.unload + Cardinality({l \in S : open[l] = 1})]

\* Mutant: the handles of the DT_NEEDED libraries are forgotten.
DestroyedLeaking(open, S, more) == CloseLibs(open, {}, more)

\* ~Image, after the destructors: dlclose what was opened,
Destroyed(open, S, more) == CloseLibs(open, S, more)

\* and munmap the reservation, as far as the image knows of it.
Unmapped(im, stage) ==
  [NoImage EXCEPT !.stage = stage, !.mem = [a \in DOMAIN im.mem \ im.map |-> im.mem[a]]]

Proceeds(im) == Becomes(im) /\ UNCHANGED <<refs, counters>>
Refused == Proceeds(Unmapped(img[main.id], "failed"))
others == <<world, main, g_images, modules, solist, scrub, walk>>

\* The ELF header and the program headers; PT_TLS is refused before anything is mapped.
ReadHeaders ==
  /\ At("none") /\ world.custom
  /\ \/ (This.tls \/ Fails("header")) /\ Refused
     \/ ~This.tls /\ Proceeds([NoImage EXCEPT !.stage = "headers"])
  /\ UNCHANGED <<others, segv>>

\* MapSegments: the reservation, recorded once it is trimmed, and then a segment at a time;
\* any of the calls may fail, with the segments before in place.
ReserveSegments ==
  /\ At("headers")
  /\ \/ Fails("mmap") /\ Refused
     \/ \E raw \in RawBases :
          Proceeds([NoImage EXCEPT
            !.stage = "reserved", !.bias = Aligned(This, raw) - MinVaddr(This),
            !.map = Aligned(This, raw) .. Aligned(This, raw) + Span(This) - 1,
            !.mem = Reserved(This, raw)])
  /\ UNCHANGED <<others, segv>>

MapSegment ==
  /\ At("reserved")
  /\ \/ Fails("mmap") /\ Refused
     \/ LET im == img[main.id]
            k == im.segs + 1
        IN Proceeds([im EXCEPT !.segs = k, !.mem = Filled(@, im.bias, This.loads[k]),
                               !.stage = IF k = Len(This.loads) THEN "mapped" ELSE @])
  /\ UNCHANGED <<others, segv>>

\* DT_TEXTREL and DF_TEXTREL are refused, and a file without its dynamic section, string
\* table or symbol table.
ParseDynamic ==
  /\ At("mapped")
  /\ IF This.textrel \/ Fails("malformed") THEN Refused
     ELSE Proceeds([img[main.id] EXCEPT !.stage = "parsed"])
  /\ UNCHANGED <<others, segv>>

Pages(im, vaddr, memsz) == im.bias + PageStart(vaddr) .. im.bias + PageEnd(vaddr + memsz) - 1
Protected(elf, im) ==
  LET Protect(mem, ph) ==
        [a \in DOMAIN mem |-> IF a \in Pages(im, ph.vaddr, ph.memsz)
                              THEN [mem[a] EXCEPT !.prot = ph.flags] ELSE mem[a]]
  IN [im EXCEPT !.mem = FoldLeft(Protect, @, elf.loads)]

\* PROT_EXEC may be denied on anonymous memory; a rejected PROT_BTI is retried without.
SetSegmentProtections ==
  /\ At("parsed")
  /\ \/ Fails("exec") /\ world.anonymous /\ Refused
     \/ Proceeds([Protected(This, img[main.id]) EXCEPT !.stage = "protected"])
  /\ UNCHANGED <<others, segv>>

\* The DT_NEEDED libraries are opened first; one that cannot be is passed over.  An APS2
\* stream without its magic is refused.
Relocate ==
  /\ At("protected")
  /\ \E handles \in SUBSET This.needed :
       /\ handles = This.needed \/ Fails("needed")
       /\ LET done == Relocated(This, img[main.id], handles)
              open == [l \in Libs |-> IF l \in handles THEN refs[l] + 1 ELSE refs[l]]
          IN /\ segv' = (segv \/ done.segv)
             /\ \/ /\ done.ok
                   /\ Becomes([img[main.id] EXCEPT !.stage = "relocated", !.mem = done.mem,
                                 !.handles = handles])
                   /\ OpenLibs(handles)
                \/ /\ ~done.ok \/ (Fails("magic") /\ This.packed.groups # <<>>)
                   /\ Becomes(Unmapped(img[main.id], "failed"))
                   /\ Destroyed(open, handles, Cardinality({l \in handles : refs[l] = 0}))
  /\ UNCHANGED others

\* Mutant: the cache is cleared over the whole reservation.
FlushedWhole(elf, im) == DOMAIN im.mem

Flushed(elf, im) == UNION {Pages(im, ph.vaddr, ph.memsz) : ph \in Loads(elf)}

ApplyRelro ==
  /\ At("relocated")
  /\ LET im == img[main.id]
         relro == Pages(im, This.relro.vaddr, This.relro.memsz)
     IN /\ Becomes([im EXCEPT !.stage = "sealed",
                      !.mem = [a \in DOMAIN @ |-> IF a \in relro THEN [@[a] EXCEPT !.prot = {"r"}]
                                                  ELSE @[a]]])
        /\ segv' = (segv \/ \E a \in Flushed(This, im) : im.mem[a].prot = {})
  /\ UNCHANGED <<others, refs, counters>>

\* Constructors may register an exit handler, destructors run it.
Registering(i) == IF Elfs[i].atexit THEN Registers(i) ELSE UNCHANGED atexitVars
Finalizing(i) == IF Elfs[i].atexit THEN Finalizes(i) ELSE UNCHANGED atexitVars

\* Code of the module runs: from its text, which must be there and executable.
Runs(elf, im) == Executable(im.mem, im.bias + elf.text)

CallConstructors ==
  /\ At("sealed")
  /\ Becomes([img[main.id] EXCEPT !.stage = "constructed"])
  /\ segv' = (segv \/ ~Runs(This, img[main.id]))
  /\ Registering(main.id)
  /\ UNCHANGED <<others, refs, counters>>

\* Dlsym for the entry point; the module's own code then decides whether it wants to be
\* unloaded.  run_modules_pre goes on with the next one.
Opened ==
  /\ modules' = IF This.entry THEN Append(modules, main.id) ELSE modules
  /\ main' = IF main.id = Len(Elfs) THEN [at |-> "post", id |-> 0]
             ELSE [at |-> "load", id |-> main.id + 1]

Register ==
  /\ At("constructed") /\ ~Held
  /\ g_images' = g_images \cup {main.id}
  /\ Becomes([img[main.id] EXCEPT !.stage = "registered"])
  /\ Opened
  /\ UNCHANGED <<world, solist, refs, counters, scrub, walk, segv>>

\* The mappings the system linker makes, of the memfd the daemon sent.
RangesOf(i) ==
  [k \in DOMAIN Elfs[i].ranges |->
     [id |-> i, prot |-> Elfs[i].ranges[k], name |-> "zygisk-module", private |-> TRUE, val |-> 0]]

\* DlopenMem, when the custom linker is off, refused, or failed.
SystemLoads ==
  /\ At("failed") \/ (At("none") /\ ~world.custom)
  /\ \/ /\ solist' = solist \cup {main.id}
        /\ refs' = [l \in Libs |-> IF l \in This.needed THEN refs[l] + 1 ELSE refs[l]]
        /\ counters' = [counters EXCEPT !.load =
             @ + 1 + Cardinality({l \in This.needed : refs[l] = 0})]
        /\ Becomes([img[main.id] EXCEPT !.stage = "system"])
        /\ Opened /\ Registering(main.id) /\ Mmaps(RangesOf(main.id))
     \/ /\ Fails("system")
        /\ Becomes([img[main.id] EXCEPT !.stage = "absent"])
        /\ main' = IF main.id = Len(Elfs) THEN [at |-> "post", id |-> 0]
                   ELSE [at |-> "load", id |-> main.id + 1]
        /\ UNCHANGED <<modules, solist, refs, counters, atexitVars, mapsVars>>
  /\ UNCHANGED <<world, g_images, scrub, walk, segv>>

------------------------------------------------------------------------------
(* run_modules_post, and the walk.                                          *)

\* Mutant: every module with an entry point is counted, hidden ones too.
CountedAll == {i \in Ids : \E k \in DOMAIN modules : modules[k] = i}

Counted == {i \in Ids : \E k \in DOMAIN modules : modules[k] = i} \ g_images

\* The count of the modules the system linker loaded, before any is unloaded.
CountSystemLoaded ==
  /\ main.at = "post" /\ ~Held
  /\ scrub' = [loaded |-> Cardinality(Counted)]
  /\ main' = [at |-> "unload", id |-> Len(modules)]
  /\ UNCHANGED <<world, img, g_images, modules, solist, refs, counters, walk, segv>>

Module == modules[main.id]
NextModule == main' = [at |-> "unload", id |-> main.id - 1]

KeepsModule ==
  /\ main.at = "unload" /\ main.id > 0 /\ ~Elfs[Module].unload
  /\ NextModule
  /\ UNCHANGED <<world, img, g_images, modules, solist, refs, counters, scrub, walk, segv>>

\* linker::Dlclose, in reverse order of loading: the image leaves the registry first.
Unregister ==
  /\ main.at = "unload" /\ main.id > 0 /\ ~Held
  /\ Elfs[Module].unload /\ Module \in g_images
  /\ g_images' = g_images \ {Module}
  /\ main' = [main EXCEPT !.at = "destroy"]
  /\ UNCHANGED <<world, img, modules, solist, refs, counters, scrub, walk, segv>>

Destroy ==
  /\ main.at = "destroy"
  /\ segv' = (segv \/ ~Runs(Elfs[Module], img[Module]))
  /\ Finalizing(Module)
  /\ Destroyed(refs, img[Module].handles, 0)
  /\ img' = [img EXCEPT ![Module] = Unmapped(@, "closed")]
  /\ NextModule
  /\ UNCHANGED <<world, g_images, modules, solist, scrub, walk>>

\* The system linker drops the records of modules, and unloads the libraries nobody else
\* holds; then resetCounters takes reset from each of its counters that is no less.
Unlinks(S, stage, reset) ==
  LET left(l) == refs[l] - Cardinality({i \in S : l \in Elfs[i].needed})
      unloaded == counters.unload + Cardinality(S)
                  + Cardinality({l \in Libs : refs[l] > 0 /\ left(l) = 0})
      Less(n) == IF n >= reset THEN n - reset ELSE n
  IN /\ solist' = solist \ S
     /\ img' = [i \in Ids |-> IF i \in S THEN [img[i] EXCEPT !.stage = stage] ELSE img[i]]
     /\ refs' = [l \in Libs |-> left(l)]
     /\ counters' = [load |-> Less(counters.load), unload |-> Less(unloaded)]

SystemUnloads ==
  /\ main.at = "unload" /\ main.id > 0
  /\ Elfs[Module].unload /\ Module \notin g_images
  /\ Unlinks({Module}, "closed", 0) /\ Finalizing(Module) /\ Munmaps(Module)
  /\ NextModule
  /\ UNCHANGED <<world, g_images, modules, scrub, walk, segv>>

\* clean_libc_trace, if every module was unloaded.  A system_server that was injected late
\* has no HookContext and cleans nothing.
Unloaded == {k \in DOMAIN modules : Elfs[modules[k]].unload}
CleanLibc ==
  /\ main.at = "unload" /\ main.id = 0
  /\ \/ /\ modules # <<>> /\ ~Fails("g_hook") /\ Unloaded = DOMAIN modules
        /\ main' = [at |-> "libc", id |-> 0] /\ libc' = [libc EXCEPT !.pc = "find"]
     \/ /\ modules # <<>> /\ ~Fails("g_hook") /\ Unloaded # DOMAIN modules
        /\ main' = [at |-> "trace", id |-> 0] /\ UNCHANGED libc
     \/ /\ modules = <<>> \/ Fails("g_hook")
        /\ main' = [at |-> "done", id |-> 0] /\ UNCHANGED libc
  /\ UNCHANGED <<world, img, g_images, modules, solist, refs, counters, scrub, walk, segv,
                 g_array, g_atexit_lock, user, handlers>>

CleaningLibc ==
  /\ main.at = "libc"
  /\ scrubFingerprint(Fails("symbols"), Fails("protect"))
  /\ main' = IF libc'.pc = "done" THEN [at |-> "trace", id |-> 0] ELSE main
  /\ UNCHANGED <<world, img, g_images, modules, solist, refs, counters, scrub, walk, segv>>

\* clean_linker_trace: dropSoPath drops every record with the modules' path, the memory of
\* which it made nobody's: a module that was kept stays, without a record.  resetCounters
\* takes back what run_modules_post counted.  Both give up when the linker's symbols are
\* not found, and resetCounters when there are no counters.
Scrub ==
  /\ main.at = "trace"
  /\ main' = [at |-> IF Unloaded # DOMAIN modules /\ world.anonymous THEN "spoof" ELSE "done",
              id |-> 0]
  /\ \/ /\ scrub.loaded > 0 /\ ~Fails("solist")
        /\ Unlinks(solist, "unlisted", IF Fails("counters") THEN 0 ELSE scrub.loaded)
     \/ /\ scrub.loaded = 0 \/ Fails("solist")
        /\ UNCHANGED <<img, solist, refs, counters>>
  /\ UNCHANGED <<world, g_images, modules, scrub, walk, segv>>

\* should_spoof_maps and anonymous_memory_enabled: done in the pthread_attr_setstacksize
\* hook, on the same thread.
SpoofMaps ==
  /\ main.at = "spoof"
  /\ spoof_module_maps \/ SpoofSteps(Fails("spoof"))
  /\ main' = IF spoof'.pc = "done" THEN [at |-> "done", id |-> 0] ELSE main
  /\ UNCHANGED <<world, img, g_images, modules, solist, refs, counters, scrub, walk, segv>>

\* dl_iterate_phdr called by a thread of a module that stays: ForEachImage holds the lock
\* over the callbacks, each of which reads the program headers of an image and may end
\* the walk.
WalkBegins ==
  /\ ~Held
  /\ \E i \in Ids : img[i].stage \in {"constructed", "registered"} /\ ~Elfs[i].unload
  /\ walk' = [on |-> TRUE, left |-> g_images]
  /\ UNCHANGED <<world, main, img, g_images, modules, solist, refs, counters, scrub, segv>>

Reports ==
  /\ Held
  /\ \E j \in walk.left :
       /\ segv' = (segv \/ img[j].mem = <<>>)
       /\ \E left \in {walk.left \ {j}, {}} : walk' = [on |-> TRUE, left |-> left]
  /\ UNCHANGED <<world, main, img, g_images, modules, solist, refs, counters, scrub>>

WalkEnds ==
  /\ Held /\ walk.left = {}
  /\ walk' = [on |-> FALSE, left |-> {}]
  /\ UNCHANGED <<world, main, img, g_images, modules, solist, refs, counters, scrub, segv>>

\* The process goes on to be the app.
Specialized == main.at = "done" /\ UNCHANGED vars

\* The other thread.
loaderVars == <<world, main, img, g_images, modules, solist, refs, counters, scrub, walk, segv>>
UsesAtexit ==
  /\ \/ world.user = "appends" /\ UserAppends("idle")
     \/ world.user = "closes" /\ (UserFinalizes \/ UserAppends("call"))
  /\ UNCHANGED <<loaderVars, mapsVars>>
Stores == world.stores /\ ModuleStores /\ UNCHANGED <<loaderVars, atexitVars>>

Next ==
  \/ Specialized \/ SystemLoads \/ SystemUnloads \/ UsesAtexit \/ Stores
  \/ /\ CallConstructors \/ Destroy \/ CleanLibc \/ CleaningLibc
     /\ UNCHANGED mapsVars
  \/ SpoofMaps /\ UNCHANGED atexitVars
  \/ /\ \/ ReadHeaders \/ ReserveSegments \/ MapSegment \/ ParseDynamic
        \/ SetSegmentProtections \/ Relocate \/ ApplyRelro \/ Register \/ CountSystemLoaded \/ KeepsModule \/ Unregister \/ Scrub
        \/ WalkBegins \/ Reports \/ WalkEnds
     /\ UNCHANGED <<atexitVars, mapsVars>>

Spec == Init /\ [][Next]_vars

------------------------------------------------------------------------------
(* Properties.                                                              *)

Stages == {"none", "headers", "reserved", "mapped", "parsed", "protected", "relocated", "sealed",
           "constructed", "registered", "failed", "system", "absent", "closed", "unlisted"}

TypeOK ==
  /\ main.at \in {"load", "post", "unload", "destroy", "libc", "trace", "spoof", "done"} /\ main.id \in 0 .. Len(Elfs)
  /\ \A i \in Ids :
       /\ img[i].stage \in Stages /\ img[i].handles \subseteq Libs
       /\ \A a \in DOMAIN img[i].mem : img[i].mem[a].prot \subseteq {"r", "w", "x"}
  /\ g_images = {i \in Ids : img[i].stage = "registered"} \ {modules[k] : k \in
                   {n \in DOMAIN modules : main.at = "destroy" /\ n = main.id}}
  /\ solist = {i \in Ids : img[i].stage = "system"}
  /\ modules \in Seq(Ids) /\ refs \in [Libs -> Nat] /\ scrub.loaded \in 0 .. Len(Elfs)
  /\ AtexitTypeOK

\* What a word of a loadable segment holds once the file is mapped, and once the
\* relocations the link editor asked for (elf.relocs) are applied.
Image(elf, ph, i) == IF i < ph.filesz THEN FileWord(ph.offset + i) ELSE 0
LinkedWord(elf, im, ph, i) ==
  LET here == {r \in elf.relocs : r.off = ph.vaddr + i}
      r == CHOOSE x \in here : TRUE
  IN IF here = {} THEN Image(elf, ph, i)
     ELSE IF r.type = "relr" THEN Image(elf, ph, i) + im.bias
     ELSE IF r.type \in {"relative", "irelative"} THEN im.bias + r.addend
     ELSE ResolveSymbol(elf.syms[r.sym], im.bias, im.handles)
          + (IF r.type = "abs" THEN r.addend ELSE 0)

\* MapSegments and Relocate build the image the link editor described, in anonymous and
\* in file-backed memory: file words in place, .bss clear, every relocation applied once,
\* from RELR, from the packed RELA, or from the plain RELA or REL tables (DT_ANDROID_REL is
\* left out), and nothing mapped beyond the span.
MappedAsLinked ==
  \A i \in Ids :
    LET im == img[i]
        elf == Elfs[i]
    IN /\ im.stage \in {"mapped", "parsed", "protected"} =>
            \A ph \in Loads(elf) : \A k \in 0 .. ph.memsz - 1 :
              im.mem[im.bias + ph.vaddr + k].val = Image(elf, ph, k)
       /\ im.stage \in {"relocated", "sealed", "constructed", "registered"} =>
            \A ph \in Loads(elf) : \A k \in 0 .. ph.memsz - 1 :
              im.mem[im.bias + ph.vaddr + k].val = LinkedWord(elf, im, ph, k)
       /\ im.mem # <<>> => Cardinality(DOMAIN im.mem) = Span(elf)

\* No step of the loader faults: resolvers, constructors and destructors run from
\* executable memory, relocations are written before RELRO is sealed, the cache flush
\* keeps to mapped pages, and a walk reports no image that is gone.
NeverFaults == ~segv

\* linker.cpp:819, "~Image unmaps whatever was mapped": a load that fails, at whatever
\* step, and an unload leave nothing behind.  No word stays mapped, of the reservation, its
\* slack or a segment, and every library has as many handles as its users: the images that
\* opened it and the modules in the system linker's list.  A module that stays when the
\* scrub drops its record (solist.cpp:223) holds no library any more: one only it had
\* brought in is unloaded under it.
NothingLeaks ==
  /\ \A i \in Ids :
       img[i].stage \in {"none", "headers", "failed", "system", "absent", "closed", "unlisted"}
         => img[i].mem = <<>> /\ img[i].handles = {}
  /\ \A l \in Libs :
       refs[l] = (IF l \in world.resident THEN 1 ELSE 0)
                 + Cardinality({i \in Ids : l \in img[i].handles})
                 + Cardinality({i \in solist : l \in Elfs[i].needed})

\* After the scrub the system linker shows nothing of the modules: none in its list, and
\* both counters, if it has them, where they were.  It takes a HookContext, which a
\* system_server that was injected late has not (module.cpp:390), and the linker's symbols
\* (solist.cpp:180); and for the counters every module has an entry point and brought in no
\* library of its own.
Scrubbed == main.at \in {"spoof", "done"} /\ {"g_hook", "solist"} \cap world.faults = {}
ScrubRestores ==
  Scrubbed /\ modules # <<>> =>
    /\ scrub.loaded > 0 => solist = {}
    /\ Libs \subseteq world.resident /\ (\A i \in Ids : Elfs[i].entry) /\ ~Fails("counters")
         => solist = {} /\ counters = [load |-> 0, unload |-> 0]

\* clean.cpp:284-294, "with no intermediate state": at every instant a mapping can be read,
\* written and executed as before, except that a private range of all three loses the write
\* bit with its name, and the replaced mapping and the scratch copy are writable and
\* executable only where the range was both without being readable.  Mappings of other names,
\* the JIT's, are left alone.  Contents survive if the module does not store meanwhile.  When
\* the spoof ends no copy is left, and if no call failed no name is.
SpoofFaithful == Faithful(world.stores, Fails("spoof"))
=============================================================================
