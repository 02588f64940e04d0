------------------------------- MODULE MCLinker -------------------------------
(* Instances of Linker for model checking: modules as a link editor lays them out, with
   their relocations packed in different tables.  relocs lists what was packed. *)
EXTENDS Linker

Seg(vaddr, offset, filesz, memsz, align, flags) ==
  [vaddr |-> vaddr, offset |-> offset, filesz |-> filesz, memsz |-> memsz,
   align |-> align, flags |-> flags]
Info(type, sym) == [type |-> type, sym |-> sym]
Rel(off, type, sym, addend) == [off |-> off, info |-> Info(type, sym), addend |-> addend]
Asked(off, type, sym, addend) == [off |-> off, type |-> type, sym |-> sym, addend |-> addend]
Item(delta, info, addend) == [delta |-> delta, info |-> info, addend |-> addend]
Group(flags, delta, info, addend, items) ==
  [flags |-> flags, delta |-> delta, info |-> info, addend |-> addend, items |-> items]

Undefined == [own |-> FALSE, ifunc |-> FALSE, value |-> 0, scopes |-> {}, weak |-> FALSE]
Syms ==
  [none |-> Undefined,
   mine |-> [Undefined EXCEPT !.own = TRUE, !.value = 5],
   pick |-> [Undefined EXCEPT !.own = TRUE, !.value = 1, !.ifunc = TRUE],
   phdr |-> [Undefined EXCEPT !.scopes = {"interpose", "default"}],
   dep  |-> [Undefined EXCEPT !.scopes = {"needed"}],
   libc |-> [Undefined EXCEPT !.scopes = {"default"}],
   weak |-> [Undefined EXCEPT !.weak = TRUE]]

RX == {"r", "x"}
No == Item(0, Info("none", "none"), 0)
Bare ==
  [loads |-> <<Seg(0, 0, 3, 3, 4, RX), Seg(4, 4, 2, 2, 1, RW)>>,
   relr |-> <<>>, packed |-> [offset |-> 0, groups |-> <<>>], plain |-> <<>>,
   rela |-> TRUE, relocs |-> {}, syms |-> Syms, tls |-> FALSE, textrel |-> FALSE,
   needed |-> {}, relro |-> [vaddr |-> 4, memsz |-> 0], text |-> 1,
   entry |-> TRUE, unload |-> TRUE, atexit |-> FALSE, ranges |-> <<>>]

\* A hole between the segments, .bss within the last page of the file, RELR and APS2.
Relr ==
  [Bare EXCEPT
    !.loads = <<Seg(0, 0, 3, 3, 8, RX), Seg(9, 5, 5, 6, 8, RW)>>,
    !.relr = <<18, 5, 3>>,
    !.packed = [offset |-> 0, groups |->
      <<Group({"info", "has"}, 0, Info("relative", "none"), 0, <<Item(10, No.info, 1)>>),
        Group({"info", "delta", "has", "addend"}, 2, Info("irelative", "none"), -1, <<No>>)>>],
    !.relocs = {Asked(9, "relr", "none", 0), Asked(11, "relr", "none", 0),
                Asked(13, "relr", "none", 0), Asked(10, "relative", "none", 1),
                Asked(12, "irelative", "none", 0)},
    !.relro = [vaddr |-> 9, memsz |-> 3]]

\* .bss beyond the file, symbols of every scope, a library of its own; stays loaded.
Packed ==
  [Bare EXCEPT
    !.loads = <<Seg(0, 0, 4, 4, 4, RX), Seg(4, 4, 7, 13, 4, RW)>>,
    !.packed = [offset |-> 0, groups |->
      <<Group({"has"}, 0, No.info, 0,
              <<Item(4, Info("relative", "none"), 2), Item(1, Info("abs", "mine"), 1)>>),
        Group({"info", "delta"}, 1, Info("abs", "dep"), 0, <<No, No>>),
        Group({"info", "has", "addend"}, 0, Info("abs", "libc"), 2, <<Item(1, No.info, 0)>>)>>],
    !.plain = <<Rel(9, "jump_slot", "weak", 0), Rel(10, "abs", "phdr", 1), Rel(16, "none", "none", 0)>>,
    !.relocs = {Asked(4, "relative", "none", 2), Asked(5, "abs", "mine", 3),
                Asked(6, "abs", "dep", 0), Asked(7, "abs", "dep", 0), Asked(8, "abs", "libc", 2),
                Asked(9, "jump_slot", "weak", 0), Asked(10, "abs", "phdr", 1)},
    !.needed = {"lib"}, !.unload = FALSE]

\* A 32-bit module: REL, addends in place, an ifunc of its own.
Rel32 ==
  [Bare EXCEPT !.rela = FALSE, !.needed = {"lib"},
    !.plain = <<Rel(4, "jump_slot", "pick", 0), Rel(5, "abs", "mine", 0)>>,
    !.relocs = {Asked(4, "jump_slot", "pick", 0), Asked(5, "abs", "mine", FileWord(5))}]

Tls == [Bare EXCEPT !.tls = TRUE, !.needed = {"lib"}]
TlsReloc == [Bare EXCEPT !.plain = <<Rel(4, "tls", "none", 0)>>, !.needed = {"lib"}, !.unload = FALSE]
TextRel == [Bare EXCEPT !.textrel = TRUE, !.entry = FALSE]

Mapping(prot, name, private) ==
  [id |-> 0, prot |-> prot, name |-> name, private |-> private, val |-> 0]

LoadWorlds ==
  [elfs : {<<Relr, Packed>>, <<Packed, Rel32>>, <<Tls, Packed>>, <<TlsReloc, Relr>>,
           <<TextRel, Rel32, Packed>>, <<Packed, Tls, Relr>>},
   custom : BOOLEAN, anonymous : BOOLEAN, resident : SUBSET Libs,
   faults : {{}, {"header", "system"}, {"mmap", "needed"}, {"exec"}, {"malformed"}, {"magic"},
             {"g_hook"}, {"solist"}, {"counters"}},
   user : {"none"}, orphan : {FALSE}, stores : {FALSE}, rest : {<<>>}]

\* Modules with exit handlers, all unloaded, some through the system linker; the other
\* thread registers handlers, or closes a library.
Exits == [Bare EXCEPT !.atexit = TRUE]
ExitsTls == [Exits EXCEPT !.tls = TRUE]
AtexitWorlds ==
  [elfs : {<<Exits, Exits>>, <<ExitsTls, Bare, Exits>>},
   custom : {TRUE}, anonymous : {FALSE}, resident : {Libs},
   faults : {{}, {"symbols", "protect"}},
   user : {"appends", "closes"}, orphan : {FALSE}, stores : {FALSE}, rest : {<<>>}]
  \cup
  [elfs : {<<Bare>>}, custom : {TRUE}, anonymous : {FALSE}, resident : {Libs}, faults : {{}},
   user : {"none"}, orphan : {TRUE}, stores : {FALSE}, rest : {<<>>}]

\* A module the system linker loaded and keeps, with the mappings of a module of the other
\* interface and of the JIT around it.
Kept == [Tls EXCEPT !.needed = {}, !.unload = FALSE, !.ranges = <<RX, {"x"}, RW>>]
KeptRwx == [Kept EXCEPT !.ranges = <<{"r", "w", "x"}, {"r"}>>]
MapsWorlds ==
  [elfs : {<<Kept>>, <<KeptRwx>>, <<Kept, KeptRwx>>},
   custom : {TRUE}, anonymous : {TRUE}, resident : {Libs}, faults : {{}, {"spoof"}},
   user : {"none"}, orphan : {FALSE}, stores : BOOLEAN,
   rest : {<<Mapping({"r", "w", "x"}, "jit", TRUE), Mapping(RW, "zn-module", TRUE),
             Mapping({"r"}, "zn-module", FALSE)>>}]

AllWorlds == LoadWorlds \cup AtexitWorlds \cup MapsWorlds
=============================================================================
