-------------------------------- MODULE Hooks --------------------------------
(***************************************************************************)
(* HookContext: what the injected library has hooked in a process, and     *)
(* ZygiskContext as far as the hooks look at it.  The zygote owns one, and *)
(* every process it forks a copy.                                          *)
(*                                                                         *)
(* A slot is an import of a library; open, openat, close and read of the   *)
(* runtime libraries, which share the pointer to the original, are         *)
(* represented by one import of two libraries.                             *)
(***************************************************************************)
EXTENDS Naturals, FiniteSets

LibSlots == {"open@runtime", "open@art"}
RuntimeSlots == {"fork", "unshare", "strdup", "property_get"}
Unloader == "pthread_attr_setstacksize"
Symbol(slot) == IF slot \in LibSlots THEN "open" ELSE slot

\* plt: the slots that lead into the library.  backup: plt_backup.  jni: whether the zygote's
\* native methods do.  ctx: g_ctx, by its pid ("forked" when it is not negative).
HookContext ==
  [entered |-> FALSE, plt |-> {}, backup |-> {}, jni |-> FALSE, zygote_hooked |-> FALSE,
   unloader_triggered |-> FALSE, ctx |-> "none", unmap |-> FALSE]

\* Imports that are missing are not hooked.  Entries whose original is unknown leave the
\* backup: one whose pointer another library's import has filled in stays.
hook_plt(h, missing) ==
  LET slots == (RuntimeSlots \cup LibSlots) \ missing
  IN [h EXCEPT !.entered = TRUE, !.plt = slots,
               !.backup = {s \in RuntimeSlots \cup LibSlots : Symbol(s) \in {Symbol(t) : t \in slots}}]

\* Mutant: the unloader's hook is not recorded.
UnloaderUnrecorded(h, missing) == [h EXCEPT !.plt = @ \cup ({Unloader} \ missing)]

hook_unloader(h, missing) ==
  [h EXCEPT !.plt = @ \cup ({Unloader} \ missing), !.backup = @ \cup {Unloader}]

\* strdup of the name of ZygoteInit; hook_zygote_jni may find nothing to hook.
new_strdup(h, fails) ==
  IF h.zygote_hooked THEN h ELSE [h EXCEPT !.zygote_hooked = TRUE, !.jni = ~fails]

\* The first property_get hooks the unloader and unhooks itself, if it can.
new_property_get(h, missing, stays) ==
  LET u == [hook_unloader(h, missing) EXCEPT !.unloader_triggered = TRUE]
      self == IF stays THEN {} ELSE {"property_get"} \cap u.backup
  IN IF h.unloader_triggered THEN h
     ELSE [u EXCEPT !.plt = @ \ self, !.backup = @ \ self]

\* new_fork: whether a call of fork through the hooked slot makes a process.
new_fork(h) == "fork" \notin h.plt \/ h.ctx # "forked"

\* Mutant: g_ctx goes on pointing to the stack.
TornButContext(h, stays) == [h EXCEPT !.unmap = TRUE, !.jni = @ /\ stays]

\* ~ZygiskContext in a child, with restore_zygote_hook, after which the native methods may
\* still lead into the library: the failures of hook_jni_methods are not reported.
Torn(h, stays) == [h EXCEPT !.ctx = "none", !.unmap = TRUE, !.jni = @ /\ stays]

\* A slot that cannot be restored keeps the library in memory.
restore_plt_hook(h, failed) ==
  [h EXCEPT !.plt = @ \ (h.backup \ failed), !.unmap = @ /\ failed = {}]
=============================================================================
