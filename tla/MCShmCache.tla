----------------------------- MODULE MCShmCache ------------------------------
(* Bounds for ShmCache.  Three uids share two slots, so that probes collide, *)
(* wrap around and find the table full; the version word wraps after four    *)
(* sections and a lookup is overtaken by up to two of them.                  *)
EXTENDS ShmCache
=============================================================================
