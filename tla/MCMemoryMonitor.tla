---------------------------- MODULE MCMemoryMonitor ----------------------------
(* Instance: a ring of six slots, a period of three ticks.  The windows asked
   for are the whole store, a part of it, more than it, and one whose product
   overflows. *)
EXTENDS MemoryMonitor

Windows == {0, 4, 7, 8}
=============================================================================
