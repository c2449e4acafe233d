------------------------------ MODULE MCSched ------------------------------
(* A small machine: three slots, so that an exited program's slot is used   *)
(* again while kmain and a kernel thread hold the others.                   *)
EXTENDS Sched
============================================================================
