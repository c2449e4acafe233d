----------------------------- MODULE HeapSpec ------------------------------
(***************************************************************************)
(* What the rest of the kernel relies on when it calls kmalloc and kfree:  *)
(* a live allocation is a run of bytes inside the heap window that no      *)
(* other live allocation touches, and nothing but its own kfree ends it,   *)
(* moves it or shortens it.                                                *)
(***************************************************************************)
EXTENDS Integers

CONSTANTS
  HeapSize,  (* bytes in the window                                         *)
  Requests   (* the sizes callers ask for                                   *)

VARIABLE live  (* live allocations, each a pair <<first byte, length>>      *)

Apart(x, y) == x[1] + x[2] <= y[1] \/ y[1] + y[2] <= x[1]

Init == live = {}

(* A new run of at least n bytes, apart from every live one.                *)
Alloc(n) ==
  \E x \in live' :
    /\ x \in (0 .. HeapSize) \X (n .. HeapSize)
    /\ x[1] + x[2] <= HeapSize
    /\ \A y \in live : x[1] # y[1] /\ Apart(x, y)
    /\ live' = live \union {x}

Release == \E x \in live : live' = live \ {x}

Next == (\E n \in Requests : Alloc(n)) \/ Release

Spec == Init /\ [][Next]_live
============================================================================
