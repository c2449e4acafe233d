------------------------------- MODULE KHeap -------------------------------
(***************************************************************************)
(* The kernel heap (mm/kheap.c): a first-fit list of blocks over a fixed   *)
(* window, each block a header followed by its payload.  A block is named  *)
(* by the address of its header, relative to the start of the window.      *)
(*                                                                         *)
(* One call runs at a time.  Callers free only what kmalloc returned to    *)
(* them and have not freed since, or the null pointer.                     *)
(***************************************************************************)
EXTENDS Integers

CONSTANTS
  HeapSize,  (* KHEAP_SIZE                                                  *)
  Hdr,       (* sizeof(block_t)                                             *)
  Gran,      (* the 16 bytes sizes are rounded to                           *)
  Requests,  (* the sizes callers ask for                                   *)
  Nil        (* the null pointer                                            *)

ASSUME HeapAssumption ==
  /\ HeapSize \in Nat /\ Hdr \in Nat \ {0} /\ Gran \in Nat \ {0}
  /\ HeapSize >= Hdr
  /\ Requests \subseteq Nat
  /\ Nil \notin Int

Addrs == 0 .. HeapSize - 1

VARIABLES
  hdrs,  (* where the list has a header; head is address 0                  *)
  size,  (* block.size, the payload's bytes                                 *)
  next,  (* block.next                                                      *)
  free   (* block.free                                                      *)

vars == <<hdrs, size, next, free>>

TypeOK ==
  /\ hdrs \subseteq Addrs
  /\ size \in [hdrs -> Nat]
  /\ next \in [hdrs -> hdrs \union {Nil}]
  /\ free \in [hdrs -> BOOLEAN]

(* kheap_init: one free block fills the window.                             *)
Init ==
  /\ hdrs = {0}
  /\ size = [b \in hdrs |-> HeapSize - Hdr]
  /\ next = [b \in hdrs |-> Nil]
  /\ free = [b \in hdrs |-> TRUE]

(* (size + 15) & ~15 *)
RoundedUp(n, r) == r \in n .. n + Gran - 1 /\ r % Gran = 0

(* The walk takes the first block that fits.  The list is in address order  *)
(* (Tiling), so the first is the lowest.                                    *)
Fits(b, r) == free[b] /\ size[b] >= r
FirstFit(b, r) ==
  /\ b \in hdrs
  /\ Fits(b, r)
  /\ \A c \in hdrs : c < b => ~Fits(c, r)

(* The block is cut in two when a header and 16 bytes remain.               *)
Splits(b, r) == size[b] >= r + Hdr + Gran

Take(b) ==
  /\ free' = [free EXCEPT ![b] = FALSE]
  /\ UNCHANGED <<hdrs, size, next>>

Split(b, r) ==
  LET nb == b + Hdr + r
  IN  /\ hdrs' = hdrs \union {nb}
      /\ size' = [a \in hdrs' |-> IF a = nb THEN size[b] - r - Hdr
                                 ELSE IF a = b THEN r ELSE size[a]]
      /\ next' = [a \in hdrs' |-> IF a = nb THEN next[b]
                                 ELSE IF a = b THEN nb ELSE next[a]]
      /\ free' = [a \in hdrs' |-> a = nb \/ (a # b /\ free[a])]

(* kmalloc, when some block fits; otherwise it returns null and changes     *)
(* nothing.                                                                 *)
Kmalloc(n) ==
  \E r \in n .. n + Gran - 1 :
    /\ RoundedUp(n, r)
    /\ \E b \in hdrs :
         /\ FirstFit(b, r)
         /\ IF Splits(b, r) THEN Split(b, r) ELSE Take(b)

(* Mutant of Coalesces: a live neighbour is absorbed too.                    *)
CoalescesLive(b) == next[b] # Nil

(* kfree: the block absorbs the next one if that is free too.               *)
Coalesces(b) == next[b] # Nil /\ free[next[b]]

(* Mutant of Absorb: the absorbed header's bytes are forgotten.              *)
AbsorbHeaderLost(b) ==
  /\ hdrs' = hdrs \ {next[b]}
  /\ size' = [a \in hdrs' |-> IF a = b THEN size[b] + size[next[b]] ELSE size[a]]
  /\ next' = [a \in hdrs' |-> IF a = b THEN next[next[b]] ELSE next[a]]
  /\ free' = [a \in hdrs' |-> a = b \/ free[a]]

Absorb(b) ==
  /\ hdrs' = hdrs \ {next[b]}
  /\ size' = [a \in hdrs' |-> IF a = b THEN size[b] + Hdr + size[next[b]] ELSE size[a]]
  /\ next' = [a \in hdrs' |-> IF a = b THEN next[next[b]] ELSE next[a]]
  /\ free' = [a \in hdrs' |-> a = b \/ free[a]]

Mark(b) ==
  /\ free' = [free EXCEPT ![b] = TRUE]
  /\ UNCHANGED <<hdrs, size, next>>

Kfree(b) ==
  /\ ~free[b]
  /\ IF Coalesces(b) THEN Absorb(b) ELSE Mark(b)

Next ==
  \/ \E n \in Requests : Kmalloc(n)
  \/ \E b \in hdrs : Kfree(b)

Spec == Init /\ [][Next]_vars

---------------------------------------------------------------------------
(* Properties.                                                              *)

(* Splitting and coalescing: the blocks tile the window.  Every block ends  *)
(* where the next one in the list begins or at the end of the window, and   *)
(* no header lies inside another block.                                     *)
End(b) == b + Hdr + size[b]
Tiling ==
  /\ 0 \in hdrs
  /\ \A b \in hdrs :
       /\ End(b) <= HeapSize
       /\ next[b] = IF End(b) = HeapSize THEN Nil ELSE End(b)
       /\ End(b) < HeapSize => End(b) \in hdrs
       /\ \A c \in hdrs : b < c => End(b) <= c

(* The promise to callers: the live blocks, seen as payloads.               *)
Live == {<<b + Hdr, size[b]>> : b \in {c \in hdrs : ~free[c]}}
Alloc == INSTANCE HeapSpec WITH live <- Live
AllocSpec == Alloc!Spec
============================================================================
