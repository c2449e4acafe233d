------------------------------ MODULE MemProofs ------------------------------
(***************************************************************************)
(* Proofs about KHeap, for any window, header, granule and request sizes,   *)
(* and about UserMem, for every number of programs, frames and pages and    *)
(* every shape of the page-table tree.  At the end, what the proofs about   *)
(* KHeap and FilesProofs say of MCLists.                                    *)
(***************************************************************************)
EXTENDS MCLists, UserMem, FilesProofs

---------------------------------------------------------------------------
(* KHeap.                                                                   *)

(* The arithmetic of the tiling, spelled out.                               *)
LEMMA BlockFacts ==
  ASSUME TypeOK, Tiling, NEW b \in hdrs
  PROVE  /\ b \in Nat /\ size[b] \in Nat
         /\ End(b) \in Nat /\ b < End(b) /\ End(b) <= HeapSize
         /\ \A c \in hdrs : b < c => End(b) <= c
         /\ \A c \in hdrs : c < b => End(c) <= b
  BY HeapAssumption DEF TypeOK, Addrs, Tiling, End

LEMMA NextFacts ==
  ASSUME TypeOK, Tiling, NEW b \in hdrs, next[b] # Nil
  PROVE  /\ next[b] \in hdrs
         /\ next[b] = End(b)
         /\ next[b] # b
         /\ next[b] # 0
         /\ \A a \in hdrs \ {b} : End(a) # next[b]
  <1>1. next[b] = End(b) /\ End(b) < HeapSize
    BY BlockFacts, HeapAssumption DEF Tiling
  <1>2. next[b] \in hdrs /\ next[b] # b /\ next[b] # 0
    BY <1>1, BlockFacts DEF Tiling
  <1>3. ASSUME NEW a \in hdrs \ {b}
        PROVE  End(a) # next[b]
    <2>1. a \in Nat /\ b \in Nat /\ (a < b \/ b < a)
      BY BlockFacts
    <2>2. CASE a < b
      BY <1>1, <2>1, <2>2, BlockFacts
    <2>3. CASE b < a
      BY <1>1, <2>1, <2>3, BlockFacts
    <2> QED
      BY <2>1, <2>2, <2>3
  <1> QED
    BY <1>1, <1>2, <1>3

---------------------------------------------------------------------------
(* The blocks tile the window.                                              *)

LEMMA InitTiling ==
  ASSUME Init
  PROVE  TypeOK /\ Tiling
  <1>1. 0 \in Addrs /\ HeapSize - Hdr \in Nat
    BY HeapAssumption DEF Addrs
  <1>2. TypeOK
    BY <1>1 DEF Init, TypeOK
  <1>3. End(0) = HeapSize
    BY HeapAssumption DEF Init, End
  <1>4. Tiling
    BY <1>3, HeapAssumption DEF Init, Tiling
  <1> QED
    BY <1>2, <1>4

(* Steps that only change who owns a block.                                 *)
LEMMA OwnerTiling ==
  ASSUME TypeOK, Tiling, NEW b \in hdrs, Take(b) \/ Mark(b)
  PROVE  TypeOK' /\ Tiling'
  <1>1. hdrs' = hdrs /\ size' = size /\ next' = next /\ free' \in [hdrs -> BOOLEAN]
    BY DEF Take, Mark, TypeOK
  <1> QED
    BY <1>1 DEF TypeOK, Tiling, End

LEMMA SplitTiling ==
  ASSUME TypeOK, Tiling, NEW b \in hdrs, NEW r \in Nat, Splits(b, r), Split(b, r)
  PROVE  TypeOK' /\ Tiling'
  <1> DEFINE nb == b + Hdr + r
  <1>1. /\ b \in Nat /\ nb \in Nat /\ End(b) \in Nat
        /\ b < nb /\ nb < End(b) /\ End(b) <= HeapSize
        /\ size[b] - r - Hdr \in Nat
    BY BlockFacts, HeapAssumption DEF Splits, End
  <1>2. nb \notin hdrs
    BY <1>1, BlockFacts
  <1>3. /\ hdrs' = hdrs \union {nb}
        /\ size' = [a \in hdrs' |-> IF a = nb THEN size[b] - r - Hdr
                                   ELSE IF a = b THEN r ELSE size[a]]
        /\ next' = [a \in hdrs' |-> IF a = nb THEN next[b]
                                   ELSE IF a = b THEN nb ELSE next[a]]
        /\ free' = [a \in hdrs' |-> a = nb \/ (a # b /\ free[a])]
    BY DEF Split
  <1> HIDE DEF nb
  <1>4. TypeOK'
    <2>1. hdrs' \subseteq Addrs
      BY <1>1, <1>3, HeapAssumption DEF TypeOK, Addrs
    <2>2. size' \in [hdrs' -> Nat]
      BY <1>1, <1>3 DEF TypeOK
    <2>3. next' \in [hdrs' -> hdrs' \union {Nil}]
      <3>1. \A a \in hdrs : next[a] \in hdrs' \union {Nil}
        BY <1>3 DEF TypeOK
      <3>2. b \in hdrs /\ nb \in hdrs'
        BY <1>3
      <3> QED
        BY <1>3, <3>1, <3>2
    <2>4. free' \in [hdrs' -> BOOLEAN]
      BY <1>3 DEF TypeOK
    <2> QED
      BY <2>1, <2>2, <2>3, <2>4 DEF TypeOK
  <1>5. /\ End(b)' = nb
        /\ End(nb)' = End(b)
        /\ \A a \in hdrs \ {b} : End(a)' = End(a)
    <2>1. size'[b] = r /\ size'[nb] = size[b] - r - Hdr
      BY <1>1, <1>3
    <2>2. \A a \in hdrs \ {b} : size'[a] = size[a]
      BY <1>2, <1>3
    <2> QED
      BY <1>1, <2>1, <2>2, BlockFacts, HeapAssumption DEF End, nb
  <1>6. /\ next'[b] = nb
        /\ next'[nb] = next[b]
        /\ \A a \in hdrs \ {b} : next'[a] = next[a]
    BY <1>1, <1>2, <1>3
  <1>7. ASSUME NEW a \in hdrs'
        PROVE  /\ End(a)' <= HeapSize
               /\ next'[a] = IF End(a)' = HeapSize THEN Nil ELSE End(a)'
               /\ End(a)' < HeapSize => End(a)' \in hdrs'
    <2>1. CASE a = nb
      BY <1>1, <1>3, <1>5, <1>6, <2>1 DEF Tiling
    <2>2. CASE a = b
      BY <1>1, <1>3, <1>5, <1>6, <2>2, HeapAssumption
    <2>3. CASE a \in hdrs \ {b}
      BY <1>3, <1>5, <1>6, <2>3 DEF Tiling
    <2> QED
      BY <1>3, <2>1, <2>2, <2>3
  <1>8. ASSUME NEW a \in hdrs', NEW c \in hdrs', a < c
        PROVE  End(a)' <= c
    <2>1. CASE a = nb
      <3>1. c \in hdrs /\ b < c
        BY <1>1, <1>3, <1>8, <2>1, BlockFacts
      <3> QED
        BY <1>5, <2>1, <3>1, BlockFacts
    <2>2. CASE a = b
      <3>1. CASE c = nb
        BY <1>1, <1>5, <2>2, <3>1
      <3>2. CASE c \in hdrs
        BY <1>1, <1>5, <1>8, <2>2, <3>2, BlockFacts
      <3> QED
        BY <1>3, <3>1, <3>2
    <2>3. CASE a \in hdrs \ {b}
      <3>1. CASE c = nb
        BY <1>1, <1>5, <1>8, <2>3, <3>1, BlockFacts
      <3>2. CASE c \in hdrs
        BY <1>5, <1>8, <2>3, <3>2, BlockFacts
      <3> QED
        BY <1>3, <3>1, <3>2
    <2> QED
      BY <1>3, <2>1, <2>2, <2>3
  <1> QED
    BY <1>3, <1>4, <1>7, <1>8 DEF Tiling

LEMMA AbsorbTiling ==
  ASSUME TypeOK, Tiling, NEW b \in hdrs, next[b] # Nil, Absorb(b)
  PROVE  TypeOK' /\ Tiling'
  <1> DEFINE n == next[b]
  <1>1. /\ n \in hdrs /\ n = End(b) /\ n # b /\ n # 0
        /\ \A a \in hdrs \ {b} : End(a) # n
    BY NextFacts
  <1>2. /\ hdrs' = hdrs \ {n}
        /\ size' = [a \in hdrs' |-> IF a = b THEN size[b] + Hdr + size[n] ELSE size[a]]
        /\ next' = [a \in hdrs' |-> IF a = b THEN next[n] ELSE next[a]]
        /\ free' = [a \in hdrs' |-> a = b \/ free[a]]
    BY DEF Absorb
  <1> HIDE DEF n
  <1>3. End(b)' = End(n) /\ \A a \in hdrs' \ {b} : End(a)' = End(a)
    BY <1>1, <1>2, BlockFacts, HeapAssumption DEF End
  <1>4. b \in hdrs' /\ next'[b] = next[n] /\ \A a \in hdrs' \ {b} : next'[a] = next[a]
    BY <1>1, <1>2
  <1>5. \A a \in hdrs' : next'[a] # n
    BY <1>1, <1>2, <1>4, NextFacts, BlockFacts DEF Tiling
  <1>6. TypeOK'
    <2>1. hdrs' \subseteq Addrs
      BY <1>2 DEF TypeOK
    <2>2. size' \in [hdrs' -> Nat]
      BY <1>1, <1>2, HeapAssumption DEF TypeOK
    <2>3. next' \in [hdrs' -> hdrs' \union {Nil}]
      BY <1>1, <1>2, <1>4, <1>5 DEF TypeOK
    <2>4. free' \in [hdrs' -> BOOLEAN]
      BY <1>2 DEF TypeOK
    <2> QED
      BY <2>1, <2>2, <2>3, <2>4 DEF TypeOK
  <1>7. ASSUME NEW a \in hdrs'
        PROVE  /\ End(a)' <= HeapSize
               /\ next'[a] = IF End(a)' = HeapSize THEN Nil ELSE End(a)'
               /\ End(a)' < HeapSize => End(a)' \in hdrs'
    <2>1. CASE a = b
      BY <1>1, <1>2, <1>3, <1>4, <2>1, BlockFacts DEF Tiling
    <2>2. CASE a # b
      BY <1>1, <1>2, <1>3, <1>4, <2>2 DEF Tiling
    <2> QED
      BY <2>1, <2>2
  <1>8. ASSUME NEW a \in hdrs', NEW c \in hdrs', a < c
        PROVE  End(a)' <= c
    <2>1. CASE a = b
      <3>1. n < c
        BY <1>1, <1>2, <1>8, <2>1, BlockFacts
      <3> QED
        BY <1>1, <1>2, <1>3, <2>1, <3>1, BlockFacts
    <2>2. CASE a # b
      BY <1>2, <1>3, <1>8, <2>2, BlockFacts
    <2> QED
      BY <2>1, <2>2
  <1>9. 0 \in hdrs'
    BY <1>1, <1>2 DEF Tiling
  <1> QED
    BY <1>6, <1>7, <1>8, <1>9 DEF Tiling

LEMMA NextTiling ==
  ASSUME TypeOK, Tiling, [Next]_vars
  PROVE  TypeOK' /\ Tiling'
  <1>1. CASE UNCHANGED vars
    BY <1>1 DEF vars, TypeOK, Tiling, End
  <1>2. ASSUME NEW n \in Requests, Kmalloc(n)
        PROVE  TypeOK' /\ Tiling'
    <2>1. PICK r \in n .. n + Gran - 1, b \in hdrs :
            IF Splits(b, r) THEN Split(b, r) ELSE Take(b)
      BY <1>2 DEF Kmalloc, FirstFit
    <2>2. r \in Nat
      BY <2>1, HeapAssumption
    <2> QED
      BY <2>1, <2>2, SplitTiling, OwnerTiling
  <1>3. ASSUME NEW b \in hdrs, Kfree(b)
        PROVE  TypeOK' /\ Tiling'
    BY <1>3, AbsorbTiling, OwnerTiling DEF Kfree, Coalesces
  <1> QED
    BY <1>1, <1>2, <1>3 DEF Next

(* Splitting and coalescing never lose a byte, overlap or unlink a block,   *)
(* whatever the sizes asked for and the order of the calls.                 *)
THEOREM HeapTiled == Spec => [](TypeOK /\ Tiling)
  <1>1. Init => TypeOK /\ Tiling
    BY InitTiling
  <1>2. TypeOK /\ Tiling /\ [Next]_vars => TypeOK' /\ Tiling'
    BY NextTiling
  <1> QED
    BY <1>1, <1>2, PTL DEF Spec

(* kheap.c: header addresses, sizes, links and flags stay what they should   *)
(* be; in particular no link leads to an address without a header.          *)
THEOREM HeapTypes == Spec => []TypeOK
  <1>1. TypeOK /\ Tiling => TypeOK
    OBVIOUS
  <1> QED
    BY <1>1, HeapTiled, PTL

---------------------------------------------------------------------------
(* What callers are promised.                                               *)

(* Live allocations are apart, because blocks are.                          *)
LEMMA LiveApart ==
  ASSUME TypeOK, Tiling, NEW b \in hdrs, NEW c \in hdrs, b # c
  PROVE  /\ b + Hdr # c + Hdr
         /\ \A m \in Nat : m <= size[b] =>
              Alloc!Apart(<<b + Hdr, m>>, <<c + Hdr, size[c]>>)
  <1>1. /\ b \in Nat /\ c \in Nat /\ size[b] \in Nat /\ size[c] \in Nat /\ Hdr \in Nat
        /\ (b < c => End(b) <= c) /\ (c < b => End(c) <= b)
    BY BlockFacts, HeapAssumption
  <1>2. b < c \/ c < b
    BY <1>1
  <1>3. b + Hdr + size[b] <= c \/ c + Hdr + size[c] <= b
    BY <1>1, <1>2 DEF End
  <1> QED
    BY <1>1, <1>3 DEF Alloc!Apart

(* A block that becomes live, with m bytes of payload, is one new           *)
(* allocation of the abstract allocator.                                    *)
LEMMA NewLive ==
  ASSUME TypeOK, Tiling, NEW n \in Requests, NEW b \in hdrs, free[b],
         NEW m \in Nat, n <= m, m <= size[b],
         Live' = Live \union {<<b + Hdr, m>>}
  PROVE  Alloc!Alloc(n)
  <1> DEFINE x == <<b + Hdr, m>>
  <1>1. /\ b \in Nat /\ Hdr \in Nat /\ n \in Nat /\ HeapSize \in Nat /\ size[b] \in Nat
        /\ End(b) <= HeapSize
    BY BlockFacts, HeapAssumption
  <1>2. b + Hdr + size[b] <= HeapSize
    BY <1>1 DEF End
  <1>3. b + Hdr \in 0 .. HeapSize /\ m \in n .. HeapSize /\ b + Hdr + m <= HeapSize
    BY <1>1, <1>2
  <1>4. x \in (0 .. HeapSize) \X (n .. HeapSize)
    BY <1>3
  <1>5. ASSUME NEW y \in Live
        PROVE  x[1] # y[1] /\ Alloc!Apart(x, y)
    <2>1. PICK c \in hdrs : ~free[c] /\ y = <<c + Hdr, size[c]>>
      BY DEF Live
    <2>2. b # c
      BY <2>1
    <2> QED
      BY <2>1, <2>2, LiveApart
  <1>6. x \in Live'
    OBVIOUS
  <1> QED
    BY <1>3, <1>4, <1>5, <1>6 DEF Alloc!Alloc

LEMMA KmallocAllocates ==
  ASSUME TypeOK, Tiling, NEW n \in Requests, Kmalloc(n)
  PROVE  Alloc!Alloc(n)
  <1>1. PICK r \in n .. n + Gran - 1, b \in hdrs :
          /\ free[b] /\ size[b] >= r
          /\ IF Splits(b, r) THEN Split(b, r) ELSE Take(b)
    BY DEF Kmalloc, FirstFit, Fits
  <1>2. n \in Nat /\ r \in Nat /\ n <= r /\ size[b] \in Nat /\ b \in Nat
    BY <1>1, HeapAssumption, BlockFacts
  <1>3. CASE Take(b)
    <2>1. hdrs' = hdrs /\ size' = size /\ free' = [free EXCEPT ![b] = FALSE]
      BY <1>3 DEF Take
    <2>2. Live' = Live \union {<<b + Hdr, size[b]>>}
      BY <1>1, <2>1 DEF Live, TypeOK
    <2> QED
      BY <1>1, <1>2, <2>2, NewLive
  <1>4. CASE Splits(b, r) /\ Split(b, r)
    <2> DEFINE nb == b + Hdr + r
    <2>1. nb \notin hdrs /\ nb # b
      BY <1>2, <1>4, BlockFacts, HeapAssumption DEF Splits, End
    <2>2. /\ hdrs' = hdrs \union {nb}
          /\ size' = [a \in hdrs' |-> IF a = nb THEN size[b] - r - Hdr
                                     ELSE IF a = b THEN r ELSE size[a]]
          /\ free' = [a \in hdrs' |-> a = nb \/ (a # b /\ free[a])]
      BY <1>4 DEF Split
    <2> HIDE DEF nb
    <2>3. {a \in hdrs' : ~free'[a]} = {a \in hdrs : ~free[a]} \union {b}
      BY <1>1, <2>1, <2>2
    <2>4. size'[b] = r /\ \A a \in hdrs \ {b} : size'[a] = size[a]
      BY <2>1, <2>2
    <2>5. Live' = Live \union {<<b + Hdr, r>>}
      BY <1>1, <2>3, <2>4 DEF Live
    <2> QED
      BY <1>1, <1>2, <2>5, NewLive
  <1> QED
    BY <1>1, <1>3, <1>4

LEMMA KfreeReleases ==
  ASSUME TypeOK, Tiling, NEW b \in hdrs, Kfree(b)
  PROVE  Alloc!Release
  <1> DEFINE x == <<b + Hdr, size[b]>>
  <1>1. ~free[b] /\ x \in Live
    BY DEF Kfree, Live
  <1>2. \A c \in hdrs \ {b} : c + Hdr # b + Hdr
    BY BlockFacts, HeapAssumption
  <1>3. \A c \in hdrs \ {b} : <<c + Hdr, size[c]>> # x
    BY <1>2
  <1>4. Live' = {<<c + Hdr, size[c]>> : c \in {a \in hdrs : ~free[a] /\ a # b}}
    <2>1. CASE Mark(b)
      <3>1. hdrs' = hdrs /\ size' = size /\ free' = [free EXCEPT ![b] = TRUE]
        BY <2>1 DEF Mark
      <3>2. {a \in hdrs' : ~free'[a]} = {a \in hdrs : ~free[a] /\ a # b}
        BY <3>1 DEF TypeOK
      <3> QED
        BY <3>1, <3>2 DEF Live
    <2>2. CASE Coalesces(b) /\ Absorb(b)
      <3>1. next[b] # Nil /\ free[next[b]] /\ next[b] \in hdrs /\ next[b] # b
        BY <2>2, NextFacts DEF Coalesces
      <3>2. /\ hdrs' = hdrs \ {next[b]}
            /\ size' = [a \in hdrs' |->
                 IF a = b THEN size[b] + Hdr + size[next[b]] ELSE size[a]]
            /\ free' = [a \in hdrs' |-> a = b \/ free[a]]
        BY <2>2 DEF Absorb
      <3>3. {a \in hdrs' : ~free'[a]} = {a \in hdrs : ~free[a] /\ a # b}
        BY <3>1, <3>2
      <3>4. \A a \in hdrs' \ {b} : size'[a] = size[a]
        BY <3>2
      <3> QED
        BY <3>3, <3>4 DEF Live
    <2> QED
      BY <2>1, <2>2 DEF Kfree
  <1>5. Live' = Live \ {x}
    BY <1>3, <1>4 DEF Live
  <1> QED
    BY <1>1, <1>5 DEF Alloc!Release

(* kmalloc and kfree keep their promise to callers: the heap implements an  *)
(* allocator whose live allocations never overlap, move or shrink.          *)
THEOREM HeapImplementsAllocator == Spec => AllocSpec
  <1>1. Init => Alloc!Init
    BY DEF Init, Alloc!Init, Live
  <1>2. TypeOK /\ Tiling /\ [Next]_vars => [Alloc!Next]_Live
    <2> SUFFICES ASSUME TypeOK, Tiling, [Next]_vars
                 PROVE  [Alloc!Next]_Live
      OBVIOUS
    <2>1. CASE UNCHANGED vars
      BY <2>1 DEF vars, Live
    <2>2. ASSUME NEW n \in Requests, Kmalloc(n)
          PROVE  Alloc!Next
      BY <2>2, KmallocAllocates DEF Alloc!Next
    <2>3. ASSUME NEW b \in hdrs, Kfree(b)
          PROVE  Alloc!Next
      BY <2>3, KfreeReleases DEF Alloc!Next
    <2> QED
      BY <2>1, <2>2, <2>3 DEF Next
  <1>3. Spec => [](TypeOK /\ Tiling)
    BY HeapTiled
  <1> QED
    BY <1>1, <1>2, <1>3, PTL DEF Spec, AllocSpec, Alloc!Spec

---------------------------------------------------------------------------
(* UserMem.                                                                 *)

(* The two workers: kmain, and the program's call.                          *)
K == job["kmain"]
G == job["program"]

(* What the two jobs may be, and where in their range they stand.           *)
JobsOK ==
  /\ K.op \in {"idle", "image", "stack", "add"}
  /\ G.op \in {"idle", "brk", "mmap"}
  /\ G.pick = NoFrame
  /\ \A w \in Workers : job[w].op = "idle" => job[w] = Idle
  /\ K.op # "idle" => K.p \in Procs /\ life[K.p] = "loading"
  /\ G.op # "idle" => G.p \in Procs /\ life[G.p] = "runs"
  /\ \A w \in Workers : job[w].held # NoFrame => job[w].at < job[w].end
  /\ K.op = "image" => 1 <= K.at /\ K.at <= K.end /\ K.end = ImageEnd
  /\ K.op = "stack" => StackBase <= K.at /\ K.at <= K.end /\ K.end = Top
  /\ K.op = "add" => K.at = 0 /\ K.end = 0
  /\ G.op = "brk" => brk[G.p] <= G.at /\ G.at <= G.end /\ G.end <= MmapBase
  /\ G.op = "mmap" => mcur[G.p] <= G.at /\ G.at <= G.end /\ G.end <= StackBase
  /\ K.pick # NoFrame => NeedsFrame(K)

(* What is mapped while a space is absent, built, and used.                 *)
AbsentIsEmpty ==
  \A p \in Procs : life[p] = "none" =>
    /\ \A v \in Pages : page[p][v] = NoFrame
    /\ \A t \in Tables : table[p][t] = NoFrame
ImageMapped ==
  K.op = "image" => \A v \in Pages : page[K.p][v] = NoFrame <=> v >= K.at
StackMapped ==
  K.op = "stack" => \A v \in Pages :
    page[K.p][v] = NoFrame <=> (ImageEnd <= v /\ v < StackBase) \/ v >= K.at
AddMapped ==
  K.op = "add" => \A v \in Pages :
    page[K.p][v] = NoFrame <=> ImageEnd <= v /\ v < StackBase
BrkMapped ==
  G.op = "brk" =>
    /\ \A v \in Pages : brk[G.p] <= v /\ v < G.at => page[G.p][v] # NoFrame
    /\ G.held # NoFrame => page[G.p][G.at] = NoFrame
MmapMapped ==
  G.op = "mmap" =>
    \A v \in Pages : mcur[G.p] <= v /\ v < G.at => page[G.p][v] # NoFrame
OnlyPatchyAbove ==
  \A p \in Procs : \A v \in Pages :
    life[p] = "runs" /\ p \notin patchy /\ mcur[p] <= v /\ v < StackBase /\ page[p][v] # NoFrame
      => G.op = "mmap" /\ G.p = p /\ v < G.at
MapsOK ==
  /\ AbsentIsEmpty /\ ImageMapped /\ StackMapped /\ AddMapped
  /\ BrkMapped /\ MmapMapped /\ OnlyPatchyAbove

(* One owner for what is used, none for what is free.                       *)
OwnOK ==
  /\ \A a, b \in Places : FrameAt(a) # NoFrame /\ FrameAt(a) = FrameAt(b) => a = b
  /\ \A o \in Places : FrameAt(o) # NoFrame => FrameAt(o) \in used
  /\ \A f \in used \ abandoned : \E o \in Places : FrameAt(o) = f

MemInv == MemTypeOK /\ JobsOK /\ MapsOK /\ GrantedIsMapped /\ (~raced => OwnOK)

---------------------------------------------------------------------------
(* How one step may change who refers to what.                              *)

(* A fresh frame is taken.                                                  *)
LEMMA Grows ==
  ASSUME OwnOK, used \subseteq Frames, NEW o \in Places, NEW f \in Frames,
         f \notin used, used' = used \union {f}, abandoned' = abandoned,
         FrameAt(o) = NoFrame, FrameAt(o)' = f,
         \A c \in Places \ {o} : FrameAt(c)' = FrameAt(c)
  PROVE  OwnOK'
<1>0. Places' = Places
  BY DEF Places, Workers
<1>n. f # NoFrame
  BY MemAssumption
<1>1. (\A a, b \in Places : FrameAt(a) # NoFrame /\ FrameAt(a) = FrameAt(b) => a = b)'
  BY <1>0, <1>n DEF OwnOK
<1>2. (\A c \in Places : FrameAt(c) # NoFrame => FrameAt(c) \in used)'
  BY <1>0 DEF OwnOK
<1>3. (\A g \in used \ abandoned : \E c \in Places : FrameAt(c) = g)'
  <2> SUFFICES ASSUME NEW g \in used' \ abandoned'
               PROVE  \E c \in Places : FrameAt(c)' = g
    BY <1>0
  <2>1. CASE g = f
    BY <2>1
  <2>2. CASE g # f
    <3>1. g \in used \ abandoned /\ g \in used
      BY <2>2
    <3>2. PICK c \in Places : FrameAt(c) = g
      BY <3>1 DEF OwnOK
    <3>3. CASE c = o   \* NoFrame is no frame
      BY <3>1, <3>2, <3>3, MemAssumption
    <3>4. CASE c # o
      BY <3>2, <3>4
    <3> QED
      BY <3>3, <3>4
  <2> QED
    BY <2>1, <2>2
<1> QED
  BY <1>1, <1>2, <1>3 DEF OwnOK

(* A frame moves from a to b; what was at b is abandoned.                   *)
LEMMA Shifts ==
  ASSUME OwnOK, NEW a \in Places, NEW b \in Places, a # b,
         used' = used, abandoned \subseteq abandoned',
         FrameAt(a) # NoFrame, FrameAt(b)' = FrameAt(a), FrameAt(a)' = NoFrame,
         FrameAt(b) \in abandoned' \union {NoFrame},
         \A c \in Places \ {a, b} : FrameAt(c)' = FrameAt(c)
  PROVE  OwnOK'
<1>0. Places' = Places
  BY DEF Places, Workers
<1> QED
  BY <1>0 DEF OwnOK

(* The places in D are cleared; their frames are freed or abandoned.        *)
LEMMA Drops ==
  ASSUME OwnOK, NEW D \in SUBSET Places, NEW U,
         \A u \in U : u = NoFrame \/ \E o \in D : u = FrameAt(o),
         used' = used \ U, abandoned \subseteq abandoned',
         \A o \in D : FrameAt(o) \in U \union abandoned' \union {NoFrame},
         \A o \in D : FrameAt(o)' = NoFrame,
         \A c \in Places \ D : FrameAt(c)' = FrameAt(c)
  PROVE  OwnOK'
<1>0. Places' = Places
  BY DEF Places, Workers
<1>1. (\A a, b \in Places : FrameAt(a) # NoFrame /\ FrameAt(a) = FrameAt(b) => a = b)'
  BY <1>0 DEF OwnOK
<1>2. (\A o \in Places : FrameAt(o) # NoFrame => FrameAt(o) \in used)'
  BY <1>0 DEF OwnOK
<1>3. (\A f \in used \ abandoned : \E o \in Places : FrameAt(o) = f)'
  <2> SUFFICES ASSUME NEW f \in used' \ abandoned'
               PROVE  \E o \in Places : FrameAt(o)' = f
    BY <1>0
  <2>1. f \in used \ abandoned /\ f \notin U
    OBVIOUS
  <2>2. PICK o \in Places : FrameAt(o) = f
    BY <2>1 DEF OwnOK
  <2>3. CASE f = NoFrame
    BY <2>2, <2>3
  <2>4. CASE f # NoFrame
    BY <2>1, <2>2, <2>4
  <2> QED
    BY <2>3, <2>4
<1> QED
  BY <1>1, <1>2, <1>3 DEF OwnOK

LEMMA Stays ==
  ASSUME OwnOK, used' = used, abandoned' = abandoned,
         \A c \in Places : FrameAt(c)' = FrameAt(c)
  PROVE  OwnOK'
<1>0. Places' = Places
  BY DEF Places, Workers
<1> QED
  BY <1>0 DEF OwnOK

LEMMA PlaceCases ==
  ASSUME NEW o \in Places
  PROVE  \/ \E p \in Procs : \E t \in Tables :
              o = <<"table", p, t>> /\ FrameAt(o) = table[p][t] /\ FrameAt(o)' = table'[p][t]
         \/ \E p \in Procs : \E v \in Pages :
              o = <<"page", p, v>> /\ FrameAt(o) = page[p][v] /\ FrameAt(o)' = page'[p][v]
         \/ \E w \in Workers :
              o = <<"held", w, NoFrame>> /\ FrameAt(o) = job[w].held /\ FrameAt(o)' = job'[w].held
<1>1. CASE o \in {"table"} \X Procs \X Tables
  <2>1. PICK p \in Procs, t \in Tables : o = <<"table", p, t>>
    BY <1>1
  <2> QED
    BY <2>1 DEF FrameAt
<1>2. CASE o \in {"page"} \X Procs \X Pages
  <2>1. PICK p \in Procs, v \in Pages : o = <<"page", p, v>>
    BY <1>2
  <2> QED
    BY <2>1 DEF FrameAt
<1>3. CASE o \in {<<"held", w, NoFrame>> : w \in Workers}
  <2>1. PICK w \in Workers : o = <<"held", w, NoFrame>>
    BY <1>3
  <2> QED
    BY <2>1 DEF FrameAt
<1> QED
  BY <1>1, <1>2, <1>3 DEF Places

LEMMA FrameAtEach ==
  /\ \A p, t : FrameAt(<<"table", p, t>>) = table[p][t]
  /\ \A p, t : FrameAt(<<"table", p, t>>)' = table'[p][t]
  /\ \A p, v : FrameAt(<<"page", p, v>>) = page[p][v]
  /\ \A p, v : FrameAt(<<"page", p, v>>)' = page'[p][v]
  /\ \A w : FrameAt(<<"held", w, NoFrame>>) = job[w].held
  /\ \A w : FrameAt(<<"held", w, NoFrame>>)' = job'[w].held
BY DEF FrameAt

LEMMA NumbersOK ==
  /\ 1 < ImageEnd /\ ImageEnd < MmapBase /\ MmapBase < StackBase /\ StackBase < Top
  /\ ImageEnd \in Nat /\ MmapBase \in Nat /\ StackBase \in Nat /\ Top \in Nat
  /\ Pages = 1 .. Top - 1
  /\ NoFrame = 0 /\ NoFrame \notin Frames
BY MemAssumption DEF Pages, NoFrame

(* kmain's pending pick stays pending while its own space does not change.   *)
LEMMA NeedStays ==
  ASSUME job'["kmain"] = job["kmain"],
         table'[K.p] = table[K.p], page'[K.p] = page[K.p]
  PROVE  NeedsFrame(K)' <=> NeedsFrame(K)
BY DEF K, NeedsFrame, Busy, NeedsTable, Missing, Skips

LEMMA SpacesStay ==
  ASSUME table' = table, page' = page, \A w \in Workers : job'[w].held = job[w].held
  PROVE  \A c \in Places : FrameAt(c)' = FrameAt(c)
<1> SUFFICES ASSUME NEW c \in Places PROVE FrameAt(c)' = FrameAt(c)
  OBVIOUS
<1> QED
  BY PlaceCases

JobType == [op : Ops, p : Procs \union {NoFrame}, at : 0 .. Top, end : 0 .. Top,
            held : Frames \union {NoFrame}, pick : Frames \union {NoFrame}]

LEMMA KExecInv ==
  ASSUME MemInv, NEW p \in Procs, KExec(p)
  PROVE  MemInv'
<1> USE NumbersOK DEF MemInv, Workers, K, G
<1>1. MemTypeOK'
  BY SMTT(30) DEF MemTypeOK, JobsOK, Ops, Idle, KExec, Start
<1>2. JobsOK'
  BY NeedStays DEF MemTypeOK, JobsOK, Idle, KExec, Start
<1>3. MapsOK'
  BY DEF MemTypeOK, JobsOK, Idle, MapsOK, AbsentIsEmpty, ImageMapped, StackMapped,
         AddMapped, BrkMapped, MmapMapped, OnlyPatchyAbove, KExec, Start
<1>4. GrantedIsMapped'
  BY DEF MemTypeOK, JobsOK, GrantedIsMapped, KExec, Start
<1>5. (~raced => OwnOK)'
  <2>1. \A w \in Workers : job'[w].held = job[w].held
    BY DEF MemTypeOK, JobsOK, Idle, KExec, Start
  <2>2. \A c \in Places : FrameAt(c)' = FrameAt(c)
    BY <2>1, SpacesStay DEF KExec, Start
  <2> QED
    BY <2>2, Stays DEF KExec, Start
<1> QED
  BY <1>1, <1>2, <1>3, <1>4, <1>5

LEMMA SkipPageInv ==
  ASSUME MemInv, NEW w \in Workers, SkipPage(w)
  PROVE  MemInv'
<1> USE NumbersOK DEF MemInv, Workers, K, G
<1>a. PICK P \in Procs, V \in Pages :
        /\ job[w].p = P /\ job[w].at = V /\ V < job[w].end /\ V + 1 \in 0 .. Top
        /\ job[w].held = NoFrame /\ page[P][V] # NoFrame /\ job[w].op \in {"image", "brk"}
  <2>1. /\ job[w].at < job[w].end /\ job[w].held = NoFrame
        /\ job[w].op \in {"image", "brk"} /\ page[job[w].p][job[w].at] # NoFrame
    BY DEF SkipPage, Busy, Skips
  <2>2. job[w].p \in Procs
    BY <2>1 DEF JobsOK
  <2>3. job[w].at \in 0 .. Top /\ job[w].end \in 0 .. Top
    BY DEF MemTypeOK
  <2>4. 1 <= job[w].at
    <3>1. CASE w = "kmain"
      BY <2>1, <3>1 DEF JobsOK
    <3>2. CASE w = "program"
      <4>1. brk[G.p] \in 0 .. MmapBase /\ brk[G.p] >= 1 /\ brk[G.p] <= G.at
        BY <2>1, <2>2, <3>2 DEF JobsOK, MemTypeOK
      <4> QED
        BY <2>3, <3>2, <4>1
    <3> QED
      BY <3>1, <3>2
  <2>5. PICK a, e : a = job[w].at /\ e = job[w].end
    OBVIOUS
  <2>6. a \in 1 .. Top - 1 /\ a + 1 \in 0 .. Top
    <3>1. a \in 0 .. Top /\ e \in 0 .. Top /\ a < e /\ 1 <= a
      BY <2>1, <2>3, <2>4, <2>5
    <3> QED
      BY <3>1
  <2>7. job[w].at \in Pages /\ job[w].at + 1 \in 0 .. Top
    BY <2>5, <2>6 DEF Pages
  <2> QED
    BY <2>1, <2>2, <2>7
<1>c. UNCHANGED <<used, life, table, page, brk, mcur, abandoned, raced, patchy>>
  BY DEF SkipPage
<1>e. /\ job' \in [Workers -> JobType]
      /\ job'[w].op = job[w].op /\ job'[w].p = P /\ job'[w].at = V + 1
      /\ job'[w].end = job[w].end /\ job'[w].held = NoFrame /\ job'[w].pick = job[w].pick
      /\ \A u \in Workers : u # w => job'[u] = job[u]
  <2>1. job' = [job EXCEPT ![w].at = V + 1] /\ job \in [Workers -> JobType]
    BY <1>a DEF SkipPage, MemTypeOK, JobType
  <2> QED
    BY <1>a, <2>1 DEF JobType
<1>1. MemTypeOK'
  BY <1>c, <1>e DEF MemTypeOK, JobType
<1>2. JobsOK'
  <2>1. (K.pick # NoFrame => NeedsFrame(K))'
    <3>1. CASE w = "kmain"
      <4>1. K.pick = NoFrame
        BY <3>1 DEF JobsOK, SkipPage, NeedsFrame, Skips
      <4> QED
        BY <3>1, <4>1, <1>e
    <3>2. CASE w = "program"
      BY <3>2, <1>c, <1>e, NeedStays DEF JobsOK
    <3> QED
      BY <3>1, <3>2
  <2>2. \A u \in Workers : job'[u].op = "idle" => job'[u] = Idle
    BY <1>a, <1>e DEF JobsOK
  <2>3. CASE w = "kmain"
    BY SMTT(30), <2>1, <2>2, <2>3, <1>a, <1>c, <1>e DEF JobsOK, MemTypeOK
  <2>4. CASE w = "program"
    BY SMTT(30), <2>1, <2>2, <2>4, <1>a, <1>c, <1>e DEF JobsOK, MemTypeOK
  <2> QED
    BY <2>3, <2>4
<1>3. MapsOK'
  <2>1. CASE w = "kmain"
    <3>1. FALSE
      BY <2>1, <1>a DEF JobsOK, MapsOK, ImageMapped
    <3> QED
      BY <3>1
  <2>2. CASE w = "program"
    <3>1. AbsentIsEmpty' /\ ImageMapped' /\ StackMapped' /\ AddMapped'
      BY <2>2, <1>c, <1>e DEF MapsOK, AbsentIsEmpty, ImageMapped, StackMapped, AddMapped
    <3>2. G.op = "brk" /\ G.p = P /\ G.at = V
      BY <2>2, <1>a DEF JobsOK
    <3>3. brk \in [Procs -> Nat] /\ mcur \in [Procs -> Nat] /\ V \in Nat
      BY DEF MemTypeOK
    <3>4. BrkMapped' /\ MmapMapped' /\ OnlyPatchyAbove'
      BY <2>2, <3>2, <3>3, <1>a, <1>c, <1>e DEF MapsOK, BrkMapped, MmapMapped, OnlyPatchyAbove
    <3> QED
      BY <3>1, <3>4 DEF MapsOK
  <2> QED
    BY <2>1, <2>2
<1>4. GrantedIsMapped'
  BY <1>c DEF GrantedIsMapped
<1>5. (~raced => OwnOK)'
  <2>1. \A u \in Workers : job'[u].held = job[u].held
    BY <1>a, <1>e
  <2>2. \A c \in Places : FrameAt(c)' = FrameAt(c)
    BY <1>c, <2>1, SpacesStay
  <2> QED
    BY <1>c, <2>2, Stays
<1> QED
  BY <1>1, <1>2, <1>3, <1>4, <1>5

LEMMA KNextPartInv ==
  ASSUME MemInv, KNextPart
  PROVE  MemInv'
<1> USE NumbersOK DEF MemInv, Workers, K, G
<1>1. MemTypeOK'
  <2>1. K.op # "idle"
    BY DEF KNextPart
  <2>2. PICK P \in Procs : K.p = P
    BY <2>1 DEF JobsOK
  <2>3. PICK r \in JobType : job' = [job EXCEPT !["kmain"] = r]
    <3>1. CASE K.op = "image"
      <4>1. job' = [job EXCEPT !["kmain"] = [op |-> "stack", p |-> P, at |-> StackBase,
                                             end |-> Top, held |-> NoFrame, pick |-> NoFrame]]
        BY <2>2, <3>1 DEF KNextPart, Start
      <4>2. [op |-> "stack", p |-> P, at |-> StackBase, end |-> Top, held |-> NoFrame,
             pick |-> NoFrame] \in JobType
        BY DEF JobType, Ops
      <4> QED
        BY <4>1, <4>2
    <3>2. CASE K.op # "image"
      <4>1. job' = [job EXCEPT !["kmain"] = [op |-> "add", p |-> P, at |-> 0,
                                             end |-> 0, held |-> NoFrame, pick |-> NoFrame]]
        BY <2>2, <3>2 DEF KNextPart, Start
      <4>2. [op |-> "add", p |-> P, at |-> 0, end |-> 0, held |-> NoFrame,
             pick |-> NoFrame] \in JobType
        BY DEF JobType, Ops
      <4> QED
        BY <4>1, <4>2
    <3> QED
      BY <3>1, <3>2
  <2>4. job' \in [Workers -> JobType]
    BY <2>3 DEF MemTypeOK, JobType
  <2> QED
    BY <2>4 DEF MemTypeOK, JobType, KNextPart
<1>2. JobsOK'
  BY SMTT(30), NeedStays DEF MemTypeOK, JobsOK, Idle, KNextPart, Start
<1>3. MapsOK'
  BY SMTT(30) DEF MemTypeOK, JobsOK, Idle, MapsOK, AbsentIsEmpty, ImageMapped, StackMapped,
         AddMapped, BrkMapped, MmapMapped, OnlyPatchyAbove, KNextPart, Start
<1>4. GrantedIsMapped'
  BY DEF MemTypeOK, JobsOK, GrantedIsMapped, KNextPart, Start
<1>5. (~raced => OwnOK)'
  <2>1. \A w \in Workers : job'[w].held = job[w].held
    BY DEF MemTypeOK, JobsOK, Idle, KNextPart, Start
  <2>2. \A c \in Places : FrameAt(c)' = FrameAt(c)
    BY <2>1, SpacesStay DEF KNextPart, Start
  <2> QED
    BY <2>2, Stays DEF KNextPart, Start
<1> QED
  BY <1>1, <1>2, <1>3, <1>4, <1>5

LEMMA KAddInv ==
  ASSUME MemInv, KAdd
  PROVE  MemInv'
<1> USE NumbersOK DEF MemInv, Workers, K, G
<1>1. MemTypeOK'
  BY SMTT(30) DEF MemTypeOK, JobsOK, Ops, Idle, KAdd
<1>2. JobsOK'
  BY NeedStays DEF MemTypeOK, JobsOK, Idle, KAdd
<1>3. MapsOK'
  BY SMTT(30) DEF MemTypeOK, JobsOK, Idle, MapsOK, AbsentIsEmpty, ImageMapped, StackMapped,
         AddMapped, BrkMapped, MmapMapped, OnlyPatchyAbove, KAdd
<1>4. GrantedIsMapped'
  BY DEF MemTypeOK, JobsOK, GrantedIsMapped, MapsOK, AddMapped, KAdd
<1>5. (~raced => OwnOK)'
  <2>1. \A w \in Workers : job'[w].held = job[w].held
    BY DEF MemTypeOK, JobsOK, Idle, KAdd
  <2>2. \A c \in Places : FrameAt(c)' = FrameAt(c)
    BY <2>1, SpacesStay DEF KAdd
  <2> QED
    BY <2>2, Stays DEF KAdd
<1> QED
  BY <1>1, <1>2, <1>3, <1>4, <1>5

LEMMA SysBrkGrowInv ==
  ASSUME MemInv, NEW p \in Procs, NEW target \in 1 .. MmapBase, SysBrkGrow(p, target)
  PROVE  MemInv'
<1> USE NumbersOK DEF MemInv, Workers, K, G
<1>1. MemTypeOK'
  BY DEF MemTypeOK, JobsOK, Ops, Idle, SysBrkGrow, Calls, Start
<1>2. JobsOK'
  BY NeedStays DEF MemTypeOK, JobsOK, Idle, SysBrkGrow, Calls, Start
<1>3. MapsOK'
  BY DEF MemTypeOK, JobsOK, Idle, MapsOK, AbsentIsEmpty, ImageMapped, StackMapped,
         AddMapped, BrkMapped, MmapMapped, OnlyPatchyAbove, SysBrkGrow, Calls, Start
<1>4. GrantedIsMapped'
  BY DEF MemTypeOK, JobsOK, GrantedIsMapped, SysBrkGrow, Calls, Start
<1>5. (~raced => OwnOK)'
  <2>1. \A w \in Workers : job'[w].held = job[w].held
    BY DEF MemTypeOK, JobsOK, Idle, SysBrkGrow, Calls, Start
  <2>2. \A c \in Places : FrameAt(c)' = FrameAt(c)
    BY <2>1, SpacesStay DEF SysBrkGrow, Calls, Start
  <2> QED
    BY <2>2, Stays DEF SysBrkGrow, Calls, Start
<1> QED
  BY <1>1, <1>2, <1>3, <1>4, <1>5

LEMMA SysMmapInv ==
  ASSUME MemInv, NEW p \in Procs, NEW pages \in 1 .. StackBase - MmapBase, SysMmap(p, pages)
  PROVE  MemInv'
<1> USE NumbersOK DEF MemInv, Workers, K, G
<1>1. MemTypeOK'
  BY DEF MemTypeOK, JobsOK, Ops, Idle, SysMmap, Calls, Start
<1>2. JobsOK'
  BY NeedStays DEF MemTypeOK, JobsOK, Idle, SysMmap, Calls, Start
<1>3. MapsOK'
  BY DEF MemTypeOK, JobsOK, Idle, MapsOK, AbsentIsEmpty, ImageMapped, StackMapped,
         AddMapped, BrkMapped, MmapMapped, OnlyPatchyAbove, SysMmap, Calls, Start
<1>4. GrantedIsMapped'
  BY DEF MemTypeOK, JobsOK, GrantedIsMapped, SysMmap, Calls, Start
<1>5. (~raced => OwnOK)'
  <2>1. \A w \in Workers : job'[w].held = job[w].held
    BY DEF MemTypeOK, JobsOK, Idle, SysMmap, Calls, Start
  <2>2. \A c \in Places : FrameAt(c)' = FrameAt(c)
    BY <2>1, SpacesStay DEF SysMmap, Calls, Start
  <2> QED
    BY <2>2, Stays DEF SysMmap, Calls, Start
<1> QED
  BY <1>1, <1>2, <1>3, <1>4, <1>5

LEMMA SysDoneInv ==
  ASSUME MemInv, SysDone
  PROVE  MemInv'
<1> USE NumbersOK DEF MemInv, Workers, K, G
<1>a. PICK P \in Procs, E \in 0 .. Top :
        G.p = P /\ G.at = E /\ G.end = E /\ life[P] = "runs" /\ G.op \in {"brk", "mmap"}
  BY DEF MemTypeOK, JobsOK, SysDone
<1>b. /\ IF G.op = "brk"
         THEN /\ brk' = [brk EXCEPT ![P] = E] /\ mcur' = mcur
              /\ brk[P] <= E /\ E <= MmapBase
         ELSE /\ mcur' = [mcur EXCEPT ![P] = E] /\ brk' = brk
              /\ mcur[P] <= E /\ E <= StackBase
      /\ UNCHANGED <<used, life, table, page, abandoned, raced, patchy>>
  BY <1>a DEF SysDone, JobsOK
<1>c. /\ job'["program"] = Idle /\ job'["kmain"] = job["kmain"]
      /\ job' \in [Workers -> JobType]
  BY DEF SysDone, MemTypeOK, JobType, Idle, Ops
<1>d. brk \in [Procs -> 0 .. MmapBase] /\ mcur \in [Procs -> 0 .. StackBase]
  BY DEF MemTypeOK
<1>1. MemTypeOK'
  <2>2. brk' \in [Procs -> 0 .. MmapBase] /\ mcur' \in [Procs -> 0 .. StackBase]
    <3>1. CASE G.op = "brk"
      <4>1. E \in 0 .. MmapBase
        BY <3>1, <1>b
      <4> QED
        BY <3>1, <4>1, <1>b, <1>d
    <3>2. CASE G.op # "brk"
      <4>1. E \in 0 .. StackBase
        BY <3>2, <1>b
      <4> QED
        BY <3>2, <4>1, <1>b, <1>d
    <3> QED
      BY <3>1, <3>2
  <2>3. \A p \in Procs : life'[p] = "runs" => brk'[p] >= 1 /\ mcur'[p] >= MmapBase
    <3> SUFFICES ASSUME NEW p \in Procs, life[p] = "runs"
                 PROVE  brk'[p] >= 1 /\ mcur'[p] >= MmapBase
      BY <1>b
    <3>0. brk[p] >= 1 /\ mcur[p] >= MmapBase /\ brk[p] \in Nat /\ mcur[p] \in Nat
      BY <1>d DEF MemTypeOK
    <3>1. CASE G.op = "brk"
      <4>1. brk'[p] = (IF p = P THEN E ELSE brk[p]) /\ mcur'[p] = mcur[p] /\ brk[P] <= E
        BY <3>1, <1>b, <1>d
      <4> QED
        BY <3>0, <4>1
    <3>2. CASE G.op # "brk"
      <4>1. mcur'[p] = (IF p = P THEN E ELSE mcur[p]) /\ brk'[p] = brk[p] /\ mcur[P] <= E
        BY <3>2, <1>b, <1>d
      <4> QED
        BY <3>0, <4>1
    <3> QED
      BY <3>1, <3>2
  <2> QED
    BY <1>b, <1>c, <2>2, <2>3 DEF MemTypeOK, JobType
<1>2. JobsOK'
  BY NeedStays DEF MemTypeOK, JobsOK, Idle, SysDone
<1>3. MapsOK'
  <2>1. AbsentIsEmpty' /\ ImageMapped' /\ StackMapped' /\ AddMapped'
    BY <1>b, <1>c DEF MapsOK, AbsentIsEmpty, ImageMapped, StackMapped, AddMapped
  <2>2. BrkMapped' /\ MmapMapped'
    BY <1>c DEF BrkMapped, MmapMapped, Idle
  <2>3. OnlyPatchyAbove'
    <3> SUFFICES ASSUME NEW p \in Procs, NEW v \in Pages, life[p] = "runs", p \notin patchy,
                        mcur'[p] <= v, v < StackBase, page[p][v] # NoFrame
                 PROVE  FALSE
      BY <1>b DEF OnlyPatchyAbove
    <3>1. mcur[p] <= v
      <4>1. mcur[p] \in Nat /\ v \in Nat
        BY <1>d
      <4>2. mcur'[p] = (IF G.op # "brk" /\ p = P THEN E ELSE mcur[p])
        BY <1>b, <1>d
      <4> QED
        BY <4>1, <4>2, <1>b
    <3>2. G.op = "mmap" /\ P = p /\ v < E
      BY <3>1, <1>a DEF MapsOK, OnlyPatchyAbove
    <3>3. mcur'[p] = E
      BY <3>2, <1>b, <1>d
    <3> QED
      BY <3>2, <3>3
  <2> QED
    BY <2>1, <2>2, <2>3 DEF MapsOK
<1>4. GrantedIsMapped'
  <2> SUFFICES ASSUME NEW p \in Procs, NEW v \in Pages, life[p] = "runs",
                      v < brk'[p] \/ (MmapBase <= v /\ v < mcur'[p]) \/ StackBase <= v
               PROVE  page[p][v] # NoFrame
    BY <1>b DEF GrantedIsMapped
  <2>0. brk[p] \in Nat /\ mcur[p] \in Nat /\ v \in Nat
    BY <1>d
  <2>1. CASE G.op = "brk"
    <3>1. brk'[p] = (IF p = P THEN E ELSE brk[p]) /\ mcur'[p] = mcur[p]
      BY <2>1, <1>b, <1>d
    <3>2. brk[P] <= v /\ v < E => page[P][v] # NoFrame
      BY <2>1, <1>a DEF MapsOK, BrkMapped
    <3> QED
      BY <2>0, <3>1, <3>2 DEF GrantedIsMapped
  <2>2. CASE G.op # "brk"
    <3>1. mcur'[p] = (IF p = P THEN E ELSE mcur[p]) /\ brk'[p] = brk[p]
      BY <2>2, <1>b, <1>d
    <3>2. mcur[P] <= v /\ v < E => page[P][v] # NoFrame
      BY <2>2, <1>a DEF MapsOK, MmapMapped
    <3> QED
      BY <2>0, <3>1, <3>2 DEF GrantedIsMapped
  <2> QED
    BY <2>1, <2>2
<1>5. (~raced => OwnOK)'
  <2>1. \A w \in Workers : job'[w].held = job[w].held
    BY DEF MemTypeOK, JobsOK, Idle, SysDone
  <2>2. \A c \in Places : FrameAt(c)' = FrameAt(c)
    BY <2>1, SpacesStay DEF SysDone
  <2> QED
    BY <2>2, Stays DEF SysDone
<1> QED
  BY <1>1, <1>2, <1>3, <1>4, <1>5

LEMMA KPickInv ==
  ASSUME MemInv, KPick
  PROVE  MemInv'
<1> USE NumbersOK DEF MemInv, Workers, K, G
<1>1. MemTypeOK'
  <2>1. PICK f \in Frames : job' = [job EXCEPT !["kmain"].pick = f]
    BY DEF KPick, Free
  <2>2. job \in [Workers -> JobType]
    BY DEF MemTypeOK, JobType
  <2>3. job' \in [Workers -> JobType]
    BY <2>1, <2>2 DEF JobType
  <2> QED
    BY <2>3 DEF KPick, MemTypeOK, JobType
<1>2. JobsOK'
  <2>1. NeedsFrame(K)'
    <3>1. /\ job'["kmain"].op = K.op /\ job'["kmain"].p = K.p /\ job'["kmain"].at = K.at
          /\ job'["kmain"].held = K.held /\ job'["kmain"].end = K.end
      <4>1. PICK f \in Frames : job' = [job EXCEPT !["kmain"].pick = f]
        BY DEF KPick, Free
      <4>2. job \in [Workers -> JobType] /\ K \in JobType
        BY DEF MemTypeOK, JobType
      <4>3. job'["kmain"] = [K EXCEPT !.pick = f]
        BY <4>1, <4>2
      <4> QED BY <4>2, <4>3 DEF JobType
    <3>2. NeedsFrame(K) /\ table' = table /\ page' = page
      BY DEF KPick
    <3> QED BY <3>1, <3>2 DEF NeedsFrame, Busy, NeedsTable, Missing, Skips
  <2> QED
    BY <2>1 DEF MemTypeOK, JobsOK, Idle, KPick, NeedsFrame, Busy
<1>3. MapsOK'
  BY DEF MemTypeOK, JobsOK, Idle, MapsOK, AbsentIsEmpty, ImageMapped, StackMapped,
         AddMapped, BrkMapped, MmapMapped, OnlyPatchyAbove, KPick, IsFirst
<1>4. GrantedIsMapped'
  BY DEF MemTypeOK, JobsOK, GrantedIsMapped, KPick, IsFirst
<1>5. (~raced => OwnOK)'
  <2>1. \A w \in Workers : job'[w].held = job[w].held
    BY DEF MemTypeOK, JobsOK, Idle, KPick, IsFirst
  <2>2. \A c \in Places : FrameAt(c)' = FrameAt(c)
    BY <2>1, SpacesStay DEF KPick, IsFirst
  <2> QED
    BY <2>2, Stays DEF KPick, IsFirst
<1> QED
  BY <1>1, <1>2, <1>3, <1>4, <1>5

LEMMA MapPageInv ==
  ASSUME MemInv, NEW w \in Workers, MapPage(w)
  PROVE  MemInv'
<1> USE NumbersOK DEF MemInv, Workers, K, G
<1>a. PICK P \in Procs, V \in Pages, h \in Frames :
        job[w].p = P /\ job[w].at = V /\ job[w].held = h /\ h # NoFrame /\ V < job[w].end
  BY SMTT(30) DEF MemTypeOK, JobsOK, MapPage, CanMap, Busy
<1>b. \A p \in Procs : \A v \in Pages :
        page'[p][v] = IF p = P /\ v = V THEN h ELSE page[p][v]
  BY <1>a DEF MemTypeOK, MapPage
<1>c. /\ page' = [page EXCEPT ![P][V] = h]
      /\ page' \in [Procs -> [Pages -> Frames \union {NoFrame}]]
      /\ UNCHANGED <<used, life, table, brk, mcur, raced, patchy>>
  BY <1>a DEF MemTypeOK, MapPage
<1>d. /\ job' = [job EXCEPT ![w].held = NoFrame, ![w].at = V + 1]
      /\ job \in [Workers -> JobType] /\ V + 1 \in 0 .. Top
  BY <1>a DEF MemTypeOK, MapPage, JobType
<1>e. /\ job' \in [Workers -> JobType]
      /\ job'[w].op = job[w].op /\ job'[w].p = P /\ job'[w].at = V + 1
      /\ job'[w].end = job[w].end /\ job'[w].held = NoFrame /\ job'[w].pick = job[w].pick
  <2> DEFINE r == [job[w] EXCEPT !.held = NoFrame, !.at = V + 1]
  <2>1. job' = [job EXCEPT ![w] = r]
    BY <1>d
  <2>2. r \in JobType
    BY <1>a, <1>d DEF JobType
  <2>3. r.op = job[w].op /\ r.p = P /\ r.at = V + 1 /\ r.end = job[w].end /\ r.held = NoFrame
        /\ r.pick = job[w].pick
    BY <1>a, <1>d DEF JobType
  <2> HIDE DEF r
  <2> QED
    BY ZenonT(30), <1>d, <2>1, <2>2, <2>3
<1>f. \A u \in Workers : u # w => job'[u] = job[u]
  BY <1>d DEF MemTypeOK
<1>1. MemTypeOK'
  <2>1. abandoned' \subseteq Frames
    BY <1>a DEF MemTypeOK, MapPage
  <2> QED
    BY <1>c, <1>e, <2>1 DEF MemTypeOK, JobType
<1>2. JobsOK'
  <2>1. (K.pick # NoFrame => NeedsFrame(K))'
    <3>1. CASE w = "kmain"
      <4>1. K.pick = NoFrame
        BY <3>1 DEF JobsOK, MapPage, CanMap, NeedsFrame, NeedsTable
      <4> QED
        BY <3>1, <4>1, <1>e
    <3>2. CASE w = "program" /\ K.op = "idle"
      BY <3>2, <1>f DEF JobsOK, Idle
    <3>3. CASE w = "program" /\ K.op # "idle"
      <4>1. K.p # P /\ K.p \in Procs
        BY <3>3, <1>a DEF JobsOK, MapPage, CanMap, Busy
      <4>2. page'[K.p] = page[K.p] /\ table'[K.p] = table[K.p] /\ job'["kmain"] = job["kmain"]
        BY <4>1, <3>3, <1>c, <1>f DEF MemTypeOK
      <4> QED
        BY <4>2, NeedStays DEF JobsOK
    <3> QED
      BY <3>1, <3>2, <3>3
  <2>2. \A u \in Workers : job'[u].op = "idle" => job'[u] = Idle
    BY <1>a, <1>e, <1>f DEF JobsOK, MapPage, CanMap, Busy
  <2>3. CASE w = "kmain"
    BY SMTT(30), <2>1, <2>2, <2>3, <1>a, <1>c, <1>e, <1>f DEF JobsOK, MemTypeOK
  <2>4. CASE w = "program"
    BY SMTT(30), <2>1, <2>2, <2>4, <1>a, <1>c, <1>e, <1>f DEF JobsOK, MemTypeOK
  <2> QED
    BY <2>3, <2>4
<1>3. MapsOK'
  <2>1. AbsentIsEmpty' /\ ImageMapped' /\ StackMapped' /\ AddMapped'
    <3>1. life[P] # "none"
      BY <1>a DEF JobsOK, MapPage, CanMap, Busy
    <3>2. CASE w = "kmain"
      <4>1. /\ K.op \in {"image", "stack"}
            /\ K.p = P /\ K.at = V /\ (K.op = "image" => V < ImageEnd) /\ (K.op = "stack" => StackBase <= V)
        BY <3>2, <1>a DEF JobsOK, MapPage, CanMap, Busy
      <4>2. /\ job'["kmain"].op = K.op /\ job'["kmain"].p = P /\ job'["kmain"].at = V + 1
        BY <3>2, <1>e
      <4>3. /\ \A v \in Pages : page'[P][v] = IF v = V THEN h ELSE page[P][v]
            /\ \A v \in Pages : v \in Int
        BY <1>b, MemAssumption DEF Pages
      <4>4. AbsentIsEmpty'
        BY <3>1, <1>a, <1>b, <1>c DEF MapsOK, AbsentIsEmpty
      <4>5. ImageMapped'
        BY <4>1, <4>2, <4>3, <1>a DEF MapsOK, ImageMapped
      <4>6. StackMapped'
        BY <4>1, <4>2, <4>3, <1>a DEF MapsOK, StackMapped
      <4>7. AddMapped'
        BY <4>1, <4>2 DEF AddMapped
      <4> QED
        BY <4>4, <4>5, <4>6, <4>7
    <3>3. CASE w = "program"
      <4>1. K.op # "idle" => K.p # P /\ K.p \in Procs
        BY <3>3, <1>a DEF JobsOK, MapPage, CanMap, Busy
      <4>2. AbsentIsEmpty'
        BY <3>1, <1>a, <1>b, <1>c DEF MapsOK, AbsentIsEmpty
      <4>3. job'["kmain"] = job["kmain"]
        BY <3>3, <1>f
      <4>4. K.op # "idle" => \A v \in Pages : page'[K.p][v] = page[K.p][v]
        BY <4>1, <1>b
      <4>5. ImageMapped'
        BY <4>3, <4>4 DEF MapsOK, ImageMapped
      <4>6. StackMapped'
        BY <4>3, <4>4 DEF MapsOK, StackMapped
      <4>7. AddMapped'
        BY <4>3, <4>4 DEF MapsOK, AddMapped
      <4> QED
        BY <4>2, <4>5, <4>6, <4>7
    <3> QED
      BY <3>2, <3>3
  <2>2. BrkMapped' /\ MmapMapped' /\ OnlyPatchyAbove'
    <3>1. CASE w = "kmain"
      <4>1. life[P] = "loading"
        BY <3>1, <1>a DEF JobsOK, MapPage, CanMap, Busy
      <4>2. job'["program"] = job["program"]
        BY <3>1, <1>f
      <4>3. G.op # "idle" => G.p # P /\ G.p \in Procs
        BY <4>1 DEF JobsOK
      <4>4. BrkMapped'
        <5>1. G.op = "brk" => brk[G.p] <= G.at /\ (G.held # NoFrame => G.at \in Pages)
          BY <4>3 DEF JobsOK, MemTypeOK
        <5> QED
          BY <4>2, <4>3, <5>1, <1>b, <1>c DEF MapsOK, BrkMapped
      <4>5. MmapMapped'
        BY <4>2, <4>3, <1>b, <1>c DEF MapsOK, MmapMapped
      <4>6. OnlyPatchyAbove'
        BY <4>1, <4>2, <1>b, <1>c DEF MapsOK, OnlyPatchyAbove
      <4> QED
        BY <4>4, <4>5, <4>6
    <3>2. CASE w = "program"
      <4>1. G.op \in {"brk", "mmap"} /\ G.p = P /\ G.at = V
        BY <3>2, <1>a DEF JobsOK, MapPage, CanMap, Busy
      <4>2. brk \in [Procs -> Nat] /\ mcur \in [Procs -> Nat] /\ V \in Nat
        BY DEF MemTypeOK
      <4>3. BrkMapped'
        BY <3>2, <4>1, <4>2, <1>a, <1>b, <1>c, <1>e DEF MapsOK, BrkMapped
      <4>4. MmapMapped'
        <5> SUFFICES ASSUME G.op = "mmap", NEW v \in Pages, mcur[P] <= v, v < V + 1
                     PROVE  page'[P][v] # NoFrame
          BY <3>2, <1>c, <1>e DEF MmapMapped
        <5>1. v < V \/ v = V
          BY <4>2
        <5>2. v < V => page[P][v] # NoFrame
          BY <4>1 DEF MapsOK, MmapMapped
        <5> QED
          BY <5>1, <5>2, <1>a, <1>b
      <4>5. OnlyPatchyAbove'
        <5>1. G.op = "brk" => V < MmapBase
          BY <3>2, <4>1, <1>a DEF JobsOK, MemTypeOK
        <5>2. life[P] = "runs" => mcur[P] >= MmapBase
          BY DEF MemTypeOK
        <5> QED
          BY <3>2, <4>1, <4>2, <5>1, <5>2, <1>a, <1>b, <1>c, <1>e DEF MapsOK, OnlyPatchyAbove
      <4> QED
        BY <4>3, <4>4, <4>5
    <3> QED
      BY <3>1, <3>2
  <2> QED
    BY <2>1, <2>2 DEF MapsOK
<1>4. GrantedIsMapped'
  BY <1>a, <1>b, <1>c DEF GrantedIsMapped
<1>5. (~raced => OwnOK)'
  <2> DEFINE a == <<"held", w, NoFrame>>
             b == <<"page", P, V>>
  <2>2. a \in Places /\ b \in Places /\ a # b
    BY <1>a DEF Places
  <2>3. FrameAt(a) = h /\ FrameAt(a)' = NoFrame /\ FrameAt(b) = page[P][V]
         /\ FrameAt(b)' = h
    BY <1>a, <1>b, <1>e, FrameAtEach
  <2>4. page[P][V] \in abandoned' \union {NoFrame}
    <3>1. P \in patchy => page[P][V] \in abandoned' \union {NoFrame}
      BY <1>a DEF MapPage
    <3>2. CASE w = "kmain"
      BY SMTT(30), <3>2, <1>a DEF JobsOK, MapsOK, ImageMapped, StackMapped, MapPage, CanMap, Busy, MemTypeOK
    <3>3. CASE w = "program"
      BY SMTT(30), <3>1, <3>3, <1>a DEF JobsOK, MapsOK, BrkMapped, OnlyPatchyAbove, MapPage, CanMap, Busy,
                             MemTypeOK
    <3> QED
      BY <3>2, <3>3
  <2>5. abandoned \subseteq abandoned'
    BY DEF MapPage
  <2>6. \A c \in Places \ {a, b} : FrameAt(c)' = FrameAt(c)
    <3> SUFFICES ASSUME NEW c \in Places, c # a, c # b PROVE FrameAt(c)' = FrameAt(c)
      OBVIOUS
    <3>1. CASE \E p \in Procs : \E t \in Tables :
                 c = <<"table", p, t>> /\ FrameAt(c) = table[p][t] /\ FrameAt(c)' = table'[p][t]
      BY <3>1, <1>c
    <3>2. CASE \E p \in Procs : \E v \in Pages :
                 c = <<"page", p, v>> /\ FrameAt(c) = page[p][v] /\ FrameAt(c)' = page'[p][v]
      BY <3>2, <1>b
    <3>3. CASE \E u \in Workers :
                 c = <<"held", u, NoFrame>> /\ FrameAt(c) = job[u].held /\ FrameAt(c)' = job'[u].held
      BY <3>3, <1>f
    <3> QED
      BY <3>1, <3>2, <3>3, PlaceCases
  <2> HIDE DEF a, b
  <2>7. FrameAt(a) # NoFrame /\ FrameAt(b)' = FrameAt(a) /\ FrameAt(b) \in abandoned' \union {NoFrame}
    BY <1>a, <2>3, <2>4
  <2> QED
    BY <1>c, <2>2, <2>3, <2>5, <2>6, <2>7, Shifts
<1> QED
  BY <1>1, <1>2, <1>3, <1>4, <1>5

LEMMA SysBrkShrinkInv ==
  ASSUME MemInv, NEW p \in Procs, NEW target \in 1 .. MmapBase, SysBrkShrink(p, target)
  PROVE  MemInv'
<1> USE NumbersOK DEF MemInv, Workers, K, G
<1>1. MemTypeOK'
  BY DEF MemTypeOK, JobsOK, Ops, Idle, SysBrkShrink, Calls
<1>2. JobsOK'
  BY NeedStays DEF MemTypeOK, JobsOK, Idle, SysBrkShrink, Calls
<1>3. MapsOK'
  BY SMTT(30) DEF MemTypeOK, JobsOK, Idle, MapsOK, AbsentIsEmpty, ImageMapped, StackMapped,
         AddMapped, BrkMapped, MmapMapped, OnlyPatchyAbove, SysBrkShrink, Calls
<1>4. GrantedIsMapped'
  BY SMTT(30) DEF MemTypeOK, JobsOK, GrantedIsMapped, SysBrkShrink, Calls
<1>5. (~raced => OwnOK)'
  <2>a. brk[p] \in 0 .. MmapBase
    BY DEF MemTypeOK
  <2>b. PICK b \in 0 .. MmapBase : b = brk[p]
    BY <2>a
  <2>c. PICK U : U = {page[p][v] : v \in target .. b - 1}
    OBVIOUS
  <2>0. b = brk[p] /\ U = {page[p][v] : v \in target .. b - 1}
    BY <2>b, <2>c
  <2> DEFINE D == {<<"page", p, v>> : v \in target .. b - 1}
  <2>1. /\ \A v \in target .. b - 1 : v \in Pages
        /\ \A q \in Procs : \A v \in Pages :
             page'[q][v] = IF q = p /\ v \in target .. b - 1 THEN NoFrame ELSE page[q][v]
        /\ used' = used \ U
        /\ UNCHANGED <<table, job, abandoned>>
    <3>1. \A v \in target .. b - 1 : v \in Pages
      OBVIOUS
    <3>2. page' = [page EXCEPT ![p] = [v \in Pages |-> IF v \in target .. b - 1
                                                      THEN NoFrame ELSE page[p][v]]]
      BY <2>0 DEF SysBrkShrink
    <3>3. page \in [Procs -> [Pages -> Frames \union {NoFrame}]]
      BY DEF MemTypeOK
    <3>4. \A q \in Procs : \A v \in Pages :
             page'[q][v] = IF q = p /\ v \in target .. b - 1 THEN NoFrame ELSE page[q][v]
      BY <3>2, <3>3
    <3>5. used' = used \ U /\ UNCHANGED <<table, job, abandoned>>
      BY <2>0 DEF SysBrkShrink
    <3> QED
      BY <3>1, <3>4, <3>5
  <2>2. D \subseteq Places
    BY <2>1 DEF Places
  <2>3. used' = used \ U /\ abandoned \subseteq abandoned'
    BY <2>1
  <2>4. \A u \in U : u = NoFrame \/ \E o \in D : u = FrameAt(o)
    <3> SUFFICES ASSUME NEW v \in target .. b - 1 PROVE \E o \in D : page[p][v] = FrameAt(o)
      BY <2>0
    <3>1. <<"page", p, v>> \in D /\ FrameAt(<<"page", p, v>>) = page[p][v]
      BY FrameAtEach
    <3> QED
      BY <3>1
  <2>5. \A o \in D : FrameAt(o) \in U \union abandoned' \union {NoFrame} /\ FrameAt(o)' = NoFrame
    <3> SUFFICES ASSUME NEW v \in target .. b - 1
                 PROVE  /\ FrameAt(<<"page", p, v>>) \in U
                        /\ FrameAt(<<"page", p, v>>)' = NoFrame
      OBVIOUS
    <3>1. page[p][v] \in U /\ page'[p][v] = NoFrame
      BY <2>0, <2>1
    <3> QED
      BY <3>1, FrameAtEach
  <2>6. \A c \in Places \ D : FrameAt(c)' = FrameAt(c)
    <3> SUFFICES ASSUME NEW c \in Places, c \notin D PROVE FrameAt(c)' = FrameAt(c)
      OBVIOUS
    <3> QED
      BY <2>1, PlaceCases
  <2>7. raced' = raced
    BY DEF SysBrkShrink, Calls
  <2> HIDE DEF D
  <2> QED
    BY <2>2, <2>3, <2>4, <2>5, <2>6, <2>7, Drops
<1> QED
  BY <1>1, <1>2, <1>3, <1>4, <1>5

LEMMA SysFailInv ==
  ASSUME MemInv, SysFail
  PROVE  MemInv'
<1> USE NumbersOK DEF MemInv, Workers, K, G
<1>1. MemTypeOK'
  BY SMTT(30) DEF MemTypeOK, JobsOK, Ops, Idle, SysFail, NeedsFrame, Busy
<1>2. JobsOK'
  BY NeedStays DEF MemTypeOK, JobsOK, Idle, SysFail, NeedsFrame, Busy
<1>3. MapsOK'
  BY DEF MemTypeOK, JobsOK, Idle, MapsOK, AbsentIsEmpty, ImageMapped, StackMapped,
         AddMapped, BrkMapped, MmapMapped, OnlyPatchyAbove, SysFail, NeedsFrame, Busy
<1>4. GrantedIsMapped'
  BY DEF MemTypeOK, JobsOK, GrantedIsMapped, SysFail, NeedsFrame, Busy
<1>5. (~raced => OwnOK)'
  <2>0. PICK U : U = {G.held}
    OBVIOUS
  <2> DEFINE D == {<<"held", "program", NoFrame>>}
  <2>1. /\ "program" \in Workers /\ job'["program"].held = NoFrame
        /\ job'["kmain"] = job["kmain"]
        /\ used' = used \ U
        /\ UNCHANGED <<table, page, abandoned>>
    BY <2>0 DEF SysFail, MemTypeOK, Idle
  <2>2. D \subseteq Places
    BY <2>1 DEF Places
  <2>3. used' = used \ U /\ abandoned \subseteq abandoned'
    BY <2>1
  <2>4. \A u \in U : u = NoFrame \/ \E o \in D : u = FrameAt(o)
    BY <2>0, <2>1, FrameAtEach
  <2>5. \A o \in D : FrameAt(o) \in U \union abandoned' \union {NoFrame} /\ FrameAt(o)' = NoFrame
    BY <2>0, <2>1, FrameAtEach
  <2>6. \A c \in Places \ D : FrameAt(c)' = FrameAt(c)
    <3> SUFFICES ASSUME NEW c \in Places, c \notin D PROVE FrameAt(c)' = FrameAt(c)
      OBVIOUS
    <3> QED
      BY <2>1, PlaceCases
  <2>7. raced' = raced
    BY DEF SysFail, NeedsFrame, Busy
  <2> HIDE DEF D
  <2> QED
    BY <2>2, <2>3, <2>4, <2>5, <2>6, <2>7, Drops
<1> QED
  BY <1>1, <1>2, <1>3, <1>4, <1>5

LEMMA SysExitInv ==
  ASSUME MemInv, NEW p \in Procs, SysExit(p)
  PROVE  MemInv'
<1> USE NumbersOK DEF MemInv, Workers, K, G
<1>1. MemTypeOK'
  BY DEF MemTypeOK, JobsOK, Ops, Idle, SysExit, Calls, Forget, SpaceOf
<1>2. JobsOK'
  BY NeedStays DEF MemTypeOK, JobsOK, Idle, SysExit, Calls, Forget, SpaceOf
<1>3. MapsOK'
  BY SMTT(30) DEF MemTypeOK, JobsOK, Idle, MapsOK, AbsentIsEmpty, ImageMapped, StackMapped,
         AddMapped, BrkMapped, MmapMapped, OnlyPatchyAbove, SysExit, Calls, Forget, SpaceOf
<1>4. GrantedIsMapped'
  BY DEF MemTypeOK, JobsOK, GrantedIsMapped, SysExit, Calls, Forget, SpaceOf
<1>5. (~raced => OwnOK)'
  <2> DEFINE D == {o \in Places : o[1] \in {"table", "page"} /\ o[2] = p}
  <2>1. /\ \A q \in Procs : \A t \in Tables : table'[q][t] = IF q = p THEN NoFrame ELSE table[q][t]
        /\ \A q \in Procs : \A v \in Pages : page'[q][v] = IF q = p THEN NoFrame ELSE page[q][v]
        /\ \A t \in Tables : table[p][t] \in abandoned' \union {NoFrame}
        /\ \A v \in Pages : page[p][v] \in abandoned' \union {NoFrame}
        /\ abandoned \subseteq abandoned'
        /\ UNCHANGED <<job, used>>
    BY DEF MemTypeOK, SysExit, Calls, Forget, SpaceOf
  <2>a. \A o \in D : \/ \E t \in Tables : o = <<"table", p, t>>
                     \/ \E v \in Pages : o = <<"page", p, v>>
    BY DEF Places
  <2>2. D \subseteq Places
    OBVIOUS
  <2>3. used' = used \ {} /\ abandoned \subseteq abandoned'
    BY <2>1
  <2>4. \A u \in {} : u = NoFrame \/ \E o \in D : u = FrameAt(o)
    OBVIOUS
  <2>5. \A o \in D : FrameAt(o) \in {} \union abandoned' \union {NoFrame} /\ FrameAt(o)' = NoFrame
    BY <2>1, <2>a, FrameAtEach
  <2>6. \A c \in Places \ D : FrameAt(c)' = FrameAt(c)
    <3> SUFFICES ASSUME NEW c \in Places, c \notin D PROVE FrameAt(c)' = FrameAt(c)
      OBVIOUS
    <3> QED
      BY <2>1, PlaceCases
  <2>7. raced' = raced
    BY DEF SysExit, Calls, Forget, SpaceOf
  <2> HIDE DEF D
  <2> QED
    BY <2>2, <2>3, <2>4, <2>5, <2>6, <2>7, Drops
<1> QED
  BY <1>1, <1>2, <1>3, <1>4, <1>5

(* A worker that needs a frame has one empty place for it.                  *)
LEMMA UseInv ==
  ASSUME MemInv, NEW w \in Workers, NEW f \in Frames, Use(w, f), NeedsFrame(job[w]),
         UNCHANGED <<life, page, brk, mcur, abandoned, patchy>>,
         used' = used \union {f}, raced' = (raced \/ f \in used),
         w = "program" => raced' = raced,
         w = "program" => f \notin used
  PROVE  MemInv'
<1> USE NumbersOK DEF MemInv, Workers, K, G
<1>a. PICK P \in Procs, V \in Pages :
        /\ job[w].p = P /\ job[w].at = V /\ V < job[w].end
        /\ job[w].op \in {"image", "stack", "brk", "mmap"}
  BY SMTT(30) DEF MemTypeOK, JobsOK, NeedsFrame, Busy
<1>b. \/ \E t \in Tables :
           /\ table[P][t] = NoFrame /\ table' = [table EXCEPT ![P][t] = f]
           /\ job' = [job EXCEPT ![w].pick = NoFrame]
      \/ /\ job[w].held = NoFrame /\ UNCHANGED table
         /\ ~Skips(job[w])
         /\ job' = [job EXCEPT ![w].held = f, ![w].pick = NoFrame]
  <2>1. CASE NeedsTable(job[w])
    <3>1. PICK i \in DOMAIN Path[V] :
            /\ table[P][Path[V][i]] = NoFrame
            /\ table' = [table EXCEPT ![P][Path[V][i]] = f]
            /\ job' = [job EXCEPT ![w].pick = NoFrame]
      BY <2>1, <1>a DEF Use, IsFirst, Missing
    <3>2. Path[V][i] \in Tables
      BY <3>1 DEF Tables
    <3> QED
      BY <3>1, <3>2
  <2>2. CASE ~NeedsTable(job[w])
    BY <2>2 DEF Use, NeedsFrame
  <2> QED
    BY <2>1, <2>2
<1>c. UNCHANGED <<life, page, brk, mcur, abandoned, patchy>>
  OBVIOUS
<1>d. /\ job' \in [Workers -> JobType]
      /\ \A u \in Workers :
           /\ job'[u].op = job[u].op /\ job'[u].p = job[u].p
           /\ job'[u].at = job[u].at /\ job'[u].end = job[u].end
      /\ job'[w].pick = NoFrame
      /\ job'[w].held \in {job[w].held, f}
      /\ \A u \in Workers : u # w => job'[u] = job[u]
  <2>1. job \in [Workers -> JobType]
    BY DEF MemTypeOK, JobType
  <2> QED
    BY <2>1, <1>b DEF JobType
<1>e. /\ table' \in [Procs -> [Tables -> Frames \union {NoFrame}]]
      /\ \A q \in Procs : q # P => table'[q] = table[q]
  <2>1. table \in [Procs -> [Tables -> Frames \union {NoFrame}]]
    BY DEF MemTypeOK
  <2>2. CASE UNCHANGED table
    BY <2>1, <2>2
  <2>3. CASE \E t \in Tables : table' = [table EXCEPT ![P][t] = f]
    BY <2>1, <2>3
  <2> QED
    BY <1>b, <2>2, <2>3
<1>1. MemTypeOK'
  BY <1>c, <1>d, <1>e DEF MemTypeOK, JobType
<1>2. JobsOK'
  <2>1. (K.pick # NoFrame => NeedsFrame(K))'
    <3>1. CASE w = "kmain"
      BY <3>1, <1>d
    <3>2. CASE w = "program" /\ K.op = "idle"
      BY <3>2, <1>d DEF JobsOK, Idle
    <3>3. CASE w = "program" /\ K.op # "idle"
      <4>1. K.p # P /\ K.p \in Procs
        BY <3>3, <1>a DEF JobsOK
      <4>2. page'[K.p] = page[K.p] /\ table'[K.p] = table[K.p] /\ job'["kmain"] = job["kmain"]
        BY <4>1, <3>3, <1>c, <1>d, <1>e
      <4> QED
        BY <4>2, NeedStays DEF JobsOK
    <3> QED
      BY <3>1, <3>2, <3>3
  <2>2. \A u \in Workers : job'[u].op = "idle" => job'[u] = Idle
    BY <1>a, <1>d DEF JobsOK
  <2>3. \A u \in Workers : job'[u].held # NoFrame => job'[u].at < job'[u].end
    BY <1>a, <1>d DEF JobsOK
  <2>4. (G.pick = NoFrame)'
    BY <1>d DEF JobsOK
  <2> QED
    BY <2>1, <2>2, <2>3, <2>4, <1>c, <1>d DEF JobsOK
<1>3. MapsOK'
  <2>1. AbsentIsEmpty'
    <3>1. life[P] # "none"
      BY <1>a DEF JobsOK
    <3> QED
      BY <3>1, <1>c, <1>e DEF MapsOK, AbsentIsEmpty
  <2>2. ImageMapped' /\ StackMapped' /\ AddMapped'
    BY <1>c, <1>d DEF MapsOK, ImageMapped, StackMapped, AddMapped
  <2>3. BrkMapped'
    <3>1. CASE w = "kmain"
      BY <3>1, <1>c, <1>d DEF MapsOK, BrkMapped
    <3>2. CASE w = "program"
      <4>1. G.op = "brk" /\ job'["program"].held # NoFrame => page[P][V] = NoFrame
        <5>1. job \in [Workers -> JobType]
          BY DEF MemTypeOK, JobType
        <5>2. CASE job' = [job EXCEPT ![w].pick = NoFrame]
          <6>1. job'["program"].held = G.held
            BY <3>2, <5>1, <5>2 DEF JobType
          <6> QED
            BY <3>2, <6>1, <1>a DEF MapsOK, BrkMapped
        <5>3. CASE job[w].held = NoFrame /\ ~Skips(job[w])
          BY <3>2, <5>3, <1>a DEF Skips
        <5> QED
          BY <1>b, <5>2, <5>3
      <4> QED
        BY <3>2, <4>1, <1>a, <1>c, <1>d DEF MapsOK, BrkMapped
    <3> QED
      BY <3>1, <3>2
  <2>4. MmapMapped' /\ OnlyPatchyAbove'
    BY <1>c, <1>d DEF MapsOK, MmapMapped, OnlyPatchyAbove
  <2> QED
    BY <2>1, <2>2, <2>3, <2>4 DEF MapsOK
<1>4. GrantedIsMapped'
  BY <1>c DEF GrantedIsMapped
<1>5. ASSUME ~raced' PROVE OwnOK'
  <2>0. ~raced /\ f \notin used /\ OwnOK /\ used \subseteq Frames
    BY <1>5 DEF MemTypeOK
  <2>1. CASE \E t \in Tables :
               /\ table[P][t] = NoFrame /\ table' = [table EXCEPT ![P][t] = f]
               /\ job' = [job EXCEPT ![w].pick = NoFrame]
    <3>0. PICK t \in Tables :
            /\ table[P][t] = NoFrame /\ table' = [table EXCEPT ![P][t] = f]
            /\ job' = [job EXCEPT ![w].pick = NoFrame]
      BY <2>1
    <3>1. /\ \A q \in Procs : \A x \in Tables :
               table'[q][x] = IF q = P /\ x = t THEN f ELSE table[q][x]
          /\ \A u \in Workers : job'[u].held = job[u].held
      BY <3>0 DEF MemTypeOK
    <3> DEFINE o == <<"table", P, t>>
    <3>2. o \in Places
      BY DEF Places
    <3>3. FrameAt(o) = NoFrame /\ FrameAt(o)' = f
      BY <3>0, <3>1, FrameAtEach
    <3>4. \A c \in Places \ {o} : FrameAt(c)' = FrameAt(c)
      BY <3>1, <1>c, PlaceCases
    <3> HIDE DEF o
    <3> QED
      BY <2>0, <1>c, <3>2, <3>3, <3>4, Grows
  <2>2. CASE /\ job[w].held = NoFrame /\ UNCHANGED table
             /\ job' = [job EXCEPT ![w].held = f, ![w].pick = NoFrame]
    <3>1. job'[w].held = f
      <4>1. job \in [Workers -> JobType]
        BY DEF MemTypeOK, JobType
      <4> QED
        BY <2>2, <4>1 DEF JobType
    <3> DEFINE o == <<"held", w, NoFrame>>
    <3>2. o \in Places
      BY DEF Places
    <3>3. FrameAt(o) = NoFrame /\ FrameAt(o)' = f
      BY <2>2, <3>1, FrameAtEach
    <3>4. \A c \in Places \ {o} : FrameAt(c)' = FrameAt(c)
      BY <2>2, <1>c, <1>d, PlaceCases
    <3> HIDE DEF o
    <3> QED
      BY <2>0, <1>c, <3>2, <3>3, <3>4, Grows
  <2> QED
    BY <1>b, <2>1, <2>2
<1> QED
  BY <1>1, <1>2, <1>3, <1>4, <1>5

LEMMA SysAllocInv ==
  ASSUME MemInv, SysAlloc
  PROVE  MemInv'
<1>1. PICK f \in Free : Use("program", f) /\ used' = used \union {f}
  BY DEF SysAlloc
<1>2. f \in Frames /\ f \notin used
  BY DEF Free
<1>3. raced' = raced /\ raced \in BOOLEAN
  BY DEF SysAlloc, MemInv, MemTypeOK
<1>4. NeedsFrame(job["program"]) /\ UNCHANGED <<life, page, brk, mcur, abandoned, patchy>>
  BY DEF SysAlloc
<1>5. raced' = (raced \/ f \in used)
  BY <1>2, <1>3
<1> QED
  BY <1>1, <1>2, <1>3, <1>4, <1>5, UseInv DEF Workers

LEMMA KTakeInv ==
  ASSUME MemInv, KTake
  PROVE  MemInv'
<1>1. PICK f \in Frames :
        /\ Use("kmain", f) /\ used' = used \union {f}
        /\ raced' = (raced \/ f \in used)
  BY DEF KTake, MemInv, MemTypeOK, Workers
<1>2. NeedsFrame(job["kmain"]) /\ UNCHANGED <<life, page, brk, mcur, abandoned, patchy>>
  BY DEF KTake, MemInv, JobsOK, K
<1> QED
  BY <1>1, <1>2, UseInv DEF Workers

LEMMA KExecFailsInv ==
  ASSUME MemInv, KExecFails
  PROVE  MemInv'
<1> USE NumbersOK DEF MemInv, Workers, K, G
<1>a. PICK P \in Procs, h \in Frames \union {NoFrame} :
        K.p = P /\ K.held = h /\ life[P] = "loading" /\ K.op # "idle"
  BY DEF MemTypeOK, JobsOK, KExecFails, NeedsFrame, Busy
<1>b. /\ life' = [life EXCEPT ![P] = "none"]
      /\ table' = [table EXCEPT ![P] = [t \in Tables |-> NoFrame]]
      /\ page' = [page EXCEPT ![P] = [v \in Pages |-> NoFrame]]
      /\ brk' = [brk EXCEPT ![P] = 0]
      /\ mcur' = [mcur EXCEPT ![P] = 0]
      /\ patchy' = patchy \ {P}
      /\ raced' = raced
      /\ job' = [job EXCEPT !["kmain"] = Idle]
  BY <1>a DEF KExecFails, Forget
<1>c. \/ /\ used' = used \ {h}
         /\ abandoned' = abandoned \union SpaceOf(P)
      \/ /\ used' = used
         /\ abandoned' = abandoned \union SpaceOf(P) \union ({h} \ {NoFrame})
  BY <1>a DEF KExecFails, Forget
<1>d. /\ SpaceOf(P) \subseteq Frames
      /\ \A t \in Tables : table[P][t] \in SpaceOf(P) \union {NoFrame}
      /\ \A v \in Pages : page[P][v] \in SpaceOf(P) \union {NoFrame}
  BY SMTT(30) DEF SpaceOf, MemTypeOK
<1>e. /\ job'["kmain"] = Idle /\ job'["program"] = job["program"]
      /\ job' \in [Workers -> JobType]
  BY <1>b DEF MemTypeOK, JobType, Idle, Ops
<1>f. /\ life'[P] = "none" /\ \A q \in Procs : q # P => life'[q] = life[q]
      /\ \A q \in Procs : \A t \in Tables : table'[q][t] = IF q = P THEN NoFrame ELSE table[q][t]
      /\ \A q \in Procs : \A v \in Pages : page'[q][v] = IF q = P THEN NoFrame ELSE page[q][v]
      /\ \A q \in Procs : q # P => brk'[q] = brk[q] /\ mcur'[q] = mcur[q]
  BY <1>b DEF MemTypeOK
<1>g. G.op # "idle" => G.p \in Procs /\ G.p # P
  BY <1>a DEF JobsOK
<1>1. MemTypeOK'
  <2>1. used' \subseteq Frames /\ abandoned' \subseteq Frames
    BY <1>a, <1>c, <1>d DEF MemTypeOK
  <2>2. life' \in [Procs -> {"none", "loading", "runs"}]
    BY <1>b DEF MemTypeOK
  <2>3. table' \in [Procs -> [Tables -> Frames \union {NoFrame}]]
    BY <1>b DEF MemTypeOK
  <2>4. page' \in [Procs -> [Pages -> Frames \union {NoFrame}]]
    BY <1>b DEF MemTypeOK
  <2>5. brk' \in [Procs -> 0 .. MmapBase] /\ mcur' \in [Procs -> 0 .. StackBase]
    BY <1>b DEF MemTypeOK
  <2>6. \A p \in Procs : life'[p] = "runs" => brk'[p] >= 1 /\ mcur'[p] >= MmapBase
    BY <1>f DEF MemTypeOK
  <2>7. raced' \in BOOLEAN /\ patchy' \subseteq Procs
    BY <1>b DEF MemTypeOK
  <2> QED
    BY <1>e, <2>1, <2>2, <2>3, <2>4, <2>5, <2>6, <2>7 DEF MemTypeOK, JobType
<1>2. JobsOK'
  <2>1. G.op # "idle" => brk'[G.p] = brk[G.p] /\ mcur'[G.p] = mcur[G.p] /\ life'[G.p] = life[G.p]
    BY <1>f, <1>g
  <2> QED
    BY <2>1, <1>e DEF JobsOK, Idle
<1>3. MapsOK'
  <2>1. AbsentIsEmpty'
    BY <1>f DEF MapsOK, AbsentIsEmpty
  <2>2. ImageMapped' /\ StackMapped' /\ AddMapped'
    BY <1>e DEF ImageMapped, StackMapped, AddMapped, Idle
  <2>3. BrkMapped'
    <3>1. G.op = "brk" => brk[G.p] <= G.at /\ (G.held # NoFrame => G.at \in Pages)
      BY <1>g DEF JobsOK, MemTypeOK
    <3> QED
      BY <3>1, <1>e, <1>f, <1>g DEF MapsOK, BrkMapped
  <2>4. MmapMapped'
    BY <1>e, <1>f, <1>g DEF MapsOK, MmapMapped
  <2>5. OnlyPatchyAbove'
    BY <1>b, <1>e, <1>f DEF MapsOK, OnlyPatchyAbove
  <2> QED
    BY <2>1, <2>2, <2>3, <2>4, <2>5 DEF MapsOK
<1>4. GrantedIsMapped'
  BY <1>f DEF GrantedIsMapped
<1>5. (~raced => OwnOK)'
  <2>0. PICK U : U = used \ used'
    OBVIOUS
  <2> DEFINE D == {o \in Places : o[1] \in {"table", "page"} /\ o[2] = P}
                    \union {<<"held", "kmain", NoFrame>>}
  <2>a. \A o \in D : \/ \E t \in Tables : o = <<"table", P, t>>
                     \/ \E v \in Pages : o = <<"page", P, v>>
                     \/ o = <<"held", "kmain", NoFrame>>
    BY DEF Places
  <2>b. /\ \A t \in Tables : table[P][t] \in abandoned' \union {NoFrame} /\ table'[P][t] = NoFrame
        /\ \A v \in Pages : page[P][v] \in abandoned' \union {NoFrame} /\ page'[P][v] = NoFrame
        /\ h \in {h} \union abandoned' \union {NoFrame}
        /\ job'["kmain"].held = NoFrame
    BY <1>c, <1>d, <1>e, <1>f DEF Idle
  <2>2. D \subseteq Places
    BY DEF Places
  <2>3. used' = used \ U /\ abandoned \subseteq abandoned'
    BY <2>0, <1>c
  <2>4. \A u \in U : u = NoFrame \/ \E o \in D : u = FrameAt(o)
    <3>1. \A u \in U : u = h
      BY <2>0, <1>c
    <3>2. <<"held", "kmain", NoFrame>> \in D /\ FrameAt(<<"held", "kmain", NoFrame>>) = h
      BY <1>a, FrameAtEach
    <3> QED
      BY <3>1, <3>2
  <2>5. ~raced => \A o \in D : FrameAt(o) \in U \union abandoned' \union {NoFrame} /\ FrameAt(o)' = NoFrame
    <3> SUFFICES ASSUME ~raced, NEW o \in D
                 PROVE  FrameAt(o) \in U \union abandoned' \union {NoFrame} /\ FrameAt(o)' = NoFrame
      OBVIOUS
    <3>1. CASE \E t \in Tables : o = <<"table", P, t>>
      BY <3>1, <2>b, FrameAtEach
    <3>2. CASE \E v \in Pages : o = <<"page", P, v>>
      BY <3>2, <2>b, FrameAtEach
    <3>3. CASE o = <<"held", "kmain", NoFrame>>
      <4>1. FrameAt(o) = h /\ FrameAt(o)' = NoFrame
        BY <3>3, <1>a, <2>b, FrameAtEach
      <4>2. h # NoFrame => h \in used
        <5>1. o \in Places
          BY <2>2
        <5> QED
          BY <4>1, <5>1 DEF OwnOK
      <4> QED
        BY <4>1, <4>2, <2>0, <1>c
    <3> QED
      BY <2>a, <3>1, <3>2, <3>3
  <2>6. \A c \in Places \ D : FrameAt(c)' = FrameAt(c)
    <3> SUFFICES ASSUME NEW c \in Places, c \notin D PROVE FrameAt(c)' = FrameAt(c)
      OBVIOUS
    <3>1. CASE \E q \in Procs : \E t \in Tables :
                 c = <<"table", q, t>> /\ FrameAt(c) = table[q][t] /\ FrameAt(c)' = table'[q][t]
      BY <3>1, <1>f
    <3>2. CASE \E q \in Procs : \E v \in Pages :
                 c = <<"page", q, v>> /\ FrameAt(c) = page[q][v] /\ FrameAt(c)' = page'[q][v]
      BY <3>2, <1>f
    <3>3. CASE \E u \in Workers :
                 c = <<"held", u, NoFrame>> /\ FrameAt(c) = job[u].held /\ FrameAt(c)' = job'[u].held
      BY <3>3, <1>e
    <3> QED
      BY <3>1, <3>2, <3>3, PlaceCases
  <2> HIDE DEF D
  <2> QED
    BY <1>b, <2>2, <2>3, <2>4, <2>5, <2>6, Drops
<1> QED
  BY <1>1, <1>2, <1>3, <1>4, <1>5

---------------------------------------------------------------------------
(* MemInv is inductive.                                                     *)
LEMMA InitInv == MemInit => MemInv
<1> SUFFICES ASSUME MemInit PROVE MemInv
  OBVIOUS
<1> USE NumbersOK DEF MemInit, Workers, K, G
<1>1. MemTypeOK
  <2>1. Idle \in JobType
    BY DEF Idle, JobType, Ops
  <2>2. job \in [Workers -> JobType]
    BY <2>1
  <2>3. /\ life \in [Procs -> {"none", "loading", "runs"}]
        /\ \A p \in Procs : life[p] # "runs"
    OBVIOUS
  <2>4. table \in [Procs -> [Tables -> Frames \union {NoFrame}]]
    OBVIOUS
  <2>5. page \in [Procs -> [Pages -> Frames \union {NoFrame}]]
    OBVIOUS
  <2>6. brk \in [Procs -> 0 .. MmapBase] /\ mcur \in [Procs -> 0 .. StackBase]
    OBVIOUS
  <2> QED
    BY <2>2, <2>3, <2>4, <2>5, <2>6 DEF MemTypeOK, JobType
<1>2. JobsOK
  BY DEF JobsOK, Idle
<1>3. MapsOK
  BY DEF MapsOK, AbsentIsEmpty, ImageMapped, StackMapped, AddMapped, BrkMapped, MmapMapped,
         OnlyPatchyAbove, Idle
<1>4. GrantedIsMapped
  BY DEF GrantedIsMapped
<1>5. OwnOK
  <2>1. \A o \in Places : FrameAt(o) = NoFrame
    <3> SUFFICES ASSUME NEW o \in Places PROVE FrameAt(o) = NoFrame
      OBVIOUS
    <3> QED
      BY PlaceCases DEF Idle
  <2> QED
    BY <2>1 DEF OwnOK
<1> QED
  BY <1>1, <1>2, <1>3, <1>4, <1>5 DEF MemInv

LEMMA StutterInv ==
  ASSUME MemInv, UNCHANGED memvars
  PROVE  MemInv'
<1> USE DEF memvars, Workers, K, G
<1>1. MemTypeOK'
  BY DEF MemInv, MemTypeOK
<1>2. JobsOK'
  BY DEF MemInv, JobsOK, NeedsFrame, Busy, NeedsTable, Missing, Skips
<1>3. MapsOK'
  BY DEF MemInv, MapsOK, AbsentIsEmpty, ImageMapped, StackMapped, AddMapped, BrkMapped,
         MmapMapped, OnlyPatchyAbove
<1>4. GrantedIsMapped'
  BY DEF MemInv, GrantedIsMapped
<1>5. (~raced => OwnOK)'
  <2>1. \A c \in Places : FrameAt(c)' = FrameAt(c)
    BY SpacesStay
  <2> QED
    BY <2>1, Stays DEF MemInv
<1> QED
  BY <1>1, <1>2, <1>3, <1>4, <1>5 DEF MemInv

LEMMA NextInv ==
  ASSUME MemInv, [MemNext]_memvars
  PROVE  MemInv'
<1>1. CASE SysAlloc
  BY <1>1, SysAllocInv
<1>2. CASE KPick
  BY <1>2, KPickInv
<1>3. CASE KTake
  BY <1>3, KTakeInv
<1>4. ASSUME NEW w \in Workers, MapPage(w) \/ SkipPage(w)
      PROVE  MemInv'
  BY <1>4, MapPageInv, SkipPageInv
<1>5. ASSUME NEW p \in Procs, KExec(p)
      PROVE  MemInv'
  BY <1>5, KExecInv
<1>6. CASE KNextPart
  BY <1>6, KNextPartInv
<1>7. CASE KAdd
  BY <1>7, KAddInv
<1>8. CASE KExecFails
  BY <1>8, KExecFailsInv
<1>9. ASSUME NEW p \in Procs, NEW target \in 1 .. MmapBase,
             SysBrkGrow(p, target) \/ SysBrkShrink(p, target)
      PROVE  MemInv'
  BY <1>9, SysBrkGrowInv, SysBrkShrinkInv
<1>10. ASSUME NEW p \in Procs, NEW pages \in 1 .. StackBase - MmapBase, SysMmap(p, pages)
       PROVE  MemInv'
  BY <1>10, SysMmapInv
<1>11. CASE SysDone
  BY <1>11, SysDoneInv
<1>12. CASE SysFail
  BY <1>12, SysFailInv
<1>13. ASSUME NEW p \in Procs, SysExit(p)
       PROVE  MemInv'
  BY <1>13, SysExitInv
<1>14. CASE UNCHANGED memvars
  BY <1>14, StutterInv
<1> QED
  BY <1>1, <1>2, <1>3, <1>4, <1>5, <1>6, <1>7, <1>8, <1>9, <1>10, <1>11, <1>12, <1>13, <1>14
     DEF MemNext

LEMMA MemInvHolds == MemSpec => []MemInv
<1>1. MemInit => MemInv
  BY InitInv
<1>2. MemInv /\ [MemNext]_memvars => MemInv'
  BY NextInv
<1> QED
  BY <1>1, <1>2, PTL DEF MemSpec

---------------------------------------------------------------------------
(* mm/pmm.c, mm/vmm.c, kernel/proc.c: every variable keeps its type, and a   *)
(* running program's break and mmap_cur are where loading it put them or    *)
(* above.                                                                   *)
THEOREM MemTypes == MemSpec => []MemTypeOK
<1>1. MemInv => MemTypeOK
  BY DEF MemInv
<1> QED
  BY <1>1, MemInvHolds, PTL

(* pmm.c, do_brk, ensure_page: no frame is in two places, for every number   *)
(* of programs, frames and pages, unless kmain raced for one.               *)
THEOREM FramesHaveOneOwner == MemSpec => []SoleOwner
<1>1. MemInv => SoleOwner
  BY DEF MemInv, OwnOK, SoleOwner, Taken
<1> QED
  BY <1>1, MemInvHolds, PTL

(* ... none that is referred to is in the pool ...                          *)
THEOREM OwnedFramesAreUsed == MemSpec => []OwnedIsUsed
<1>1. MemInv => OwnedIsUsed
  BY DEF MemInv, OwnOK, OwnedIsUsed, Taken
<1> QED
  BY <1>1, MemInvHolds, PTL

(* ... and none is lost but in the three ways the code loses it.            *)
THEOREM FramesAreNotLost == MemSpec => []NoFrameLost
<1>1. MemInv => NoFrameLost
  BY DEF MemInv, OwnOK, NoFrameLost
<1> QED
  BY <1>1, MemInvHolds, PTL

(* do_brk, do_mmap: what a program was granted is mapped, also while kmain   *)
(* races it for frames.                                                     *)
THEOREM GrantsAreMapped == MemSpec => []GrantedIsMapped
<1>1. MemInv => GrantedIsMapped
  BY DEF MemInv
<1> QED
  BY <1>1, MemInvHolds, PTL
---------------------------------------------------------------------------
(* The heap's list and the tree's lists in one specification.               *)

(* A behaviour of MCLists' specification is one of the heap's and one of    *)
(* the tree's: what is proved of kheap.c and of the files holds of what is  *)
(* run.                                                                     *)
THEOREM ListsAreTheirParts == ListsSpec => Spec /\ FilesSpec
<1>1. ListsInit => Init /\ FilesInit
  BY DEF ListsInit
<1>2. ASSUME [ListsNext]_<<part, vars, filevars>>
      PROVE  [Next]_vars /\ [FilesNext]_filevars
  BY <1>2 DEF ListsNext, OthersKeep
<1> QED
  BY <1>1, <1>2, PTL DEF ListsSpec, Spec, FilesSpec

(* For any window, nodes, names and programs: the heap's blocks and the     *)
(* tree, the descriptors and the Explorer keep their types.                 *)
THEOREM ListsTypes == ListsSpec => []ListsTypeOK
<1>1. TypeOK /\ FilesTypeOK => ListsTypeOK
  BY DEF ListsTypeOK
<1> QED
  BY <1>1, ListsAreTheirParts, HeapTypes, FilesTyped, PTL
==============================================================================
