----------------------------- MODULE DiskProofs -----------------------------
(***************************************************************************)
(* Proofs about the disk: the BoltFS image (BfsImage), for any trees, any   *)
(* partition size and any faults; the NVMe queue under it (Nvme), for any   *)
(* depth, command identifiers, blocks and timeouts; and the FAT32 volume    *)
(* (Fat32), for any clusters, names and directory sizes.                    *)
(***************************************************************************)
EXTENDS BfsImage, Nvme, Fat32, SequenceTheorems, WalkProofs

---------------------------------------------------------------------------
(* BfsImage.                                                                *)


(* What a write in progress has put on the disk, and what a sync that       *)
(* nothing has overlapped is writing.                                       *)
SyncInv ==
  /\ kpc # "idle" => up /\ ~clean /\ Fits(kimg.blob)
  /\ kpc = "measured" => kpos = 0 /\ (~disturbed => kimg.blob = mem)
  /\ kpc = "writing" => kpos < PieceCount(kimg.blob)
  /\ kpc = "writing" /\ ~disturbed =>
       /\ kimg = [blob |-> mem, ok |-> TRUE]
       /\ \A i \in Where : i < kpos => disk[i] = Piece(kimg, i)

(* The inductive invariant.                                                 *)
IInv == TypeOK /\ SyncInv /\ DiskMatches

(* The length of a tree is a number, and so is the count of its pieces.     *)
LEMMA TreeLength ==
  ASSUME NEW t \in AllTrees
  PROVE  /\ Len(t) \in Nat \ {0}
         /\ PieceCount(t) \in Nat
         /\ PieceCount(t) = 1 + Len(t)
  BY ImageAssumption DEF PieceCount

(* What fs_sync lays out is of the kind a piece of the disk holds.          *)
LEMMA PieceType ==
  ASSUME NEW e \in Images, NEW i \in Nat, i < PieceCount(e.blob)
  PROVE  Piece(e, i) \in Contents(i)
  <1>1. e.blob \in AllTrees
    BY DEF Images
  <1>2. i <= Len(e.blob)
    BY <1>1, TreeLength
  <1>3. CASE i = 0
    BY <1>3 DEF Piece, Heads, Contents
  <1>4. CASE i # 0
    BY <1>2, <1>4 DEF Piece, Bodies, Contents
  <1> QED
    BY <1>3, <1>4

(* Writing the first n pieces of an image keeps the disk well typed.        *)
LEMMA OverwrittenType ==
  ASSUME TypeOK, NEW e \in Images, NEW n \in Nat, n <= PieceCount(e.blob),
         disk' = Overwritten(e, n)
  PROVE  /\ DOMAIN disk' = Where
         /\ \A i \in Where : disk'[i] \in Contents(i)
  <1>1. DOMAIN disk' = Where
    BY DEF Overwritten
  <1>2. ASSUME NEW i \in Where
        PROVE  disk'[i] \in Contents(i)
    <2>1. CASE i < n
      <3>1. e.blob \in AllTrees /\ i \in Nat
        BY ImageAssumption DEF Images, Where
      <3>2. i < PieceCount(e.blob)
        BY <2>1, <3>1, TreeLength
      <3>3. disk'[i] = Piece(e, i)
        BY <2>1 DEF Overwritten
      <3> QED
        BY <3>1, <3>2, <3>3, PieceType
    <2>2. CASE ~(i < n)
      BY <2>2 DEF TypeOK, Overwritten
    <2> QED
      BY <2>1, <2>2
  <1> QED
    BY <1>1, <1>2

(* fs_sync's beginning keeps the invariant, whatever tree it starts from.   *)
LEMMA StartSyncInv ==
  ASSUME IInv, NEW t \in AllTrees, StartSync(t), mem' = t, up' = TRUE,
         disk' = disk, saved' = saved
  PROVE  IInv'
  <1>1. TypeOK'
    <2>1. kimg' \in Images /\ mem' \in AllTrees
      BY DEF StartSync, Images
    <2>2. kpos' \in 0 .. Cap /\ kpc' \in {"idle", "measured", "writing"}
      BY ImageAssumption DEF StartSync
    <2>3. up' \in BOOLEAN /\ disturbed' \in BOOLEAN /\ clean' \in BOOLEAN
      BY DEF StartSync
    <2>4. saved' \in BOOLEAN
      BY Zenon DEF IInv, TypeOK
    <2>5. DOMAIN disk' = Where /\ \A i \in Where : disk'[i] \in Contents(i)
      BY Zenon DEF IInv, TypeOK
    <2> QED
      BY <2>1, <2>2, <2>3, <2>4, <2>5 DEF TypeOK
  <1>2. SyncInv'
    BY TreeLength DEF IInv, SyncInv, StartSync, Images, Fits, PieceCount
  <1>3. DiskMatches'
    BY DEF StartSync, DiskMatches
  <1> QED
    BY <1>1, <1>2, <1>3 DEF IInv

(* The invariant holds when the machine first comes up.                     *)
LEMMA InitInv ==
  ASSUME Init
  PROVE  IInv
  <1>1. TypeOK
    <2>1. kimg \in Images /\ mem \in AllTrees
      BY DEF Init, AllTrees, Images
    <2>2. DOMAIN disk = Where /\ \A i \in Where : disk[i] \in Contents(i)
      BY DEF Init, Contents
    <2>3. kpos \in 0 .. Cap /\ kpc \in {"idle", "measured", "writing"}
      BY ImageAssumption DEF Init
    <2> QED
      BY <2>1, <2>2, <2>3 DEF Init, TypeOK
  <1>2. SyncInv
    BY DEF Init, SyncInv
  <1>3. DiskMatches
    BY DEF Init, DiskMatches
  <1> QED
    BY <1>1, <1>2, <1>3 DEF IInv

---------------------------------------------------------------------------
(* Each step keeps the invariant.                                           *)

(* When every piece of a saved image is on the disk, boot finds it.         *)
LEMMA WholeImageHolds ==
  ASSUME ImageAssumption, NEW t \in AllTrees, Fits(t),
         mem' = t,
         \A i \in Where : i < PieceCount(t) =>
            disk'[i] = Piece([blob |-> t, ok |-> TRUE], i)
  PROVE  DiskMatches'
  <1> DEFINE e == [blob |-> t, ok |-> TRUE]
  <1>1. Len(t) \in Nat \ {0} /\ PieceCount(t) = 1 + Len(t) /\ Cap \in Nat \ {0}
    BY TreeLength, ImageAssumption
  <1>2. 0 \in Where /\ 1 .. Len(t) \subseteq Where
    BY <1>1 DEF Where, Fits
  <1>3. disk'[0] = <<e>>
    <2>1. 0 < PieceCount(t)
      BY <1>1
    <2> QED
      BY <1>2, <2>1 DEF Piece
  <1>4. ASSUME NEW i \in 1 .. Len(t)
        PROVE  disk'[i] = Piece(e, i)
    <2>1. i \in Where /\ i < PieceCount(t)
      BY <1>1, <1>2
    <2> QED
      BY <2>1
  <1> QED
    BY <1>3, <1>4 DEF DiskMatches, Holds

(* kmain changes the tree.                                                  *)
LEMMA MutateInv ==
  ASSUME IInv, NEW t \in Trees, KMutate(t)
  PROVE  IInv'
  <1>1. t \in AllTrees /\ up' = TRUE
    BY DEF KMutate, AllTrees, IInv, TypeOK
  <1> QED
    BY <1>1, StartSyncInv DEF KMutate

(* A boot reads the disk.                                                   *)
LEMMA BootInv ==
  ASSUME IInv, NEW t \in AllTrees, Boot(t)
  PROVE  IInv'
  BY StartSyncInv DEF Boot

(* The image is laid out.                                                   *)
LEMMA EmitInv ==
  ASSUME IInv, KEmit
  PROVE  IInv'
  <1>1. kimg \in Images /\ mem \in AllTrees /\ kimg.blob \in AllTrees
    BY DEF IInv, TypeOK, Images
  <1>2. kpos = 0 /\ ~clean /\ up /\ Fits(kimg.blob) /\ (~disturbed => kimg.blob = mem)
    BY DEF IInv, SyncInv, KEmit
  <1>3. kimg' \in Images
    <2>1. [blob |-> mem, ok |-> TRUE] \in Images
      BY <1>1 DEF Images
    <2> QED
      BY <1>1, <2>1 DEF KEmit
  <1>4. Fits(kimg'.blob)
    BY <1>1, <1>2, TreeLength DEF KEmit, Fits
  <1>5. TypeOK'
    <2>1. kpc' \in {"idle", "measured", "writing"}
      BY DEF KEmit
    <2> QED
      BY <1>3, <2>1, Zenon DEF IInv, TypeOK, KEmit
  <1>6. SyncInv'
    <2>1. kimg'.blob \in AllTrees
      BY <1>3 DEF Images
    <2>2. kpos' < PieceCount(kimg'.blob)
      BY <1>2, <2>1, TreeLength DEF KEmit
    <2>3. ~disturbed' => kimg' = [blob |-> mem', ok |-> TRUE]
      BY DEF KEmit
    <2>4. \A i \in Where : ~(i < kpos')
      BY <1>2, ImageAssumption DEF KEmit, Where
    <2> QED
      BY <1>2, <1>4, <2>2, <2>3, <2>4 DEF SyncInv, KEmit
  <1>7. DiskMatches'
    BY <1>2 DEF KEmit, DiskMatches
  <1> QED
    BY <1>5, <1>6, <1>7 DEF IInv

(* A piece is written.                                                      *)
LEMMA WriteInv ==
  ASSUME IInv, KWrite
  PROVE  IInv'
  <1>1. kimg \in Images /\ mem \in AllTrees /\ kimg.blob \in AllTrees /\ kpos \in Nat
    BY ImageAssumption DEF IInv, TypeOK, Images
  <1>2. up /\ ~clean /\ Fits(kimg.blob) /\ kpos < PieceCount(kimg.blob)
    BY DEF IInv, SyncInv, KWrite
  <1>3. kpos \in Where /\ kpos + 1 \in 0 .. Cap
    BY <1>1, <1>2, TreeLength, ImageAssumption DEF Fits, Where
  <1>4. DOMAIN disk = Where /\ \A i \in Where : disk[i] \in Contents(i)
    BY DEF IInv, TypeOK
  <1>5. /\ DOMAIN disk' = Where
        /\ \A i \in Where : disk'[i] = IF i = kpos THEN Piece(kimg, kpos) ELSE disk[i]
    BY <1>3, <1>4 DEF KWrite
  <1>6. TypeOK'
    <2>1. \A i \in Where : disk'[i] \in Contents(i)
      BY <1>1, <1>2, <1>4, <1>5, PieceType
    <2>2. kpc' \in {"idle", "measured", "writing"}
      BY DEF KWrite
    <2>3. clean' \in BOOLEAN /\ saved' \in BOOLEAN
      BY DEF KWrite, IInv, TypeOK
    <2>4. kpos' \in 0 .. Cap
      BY <1>3 DEF KWrite
    <2>5. up' \in BOOLEAN /\ mem' \in AllTrees /\ kimg' \in Images /\ disturbed' \in BOOLEAN
      BY Zenon DEF IInv, TypeOK, KWrite
    <2> QED
      BY <1>5, <2>1, <2>2, <2>3, <2>4, <2>5 DEF TypeOK
  <1>7. PieceCount(kimg.blob) \in Nat
    BY <1>1, TreeLength
  <1>8. ASSUME ~disturbed
        PROVE  /\ kimg = [blob |-> mem, ok |-> TRUE]
               /\ \A i \in Where : i < kpos + 1 => disk'[i] = Piece(kimg, i)
    <2>1. kimg = [blob |-> mem, ok |-> TRUE] /\ \A i \in Where : i < kpos => disk[i] = Piece(kimg, i)
      BY <1>8 DEF IInv, SyncInv, KWrite
    <2>2. \A i \in Where : i < kpos + 1 => i = kpos \/ i < kpos
      BY <1>1, ImageAssumption DEF Where
    <2> QED
      BY <1>5, <2>1, <2>2
  <1>9. CASE kpos + 1 = PieceCount(kimg.blob)
    <2>1. SyncInv'
      BY <1>9 DEF SyncInv, KWrite
    <2>2. DiskMatches'
      <3>1. CASE disturbed
        BY <1>9, <3>1 DEF KWrite, DiskMatches
      <3>2. CASE ~disturbed
        <4>1. kimg.blob = mem /\ mem' = mem /\ Fits(mem)
          BY <1>2, <1>8, <3>2 DEF KWrite
        <4>2. \A i \in Where : i < PieceCount(mem) =>
                disk'[i] = Piece([blob |-> mem, ok |-> TRUE], i)
          BY <1>8, <1>9, <3>2, <4>1
        <4> QED
          BY <1>1, <4>1, <4>2, WholeImageHolds, ImageAssumption
      <3> QED
        BY <3>1, <3>2
    <2> QED
      BY <1>6, <2>1, <2>2 DEF IInv
  <1>10. CASE kpos + 1 # PieceCount(kimg.blob)
    <2>1. kpos' < PieceCount(kimg'.blob)
      BY <1>1, <1>2, <1>7, <1>10 DEF KWrite
    <2>2. /\ up' /\ ~clean' /\ Fits(kimg'.blob) /\ kpc' = "writing"
          /\ kimg' = kimg /\ mem' = mem /\ disturbed' = disturbed /\ kpos' = kpos + 1
      BY <1>2, <1>10 DEF KWrite, Fits, PieceCount
    <2>3. ~disturbed' => /\ kimg' = [blob |-> mem', ok |-> TRUE]
                         /\ \A i \in Where : i < kpos' => disk'[i] = Piece(kimg', i)
      BY <1>8, <2>2
    <2>4. SyncInv'
      BY <2>1, <2>2, <2>3 DEF SyncInv
    <2>5. DiskMatches'
      BY <2>2 DEF DiskMatches
    <2> QED
      BY <1>6, <2>4, <2>5 DEF IInv
  <1> QED
    BY <1>9, <1>10

(* Steps that leave the disk, the tree and the image alone.                 *)
LEMMA StopInv ==
  ASSUME IInv, KWriteError \/ PowerOff
  PROVE  IInv'
  <1>1. /\ kpc' = "idle" /\ up' \in BOOLEAN
        /\ UNCHANGED <<mem, disk, kimg, kpos, disturbed, clean, saved>>
    BY DEF KWriteError, PowerOff, IInv, TypeOK
  <1>2. TypeOK'
    BY <1>1, Zenon DEF IInv, TypeOK
  <1>3. SyncInv'
    BY <1>1 DEF SyncInv
  <1>4. DiskMatches'
    BY <1>1 DEF IInv, DiskMatches, Holds
  <1> QED
    BY <1>2, <1>3, <1>4 DEF IInv

(* A program's call changes the tree and saves it.                          *)
LEMMA SysMutateInv ==
  ASSUME IInv, NEW t \in Trees, SysMutate(t)
  PROVE  IInv'
  <1> DEFINE e == [blob |-> t, ok |-> TRUE]
  <1>1. t \in AllTrees /\ e \in Images /\ e.blob = t
    BY DEF AllTrees, Images
  <1>2. PieceCount(t) \in Nat \ {0}
    BY <1>1, TreeLength
  <1>3. /\ up' = up /\ kpc' = kpc /\ kimg' = kimg /\ kpos' = kpos
        /\ mem' = t /\ disturbed' = TRUE
    BY DEF SysMutate
  <1>4. /\ clean' \in BOOLEAN
        /\ saved' \in BOOLEAN
        /\ clean' => kpc = "idle" /\ Fits(t) /\ disk' = Overwritten(e, PieceCount(t))
    BY DEF SysMutate, IInv, TypeOK
  <1>5. DOMAIN disk' = Where /\ \A i \in Where : disk'[i] \in Contents(i)
    <2>1. ASSUME NEW n \in 0 .. PieceCount(t), disk' = Overwritten(e, n)
          PROVE  DOMAIN disk' = Where /\ \A i \in Where : disk'[i] \in Contents(i)
      <3>1. n \in Nat /\ n <= PieceCount(e.blob)
        BY <1>1, <1>2
      <3> QED
        BY <1>1, <2>1, <3>1, OverwrittenType DEF IInv
    <2>2. CASE disk' = disk
      BY <2>2 DEF IInv, TypeOK
    <2>3. (\E n \in 0 .. PieceCount(t) : disk' = Overwritten(e, n)) \/ disk' = disk
      <3>1. /\ PieceCount(t) \in 0 .. PieceCount(t)
            /\ 0 .. PieceCount(t) - 1 \subseteq 0 .. PieceCount(t)
        BY <1>2
      <3> HIDE DEF e
      <3> QED
        BY <3>1 DEF SysMutate, e
    <2> QED
      BY <2>1, <2>2, <2>3
  <1>6. TypeOK'
    <2>1. /\ up' \in BOOLEAN /\ kpc' \in {"idle", "measured", "writing"}
          /\ kimg' \in Images /\ kpos' \in 0 .. Cap
      BY <1>3 DEF IInv, TypeOK
    <2>2. mem' \in AllTrees /\ disturbed' \in BOOLEAN
      BY <1>1, <1>3
    <2> QED
      BY <1>4, <1>5, <2>1, <2>2 DEF TypeOK
  <1>7. SyncInv'
    BY <1>3, <1>4 DEF IInv, SyncInv, Fits, PieceCount
  <1>8. DiskMatches'
    <2>1. CASE ~clean'
      BY <2>1 DEF DiskMatches
    <2>2. CASE clean'
      <3>1. \A i \in Where : i < PieceCount(t) => disk'[i] = Piece(e, i)
        BY <1>4, <2>2 DEF Overwritten
      <3> QED
        BY <1>1, <1>3, <1>4, <2>2, <3>1, WholeImageHolds, ImageAssumption
    <2> QED
      BY <2>1, <2>2
  <1> QED
    BY <1>6, <1>7, <1>8 DEF IInv

(* Every step keeps the invariant.                                          *)
LEMMA NextInv ==
  ASSUME IInv, [Next]_vars
  PROVE  IInv'
  <1>1. CASE UNCHANGED vars
    <2>1. TypeOK'
      BY <1>1, Zenon DEF IInv, TypeOK, vars
    <2>2. SyncInv'
      BY <1>1 DEF IInv, SyncInv, vars, Fits, PieceCount
    <2>3. DiskMatches'
      BY <1>1 DEF IInv, DiskMatches, Holds, vars
    <2> QED
      BY <2>1, <2>2, <2>3 DEF IInv
  <1>2. ASSUME NEW t \in Trees, KMutate(t)
        PROVE  IInv'
    BY <1>2, MutateInv
  <1>3. ASSUME NEW t \in Trees, SysMutate(t)
        PROVE  IInv'
    BY <1>3, SysMutateInv
  <1>4. CASE BootLoads \/ BootLoadsGarbled \/ BootFormats \/ BootClears
    <2>1. \E t \in AllTrees : Boot(t)
      BY <1>4 DEF BootLoads, BootLoadsGarbled, BootFormats, BootClears, Images, AllTrees
    <2> QED
      BY <2>1, BootInv
  <1> QED
    BY <1>1, <1>2, <1>3, <1>4, EmitInv, WriteInv, StopInv DEF Next

---------------------------------------------------------------------------
(* Every variable keeps its type: in particular a piece of the disk always  *)
(* holds a piece of some serialisation laid out for that place.             *)
THEOREM TypeCorrect == Spec => []TypeOK
  <1>1. Init => IInv
    BY InitInv
  <1>2. IInv /\ [Next]_vars => IInv'
    BY NextInv
  <1>3. IInv => TypeOK
    BY DEF IInv
  <1> QED
    BY <1>1, <1>2, <1>3, PTL DEF Spec

(* fs_sync and fs_load_image: a mutation whose sync nothing overlapped and  *)
(* no fault cut short leaves on the disk the image boot will read the same  *)
(* tree from, over whatever was there.                                      *)
THEOREM SavedTreeIsOnDisk == Spec => []DiskMatches
  <1>1. Init => IInv
    BY InitInv
  <1>2. IInv /\ [Next]_vars => IInv'
    BY NextInv
  <1>3. IInv => DiskMatches
    BY DEF IInv
  <1> QED
    BY <1>1, <1>2, <1>3, PTL DEF Spec

(* fs_persist_init: a saved tree is loaded as it was or not at all.         *)
LEMMA BootStep ==
  ASSUME IInv, Next, ~up, up', clean
  PROVE  mem' \in {mem, Seed, Bare}
  <1>1. Holds([blob |-> mem, ok |-> TRUE])
    BY DEF IInv, DiskMatches
  <1>2. ASSUME NEW e \in Images, Holds(e)
        PROVE  e = [blob |-> mem, ok |-> TRUE]
    BY <1>1, <1>2 DEF Holds
  <1>3. CASE BootLoads
    BY <1>2, <1>3 DEF BootLoads, Boot
  <1>4. CASE BootLoadsGarbled
    BY <1>2, <1>4 DEF BootLoadsGarbled
  <1>5. CASE BootFormats
    BY <1>5 DEF BootFormats, Boot
  <1>6. CASE BootClears
    BY <1>6 DEF BootClears, Boot
  <1> QED
    BY <1>3, <1>4, <1>5, <1>6
    DEF Next, KMutate, KEmit, KWrite, KWriteError, SysMutate, PowerOff

(* fs_persist_init: after a power cycle a tree saved by a sync nothing      *)
(* overlapped comes back as it was or not at all.                           *)
THEOREM SavedTreeComesBack == Spec => SavedTreeAllOrNothing
  <1>1. Init => IInv
    BY InitInv
  <1>2. IInv /\ [Next]_vars => IInv'
    BY NextInv
  <1>3. IInv /\ [Next]_vars => [~up /\ up' /\ clean => mem' \in {mem, Seed, Bare}]_vars
    BY BootStep
  <1> QED
    BY <1>1, <1>2, <1>3, PTL DEF Spec, SavedTreeAllOrNothing

---------------------------------------------------------------------------
(* Nvme: places in its rings.                                               *)

(* The place after one is in the ring.                                      *)
LEMMA Next1In ==
  ASSUME NEW i \in Slots
  PROVE  Next1(i) \in Slots /\ Next1(i) # i
BY NvmeAssumption DEF Slots, Next1

(* How far one place is ahead of another.                                   *)
LEMMA AheadIs ==
  ASSUME NEW from \in Slots, NEW to \in Slots
  PROVE  Ahead(from, to) \in 0 .. Depth - 1 /\ (Ahead(from, to) = 0 <=> from = to)
BY NvmeAssumption DEF Slots, Ahead

(* A ring grows at its tail while there is room,                            *)
LEMMA TailMoves ==
  ASSUME NEW from \in Slots, NEW to \in Slots, Ahead(from, to) < Depth - 1
  PROVE  Next1(to) # from /\ Ahead(from, Next1(to)) = Ahead(from, to) + 1
BY NvmeAssumption DEF Slots, Ahead, Next1

(* and has room while the place after its tail is not its head.             *)
LEMMA HasRoom ==
  ASSUME NEW from \in Slots, NEW to \in Slots, Next1(to) # from
  PROVE  Ahead(from, to) < Depth - 1
BY NvmeAssumption DEF Slots, Ahead, Next1

(* It shrinks at its head while it is not empty.                            *)
LEMMA HeadMoves ==
  ASSUME NEW from \in Slots, NEW to \in Slots, from # to
  PROVE  Ahead(Next1(from), to) = Ahead(from, to) - 1
BY NvmeAssumption DEF Slots, Ahead, Next1

(* RemoveAt takes one out of a sequence and leaves of its elements some.    *)
LEMMA OneOut ==
  ASSUME NEW T, NEW s \in Seq(T), NEW i \in 1 .. Len(s)
  PROVE  RemoveAt(s, i) \in Seq(T) /\ Len(RemoveAt(s, i)) = Len(s) - 1
<1> DEFINE a == SubSeq(s, 1, i - 1)
           b == SubSeq(s, i + 1, Len(s))
<1>1. Len(s) \in Nat
  OBVIOUS
<1>2. a \in Seq(T) /\ Len(a) = i - 1
  OBVIOUS
<1>3. b \in Seq(T) /\ Len(b) = Len(s) - i
  OBVIOUS
<1> HIDE DEF a, b
<1>4. a \o b \in Seq(T) /\ Len(a \o b) = Len(a) + Len(b)
  BY <1>2, <1>3
<1>5. RemoveAt(s, i) = a \o b
  BY DEF RemoveAt, a, b
<1>6. Len(a) + Len(b) = Len(s) - 1
  BY <1>1, <1>2, <1>3
<1> QED
  BY <1>4, <1>5, <1>6, Zenon

---------------------------------------------------------------------------
(* Nvme: the calls.                                                         *)

(* A call's fields.                                                         *)
CallState == [pc : Steps, write : BOOLEAN, at : 0 .. LastBlock + 1,
              end : 0 .. LastBlock + 1, cid : Cids, slot : Slots,
              data : Values \union {NoData}]

(* What may be known of a call in itself.                                   *)
CallOK(r) ==
  /\ r \in CallState
  /\ r.write => r.data \in Values
  /\ r.pc # "idle" => r.at < r.end

(* Of all the calls.                                                        *)
CallsOK(c) == c \in [Callers -> CallState] /\ \A w \in Callers : CallOK(c[w])

(* w's call became r, no other did anything.                                *)
Became(c, w, r) == c \in [Callers -> CallState] /\ c[w] = r
                   /\ \A o \in Callers \ {w} : c[o] = call[o]

(* The types, with the calls', in a state and in the next.                  *)
LEMMA NvmeTypes == NvmeTypeOK => CallsOK(call)
BY DEF NvmeTypeOK, CallsOK, CallOK, CallState

(* The next state's, unfolded.                                              *)
LEMMA NvmeTypesNext ==
  ASSUME CallsOK(call)'
  PROVE  /\ call' \in [Callers -> [pc : Steps, write : BOOLEAN, at : 0 .. LastBlock + 1,
                           end : 0 .. LastBlock + 1, cid : Cids, slot : Slots,
                           data : Values \union {NoData}]]
         /\ \A w \in Callers : call'[w].write => call'[w].data \in Values
         /\ \A w \in Callers : call'[w].pc # "idle" => call'[w].at < call'[w].end
BY DEF CallsOK, CallOK, CallState

(* One call becomes another.                                                *)
LEMMA Set1 ==
  ASSUME CallsOK(call), NEW w \in Callers, NEW r, CallOK(r)
  PROVE  /\ CallsOK([call EXCEPT ![w] = r])
         /\ Became([call EXCEPT ![w] = r], w, r)
<1>1. PICK c : c = [call EXCEPT ![w] = r]
  OBVIOUS
<1>2. call \in [Callers -> CallState] /\ \A o \in Callers : CallOK(call[o])
  BY DEF CallsOK
<1>3. r \in CallState
  BY DEF CallOK
<1>4. c \in [Callers -> CallState] /\ c[w] = r /\ \A o \in Callers \ {w} : c[o] = call[o]
  BY <1>1, <1>2, <1>3
<1> QED
  BY <1>1, <1>2, <1>4 DEF CallsOK, Became

(* A call goes on within its chunk.                                         *)
Within(r, q) ==
  /\ q.write = r.write /\ q.at = r.at /\ q.end = r.end /\ q.data = r.data

(* What changes is the place in it.                                         *)
LEMMA GoOn ==
  ASSUME CallsOK(call), NEW w \in Callers, NEW pc \in Steps, call[w].pc # "idle",
         call' = [call EXCEPT ![w].pc = pc]
  PROVE  /\ CallsOK(call')
         /\ \E q : /\ Became(call', w, q) /\ Within(call[w], q)
                  /\ q.pc = pc /\ q.cid = call[w].cid /\ q.slot = call[w].slot
<1>1. PICK q : q = [call[w] EXCEPT !.pc = pc]
  OBVIOUS
<1>2. call[w] \in CallState /\ CallOK(call[w])
  BY DEF CallsOK
<1>3. /\ q \in CallState /\ Within(call[w], q)
      /\ q.pc = pc /\ q.cid = call[w].cid /\ q.slot = call[w].slot
  BY <1>1, <1>2 DEF CallState, Within
<1>4. CallOK(q)
  BY <1>2, <1>3 DEF CallOK, Within
<1>5. call' = [call EXCEPT ![w] = q]
  BY <1>1
<1>6. /\ CallsOK([call EXCEPT ![w] = q])
      /\ Became([call EXCEPT ![w] = q], w, q)
  BY <1>4, Set1
<1>7. CallsOK(call') /\ Became(call', w, q)
  BY <1>5, <1>6, Zenon
<1> QED
  BY <1>3, <1>7, Zenon

(* nvme_rw is over.                                                         *)
LEMMA NoCallOK == CallOK(NoCall) /\ NoCall.pc = "idle" /\ NoCall.write = FALSE
<1>1. 0 \in Cids /\ 0 \in Slots /\ 0 \in 0 .. LastBlock + 1
  BY NvmeAssumption DEF Cids, Slots
<1>2. NoCall.pc = "idle" /\ NoCall.write = FALSE /\ NoCall \in CallState
  BY <1>1 DEF NoCall, CallState, Steps
<1> QED
  BY <1>2 DEF CallOK

(* It goes to the next chunk or is over.                                    *)
LEMMA ChunkAfter ==
  ASSUME CallsOK(call), NEW w \in Callers, call[w].pc # "idle"
  PROVE  \E q : /\ NextChunk(w) = [call EXCEPT ![w] = q] /\ CallOK(q)
                /\ q.pc \in {"idle", "copy"}
<1>1. CASE call[w].at + 1 = call[w].end
  BY <1>1, NoCallOK DEF NextChunk
<1>2. CASE call[w].at + 1 # call[w].end
  <2>1. PICK q : q = [call[w] EXCEPT !.pc = "copy", !.at = @ + 1]
    OBVIOUS
  <2>2. CallOK(call[w]) /\ call[w] \in CallState
    BY DEF CallsOK
  <2>3. /\ call[w].at \in Nat /\ call[w].end \in Nat /\ call[w].at < call[w].end
        /\ call[w].at + 1 < call[w].end /\ call[w].end <= LastBlock + 1
    BY <1>2, <2>2, NvmeAssumption DEF CallOK, CallState
  <2>4. call[w].at + 1 \in 0 .. LastBlock + 1
    BY <2>3, NvmeAssumption
  <2>5. q \in CallState /\ q.pc = "copy" /\ q.at < q.end /\ q.write = call[w].write
        /\ q.data = call[w].data
    BY <2>1, <2>2, <2>3, <2>4 DEF CallState, Steps
  <2>6. CallOK(q)
    BY <2>2, <2>5 DEF CallOK
  <2>7. NextChunk(w) = [call EXCEPT ![w] = q]
    BY <1>2, <2>1 DEF NextChunk
  <2> QED
    BY <2>5, <2>6, <2>7
<1> QED
  BY <1>1, <1>2

---------------------------------------------------------------------------
(* Nvme: the inductive invariant.                                           *)

(* A program's call finds kmain outside a chunk.                            *)
Alone == call["program"].pc # "idle" => call["kmain"].pc \in {"idle", "copy"}

(* The phase bits tell the entries posted in this turn of the ring from     *)
(* those of the turn before, and the one awaited tells the turn cq_head is  *)
(* in.                                                                      *)
PhaseOK ==
  /\ phase = IF cqHead <= cqTail THEN devPhase ELSE 1 - devPhase
  /\ \A i \in Slots : cq[i].phase = IF i < cqTail THEN devPhase ELSE 1 - devPhase

(* The slot a caller waits at is cq_head.                                   *)
WaitsAtHead == \A w \in Callers : call[w].pc = "wait" => call[w].slot = cqHead

(* BehindByTimeouts, without its condition.                                 *)
Counted == Outstanding = Cardinality(Waiting) + late

(* Where w's command is, and what there is on the bounce page and the media.*)
Command(w) == [cid |-> call[w].cid, write |-> call[w].write, block |-> call[w].at]
Loaded(w) == call[w].write => bounce = call[w].data
Moved(w) ==
  IF call[w].write THEN media[call[w].at] = call[w].data ELSE bounce = media[call[w].at]
Rung(w) == sqHead # sqTail /\ sq[sqHead] = Command(w) /\ Loaded(w)
Worked(w) == Len(fetched) # 0 /\ fetched[1] = Command(w) /\ Loaded(w)
Posted(w) ==
  /\ cqHead # cqTail
  /\ cq[cqHead].cid = call[w].cid
  /\ cq[cqHead].ok => Moved(w)

(* A chunk on its way, while no command has timed out.                      *)
ChunkOK(w) ==
  /\ call[w].pc \in {"fill", "ring"} => Loaded(w)
  /\ call[w].pc = "ring" => sq[sqTail] = Command(w)
  /\ call[w].pc \in {"look", "wait"} => Rung(w) \/ Worked(w) \/ Posted(w)
  /\ call[w].pc = "out" => ~call[w].write /\ Moved(w)

(* Until a clash.                                                           *)
Undisturbed ==
  /\ Alone /\ PhaseOK /\ WaitsAtHead
  /\ late < Depth - 1 => Counted
  /\ late = 0 => \A w \in Callers : ChunkOK(w)

(* The inductive invariant of the queue pair.                               *)
NvmeInv == NvmeTypeOK /\ (~clash => Undisturbed)

(* What is outstanding, in numbers.                                         *)
LEMMA Numbers ==
  ASSUME NvmeTypeOK
  PROVE  /\ Ahead(sqHead, sqTail) \in 0 .. Depth - 1
         /\ Ahead(cqHead, cqTail) \in 0 .. Depth - 1
         /\ Ahead(sqHead, sqTail) = 0 <=> sqHead = sqTail
         /\ Ahead(cqHead, cqTail) = 0 <=> cqHead = cqTail
         /\ Len(fetched) \in Nat
         /\ late \in Nat /\ Depth \in Nat /\ Depth >= 2
<1>1. {sqHead, sqTail, cqHead, cqTail} \subseteq Slots /\ fetched \in Seq(Commands)
  BY DEF NvmeTypeOK
<1>2. late \in Nat /\ Depth \in Nat /\ Depth >= 2 /\ Len(fetched) \in Nat
  BY <1>1, NvmeAssumption DEF NvmeTypeOK
<1> QED
  BY <1>1, <1>2, AheadIs

(* The phase awaited is found where a completion is posted and not taken,   *)
(* and nowhere else.                                                        *)
LEMMA PhaseTells ==
  ASSUME NvmeTypeOK, PhaseOK
  PROVE  cq[cqHead].phase = phase <=> cqHead # cqTail
<1>1. cqHead \in Slots /\ cqTail \in Slots /\ devPhase \in {0, 1}
  BY DEF NvmeTypeOK
<1>2. cqHead \in Nat /\ cqTail \in Nat
  BY <1>1, NvmeAssumption DEF Slots
<1> QED
  BY <1>1, <1>2 DEF PhaseOK

---------------------------------------------------------------------------
(* Nvme: the steps of a call.                                               *)

(* What w's step to the call q means for all the calls.                     *)
Acted(w, q) ==
  /\ Alone'
  /\ \A o \in Callers \ {w} : call[o].pc \in {"idle", "copy"} /\ call'[o] = call[o]
  /\ call'[w] = q
  /\ Cardinality(Waiting) = IF call[w].pc \in {"look", "wait"} THEN 1 ELSE 0
  /\ Cardinality(Waiting') = IF q.pc \in {"look", "wait"} THEN 1 ELSE 0

(* Which it always means.                                                   *)
LEMMA OneActs ==
  ASSUME NvmeTypeOK, Alone, NEW w \in Callers, Runs(w), call[w].pc # "idle",
         NEW q, Became(call', w, q)
  PROVE  Acted(w, q)
<1>1. \A o \in Callers \ {w} : call[o].pc \in {"idle", "copy"} /\ call'[o] = call[o]
  BY DEF Alone, Runs, Callers, Became
<1>2. Alone'
  BY DEF Alone, Runs, Callers, Became
<1>3. call'[w] = q
  BY DEF Became
<1>4. Waiting = IF call[w].pc \in {"look", "wait"} THEN {w} ELSE {}
  BY <1>1 DEF Waiting
<1>5. Waiting' = IF q.pc \in {"look", "wait"} THEN {w} ELSE {}
  BY <1>1, <1>3 DEF Waiting
<1>6. Cardinality({w}) = 1 /\ Cardinality({}) = 0
  BY FS_Singleton, FS_EmptySet
<1> QED
  BY <1>1, <1>2, <1>3, <1>4, <1>5, <1>6 DEF Acted

(* Callers other than w are between chunks.                                 *)
LEMMA OthersChunks ==
  ASSUME NEW w \in Callers, NEW q, Acted(w, q), ChunkOK(w)'
  PROVE  (\A o \in Callers : ChunkOK(o))'
<1>1. ASSUME NEW o \in Callers, o # w PROVE ChunkOK(o)'
  BY <1>1 DEF Acted, ChunkOK
<1> QED
  BY <1>1

(* A request begins.                                                        *)
LEMMA BeginInv ==
  ASSUME NvmeInv, NEW w \in Callers, NEW write \in BOOLEAN,
         NEW from \in 0 .. LastBlock + 1, NEW to \in 0 .. LastBlock + 1, NEW v \in Values,
         Begin(w, write, from, to, v)
  PROVE  NvmeInv'
<1>1. NvmeTypeOK /\ CallsOK(call)
  BY NvmeTypes DEF NvmeInv
<1>2. PICK q : /\ q = [NoCall EXCEPT !.pc = "copy", !.write = write, !.at = from, !.end = to,
                                     !.data = IF write THEN v ELSE NoData]
               /\ call' = [call EXCEPT ![w] = q]
  BY DEF Begin
<1>3. NoCall \in CallState
  BY NoCallOK DEF CallOK
<1>4. q \in CallState /\ q.pc = "copy" /\ q.at = from /\ q.end = to /\ q.write = write
      /\ (write => q.data = v)
  BY <1>2, <1>3 DEF CallState, Steps
<1>5. CallOK(q)
  BY <1>4 DEF CallOK, Begin
<1>6. CallsOK(call') /\ Became(call', w, q)
  BY <1>1, <1>2, <1>5, Set1
<1>7. clash' = (clash \/ call["kmain"].pc \notin {"idle", "copy"})
      /\ UNCHANGED <<sq, cq, sqTail, cqHead, phase, cid, bounce, sqHead, cqTail, devPhase,
                     fetched, media, late>>
  BY DEF Begin, devvars
<1>8. NvmeTypeOK'
  <2>1. CallsOK(call)'
    BY <1>6
  <2> QED
    BY <1>1, <1>7, <2>1, NvmeTypesNext DEF NvmeTypeOK
<1>9. ASSUME ~clash' PROVE Undisturbed'
  <2>1. Undisturbed /\ call["kmain"].pc \in {"idle", "copy"}
    BY <1>7, <1>9 DEF NvmeInv
  <2>2. call[w].pc = "idle" /\ Runs(w)
    BY DEF Begin, At
  <2>3. Alone'
    BY <1>4, <1>6, <2>1, <2>2 DEF Alone, Became, Callers, Runs
  <2>4. \A o \in Callers : \/ call'[o] = call[o]
                           \/ call[o].pc = "idle" /\ call'[o].pc = "copy"
    BY <1>4, <1>6, <2>2 DEF Became
  <2>5. PhaseOK'
    BY <1>7, <2>1 DEF Undisturbed, PhaseOK
  <2>6. WaitsAtHead'
    BY <1>7, <2>1, <2>4 DEF Undisturbed, WaitsAtHead
  <2>7. late' < Depth - 1 => Counted'
    <3>1. Waiting' = Waiting
      BY <2>4 DEF Waiting
    <3> QED
      BY <1>7, <2>1, <3>1 DEF Undisturbed, Counted, Outstanding, Ahead
  <2>8. late' = 0 => \A o \in Callers : ChunkOK(o)'
    <3>1. ASSUME late = 0, NEW o \in Callers PROVE ChunkOK(o)'
      <4>1. CASE call'[o].pc = "copy"
        BY <4>1 DEF ChunkOK
      <4>2. CASE call'[o] = call[o]
        BY <1>7, <2>1, <3>1, <4>2
           DEF Undisturbed, ChunkOK, Rung, Worked, Posted, Loaded, Moved, Command
      <4> QED
        BY <2>4, <4>1, <4>2
    <3> QED
      BY <1>7, <3>1
  <2> QED
    BY <2>3, <2>5, <2>6, <2>7, <2>8 DEF Undisturbed
<1> QED
  BY <1>8, <1>9 DEF NvmeInv

(* The data goes to the bounce page.                                        *)
LEMMA CopyInv ==
  ASSUME NvmeInv, NEW w \in Callers, Copy(w)
  PROVE  NvmeInv'
<1>1. NvmeTypeOK /\ CallsOK(call) /\ Runs(w) /\ call[w].pc = "copy"
  BY NvmeTypes DEF NvmeInv, Copy, At
<1>2. "fill" \in Steps /\ call' = [call EXCEPT ![w].pc = "fill"]
  BY DEF Copy, Steps
<1>3. /\ CallsOK(call')
      /\ \E q : /\ Became(call', w, q) /\ Within(call[w], q)
               /\ q.pc = "fill" /\ q.cid = call[w].cid /\ q.slot = call[w].slot
  <2>1. call[w].pc # "idle"
    BY <1>1
  <2> QED
    BY <1>1, <1>2, <2>1, GoOn
<1>4. /\ bounce' = IF call[w].write THEN call[w].data ELSE bounce
      /\ UNCHANGED <<sq, cq, sqTail, cqHead, phase, cid, sqHead, cqTail, devPhase,
                     fetched, media, clash, late>>
  BY DEF Copy, devvars
<1>5. NvmeTypeOK'
  <2>1. CallsOK(call)' /\ bounce' \in Values
    BY <1>1, <1>3, <1>4 DEF CallsOK, CallOK, NvmeTypeOK
  <2> QED
    BY <1>1, <1>4, <2>1, NvmeTypesNext DEF NvmeTypeOK
<1>6. ASSUME ~clash PROVE Undisturbed'
  <2> PICK q : Became(call', w, q) /\ Within(call[w], q) /\ q.pc = "fill"
    BY <1>3
  <2>1. Undisturbed /\ Acted(w, q)
    BY <1>1, <1>6, OneActs DEF NvmeInv, Undisturbed
  <2>2. PhaseOK'
    BY <1>4, <2>1 DEF Undisturbed, PhaseOK
  <2>3. WaitsAtHead'
    BY <1>4, <2>1 DEF Undisturbed, WaitsAtHead, Acted
  <2>4. late' < Depth - 1 => Counted'
    BY <1>1, <1>4, <2>1 DEF Undisturbed, Counted, Outstanding, Ahead, Acted
  <2>5. ChunkOK(w)'
    BY <1>4, <2>1 DEF ChunkOK, Loaded, Acted, Within
  <2> QED
    BY <2>1, <2>2, <2>3, <2>4, <2>5, OthersChunks DEF Undisturbed, Acted
<1> QED
  BY <1>4, <1>5, <1>6 DEF NvmeInv

(* The entry is written at the tail.                                        *)
LEMMA FillInv ==
  ASSUME NvmeInv, NEW w \in Callers, Fill(w)
  PROVE  NvmeInv'
<1>1. NvmeTypeOK /\ CallsOK(call) /\ Runs(w) /\ call[w].pc = "fill"
  BY NvmeTypes DEF NvmeInv, Fill, At
<1>2. PICK q : q = [call[w] EXCEPT !.pc = "ring", !.cid = cid]
  OBVIOUS
<1>3. call' = [call EXCEPT ![w] = q]
  BY <1>2 DEF Fill
<1>4. CallOK(call[w]) /\ cid \in Cids
  BY <1>1 DEF CallsOK, NvmeTypeOK
<1>5. q \in CallState /\ Within(call[w], q) /\ q.pc = "ring" /\ q.cid = cid
  BY <1>2, <1>4 DEF CallOK, CallState, Within, Steps
<1>6. CallOK(q)
  BY <1>1, <1>4, <1>5 DEF CallOK, Within
<1>7. CallsOK(call') /\ Became(call', w, q)
  BY <1>1, <1>3, <1>6, Set1
<1>8. /\ sq' = [sq EXCEPT ![sqTail] = Command(w)']
      /\ cid' = (cid + 1) % CidSpace
      /\ UNCHANGED <<cq, sqTail, cqHead, phase, bounce, sqHead, cqTail, devPhase,
                     fetched, media, clash, late>>
  BY <1>5, <1>7 DEF Fill, devvars, Command, Became, Within
<1>9. NvmeTypeOK'
  <2>1. CallsOK(call)'
    BY <1>7
  <2>2. Command(w)' \in Commands
    <3>1. call'[w].at \in Blocks
      BY <1>5, <1>6, <1>7, NvmeAssumption DEF CallOK, CallState, Became, Blocks
    <3> QED
      BY <1>5, <1>7, <3>1 DEF CallState, Became, Commands, Command
  <2>3. sq' \in [Slots -> Commands]
    BY <1>1, <1>8, <2>2 DEF NvmeTypeOK
  <2>4. cid' \in Cids
    BY <1>4, <1>8, NvmeAssumption DEF Cids
  <2> QED
    BY <1>1, <1>8, <2>1, <2>3, <2>4, NvmeTypesNext DEF NvmeTypeOK
<1>10. ASSUME ~clash PROVE Undisturbed'
  <2>1. Undisturbed /\ Acted(w, q)
    BY <1>1, <1>7, <1>10, OneActs DEF NvmeInv, Undisturbed
  <2>2. PhaseOK'
    BY <1>8, <2>1 DEF Undisturbed, PhaseOK
  <2>3. WaitsAtHead'
    BY <1>5, <1>8, <2>1 DEF Undisturbed, WaitsAtHead, Acted
  <2>4. late' < Depth - 1 => Counted'
    BY <1>1, <1>5, <1>8, <2>1 DEF Undisturbed, Counted, Outstanding, Ahead, Acted
  <2>5. late' = 0 => ChunkOK(w)'
    <3>1. sq'[sqTail'] = Command(w)'
      BY <1>1, <1>8 DEF NvmeTypeOK
    <3>2. late' = 0 => Loaded(w)'
      BY <1>1, <1>5, <1>8, <2>1 DEF Undisturbed, ChunkOK, Loaded, Acted, Within
    <3> QED
      BY <1>5, <2>1, <3>1, <3>2 DEF ChunkOK, Acted
  <2> QED
    BY <2>1, <2>2, <2>3, <2>4, <2>5, OthersChunks DEF Undisturbed, Acted
<1> QED
  BY <1>8, <1>9, <1>10 DEF NvmeInv

(* The tail moves: there is room, and behind it nothing else.               *)
LEMMA RingInv ==
  ASSUME NvmeInv, NEW w \in Callers, Ring(w)
  PROVE  NvmeInv'
<1>1. NvmeTypeOK /\ CallsOK(call) /\ Runs(w) /\ call[w].pc = "ring"
  BY NvmeTypes DEF NvmeInv, Ring, At
<1>2. "look" \in Steps /\ call' = [call EXCEPT ![w].pc = "look"]
  BY DEF Ring, Steps
<1>3. /\ CallsOK(call')
      /\ \E q : /\ Became(call', w, q) /\ Within(call[w], q)
               /\ q.pc = "look" /\ q.cid = call[w].cid /\ q.slot = call[w].slot
  <2>1. call[w].pc # "idle"
    BY <1>1
  <2> QED
    BY <1>1, <1>2, <2>1, GoOn
<1>4. /\ sqTail' = Next1(sqTail)
      /\ UNCHANGED <<sq, cq, cqHead, phase, cid, bounce, sqHead, cqTail, devPhase,
                     fetched, media, clash, late>>
  BY DEF Ring, devvars
<1>5. NvmeTypeOK'
  <2>1. CallsOK(call)' /\ sqTail' \in Slots
    BY <1>1, <1>3, <1>4, Next1In DEF NvmeTypeOK
  <2> QED
    BY <1>1, <1>4, <2>1, NvmeTypesNext DEF NvmeTypeOK
<1>6. ASSUME ~clash PROVE Undisturbed'
  <2> PICK q : Became(call', w, q) /\ Within(call[w], q) /\ q.pc = "look" /\ q.cid = call[w].cid
    BY <1>3
  <2>1. Undisturbed /\ Acted(w, q)
    BY <1>1, <1>6, OneActs DEF NvmeInv, Undisturbed
  <2>2. PhaseOK'
    BY <1>4, <2>1 DEF Undisturbed, PhaseOK
  <2>3. WaitsAtHead'
    BY <1>4, <2>1 DEF Undisturbed, WaitsAtHead, Acted
  <2>4. late < Depth - 1 =>
          Ahead(sqHead, sqTail) + Len(fetched) + Ahead(cqHead, cqTail) = late
    BY <1>1, <2>1, Numbers DEF Undisturbed, Counted, Outstanding, Acted
  <2>5. late' < Depth - 1 => Counted'
    <3> SUFFICES ASSUME late < Depth - 1 PROVE Counted'
      BY <1>4
    <3>1. Ahead(sqHead, sqTail) < Depth - 1
      BY <1>1, <2>4, Numbers
    <3>2. Ahead(sqHead', sqTail') = Ahead(sqHead, sqTail) + 1
      BY <1>1, <1>4, <3>1, TailMoves DEF NvmeTypeOK
    <3>3. Ahead(cqHead', cqTail') = Ahead(cqHead, cqTail) /\ Len(fetched') = Len(fetched)
      BY <1>4
    <3>4. Outstanding' = Ahead(sqHead', sqTail') + Len(fetched') + Ahead(cqHead', cqTail')
      BY DEF Outstanding, Ahead
    <3>5. Cardinality(Waiting') = 1
      BY <2>1 DEF Acted
    <3>6. Outstanding' = 1 + late
      BY <1>1, <2>4, <3>2, <3>3, <3>4, Numbers
    <3> QED
      BY <1>1, <1>4, <3>5, <3>6, Numbers DEF Counted
  <2>6. late' = 0 => ChunkOK(w)'
    <3> SUFFICES ASSUME late = 0 PROVE ChunkOK(w)'
      BY <1>4
    <3>1. sqHead = sqTail
      BY <1>1, <2>4, Numbers
    <3>2. sqHead' # sqTail'
      BY <1>1, <1>4, <3>1, Next1In DEF NvmeTypeOK
    <3>3. sq[sqHead] = Command(w) /\ Loaded(w)
      BY <1>1, <2>1, <3>1 DEF Undisturbed, ChunkOK
    <3>4. Command(w)' = Command(w) /\ (Loaded(w) => Loaded(w)')
      BY <1>4, <2>1 DEF Command, Loaded, Acted, Within
    <3> QED
      BY <1>4, <2>1, <3>2, <3>3, <3>4 DEF ChunkOK, Rung, Acted
  <2> QED
    BY <2>1, <2>2, <2>3, <2>5, <2>6, OthersChunks DEF Undisturbed, Acted
<1> QED
  BY <1>4, <1>5, <1>6 DEF NvmeInv

(* The completion to wait for is looked up.                                 *)
LEMMA LookInv ==
  ASSUME NvmeInv, NEW w \in Callers, Look(w)
  PROVE  NvmeInv'
<1>1. NvmeTypeOK /\ CallsOK(call) /\ Runs(w) /\ call[w].pc = "look"
  BY NvmeTypes DEF NvmeInv, Look, At
<1>2. PICK q : q = [call[w] EXCEPT !.pc = "wait", !.slot = cqHead]
  OBVIOUS
<1>3. call' = [call EXCEPT ![w] = q]
  BY <1>2 DEF Look
<1>4. CallOK(call[w]) /\ cqHead \in Slots
  BY <1>1 DEF CallsOK, NvmeTypeOK
<1>5. /\ q \in CallState /\ Within(call[w], q)
      /\ q.pc = "wait" /\ q.slot = cqHead /\ q.cid = call[w].cid
  BY <1>2, <1>4 DEF CallOK, CallState, Within, Steps
<1>6. CallOK(q)
  BY <1>1, <1>4, <1>5 DEF CallOK, Within
<1>7. CallsOK(call') /\ Became(call', w, q)
  BY <1>1, <1>3, <1>6, Set1
<1>8. UNCHANGED <<sq, cq, sqTail, cqHead, phase, cid, bounce, sqHead, cqTail, devPhase,
                  fetched, media, clash, late>>
  BY DEF Look, devvars
<1>9. NvmeTypeOK'
  <2>1. CallsOK(call)'
    BY <1>7
  <2> QED
    BY <1>1, <1>8, <2>1, NvmeTypesNext DEF NvmeTypeOK
<1>10. ASSUME ~clash PROVE Undisturbed'
  <2>1. Undisturbed /\ Acted(w, q)
    BY <1>1, <1>7, <1>10, OneActs DEF NvmeInv, Undisturbed
  <2>2. PhaseOK'
    BY <1>8, <2>1 DEF Undisturbed, PhaseOK
  <2>3. WaitsAtHead'
    BY <1>5, <1>8, <2>1 DEF Undisturbed, WaitsAtHead, Acted
  <2>4. late' < Depth - 1 => Counted'
    BY <1>1, <1>5, <1>8, <2>1 DEF Undisturbed, Counted, Outstanding, Ahead, Acted
  <2>5. late' = 0 => ChunkOK(w)'
    <3>1. late' = 0 => Rung(w) \/ Worked(w) \/ Posted(w)
      BY <1>1, <1>8, <2>1 DEF Undisturbed, ChunkOK
    <3>2. (Rung(w) => Rung(w)') /\ (Worked(w) => Worked(w)') /\ (Posted(w) => Posted(w)')
      BY <1>5, <1>8, <2>1 DEF Rung, Worked, Posted, Loaded, Moved, Command, Acted, Within
    <3> QED
      BY <1>5, <2>1, <3>1, <3>2 DEF ChunkOK, Acted
  <2> QED
    BY <2>1, <2>2, <2>3, <2>4, <2>5, OthersChunks DEF Undisturbed, Acted
<1> QED
  BY <1>8, <1>9, <1>10 DEF NvmeInv

(* submit gives up.                                                         *)
LEMMA TimeoutInv ==
  ASSUME NvmeInv, NEW w \in Callers, Timeout(w)
  PROVE  NvmeInv'
<1>1. NvmeTypeOK /\ CallsOK(call) /\ Runs(w) /\ call[w].pc = "wait"
  BY NvmeTypes DEF NvmeInv, Timeout, At
<1>2. PICK q : q = NoCall
  OBVIOUS
<1>3. CallOK(q) /\ q.pc = "idle" /\ call' = [call EXCEPT ![w] = q]
  BY <1>2, NoCallOK DEF Timeout
<1>4. CallsOK(call') /\ Became(call', w, q)
  BY <1>1, <1>3, Set1
<1>5. /\ late < MaxLate /\ late' = late + 1
      /\ UNCHANGED <<sq, cq, sqTail, cqHead, phase, cid, bounce, sqHead, cqTail, devPhase,
                     fetched, media, clash>>
  BY DEF Timeout, devvars
<1>6. late \in Nat /\ late' \in Nat /\ MaxLate \in Nat /\ late' # 0
  BY <1>1, <1>5, NvmeAssumption DEF NvmeTypeOK
<1>7. NvmeTypeOK'
  <2>1. CallsOK(call)' /\ late' \in 0 .. MaxLate
    BY <1>4, <1>5, <1>6
  <2> QED
    BY <1>1, <1>5, <2>1, NvmeTypesNext DEF NvmeTypeOK
<1>8. ASSUME ~clash PROVE Undisturbed'
  <2>1. Undisturbed /\ Acted(w, q)
    BY <1>1, <1>4, <1>8, OneActs DEF NvmeInv, Undisturbed
  <2>2. PhaseOK'
    BY <1>5, <2>1 DEF Undisturbed, PhaseOK
  <2>3. WaitsAtHead'
    BY <1>3, <1>5, <2>1 DEF Undisturbed, WaitsAtHead, Acted
  <2>4. late' < Depth - 1 => Counted'
    <3>1. Outstanding' = Outstanding
      BY <1>5 DEF Outstanding, Ahead
    <3>2. Cardinality(Waiting) = 1 /\ Cardinality(Waiting') = 0
      BY <1>1, <1>3, <2>1 DEF Acted
    <3>3. late' < Depth - 1 => Outstanding = 1 + late
      BY <1>1, <1>5, <1>6, <2>1, <3>2, Numbers DEF Undisturbed, Counted
    <3> QED
      BY <1>5, <1>6, <3>1, <3>2, <3>3 DEF Counted
  <2> QED
    BY <1>6, <2>1, <2>2, <2>3, <2>4 DEF Undisturbed, Acted
<1> QED
  BY <1>5, <1>7, <1>8 DEF NvmeInv

(* A read hands out what the bounce page holds.                             *)
LEMMA OutInv ==
  ASSUME NvmeInv, NEW w \in Callers, Out(w)
  PROVE  NvmeInv'
<1>1. NvmeTypeOK /\ CallsOK(call) /\ Runs(w) /\ call[w].pc = "out"
  BY NvmeTypes DEF NvmeInv, Out, At
<1>2. PICK q : call' = [call EXCEPT ![w] = q] /\ CallOK(q) /\ q.pc \in {"idle", "copy"}
  <2>1. call[w].pc # "idle"
    BY <1>1
  <2> QED
    BY <1>1, <2>1, ChunkAfter DEF Out
<1>3. CallsOK(call') /\ Became(call', w, q)
  BY <1>1, <1>2, Set1
<1>4. UNCHANGED <<sq, cq, sqTail, cqHead, phase, cid, bounce, sqHead, cqTail, devPhase,
                  fetched, media, clash, late>>
  BY DEF Out, devvars
<1>5. NvmeTypeOK'
  <2>1. CallsOK(call)'
    BY <1>3
  <2> QED
    BY <1>1, <1>4, <2>1, NvmeTypesNext DEF NvmeTypeOK
<1>6. ASSUME ~clash PROVE Undisturbed'
  <2>1. Undisturbed /\ Acted(w, q)
    BY <1>1, <1>3, <1>6, OneActs DEF NvmeInv, Undisturbed
  <2>2. PhaseOK'
    BY <1>4, <2>1 DEF Undisturbed, PhaseOK
  <2>3. WaitsAtHead'
    BY <1>2, <1>4, <2>1 DEF Undisturbed, WaitsAtHead, Acted
  <2>4. late' < Depth - 1 => Counted'
    BY <1>1, <1>2, <1>4, <2>1 DEF Undisturbed, Counted, Outstanding, Ahead, Acted
  <2>5. ChunkOK(w)'
    BY <1>2, <2>1 DEF ChunkOK, Acted
  <2> QED
    BY <2>1, <2>2, <2>3, <2>4, <2>5, OthersChunks DEF Undisturbed, Acted
<1> QED
  BY <1>4, <1>5, <1>6 DEF NvmeInv

(* A call after its completion: over, at the next chunk, or, where a read   *)
(* succeeded, about to be handed its data.                                  *)
LEMMA Taken ==
  ASSUME CallsOK(call), NEW w \in Callers, call[w].pc = "wait"
  PROVE  \E q : /\ AfterTake(w) = [call EXCEPT ![w] = q] /\ CallOK(q)
                /\ q.pc \in {"idle", "copy", "out"}
                /\ q.pc = "out" => /\ cq[call[w].slot].ok /\ ~call[w].write
                                   /\ Within(call[w], q)
<1>1. CASE ~cq[call[w].slot].ok
  BY <1>1, NoCallOK DEF AfterTake
<1>2. CASE cq[call[w].slot].ok /\ call[w].write
  <2>1. PICK q : /\ NextChunk(w) = [call EXCEPT ![w] = q] /\ CallOK(q)
                 /\ q.pc \in {"idle", "copy"}
    <3>1. call[w].pc # "idle"
      OBVIOUS
    <3> QED
      BY <3>1, ChunkAfter
  <2> QED
    BY <1>2, <2>1 DEF AfterTake
<1>3. CASE cq[call[w].slot].ok /\ ~call[w].write
  <2>1. PICK q : q = [call[w] EXCEPT !.pc = "out"]
    OBVIOUS
  <2>2. call[w] \in CallState /\ CallOK(call[w])
    BY DEF CallsOK
  <2>3. q \in CallState /\ Within(call[w], q) /\ q.pc = "out"
    BY <2>1, <2>2 DEF CallState, Within, Steps
  <2>4. CallOK(q)
    BY <2>2, <2>3 DEF CallOK, Within
  <2>5. AfterTake(w) = [call EXCEPT ![w] = q]
    BY <1>3, <2>1 DEF AfterTake
  <2> QED
    BY <1>3, <2>3, <2>4, <2>5
<1> QED
  BY <1>1, <1>2, <1>3

(* What is waited for, where one call is within a chunk.                    *)
LEMMA WaitingIs ==
  ASSUME Alone, NEW w \in Callers, call[w].pc \notin {"idle", "copy"}
  PROVE  Cardinality(Waiting) = IF call[w].pc \in {"look", "wait"} THEN 1 ELSE 0
<1>1. \A o \in Callers \ {w} : call[o].pc \in {"idle", "copy"}
  BY DEF Alone, Callers
<1>2. Waiting = IF call[w].pc \in {"look", "wait"} THEN {w} ELSE {}
  BY <1>1 DEF Waiting
<1> QED
  BY <1>2, FS_Singleton, FS_EmptySet

(* While no command has timed out, what is outstanding is w's.              *)
LEMMA OnlyOwn ==
  ASSUME NvmeTypeOK, Undisturbed, late = 0, NEW w \in Callers, call[w].pc \notin {"idle", "copy"}
  PROVE  /\ Ahead(sqHead, sqTail) + Len(fetched) + Ahead(cqHead, cqTail) =
              IF call[w].pc \in {"look", "wait"} THEN 1 ELSE 0
         /\ ChunkOK(w)
<1>1. Counted /\ ChunkOK(w) /\ Alone
  BY Numbers DEF Undisturbed
<1>2. Cardinality(Waiting) = IF call[w].pc \in {"look", "wait"} THEN 1 ELSE 0
  BY <1>1, WaitingIs
<1> QED
  BY <1>1, <1>2, Numbers DEF Counted, Outstanding

(* Where a completion is posted, it is of w's command.                      *)
LEMMA OwnPosted ==
  ASSUME NvmeTypeOK, Undisturbed, late = 0, NEW w \in Callers,
         call[w].pc = "wait", cqHead # cqTail
  PROVE  Posted(w)
<1>1. Ahead(sqHead, sqTail) + Len(fetched) + Ahead(cqHead, cqTail) = 1 /\ ChunkOK(w)
  BY OnlyOwn
<1>2. sqHead = sqTail /\ Len(fetched) = 0
  BY <1>1, Numbers
<1> QED
  BY <1>1, <1>2 DEF ChunkOK, Rung, Worked

(* The completion of the phase looked for is taken.                         *)
LEMMA TakeInv ==
  ASSUME NvmeInv, NEW w \in Callers, TakeCompletion(w)
  PROVE  NvmeInv'
<1>1. NvmeTypeOK /\ CallsOK(call) /\ Runs(w) /\ call[w].pc = "wait"
  BY NvmeTypes DEF NvmeInv, TakeCompletion, At
<1>2. PICK q : /\ call' = [call EXCEPT ![w] = q] /\ CallOK(q)
               /\ q.pc \in {"idle", "copy", "out"}
               /\ q.pc = "out" => /\ cq[call[w].slot].ok /\ ~call[w].write
                                  /\ Within(call[w], q)
  BY <1>1, Taken DEF TakeCompletion
<1>3. CallsOK(call') /\ Became(call', w, q)
  BY <1>1, <1>2, Set1
<1>4. /\ cq[call[w].slot].phase = phase
      /\ cqHead' = Next1(cqHead)
      /\ phase' = IF cqHead' = 0 THEN 1 - phase ELSE phase
      /\ UNCHANGED <<sq, cq, sqTail, cid, bounce, sqHead, cqTail, devPhase,
                     fetched, media, clash, late>>
  BY DEF TakeCompletion, devvars
<1>5. NvmeTypeOK'
  <2>1. CallsOK(call)' /\ cqHead' \in Slots /\ phase' \in {0, 1}
    BY <1>1, <1>3, <1>4, Next1In DEF NvmeTypeOK
  <2> QED
    BY <1>1, <1>4, <2>1, NvmeTypesNext DEF NvmeTypeOK
<1>6. ASSUME ~clash PROVE Undisturbed'
  <2>1. Undisturbed /\ Acted(w, q)
    BY <1>1, <1>3, <1>6, OneActs DEF NvmeInv, Undisturbed
  <2>2. call[w].slot = cqHead /\ cqHead # cqTail
    BY <1>1, <1>4, <2>1, PhaseTells DEF Undisturbed, WaitsAtHead
  <2>3. PhaseOK'
    <3>1. /\ cqHead \in Nat /\ cqTail \in Nat /\ Depth \in Nat
          /\ cqHead < Depth /\ cqTail < Depth /\ devPhase \in {0, 1}
      BY <1>1, NvmeAssumption DEF NvmeTypeOK, Slots
    <3>2. phase = IF cqHead <= cqTail THEN devPhase ELSE 1 - devPhase
      BY <2>1 DEF Undisturbed, PhaseOK
    <3>3. cqHead' = IF cqHead = Depth - 1 THEN 0 ELSE cqHead + 1
      BY <1>4 DEF Next1
    <3>4. phase' = IF cqHead' <= cqTail THEN devPhase ELSE 1 - devPhase
      BY <1>4, <2>2, <3>1, <3>2, <3>3
    <3> QED
      BY <1>4, <2>1, <3>4 DEF Undisturbed, PhaseOK
  <2>4. WaitsAtHead'
    BY <1>2, <2>1 DEF WaitsAtHead, Acted
  <2>5. late' < Depth - 1 => Counted'
    <3>1. Ahead(cqHead', cqTail') = Ahead(cqHead, cqTail) - 1
      BY <1>1, <1>4, <2>2, HeadMoves DEF NvmeTypeOK
    <3>2. Ahead(sqHead', sqTail') = Ahead(sqHead, sqTail) /\ Len(fetched') = Len(fetched)
      BY <1>4
    <3>3. Outstanding' = Ahead(sqHead', sqTail') + Len(fetched') + Ahead(cqHead', cqTail')
      BY DEF Outstanding, Ahead
    <3>4. Cardinality(Waiting) = 1 /\ Cardinality(Waiting') = 0
      BY <1>1, <1>2, <2>1 DEF Acted
    <3>5. Outstanding' = Outstanding - 1
      BY <1>1, <3>1, <3>2, <3>3, Numbers DEF Outstanding
    <3>6. late < Depth - 1 => Outstanding = 1 + late
      BY <2>1, <3>4 DEF Undisturbed, Counted
    <3> QED
      BY <1>1, <1>4, <3>4, <3>5, <3>6, Numbers DEF Counted
  <2>6. late' = 0 => ChunkOK(w)'
    <3>1. late = 0 => Posted(w)
      BY <1>1, <2>1, <2>2, OwnPosted
    <3>2. late = 0 /\ q.pc = "out" => ~q.write /\ Moved(w) /\ Within(call[w], q)
      BY <1>2, <2>2, <3>1 DEF Posted, Within
    <3>3. Within(call[w], q) => (Moved(w) => Moved(w)')
      BY <1>4, <2>1 DEF Moved, Within, Acted
    <3> QED
      BY <1>2, <1>4, <2>1, <3>2, <3>3 DEF ChunkOK, Acted
  <2> QED
    BY <1>4, <2>1, <2>3, <2>4, <2>5, <2>6, OthersChunks DEF Undisturbed, Acted
<1> QED
  BY <1>4, <1>5, <1>6 DEF NvmeInv

---------------------------------------------------------------------------
(* Nvme: the controller's steps.                                            *)

(* It fetches a command.                                                    *)
LEMMA FetchInv ==
  ASSUME NvmeInv, DevFetch
  PROVE  NvmeInv'
<1>1. NvmeTypeOK
  BY DEF NvmeInv
<1>2. /\ sqHead # sqTail /\ fetched' = Append(fetched, sq[sqHead]) /\ sqHead' = Next1(sqHead)
      /\ UNCHANGED <<sq, cq, bounce, sqTail, cqHead, phase, cid, call, clash, late,
                     cqTail, devPhase, media>>
  BY DEF DevFetch, hostvars
<1>3. /\ sqHead \in Slots /\ fetched \in Seq(Commands) /\ sq[sqHead] \in Commands
  BY <1>1 DEF NvmeTypeOK
<1>4. fetched' \in Seq(Commands) /\ Len(fetched') = Len(fetched) + 1
      /\ (Len(fetched) = 0 => fetched'[1] = sq[sqHead])
  BY <1>2, <1>3
<1>5. NvmeTypeOK'
  BY <1>1, <1>2, <1>3, <1>4, Next1In DEF NvmeTypeOK
<1>6. ASSUME ~clash PROVE Undisturbed'
  <2>1. Undisturbed
    BY <1>6 DEF NvmeInv
  <2>2. Alone' /\ PhaseOK' /\ WaitsAtHead'
    BY <1>2, <2>1 DEF Undisturbed, Alone, PhaseOK, WaitsAtHead
  <2>3. late' < Depth - 1 => Counted'
    <3>1. Ahead(sqHead', sqTail') = Ahead(sqHead, sqTail) - 1
      BY <1>1, <1>2, HeadMoves DEF NvmeTypeOK
    <3>2. Ahead(cqHead', cqTail') = Ahead(cqHead, cqTail) /\ Waiting' = Waiting
      BY <1>2 DEF Waiting
    <3>3. Outstanding' = Ahead(sqHead', sqTail') + Len(fetched') + Ahead(cqHead', cqTail')
      BY DEF Outstanding, Ahead
    <3>4. Outstanding' = Outstanding
      BY <1>1, <1>4, <3>1, <3>2, <3>3, Numbers DEF Outstanding
    <3> QED
      BY <1>2, <2>1, <3>2, <3>4 DEF Undisturbed, Counted
  <2>4. ASSUME late = 0, NEW w \in Callers PROVE ChunkOK(w)'
    <3>1. ChunkOK(w)
      BY <2>1, <2>4 DEF Undisturbed
    <3>2. CASE call[w].pc \in {"look", "wait"}
      <4>1. Ahead(sqHead, sqTail) + Len(fetched) + Ahead(cqHead, cqTail) = 1
        BY <1>1, <2>1, <2>4, <3>2, OnlyOwn
      <4>2. Len(fetched) = 0 /\ cqHead = cqTail
        BY <1>1, <1>2, <4>1, Numbers
      <4>3. Rung(w)
        BY <3>1, <3>2, <4>2 DEF ChunkOK, Worked, Posted
      <4>4. Len(fetched') # 0 /\ fetched'[1] = sq[sqHead]
        BY <1>4, <4>2
      <4>5. Worked(w)'
        BY <1>2, <4>3, <4>4 DEF Rung, Worked, Command, Loaded
      <4> QED
        BY <1>2, <3>2, <4>5 DEF ChunkOK
    <3>3. CASE call[w].pc \notin {"look", "wait"}
      BY <1>2, <3>1, <3>3 DEF ChunkOK, Command, Loaded, Moved
    <3> QED
      BY <3>2, <3>3
  <2> QED
    BY <1>2, <2>2, <2>3, <2>4 DEF Undisturbed
<1> QED
  BY <1>2, <1>5, <1>6 DEF NvmeInv

(* It moves the data of a command, or fails, and posts the completion.      *)
LEMMA CompleteInv ==
  ASSUME NvmeInv, NEW i \in 1 .. Len(fetched), NEW ok \in BOOLEAN, DevComplete(i, ok)
  PROVE  NvmeInv'
<1>1. NvmeTypeOK
  BY DEF NvmeInv
<1>2. PICK c : c = fetched[i]
  OBVIOUS
<1>3. /\ Next1(cqTail) # cqHead
      /\ media' = IF ok /\ c.write THEN [media EXCEPT ![c.block] = bounce] ELSE media
      /\ bounce' = IF ok /\ ~c.write THEN media[c.block] ELSE bounce
      /\ cq' = [cq EXCEPT ![cqTail] = [phase |-> devPhase, ok |-> ok, cid |-> c.cid]]
      /\ cqTail' = Next1(cqTail)
      /\ devPhase' = IF cqTail' = 0 THEN 1 - devPhase ELSE devPhase
      /\ fetched' = RemoveAt(fetched, i)
      /\ UNCHANGED <<sq, sqHead, sqTail, cqHead, phase, cid, call, clash, late>>
  BY <1>2 DEF DevComplete, hostvars
<1>4. /\ fetched \in Seq(Commands) /\ c \in Commands
      /\ cqTail \in Slots /\ devPhase \in {0, 1} /\ cq \in [Slots -> [phase : {0, 1}, ok : BOOLEAN, cid : Cids]]
  BY <1>1, <1>2 DEF NvmeTypeOK
<1>5. fetched' \in Seq(Commands) /\ Len(fetched') = Len(fetched) - 1
  BY <1>3, <1>4, OneOut
<1>6. PICK e : e = [phase |-> devPhase, ok |-> ok, cid |-> c.cid]
  OBVIOUS
<1>7. /\ e \in [phase : {0, 1}, ok : BOOLEAN, cid : Cids]
      /\ e.phase = devPhase /\ e.ok = ok /\ e.cid = c.cid
  BY <1>4, <1>6 DEF Commands
<1>8. /\ cq' \in [Slots -> [phase : {0, 1}, ok : BOOLEAN, cid : Cids]]
      /\ cq'[cqTail] = e /\ \A j \in Slots \ {cqTail} : cq'[j] = cq[j]
  BY <1>3, <1>4, <1>6, <1>7
<1>9. NvmeTypeOK'
  <2>1. media' \in [Blocks -> Values] /\ bounce' \in Values
    BY <1>1, <1>3, <1>4 DEF NvmeTypeOK, Commands
  <2>2. cqTail' \in Slots /\ devPhase' \in {0, 1}
    BY <1>3, <1>4, Next1In
  <2> QED
    BY <1>1, <1>3, <1>5, <1>8, <2>1, <2>2 DEF NvmeTypeOK
<1>10. ASSUME ~clash PROVE Undisturbed'
  <2>1. Undisturbed
    BY <1>10 DEF NvmeInv
  <2>2. Alone' /\ WaitsAtHead'
    BY <1>3, <2>1 DEF Undisturbed, Alone, WaitsAtHead
  <2>3. PhaseOK'
    <3>1. /\ cqHead \in Nat /\ cqTail \in Nat /\ Depth \in Nat
          /\ cqHead < Depth /\ cqTail < Depth /\ devPhase \in {0, 1}
      BY <1>1, NvmeAssumption DEF NvmeTypeOK, Slots
    <3>2. cqTail' = IF cqTail = Depth - 1 THEN 0 ELSE cqTail + 1
      BY <1>3 DEF Next1
    <3>3. phase' = IF cqHead' <= cqTail' THEN devPhase' ELSE 1 - devPhase'
      BY <1>3, <2>1, <3>1, <3>2 DEF Undisturbed, PhaseOK
    <3>4. ASSUME NEW j \in Slots
          PROVE  cq'[j].phase = IF j < cqTail' THEN devPhase' ELSE 1 - devPhase'
      <4>1. j \in Nat /\ j < Depth
        BY NvmeAssumption DEF Slots
      <4>2. CASE j = cqTail
        BY <1>3, <1>7, <1>8, <3>1, <3>2, <4>1, <4>2
      <4>3. CASE j # cqTail
        <5>1. cq'[j].phase = IF j < cqTail THEN devPhase ELSE 1 - devPhase
          BY <1>8, <2>1, <4>3 DEF Undisturbed, PhaseOK
        <5> QED
          BY <1>3, <3>1, <3>2, <4>1, <4>3, <5>1
      <4> QED
        BY <4>2, <4>3
    <3> QED
      BY <3>3, <3>4 DEF PhaseOK
  <2>4. late' < Depth - 1 => Counted'
    <3>1. Ahead(cqHead', cqTail') = Ahead(cqHead, cqTail) + 1
      BY <1>1, <1>3, HasRoom, TailMoves DEF NvmeTypeOK
    <3>2. Ahead(sqHead', sqTail') = Ahead(sqHead, sqTail) /\ Waiting' = Waiting
      BY <1>3 DEF Waiting
    <3>3. Outstanding' = Ahead(sqHead', sqTail') + Len(fetched') + Ahead(cqHead', cqTail')
      BY DEF Outstanding, Ahead
    <3>4. Outstanding' = Outstanding
      BY <1>1, <1>5, <3>1, <3>2, <3>3, Numbers DEF Outstanding
    <3> QED
      BY <1>3, <2>1, <3>2, <3>4 DEF Undisturbed, Counted
  <2>5. ASSUME late = 0, NEW w \in Callers PROVE ChunkOK(w)'
    <3>1. CASE call[w].pc \in {"idle", "copy"}
      BY <1>3, <3>1 DEF ChunkOK
    <3>2. CASE call[w].pc \notin {"idle", "copy"}
      <4>1. /\ Ahead(sqHead, sqTail) + Len(fetched) + Ahead(cqHead, cqTail) =
                 IF call[w].pc \in {"look", "wait"} THEN 1 ELSE 0
            /\ ChunkOK(w)
        BY <1>1, <2>1, <2>5, <3>2, OnlyOwn
      <4>2. /\ call[w].pc \in {"look", "wait"} /\ i = 1
            /\ sqHead = sqTail /\ cqHead = cqTail
        BY <1>1, <4>1, Numbers
      <4>3. c = Command(w) /\ Loaded(w)
        BY <1>2, <4>1, <4>2 DEF ChunkOK, Rung, Worked, Posted
      <4>4. c.cid = call[w].cid /\ c.write = call[w].write /\ c.block = call[w].at
        BY <4>3 DEF Command
      <4>5. ok => Moved(w)'
        BY <1>1, <1>3, <1>4, <4>3, <4>4 DEF Moved, Loaded, NvmeTypeOK, Commands
      <4>6. cqHead' # cqTail' /\ cq'[cqHead'] = e
        BY <1>3, <1>4, <1>8, <4>2, Next1In
      <4>7. Posted(w)'
        BY <1>3, <1>7, <4>4, <4>5, <4>6 DEF Posted
      <4> QED
        BY <1>3, <4>2, <4>7 DEF ChunkOK
    <3> QED
      BY <3>1, <3>2
  <2> QED
    BY <1>3, <2>2, <2>3, <2>4, <2>5 DEF Undisturbed
<1> QED
  BY <1>3, <1>9, <1>10 DEF NvmeInv

---------------------------------------------------------------------------
(* Nvme: results.                                                           *)

(* Fresh queues.                                                            *)
LEMMA NvmeInitInv == NvmeInit => NvmeInv
<1> SUFFICES ASSUME NvmeInit PROVE NvmeInv
  OBVIOUS
<1>1. /\ 0 \in Cids /\ 0 \in Slots /\ 0 \in 0 .. LastBlock + 1 /\ 0 \in Blocks
      /\ 0 \in 0 .. MaxLate
  BY NvmeAssumption DEF Cids, Slots, Blocks
<1>2. call \in [Callers -> CallState] /\ \A w \in Callers : call[w] = NoCall
  BY NoCallOK DEF NvmeInit, CallOK
<1>3. \A w \in Callers : call[w].pc = "idle" /\ ~call[w].write
  BY <1>2, NoCallOK
<1>4. NvmeTypeOK
  <2>1. [cid |-> 0, write |-> FALSE, block |-> 0] \in Commands
    BY <1>1 DEF Commands
  <2>2. sq \in [Slots -> Commands]
    BY <2>1 DEF NvmeInit
  <2>3. [phase |-> 0, ok |-> TRUE, cid |-> 0] \in [phase : {0, 1}, ok : BOOLEAN, cid : Cids]
    BY <1>1
  <2>4. cq \in [Slots -> [phase : {0, 1}, ok : BOOLEAN, cid : Cids]]
    BY <2>3 DEF NvmeInit
  <2>5. bounce \in Values /\ media \in [Blocks -> Values]
    BY DEF NvmeInit
  <2>6. fetched \in Seq(Commands)
    BY DEF NvmeInit
  <2>7. /\ {sqTail, cqHead, sqHead, cqTail} \subseteq Slots
        /\ {phase, devPhase} \subseteq {0, 1}
        /\ cid \in Cids /\ clash \in BOOLEAN /\ late \in 0 .. MaxLate
    BY <1>1 DEF NvmeInit
  <2> QED
    BY <1>2, <1>3, <2>2, <2>4, <2>5, <2>6, <2>7 DEF NvmeTypeOK, CallState
<1>5. Undisturbed
  <2>1. Alone /\ WaitsAtHead /\ \A w \in Callers : ChunkOK(w)
    BY <1>3 DEF Alone, WaitsAtHead, ChunkOK, Callers
  <2>2. PhaseOK
    <3>1. \A j \in Slots : cq[j].phase = 0 /\ ~(j < 0)
      BY NvmeAssumption DEF NvmeInit, Slots
    <3> QED
      BY <3>1 DEF NvmeInit, PhaseOK
  <2>3. Counted
    <3>1. Waiting = {}
      BY <1>3 DEF Waiting
    <3>2. Cardinality(Waiting) = 0
      BY <3>1, FS_EmptySet
    <3>3. Ahead(sqHead, sqTail) = 0 /\ Ahead(cqHead, cqTail) = 0 /\ Len(fetched) = 0
      BY DEF NvmeInit, Ahead
    <3>4. late = 0
      BY DEF NvmeInit
    <3> QED
      BY <3>2, <3>3, <3>4 DEF Counted, Outstanding
  <2> QED
    BY <2>1, <2>2, <2>3 DEF Undisturbed
<1> QED
  BY <1>4, <1>5 DEF NvmeInv

(* Every step keeps the invariant.                                          *)
LEMMA NvmeNextInv == NvmeInv /\ [NvmeNext]_nvmevars => NvmeInv'
<1> SUFFICES ASSUME NvmeInv, [NvmeNext]_nvmevars PROVE NvmeInv'
  OBVIOUS
<1>1. ASSUME NEW w \in Callers, NEW write \in BOOLEAN,
             NEW from \in 0 .. LastBlock + 1, NEW to \in 0 .. LastBlock + 1, NEW v \in Values,
             Begin(w, write, from, to, v)
      PROVE  NvmeInv'
  BY <1>1, BeginInv
<1>2. ASSUME NEW w \in Callers,
             Copy(w) \/ Fill(w) \/ Ring(w) \/ Look(w) \/ TakeCompletion(w) \/ Timeout(w) \/ Out(w)
      PROVE  NvmeInv'
  BY <1>2, CopyInv, FillInv, RingInv, LookInv, TakeInv, TimeoutInv, OutInv
<1>3. CASE DevFetch
  BY <1>3, FetchInv
<1>4. ASSUME NEW i \in 1 .. Len(fetched), NEW ok \in BOOLEAN, DevComplete(i, ok)
      PROVE  NvmeInv'
  BY <1>4, CompleteInv
<1>5. CASE UNCHANGED nvmevars
  BY <1>5 DEF nvmevars, NvmeInv, NvmeTypeOK, Undisturbed, Alone, PhaseOK, WaitsAtHead, Counted,
              Outstanding, Ahead, Waiting, ChunkOK, Rung, Worked, Posted, Command, Loaded, Moved
<1> QED
  BY <1>1, <1>2, <1>3, <1>4, <1>5 DEF NvmeNext

(* It holds in every state.                                                 *)
LEMMA NvmeInvariant == NvmeSpec => []NvmeInv
<1> QED
  BY NvmeInitInv, NvmeNextInv, PTL DEF NvmeSpec

(* nvme.c: the rings, their indices, the phase bit and the callers' places  *)
(* in nvme_rw and submit have their types in every state, whatever the      *)
(* controller does and whoever calls.                                       *)
THEOREM NvmeTypesHold == NvmeSpec => []NvmeTypeOK
<1>1. NvmeInv => NvmeTypeOK
  BY DEF NvmeInv
<1> QED
  BY <1>1, NvmeInvariant, PTL

(* submit: while no program's call has fallen inside a chunk of kmain's,    *)
(* the commands and completions outstanding are the one waited for and one  *)
(* for every timeout there ever was, for queues of any depth.               *)
THEOREM QueueIsBehindByTimeouts == NvmeSpec => []BehindByTimeouts
<1>1. NvmeInv => BehindByTimeouts
  BY DEF NvmeInv, Undisturbed, Counted, BehindByTimeouts
<1> QED
  BY <1>1, NvmeInvariant, PTL

(* What takes a waiting caller further, and costs no timeout, is a          *)
(* completion it takes.                                                     *)
LEMMA OnlyTaking ==
  ASSUME NvmeTypeOK, [NvmeNext]_nvmevars, NEW w \in Callers, call[w].pc = "wait",
         call'[w] # call[w]
  PROVE  \/ TakeCompletion(w)
         \/ late' # late /\ cqHead' = cqHead
<1>1. ASSUME NEW o \in Callers, NEW write \in BOOLEAN,
             NEW from \in 0 .. LastBlock + 1, NEW to \in 0 .. LastBlock + 1, NEW v \in Values,
             Begin(o, write, from, to, v)
      PROVE  FALSE
  <2>1. o # w
    BY <1>1 DEF Begin, At
  <2> QED
    BY <1>1, <2>1 DEF Begin, NvmeTypeOK
<1>2. ASSUME NEW o \in Callers, o # w,
             Copy(o) \/ Fill(o) \/ Ring(o) \/ Look(o) \/ TakeCompletion(o) \/ Timeout(o) \/ Out(o)
      PROVE  FALSE
  <2>1. \E r : call' = [call EXCEPT ![o] = r]
    <3>1. CASE Copy(o) \/ Fill(o) \/ Ring(o) \/ Look(o) \/ Timeout(o)
      BY <3>1 DEF Copy, Fill, Ring, Look, Timeout
    <3>2. CASE TakeCompletion(o) \/ Out(o)
      BY <3>2 DEF TakeCompletion, Out, AfterTake, NextChunk
    <3> QED
      BY <1>2, <3>1, <3>2
  <2> QED
    BY <1>2, <2>1 DEF NvmeTypeOK
<1>3. ASSUME Copy(w) \/ Fill(w) \/ Ring(w) \/ Look(w) \/ Out(w) PROVE FALSE
  BY <1>3 DEF Copy, Fill, Ring, Look, Out, At
<1>4. ASSUME Timeout(w) PROVE late' # late /\ cqHead' = cqHead
  <2>1. late \in Nat
    BY NvmeAssumption DEF NvmeTypeOK
  <2> QED
    BY <1>4, <2>1 DEF Timeout
<1>5. ASSUME DevFetch \/ \E i \in 1 .. Len(fetched), ok \in BOOLEAN : DevComplete(i, ok)
      PROVE  FALSE
  BY <1>5 DEF DevFetch, DevComplete, hostvars
<1>6. ASSUME UNCHANGED nvmevars PROVE FALSE
  BY <1>6 DEF nvmevars
<1> QED
  BY <1>1, <1>2, <1>3, <1>4, <1>5, <1>6 DEF NvmeNext

(* What it takes, without a clash and a timeout, is its own.                *)
LEMMA TakesOwn ==
  ASSUME NvmeInv, ~clash, late = 0, NEW w \in Callers, TakeCompletion(w)
  PROVE  call[w].slot = cqHead /\ Posted(w)
<1>1. NvmeTypeOK /\ Undisturbed /\ call[w].pc = "wait" /\ cq[call[w].slot].phase = phase
  BY DEF NvmeInv, TakeCompletion, At
<1>2. call[w].slot = cqHead /\ PhaseOK
  BY <1>1 DEF Undisturbed, WaitsAtHead
<1>3. cqHead # cqTail
  BY <1>1, <1>2, PhaseTells
<1> QED
  BY <1>1, <1>2, <1>3, OwnPosted

(* nvme_rw: a chunk that ends well has moved the caller's data to its own   *)
(* block or its block's to the caller, for any depth of the queue, any      *)
(* requests and statuses, with programs' calls between kmain's chunks.      *)
THEOREM ChunksMoveTheirData == NvmeSpec => ChunksMove
<1>1. ASSUME NvmeInv, [NvmeNext]_nvmevars, NEW w \in Callers, ~clash, late = 0, WritesWell(w)
      PROVE  media[call[w].at] = call[w].data
  <2>1. NvmeTypeOK /\ CallsOK(call) /\ call[w].pc = "wait" /\ call[w].write
    BY <1>1, NvmeTypes DEF NvmeInv, WritesWell
  <2>2. PICK q : NextChunk(w) = [call EXCEPT ![w] = q] /\ q.pc \in {"idle", "copy"}
    <3>1. call[w].pc # "idle"
      BY <2>1
    <3> QED
      BY <2>1, <3>1, ChunkAfter
  <2>3. call'[w].pc \in {"idle", "copy"}
    BY <1>1, <2>1, <2>2 DEF WritesWell, NvmeTypeOK
  <2>4. TakeCompletion(w)
    BY <1>1, <2>1, <2>3, OnlyTaking DEF WritesWell
  <2>5. cq[cqHead].ok /\ Posted(w)
    BY <1>1, <2>4, TakesOwn DEF WritesWell
  <2> QED
    BY <2>1, <2>5 DEF Posted, Moved
<1>2. ASSUME NvmeInv, NEW w \in Callers, ~clash, late = 0, call[w].pc = "out"
      PROVE  bounce = media[call[w].at]
  BY <1>2, Numbers DEF NvmeInv, Undisturbed, ChunkOK, Moved
<1>3. NvmeInv /\ [NvmeNext]_nvmevars =>
        [\A w \in Callers : ~clash /\ late = 0 =>
           /\ WritesWell(w) => media[call[w].at] = call[w].data
           /\ call[w].pc = "out" /\ call'[w] # call[w] => bounce = media[call[w].at]]_nvmevars
  BY <1>1, <1>2
<1> QED
  BY <1>3, NvmeInvariant, PTL DEF NvmeSpec, ChunksMove

(* nvme.c:115, where it does hold: until a program's call falls inside a    *)
(* chunk of kmain's or a command times out, the completion a caller takes   *)
(* is its own command's.                                                    *)
THEOREM OwnUntilDisturbed ==
  NvmeSpec => [][\A w \in Callers : ~clash /\ late = 0 =>
                   (call[w].pc = "wait" /\ cqHead' # cqHead /\ call'[w] # call[w] =>
                      cq[call[w].slot].cid = call[w].cid)]_nvmevars
<1>1. ASSUME NvmeInv, [NvmeNext]_nvmevars, NEW w \in Callers, ~clash, late = 0,
             call[w].pc = "wait", cqHead' # cqHead, call'[w] # call[w]
      PROVE  cq[call[w].slot].cid = call[w].cid
  <2>1. TakeCompletion(w)
    BY <1>1, OnlyTaking DEF NvmeInv
  <2> QED
    BY <1>1, <2>1, TakesOwn DEF Posted
<1>2. NvmeInv /\ [NvmeNext]_nvmevars =>
        [\A w \in Callers : ~clash /\ late = 0 =>
           (call[w].pc = "wait" /\ cqHead' # cqHead /\ call'[w] # call[w] =>
              cq[call[w].slot].cid = call[w].cid)]_nvmevars
  BY <1>1
<1> QED
  BY <1>2, NvmeInvariant, PTL DEF NvmeSpec

---------------------------------------------------------------------------
(* Fat32: chains of a FAT.                                                  *)

(* Chain, of any FAT.                                                       *)
LinksIn(f) == [k \in Clusters |-> {f[k]} \intersect Clusters]
ChainIn(f, c) ==
  LET within[n \in 0 .. Cardinality(Clusters)] ==
        IF n = 0 THEN {c} \intersect Clusters
        ELSE LET s == within[n - 1] IN s \union UNION {LinksIn(f)[k] : k \in s}
  IN  within[Cardinality(Clusters)]

(* Chain is ChainIn of the present FAT, in both states of a step.          *)
LEMMA ChainIs == \A c : Chain(c) = ChainIn(fat, c) /\ (Chain(c) = ChainIn(fat, c))'
BY DEF Chain, ChainIn, Linked, LinksIn

(* It is the last of as many rounds as there are clusters.                  *)
LEMMA ChainSteps ==
  ASSUME NEW f, NEW c
  PROVE  \E w : /\ Stepped(w, {c} \intersect Clusters, LinksIn(f), Cardinality(Clusters))
                /\ ChainIn(f, c) = w[Cardinality(Clusters)]
<1> DEFINE N == Cardinality(Clusters)
           w == CHOOSE g : IsWithin(g, {c} \intersect Clusters, LinksIn(f), N)
<1>1. N \in Nat
  BY FatAssumption, FS_CardinalityType
<1>2. \E g : IsWithin(g, {c} \intersect Clusters, LinksIn(f), N)
  BY <1>1, WithinExists
<1>3. IsWithin(w, {c} \intersect Clusters, LinksIn(f), N)
  BY <1>2
<1>4. ChainIn(f, c) = w[N]
  BY DEF ChainIn, Further, IsWithin
<1> HIDE DEF w, N
<1>5. ASSUME NEW k \in 0 .. N
      PROVE  w[k] = IF k = 0 THEN {c} \intersect Clusters ELSE Further(w[k - 1], LinksIn(f))
  BY <1>3 DEF IsWithin
<1>6. Stepped(w, {c} \intersect Clusters, LinksIn(f), N)
  BY <1>1, <1>5 DEF Stepped
<1> QED
  BY <1>4, <1>6 DEF N

(* Every set with c and with what follows its members holds c's chain.      *)
LEMMA ChainLeast ==
  ASSUME NEW f, NEW c, NEW S, c \in Clusters => c \in S,
         \A x \in S : x \in Clusters /\ f[x] \in Clusters => f[x] \in S
  PROVE  ChainIn(f, c) \subseteq S
<1> DEFINE N == Cardinality(Clusters)
           T == S \intersect Clusters
<1>1. N \in Nat
  BY FatAssumption, FS_CardinalityType
<1>2. PICK w : Stepped(w, {c} \intersect Clusters, LinksIn(f), N) /\ ChainIn(f, c) = w[N]
  BY ChainSteps
<1>3. {c} \intersect Clusters \subseteq T /\ \A x \in T : LinksIn(f)[x] \subseteq T
  BY DEF LinksIn
<1> HIDE DEF N, T
<1>4. w[N] \subseteq T
  BY <1>1, <1>2, <1>3, WalkLeast
<1> QED
  BY <1>2, <1>4 DEF T

(* A cluster's chain has it and what follows each of its clusters.          *)
LEMMA ChainClosed ==
  ASSUME NEW f, NEW c \in Clusters
  PROVE  /\ c \in ChainIn(f, c) /\ ChainIn(f, c) \subseteq Clusters
         /\ \A x \in ChainIn(f, c) : f[x] \in Clusters => f[x] \in ChainIn(f, c)
<1> DEFINE N == Cardinality(Clusters)
<1>1. {c} \intersect Clusters = {c}
  OBVIOUS
<1>2. PICK w : Stepped(w, {c}, LinksIn(f), N) /\ ChainIn(f, c) = w[N]
  BY <1>1, ChainSteps
<1>3. IsFiniteSet(Clusters) /\ \A x \in Clusters : LinksIn(f)[x] \subseteq Clusters
  BY FatAssumption DEF LinksIn
<1>4. /\ c \in w[N] /\ w[N] \subseteq Clusters
      /\ \A x \in w[N] : LinksIn(f)[x] \subseteq w[N]
  BY <1>2, <1>3, WalkClosed
<1> HIDE DEF N
<1>5. ASSUME NEW x \in w[N], f[x] \in Clusters PROVE f[x] \in w[N]
  BY <1>4, <1>5 DEF LinksIn
<1> QED
  BY <1>2, <1>4, <1>5

(* What is no cluster has no chain.                                         *)
LEMMA ChainNone ==
  ASSUME NEW f, NEW c, c \notin Clusters
  PROVE  ChainIn(f, c) = {}
<1>1. PICK S : S = {}
  OBVIOUS
<1>2. /\ c \in Clusters => c \in S
      /\ \A x \in S : x \in Clusters /\ f[x] \in Clusters => f[x] \in S
  BY <1>1
<1>3. ChainIn(f, c) \subseteq S
  BY <1>2, ChainLeast
<1> QED
  BY <1>1, <1>3

(* A chain is among the clusters.                                           *)
LEMMA ChainAmong == \A f, c : ChainIn(f, c) \subseteq Clusters
<1>1. ASSUME NEW f, NEW c PROVE ChainIn(f, c) \subseteq Clusters
  BY ChainNone, ChainClosed
<1> QED
  BY <1>1

(* It depends on its own clusters only.                                     *)
LEMMA ChainAgrees ==
  ASSUME NEW f, NEW g, NEW c, \A x \in ChainIn(f, c) : g[x] = f[x]
  PROVE  ChainIn(g, c) = ChainIn(f, c)
<1>1. CASE c \notin Clusters
  BY <1>1, ChainNone
<1>2. CASE c \in Clusters
  <2> DEFINE F == ChainIn(f, c)
             G == ChainIn(g, c)
             B == F \intersect G
  <2>1. /\ c \in F /\ \A x \in F : f[x] \in Clusters => f[x] \in F
        /\ c \in G /\ \A x \in G : g[x] \in Clusters => g[x] \in G
    BY <1>2, ChainClosed
  <2>2. \A x \in F : g[x] = f[x]
    OBVIOUS
  <2> HIDE DEF F, G
  <2>3. ChainIn(g, c) \subseteq F
    BY <2>1, <2>2, ChainLeast
  <2>4. c \in B /\ \A x \in B : f[x] \in Clusters => f[x] \in B
    BY <2>1, <2>2
  <2> HIDE DEF B
  <2>5. ChainIn(f, c) \subseteq B
    BY <2>4, ChainLeast
  <2> QED
    BY <2>3, <2>5 DEF B, F, G
<1> QED
  BY <1>1, <1>2

(* It is its first cluster and the chain of the next.                       *)
LEMMA ChainUnfolds ==
  ASSUME NEW f, NEW c \in Clusters
  PROVE  ChainIn(f, c) = {c} \union ChainIn(f, f[c])
<1> DEFINE F == ChainIn(f, c)
           H == ChainIn(f, f[c])
           U == {c} \union H
<1>1. c \in F /\ \A x \in F : f[x] \in Clusters => f[x] \in F
  BY ChainClosed
<1>2. f[c] \in Clusters => f[c] \in H /\ \A x \in H : f[x] \in Clusters => f[x] \in H
  BY ChainClosed
<1>3. f[c] \notin Clusters => H = {}
  BY ChainNone
<1> HIDE DEF F, H
<1>4. ChainIn(f, f[c]) \subseteq F
  BY <1>1, ChainLeast
<1>5. c \in U /\ \A x \in U : f[x] \in Clusters => f[x] \in U
  BY <1>2, <1>3
<1> HIDE DEF U
<1>6. ChainIn(f, c) \subseteq U
  BY <1>5, ChainLeast
<1> QED
  BY <1>1, <1>4, <1>6 DEF F, H, U

(* The chain of a cluster of it is part of it.                              *)
LEMMA ChainWithin ==
  ASSUME NEW f, NEW c, NEW x \in ChainIn(f, c)
  PROVE  ChainIn(f, x) \subseteq ChainIn(f, c)
<1>1. c \in Clusters
  BY ChainNone
<1> DEFINE F == ChainIn(f, c)
<1>2. x \in F /\ \A y \in F : f[y] \in Clusters => f[y] \in F
  BY <1>1, ChainClosed
<1> HIDE DEF F
<1>3. ChainIn(f, x) \subseteq F
  BY <1>2, ChainLeast
<1> QED
  BY <1>3 DEF F

(* A cluster linked behind its last one ends it.                            *)
LEMMA ChainGrows ==
  ASSUME NEW f, NEW g, NEW c, NEW p \in ChainIn(f, c), f[p] \notin Clusters,
         NEW n \in Clusters, n \notin ChainIn(f, c), f[n] \notin Clusters,
         g[p] = n, \A x \in Clusters \ {p} : g[x] = f[x]
  PROVE  ChainIn(g, c) = ChainIn(f, c) \union {n}
<1>1. c \in Clusters
  BY ChainNone
<1> DEFINE F == ChainIn(f, c)
           G == ChainIn(g, c)
           B == F \intersect G
           U == F \union {n}
<1>2. /\ c \in F /\ F \subseteq Clusters /\ \A x \in F : f[x] \in Clusters => f[x] \in F
      /\ c \in G /\ G \subseteq Clusters /\ \A x \in G : g[x] \in Clusters => g[x] \in G
  BY <1>1, ChainClosed
<1>3. p \in F /\ n \notin F
  OBVIOUS
<1> HIDE DEF F, G
<1>4. c \in U /\ \A x \in U : g[x] \in Clusters => g[x] \in U
  BY <1>2, <1>3
<1>5. c \in B /\ \A x \in B : f[x] \in Clusters => f[x] \in B
  BY <1>2, <1>3
<1> HIDE DEF U, B
<1>6. ChainIn(g, c) \subseteq U
  BY <1>4, ChainLeast
<1>7. ChainIn(f, c) \subseteq B
  BY <1>5, ChainLeast
<1>8. F \subseteq G /\ G \subseteq U
  BY <1>6, <1>7 DEF B, F, G
<1>9. n \in G
  BY <1>2, <1>3, <1>8
<1> QED
  BY <1>8, <1>9 DEF F, G, U
---------------------------------------------------------------------------
(* Volumes: a FAT f and the entries e of its clusters.                      *)

(* Fat32's operators of any volume: the entry at a place, the places of a   *)
(* directory, the directories, all places.                                  *)
EntryOf(e, p) == e[p[1]][p[2]]
PlacesIn(f, e, d) == {p \in ChainIn(f, d) \X DirSlots : EntryOf(e, p) # NoEntry}
DirsIn(f, e) ==
  {RootClus} \union {EntryOf(e, p).clus : p \in {q \in PlacesIn(f, e, RootClus) : EntryOf(e, q).dir}}
LiveIn(f, e) == UNION {PlacesIn(f, e, d) : d \in DirsIn(f, e)}
Whole(f, c) == c \in Clusters /\ \A k \in ChainIn(f, c) : f[k] # FreeClus

(* A chain shares nothing with another.                                     *)
Disjoint(f, c, k) == ChainIn(f, c) \intersect ChainIn(f, k) = {}

(* What ChainsApart says of the entry x, and of two.                        *)
Holds1(f, x) ==
  /\ x.dir => x.clus # 0
  /\ x.clus # 0 =>
       /\ Whole(f, x.clus)
       /\ x.dir \/ Cardinality(ChainIn(f, x.clus)) = x.len
       /\ Disjoint(f, x.clus, RootClus)
Sound(f, e) ==
  /\ Whole(f, RootClus)
  /\ \A p \in LiveIn(f, e) : Holds1(f, EntryOf(e, p))
  /\ \A p, q \in LiveIn(f, e) : p # q => Disjoint(f, EntryOf(e, p).clus, EntryOf(e, q).clus)

(* The clusters in use.                                                     *)
UsedIn(f, e) ==
  ChainIn(f, RootClus) \union UNION {ChainIn(f, EntryOf(e, p).clus) : p \in LiveIn(f, e)}

(* 0 and the end mark are no clusters.                                      *)
LEMMA NoClusters ==
  /\ FreeClus \notin Clusters /\ EOC \notin Clusters /\ EOC # FreeClus /\ 0 \notin Clusters
  /\ RootClus \in Clusters
BY FatAssumption DEF FreeClus, EOC

(* Fat32's are those of the volume as it is.                                *)
LEMMA VolumeIs ==
  /\ FatDirs = DirsIn(fat, entries)
  /\ LivePlaces = LiveIn(fat, entries)
  /\ \A d : EntryPlaces(d) = PlacesIn(fat, entries, d)
  /\ \A c : Complete(c) <=> Whole(fat, c)
  /\ \A p : EntryAt(p) = EntryOf(entries, p)
<1>1. \A p : EntryAt(p) = EntryOf(entries, p)
  BY DEF EntryAt, EntryOf
<1>2. \A d : EntryPlaces(d) = PlacesIn(fat, entries, d)
  BY ChainIs DEF EntryPlaces, PlacesIn, EntryOf
<1>3. FatDirs = DirsIn(fat, entries)
  BY <1>1, <1>2 DEF FatDirs, DirsIn
<1>4. LivePlaces = LiveIn(fat, entries)
  BY <1>2, <1>3 DEF LivePlaces, LiveIn
<1>5. \A c : Complete(c) <=> Whole(fat, c)
  BY ChainIs DEF Complete, Whole
<1> QED
  BY <1>1, <1>2, <1>3, <1>4, <1>5

(* The root is a directory, any other is what a live entry of the root says.*)
LEMMA DirIs ==
  ASSUME NEW f, NEW e, NEW d \in DirsIn(f, e)
  PROVE  \/ d = RootClus
         \/ \E p \in LiveIn(f, e) : /\ p \in PlacesIn(f, e, RootClus)
                                    /\ EntryOf(e, p).dir /\ EntryOf(e, p).clus = d
<1>1. PlacesIn(f, e, RootClus) \subseteq LiveIn(f, e)
  BY DEF LiveIn, DirsIn
<1> QED
  BY <1>1 DEF DirsIn

(* The chains of the directories and of the live entries are in use.        *)
LEMMA InUse ==
  ASSUME NEW f, NEW e
  PROVE  /\ \A d \in DirsIn(f, e) : ChainIn(f, d) \subseteq UsedIn(f, e)
         /\ \A p \in LiveIn(f, e) : /\ ChainIn(f, EntryOf(e, p).clus) \subseteq UsedIn(f, e)
                                    /\ p[1] \in UsedIn(f, e) /\ p[2] \in DirSlots
                                    /\ p = <<p[1], p[2]>>
<1>1. ASSUME NEW d \in DirsIn(f, e) PROVE ChainIn(f, d) \subseteq UsedIn(f, e)
  <2>1. CASE d = RootClus
    BY <2>1 DEF UsedIn
  <2>2. CASE d # RootClus
    <3>1. PICK p \in LiveIn(f, e) : EntryOf(e, p).clus = d
      BY <2>2, DirIs
    <3> QED
      BY <3>1 DEF UsedIn
  <2> QED
    BY <2>1, <2>2
<1>2. ASSUME NEW p \in LiveIn(f, e)
      PROVE  /\ ChainIn(f, EntryOf(e, p).clus) \subseteq UsedIn(f, e)
             /\ p[1] \in UsedIn(f, e) /\ p[2] \in DirSlots /\ p = <<p[1], p[2]>>
  <2>1. PICK d \in DirsIn(f, e) : p \in PlacesIn(f, e, d)
    BY DEF LiveIn
  <2>2. p \in ChainIn(f, d) \X DirSlots
    BY <2>1 DEF PlacesIn
  <2>3. p[1] \in ChainIn(f, d) /\ p[2] \in DirSlots /\ p = <<p[1], p[2]>>
    BY <2>2
  <2>4. ChainIn(f, EntryOf(e, p).clus) \subseteq UsedIn(f, e)
    BY DEF UsedIn
  <2> QED
    BY <1>1, <2>3, <2>4
<1> QED
  BY <1>1, <1>2

(* Clusters in use are not free.                                            *)
LEMMA UsedWhole ==
  ASSUME NEW f, NEW e, Sound(f, e)
  PROVE  \A c \in UsedIn(f, e) : c \in Clusters /\ f[c] # FreeClus
<1>1. ASSUME NEW c \in ChainIn(f, RootClus) PROVE c \in Clusters /\ f[c] # FreeClus
  BY ChainAmong DEF Sound, Whole
<1>2. ASSUME NEW p \in LiveIn(f, e), NEW c \in ChainIn(f, EntryOf(e, p).clus)
      PROVE  c \in Clusters /\ f[c] # FreeClus
  <2>1. EntryOf(e, p).clus # 0
    BY ChainNone, NoClusters
  <2>2. Whole(f, EntryOf(e, p).clus)
    BY <2>1 DEF Sound, Holds1
  <2> QED
    BY <2>2, ChainAmong DEF Whole
<1> QED
  BY <1>1, <1>2 DEF UsedIn

(* A directory is a cluster, and its chain is whole.                        *)
LEMMA DirWhole ==
  ASSUME NEW f, NEW e, Sound(f, e), NEW d \in DirsIn(f, e)
  PROVE  Whole(f, d) /\ d \in Clusters /\ d \in ChainIn(f, d)
<1>1. CASE d = RootClus
  BY <1>1, NoClusters, ChainClosed DEF Sound
<1>2. CASE d # RootClus
  <2>1. PICK p \in LiveIn(f, e) : EntryOf(e, p).dir /\ EntryOf(e, p).clus = d
    BY <1>2, DirIs
  <2>2. Whole(f, d)
    BY <2>1 DEF Sound, Holds1
  <2> QED
    BY <2>2, ChainClosed DEF Whole
<1> QED
  BY <1>1, <1>2

(* Two volumes that agree on the clusters the first one uses.               *)
Agree(f, e, g, h) == \A c \in UsedIn(f, e) : g[c] = f[c] /\ h[c] = e[c]
(* They have the same directories, places and chains.                       *)
Alike(f, e, g, h) ==
  /\ DirsIn(g, h) = DirsIn(f, e)
  /\ UsedIn(g, h) = UsedIn(f, e)
  /\ \A d \in DirsIn(f, e) : ChainIn(g, d) = ChainIn(f, d)

(* What changes off the clusters in use leaves a sound volume sound.       *)
LEMMA OffUsed ==
  ASSUME NEW f, NEW e, Sound(f, e), NEW g, NEW h, Agree(f, e, g, h)
  PROVE  Sound(g, h) /\ Alike(f, e, g, h)
<1>1. \A d \in DirsIn(f, e) : ChainIn(g, d) = ChainIn(f, d)
  <2>1. TAKE d \in DirsIn(f, e)
  <2>2. \A c \in ChainIn(f, d) : g[c] = f[c]
    BY InUse DEF Agree
  <2> QED
    BY <2>2, ChainAgrees
<1>2. \A d \in DirsIn(f, e) : PlacesIn(g, h, d) = PlacesIn(f, e, d)
  <2>1. TAKE d \in DirsIn(f, e)
  <2>2. \A p \in ChainIn(f, d) \X DirSlots : EntryOf(h, p) = EntryOf(e, p)
    <3>1. TAKE p \in ChainIn(f, d) \X DirSlots
    <3>2. p[1] \in UsedIn(f, e)
      BY InUse
    <3> QED
      BY <3>2 DEF Agree, EntryOf
  <2>3. ChainIn(g, d) = ChainIn(f, d)
    BY <1>1
  <2> QED
    BY <2>2, <2>3 DEF PlacesIn
<1>3. \A p \in LiveIn(f, e) : EntryOf(h, p) = EntryOf(e, p)
  BY InUse DEF Agree, EntryOf
<1>4. RootClus \in DirsIn(f, e)
  BY DEF DirsIn
<1>5. PlacesIn(f, e, RootClus) \subseteq LiveIn(f, e)
  BY <1>4 DEF LiveIn
<1>6. DirsIn(g, h) = DirsIn(f, e)
  <2>1. PlacesIn(g, h, RootClus) = PlacesIn(f, e, RootClus)
    BY <1>2, <1>4
  <2>2. \A p \in PlacesIn(f, e, RootClus) : EntryOf(h, p) = EntryOf(e, p)
    BY <1>3, <1>5
  <2> QED
    BY <2>1, <2>2 DEF DirsIn
<1>7. LiveIn(g, h) = LiveIn(f, e)
  BY <1>2, <1>6 DEF LiveIn
<1>8. \A p \in LiveIn(f, e) : ChainIn(g, EntryOf(h, p).clus) = ChainIn(f, EntryOf(e, p).clus)
  <2>1. TAKE p \in LiveIn(f, e)
  <2>2. \A c \in ChainIn(f, EntryOf(e, p).clus) : g[c] = f[c]
    BY InUse DEF Agree
  <2> QED
    BY <1>3, <2>2, ChainAgrees
<1>9. ChainIn(g, RootClus) = ChainIn(f, RootClus)
  BY <1>1, <1>4
<1>10. UsedIn(g, h) = UsedIn(f, e)
  BY <1>7, <1>8, <1>9 DEF UsedIn
<1>11. Whole(g, RootClus)
  <2>1. Whole(f, RootClus) /\ \A k \in ChainIn(f, RootClus) : g[k] = f[k]
    BY <1>4, InUse DEF Sound, Agree
  <2> QED
    BY <1>9, <2>1 DEF Whole
<1>12. ASSUME NEW p \in LiveIn(f, e) PROVE Holds1(g, EntryOf(h, p))
  <2>1. PICK x : x = EntryOf(e, p)
    OBVIOUS
  <2>2. EntryOf(h, p) = x /\ Holds1(f, x) /\ ChainIn(g, x.clus) = ChainIn(f, x.clus)
    BY <1>3, <1>8, <2>1 DEF Sound
  <2>3. \A k \in ChainIn(f, x.clus) : g[k] = f[k]
    BY <2>1, InUse DEF Agree
  <2>4. Whole(f, x.clus) => Whole(g, x.clus)
    BY <2>2, <2>3 DEF Whole
  <2>5. Holds1(g, x)
    BY <1>9, <2>2, <2>4 DEF Holds1, Disjoint
  <2> QED
    BY <2>2, <2>5
<1>13. ASSUME NEW p \in LiveIn(f, e), NEW q \in LiveIn(f, e), p # q
       PROVE  Disjoint(g, EntryOf(h, p).clus, EntryOf(h, q).clus)
  BY <1>8, <1>13 DEF Sound, Disjoint
<1>14. Sound(g, h)
  BY <1>7, <1>11, <1>12, <1>13 DEF Sound
<1> QED
  BY <1>1, <1>6, <1>10, <1>14 DEF Alike
---------------------------------------------------------------------------
(* What the calls do to a volume.                                           *)

(* Entries are dropped, none is changed.                                    *)
Dropping(f, e, h) ==
  \A c \in UsedIn(f, e), i \in DirSlots : h[c][i] = e[c][i] \/ h[c][i] = NoEntry

(* Dropping entries leaves a volume sound; no place or cluster comes into  *)
(* use.                                                                    *)
LEMMA Fewer ==
  ASSUME NEW f, NEW e, Sound(f, e), NEW h, Dropping(f, e, h)
  PROVE  /\ Sound(f, h)
         /\ DirsIn(f, h) \subseteq DirsIn(f, e)
         /\ UsedIn(f, h) \subseteq UsedIn(f, e)
         /\ \A p \in LiveIn(f, h) : p \in LiveIn(f, e) /\ EntryOf(h, p) = EntryOf(e, p)
<1>1. ASSUME NEW d \in DirsIn(f, e), NEW p \in PlacesIn(f, h, d)
      PROVE  p \in PlacesIn(f, e, d) /\ EntryOf(h, p) = EntryOf(e, p)
  <2>1. p \in ChainIn(f, d) \X DirSlots /\ EntryOf(h, p) # NoEntry
    BY DEF PlacesIn
  <2>2. p[1] \in UsedIn(f, e) /\ p[2] \in DirSlots
    BY <2>1, InUse
  <2>3. EntryOf(h, p) = EntryOf(e, p)
    BY <2>1, <2>2 DEF Dropping, EntryOf
  <2> QED
    BY <2>1, <2>3 DEF PlacesIn
<1>2. DirsIn(f, h) \subseteq DirsIn(f, e)
  <2>1. RootClus \in DirsIn(f, e) /\ RootClus \in DirsIn(f, h)
    BY DEF DirsIn
  <2> QED
    BY <1>1, <2>1 DEF DirsIn
<1>3. \A p \in LiveIn(f, h) : p \in LiveIn(f, e) /\ EntryOf(h, p) = EntryOf(e, p)
  BY <1>1, <1>2 DEF LiveIn
<1>4. UsedIn(f, h) \subseteq UsedIn(f, e)
  BY <1>3 DEF UsedIn
<1>5. Sound(f, h)
  BY <1>3 DEF Sound
<1> QED
  BY <1>2, <1>3, <1>4, <1>5

(* A new entry x may enter the directory d.                                 *)
Fit(f, e, d, x) ==
  /\ x.clus \in Clusters /\ Whole(f, x.clus)
  /\ x.dir \/ Cardinality(ChainIn(f, x.clus)) = x.len
  /\ ChainIn(f, x.clus) \intersect UsedIn(f, e) = {}
  /\ x.dir => \A c \in ChainIn(f, x.clus), i \in DirSlots : e[c][i] = NoEntry
(* It is put at a vacant place.                                             *)
Putting(f, e, d, p, x, h) ==
  /\ p \in ChainIn(f, d) \X DirSlots /\ EntryOf(e, p) = NoEntry /\ EntryOf(h, p) = x
  /\ \A q \in Clusters \X DirSlots : q # p => EntryOf(h, q) = EntryOf(e, q)

(* Putting an entry whose chain fits at a vacant place leaves a volume     *)
(* sound.                                                                  *)
LEMMA Put ==
  ASSUME NEW f, NEW e, Sound(f, e), NEW d \in DirsIn(f, e), NEW x, Fit(f, e, d, x),
         NEW p, NEW h, Putting(f, e, d, p, x, h)
  PROVE  Sound(f, h)
<1>1. /\ p \in ChainIn(f, d) \X DirSlots /\ p[1] \in UsedIn(f, e)
      /\ p \notin LiveIn(f, e) /\ EntryOf(h, p) = x
  <2>1. p \in ChainIn(f, d) \X DirSlots /\ EntryOf(e, p) = NoEntry /\ EntryOf(h, p) = x
    BY DEF Putting
  <2>2. p \notin LiveIn(f, e)
    BY <2>1 DEF LiveIn, PlacesIn
  <2> QED
    BY <2>1, <2>2, InUse
<1>2. ASSUME NEW c \in Clusters, NEW i \in DirSlots, <<c, i>> # p
      PROVE  EntryOf(h, <<c, i>>) = EntryOf(e, <<c, i>>)
  BY <1>2 DEF Putting
<1>3. ASSUME NEW k \in DirsIn(f, e), NEW q \in PlacesIn(f, h, k), q # p
      PROVE  q \in PlacesIn(f, e, k) /\ EntryOf(h, q) = EntryOf(e, q)
  <2>1. q \in ChainIn(f, k) \X DirSlots /\ EntryOf(h, q) # NoEntry
    BY DEF PlacesIn
  <2>2. q \in Clusters \X DirSlots
    BY <2>1, ChainAmong
  <2>3. EntryOf(h, q) = EntryOf(e, q)
    BY <1>3, <2>2 DEF Putting
  <2> QED
    BY <2>1, <2>3 DEF PlacesIn
<1>4. ASSUME NEW k \in DirsIn(f, h), k \notin DirsIn(f, e)
      PROVE  x.dir /\ x.clus = k
  <2>1. RootClus \in DirsIn(f, e)
    BY DEF DirsIn
  <2>2. PICK q \in PlacesIn(f, h, RootClus) : EntryOf(h, q).dir /\ EntryOf(h, q).clus = k
    BY <1>4, <2>1 DEF DirsIn
  <2>3. q = p
    BY <1>3, <1>4, <2>1, <2>2 DEF DirsIn
  <2> QED
    BY <1>1, <2>2, <2>3
<1>5. ASSUME NEW q \in LiveIn(f, h), q # p
      PROVE  q \in LiveIn(f, e) /\ EntryOf(h, q) = EntryOf(e, q)
  <2>1. PICK k \in DirsIn(f, h) : q \in PlacesIn(f, h, k)
    BY DEF LiveIn
  <2>2. CASE k \in DirsIn(f, e)
    BY <1>3, <1>5, <2>1, <2>2 DEF LiveIn
  <2>3. CASE k \notin DirsIn(f, e)
    <3>1. x.dir /\ x.clus = k
      BY <1>4, <2>3
    <3>2. q \in ChainIn(f, k) \X DirSlots /\ EntryOf(h, q) # NoEntry
      BY <2>1 DEF PlacesIn
    <3>3. q \in Clusters \X DirSlots
      BY <3>2, ChainAmong
    <3>4. EntryOf(e, q) = NoEntry
      BY <3>1, <3>2 DEF Fit, EntryOf
    <3>5. EntryOf(h, q) = EntryOf(e, q)
      BY <1>5, <3>3 DEF Putting
    <3> QED
      BY <3>2, <3>4, <3>5
  <2> QED
    BY <2>2, <2>3
<1>6. ChainIn(f, x.clus) \intersect UsedIn(f, e) = {}
  BY DEF Fit
<1>7. Holds1(f, x)
  <2>1. ChainIn(f, RootClus) \subseteq UsedIn(f, e)
    BY DEF UsedIn
  <2>2. Disjoint(f, x.clus, RootClus)
    BY <1>6, <2>1 DEF Disjoint
  <2> QED
    BY <2>2, NoClusters DEF Fit, Holds1
<1>8. ASSUME NEW q \in LiveIn(f, e)
      PROVE  Disjoint(f, x.clus, EntryOf(e, q).clus) /\ Disjoint(f, EntryOf(e, q).clus, x.clus)
  BY <1>6, InUse DEF Disjoint
<1>9. ASSUME NEW q \in LiveIn(f, h) PROVE Holds1(f, EntryOf(h, q))
  BY <1>1, <1>5, <1>7 DEF Sound
<1>10. ASSUME NEW q \in LiveIn(f, h), NEW r \in LiveIn(f, h), q # r
       PROVE  Disjoint(f, EntryOf(h, q).clus, EntryOf(h, r).clus)
  <2>1. CASE q = p
    BY <1>1, <1>5, <1>8, <1>10, <2>1
  <2>2. CASE r = p
    BY <1>1, <1>5, <1>8, <1>10, <2>2
  <2>3. CASE q # p /\ r # p
    BY <1>5, <1>10, <2>3 DEF Sound
  <2> QED
    BY <2>1, <2>2, <2>3
<1> QED
  BY <1>9, <1>10 DEF Sound

(* What an entry holds is a directory's chain or apart from it.             *)
LEMMA DirApart ==
  ASSUME NEW f, NEW e, Sound(f, e), NEW d \in DirsIn(f, e)
  PROVE  \A p \in LiveIn(f, e) :
           \/ EntryOf(e, p).clus = d /\ EntryOf(e, p).dir
           \/ EntryOf(e, p).clus # d /\ Disjoint(f, EntryOf(e, p).clus, d)
<1>1. TAKE p \in LiveIn(f, e)
<1>2. d \in ChainIn(f, d)
  BY DirWhole
<1>3. ~Disjoint(f, d, d)
  BY <1>2 DEF Disjoint
<1>4. CASE d = RootClus
  <2>1. Disjoint(f, EntryOf(e, p).clus, RootClus)
    <3>1. CASE EntryOf(e, p).clus = 0
      BY <3>1, ChainNone, NoClusters DEF Disjoint
    <3>2. CASE EntryOf(e, p).clus # 0
      BY <3>2 DEF Sound, Holds1
    <3> QED
      BY <3>1, <3>2
  <2> QED
    BY <1>3, <1>4, <2>1
<1>5. CASE d # RootClus
  <2>1. PICK q \in LiveIn(f, e) : EntryOf(e, q).dir /\ EntryOf(e, q).clus = d
    BY <1>5, DirIs
  <2>2. CASE p = q
    BY <2>1, <2>2
  <2>3. CASE p # q
    <3>1. Disjoint(f, EntryOf(e, p).clus, d)
      BY <2>1, <2>3 DEF Sound
    <3> QED
      BY <1>3, <3>1
  <2> QED
    BY <2>2, <2>3
<1> QED
  BY <1>4, <1>5

(* Two directories are apart.                                               *)
LEMMA DirsApart ==
  ASSUME NEW f, NEW e, Sound(f, e), NEW d \in DirsIn(f, e), NEW k \in DirsIn(f, e), k # d
  PROVE  Disjoint(f, k, d)
<1>1. CASE k = RootClus
  <2>1. PICK p \in LiveIn(f, e) : EntryOf(e, p).clus = d
    BY <1>1, DirIs
  <2>2. RootClus \in DirsIn(f, e)
    BY DEF DirsIn
  <2>3. Disjoint(f, d, RootClus)
    BY <1>1, <2>1, <2>2, DirApart
  <2> QED
    BY <1>1, <2>3 DEF Disjoint
<1>2. CASE k # RootClus
  <2>1. PICK p \in LiveIn(f, e) : EntryOf(e, p).clus = k
    BY <1>2, DirIs
  <2> QED
    BY <2>1, DirApart
<1> QED
  BY <1>1, <1>2

(* The directory d gets the cluster n, which is blank, behind its last one. *)
Growing(f, e, d, p, n, g) ==
  /\ p \in ChainIn(f, d) /\ f[p] \notin Clusters
  /\ n \in Clusters /\ n \notin UsedIn(f, e) /\ f[n] = EOC
  /\ \A i \in DirSlots : e[n][i] = NoEntry
  /\ g[p] = n /\ \A x \in Clusters \ {p} : g[x] = f[x]

(* Appending a blank cluster to a directory's chain leaves a volume sound. *)
LEMMA Grow ==
  ASSUME NEW f, NEW e, Sound(f, e), NEW d \in DirsIn(f, e),
         NEW p, NEW n, NEW g, Growing(f, e, d, p, n, g)
  PROVE  /\ Sound(g, e)
         /\ DirsIn(g, e) = DirsIn(f, e)
         /\ ChainIn(g, d) = ChainIn(f, d) \union {n}
         /\ UsedIn(g, e) \subseteq UsedIn(f, e) \union {n}
<1> DEFINE Held(c) == c = RootClus \/ \E q \in LiveIn(f, e) : EntryOf(e, q).clus = c
<1>1. /\ p \in ChainIn(f, d) /\ p \in Clusters /\ f[p] \notin Clusters
      /\ n \in Clusters /\ n \notin UsedIn(f, e) /\ f[n] = EOC /\ f[n] \notin Clusters
      /\ g[p] = n /\ \A x \in Clusters \ {p} : g[x] = f[x]
  BY ChainAmong, NoClusters DEF Growing
<1>2. d \in ChainIn(f, d) /\ ChainIn(f, d) \subseteq UsedIn(f, e)
  BY DirWhole, InUse
<1>3. ChainIn(g, d) = ChainIn(f, d) \union {n}
  BY <1>1, <1>2, ChainGrows
<1>4. ASSUME NEW c, p \notin ChainIn(f, c)
      PROVE  ChainIn(g, c) = ChainIn(f, c) /\ \A x \in ChainIn(f, c) : g[x] = f[x]
  <2>1. \A x \in ChainIn(f, c) : g[x] = f[x]
    BY <1>1, <1>4, ChainAmong
  <2> QED
    BY <2>1, ChainAgrees
<1>5. RootClus \in DirsIn(f, e)
  BY DEF DirsIn
<1>6. ASSUME NEW c, Held(c), c # d
      PROVE  ChainIn(g, c) = ChainIn(f, c) /\ p \notin ChainIn(f, c)
  <2>1. Disjoint(f, c, d)
    <3>1. CASE c = RootClus
      BY <1>5, <1>6, <3>1, DirsApart
    <3>2. CASE \E q \in LiveIn(f, e) : EntryOf(e, q).clus = c
      BY <1>6, <3>2, DirApart
    <3> QED
      BY <1>6, <3>1, <3>2
  <2>2. p \notin ChainIn(f, c)
    BY <1>1, <2>1 DEF Disjoint
  <2> QED
    BY <1>4, <2>2
<1>7. ASSUME NEW c, Held(c) PROVE ChainIn(f, c) \subseteq UsedIn(f, e) /\ n \notin ChainIn(f, c)
  BY <1>1, <1>7 DEF UsedIn
<1>8. ASSUME NEW c, Held(c) PROVE ChainIn(g, c) \subseteq UsedIn(f, e) \union {n}
  BY <1>3, <1>6, <1>7, <1>8
<1>9. ASSUME NEW c, Held(c), Whole(f, c) PROVE Whole(g, c)
  <2>1. CASE c = d
    <3>1. \A x \in ChainIn(f, d) : g[x] # FreeClus
      BY <1>1, <1>9, <2>1, ChainAmong, NoClusters DEF Whole
    <3>2. g[n] # FreeClus
      BY <1>1, NoClusters
    <3> QED
      BY <1>3, <1>9, <2>1, <3>1, <3>2 DEF Whole
  <2>2. CASE c # d
    BY <1>4, <1>6, <1>9, <2>2 DEF Whole
  <2> QED
    BY <2>1, <2>2
<1>10. ASSUME NEW c, NEW k, Held(c), Held(k), Disjoint(f, c, k) PROVE Disjoint(g, c, k)
  <2>1. c # d \/ k # d
    BY <1>2, <1>10 DEF Disjoint
  <2>2. n \notin ChainIn(f, c) /\ n \notin ChainIn(f, k)
    BY <1>7, <1>10
  <2>3. CASE c = d /\ k # d
    <3>1. ChainIn(g, k) = ChainIn(f, k)
      BY <1>6, <1>10, <2>3
    <3> QED
      BY <1>3, <1>10, <2>2, <2>3, <3>1 DEF Disjoint
  <2>4. CASE c # d /\ k = d
    <3>1. ChainIn(g, c) = ChainIn(f, c)
      BY <1>6, <1>10, <2>4
    <3> QED
      BY <1>3, <1>10, <2>2, <2>4, <3>1 DEF Disjoint
  <2>5. CASE c # d /\ k # d
    <3>1. ChainIn(g, c) = ChainIn(f, c) /\ ChainIn(g, k) = ChainIn(f, k)
      BY <1>6, <1>10, <2>5
    <3> QED
      BY <1>10, <3>1 DEF Disjoint
  <2> QED
    BY <2>1, <2>3, <2>4, <2>5
<1>11. ASSUME NEW k \in DirsIn(f, e) PROVE Held(k)
  BY DirIs
<1>12. ASSUME NEW q \in LiveIn(f, e) PROVE Held(EntryOf(e, q).clus)
  OBVIOUS
<1>13. Held(RootClus)
  OBVIOUS
<1> HIDE DEF Held
<1>14. ASSUME NEW k \in DirsIn(f, e) PROVE PlacesIn(g, e, k) = PlacesIn(f, e, k)
  <2>1. CASE k = d
    <3>1. \A i \in DirSlots : EntryOf(e, <<n, i>>) = NoEntry
      BY DEF Growing, EntryOf
    <3> QED
      BY <1>3, <2>1, <3>1 DEF PlacesIn, EntryOf
  <2>2. CASE k # d
    BY <1>6, <1>11, <2>2 DEF PlacesIn
  <2> QED
    BY <2>1, <2>2
<1>15. DirsIn(g, e) = DirsIn(f, e)
  BY <1>5, <1>14 DEF DirsIn
<1>16. LiveIn(g, e) = LiveIn(f, e)
  BY <1>14, <1>15 DEF LiveIn
<1>17. UsedIn(g, e) \subseteq UsedIn(f, e) \union {n}
  BY <1>8, <1>12, <1>13, <1>16 DEF UsedIn
<1>18. ASSUME NEW q \in LiveIn(f, e) PROVE Holds1(g, EntryOf(e, q))
  <2>1. PICK x : x = EntryOf(e, q)
    OBVIOUS
  <2>2. Held(x.clus) /\ Holds1(f, x)
    BY <1>12, <2>1 DEF Sound
  <2>3. Whole(f, x.clus) => Whole(g, x.clus)
    BY <1>9, <2>2
  <2>4. Disjoint(f, x.clus, RootClus) => Disjoint(g, x.clus, RootClus)
    BY <1>10, <1>13, <2>2
  <2>5. x.dir \/ ChainIn(g, x.clus) = ChainIn(f, x.clus)
    <3>1. x.clus # d \/ x.dir
      BY <2>1, DirApart
    <3> QED
      BY <1>6, <2>2, <3>1
  <2>6. Holds1(g, x)
    BY <2>2, <2>3, <2>4, <2>5 DEF Holds1
  <2> QED
    BY <2>1, <2>6
<1>19. ASSUME NEW q \in LiveIn(f, e), NEW r \in LiveIn(f, e), q # r
       PROVE  Disjoint(g, EntryOf(e, q).clus, EntryOf(e, r).clus)
  <2>1. Disjoint(f, EntryOf(e, q).clus, EntryOf(e, r).clus)
    BY <1>19 DEF Sound
  <2> QED
    BY <1>10, <1>12, <2>1
<1>20. Whole(g, RootClus)
  BY <1>9, <1>13 DEF Sound
<1>21. Sound(g, e)
  BY <1>16, <1>18, <1>19, <1>20 DEF Sound
<1> QED
  BY <1>3, <1>15, <1>17, <1>21

(* The lowest of some numbers is one of them.                               *)
LEMMA MinIs == \A S : S \subseteq Nat /\ S # {} => Min(S) \in S
<1>1. ASSUME NEW S, S \subseteq Nat, S # {} PROVE Min(S) \in S
  <2>1. \E m \in S : \A k \in S : m <= k
    BY <1>1, Least
  <2> QED
    BY <2>1 DEF Min
<1> QED
  BY <1>1

(* The first entry of a name exists, even on a chain that never ends.       *)
LEMMA FirstNamedIs ==
  ASSUME NEW d, NEW l, FatNamed(d, l) # {}
  PROVE  FirstNamed(d, l) \in FatNamed(d, l)
<1> DEFINE D == FatNamed(d, l)
           F == Chain(d)
           K == {p[1] : p \in D}
           T == {x \in F : K \subseteq Chain(x)}
<1>1. K # {} /\ K \subseteq F
  BY DEF FatNamed, EntryPlaces
<1>2. F = ChainIn(fat, d) /\ \A x : Chain(x) = ChainIn(fat, x)
  BY ChainIs
<1>3. d \in Clusters /\ d \in F
  BY <1>1, <1>2, ChainNone, ChainClosed
<1>4. \A p \in D : p = <<p[1], p[2]>> /\ p[1] \in K /\ p[2] \in DirSlots
  BY DEF FatNamed, EntryPlaces
<1>5. ASSUME NEW x \in F
      PROVE  Chain(x) = {x} \union Chain(fat[x]) /\ (fat[x] \in Clusters => fat[x] \in F)
  BY <1>2, <1>3, ChainUnfolds, ChainClosed, ChainAmong
<1>6. \E x \in K : x \in T
  <2>1. SUFFICES ASSUME \A x \in K : x \notin T PROVE FALSE
    OBVIOUS
  <2>2. ASSUME NEW x \in T, fat[x] \in Clusters PROVE fat[x] \in T
    BY <1>5, <2>1, <2>2
  <2>3. d \in T
    BY <1>1, <1>3
  <2> HIDE DEF T
  <2>4. ChainIn(fat, d) \subseteq T
    BY <2>2, <2>3, ChainLeast
  <2> QED
    BY <1>1, <1>2, <2>1, <2>4
<1>7. PICK x \in K : x \in T
  BY <1>6
<1>8. \A k \in K : k # x => k \in Chain(fat[x])
  BY <1>5, <1>7
<1> DEFINE I == {i \in DirSlots : <<x, i>> \in D}
<1>9. I # {} /\ I \subseteq Nat
  <2>1. PICK p \in D : p[1] = x
    BY <1>7
  <2>2. p[2] \in I
    BY <1>4, <2>1
  <2> QED
    BY <2>2 DEF DirSlots
<1>10. \E m \in I : \A k \in I : m <= k
  <2> HIDE DEF I
  <2> QED
    BY <1>9, Least
<1>11. PICK m \in I : \A k \in I : m <= k
  BY <1>10
<1>12. <<x, m>> \in D
  BY <1>11
<1>13. ASSUME NEW q \in D PROVE Before(<<x, m>>, q)
  <2>1. CASE q[1] = x
    <3>1. q[2] \in I
      BY <1>4, <2>1
    <3> QED
      BY <1>11, <2>1, <3>1 DEF Before
  <2>2. CASE q[1] # x
    BY <1>4, <1>8, <2>2 DEF Before
  <2> QED
    BY <2>1, <2>2
<1>14. \E p \in FatNamed(d, l) : \A q \in FatNamed(d, l) : Before(p, q)
  BY <1>12, <1>13
<1> QED
  BY <1>14 DEF FirstNamed
---------------------------------------------------------------------------
(* The inductive invariant.                                                 *)

(* An entry is nothing, an empty file or one with clusters, and one with    *)
(* clusters was put here, under an 8.3 name.                                *)
FatEntry ==
  {x \in [name : Leaves \union {""}, dir : BOOLEAN, clus : Clusters \union {0}, len : Nat] :
     /\ x.dir => x.clus # 0
     /\ x.clus # 0 => x.name \in Leaves /\ To83[x.name] = x.name}
FatAts == {"idle", "free", "mark", "alloc", "data", "put", "grow", "join", "fill"}
FatOp == [at : FatAts, dir : Clusters \union {0}, leaf : Leaves \union {""},
          isdir : BOOLEAN, len : Nat, left : Nat, cur : Clusters \union {0},
          prev : Clusters \union {0}, first : Clusters \union {0}]

(* What each step finds in op.                                              *)
OpTyped(o) ==
  /\ o \in FatOp
  /\ o.at # "idle" => o.dir \in Clusters /\ o.leaf \in Leaves /\ o.left <= o.len
  /\ o.at \in {"free", "mark", "data", "put", "join", "fill"} => o.cur \in Clusters
  /\ o.at \in {"free", "mark"} => o.prev = 0 /\ o.first = 0 /\ o.left = o.len /\ ~o.isdir
  /\ o.at \in {"free", "mark", "alloc", "data"} => (o.prev = 0 <=> o.first = 0) /\ o.left >= 1
  /\ o.at \in {"put", "grow", "join", "fill"} => o.first \in Clusters /\ o.left = 0
  /\ o.at \in {"grow", "join", "fill"} => o.prev \in Clusters

FatTypeOK ==
  /\ fat \in [Clusters -> Clusters \union {FreeClus, EOC}]
  /\ entries \in [Clusters -> [DirSlots -> FatEntry]]
  /\ OpTyped(op)
  /\ hurt \in BOOLEAN

(* e without the entries of the 8.3 name of l in the clusters s.            *)
Dropped(e, s, l) ==
  [c \in Clusters |-> [i \in DirSlots |->
     IF c \in s /\ e[c][i] # NoEntry /\ e[c][i].name = To83[l] THEN NoEntry ELSE e[c][i]]]

(* The entries as the call o will leave them once it is past the steps at   *)
(* which they are torn: the old ones gone, a new directory cluster blank.   *)
After(f, e, o) ==
  IF o.at \in {"free", "mark"} THEN Dropped(e, ChainIn(f, o.dir), o.leaf)
  ELSE IF o.at = "fill" THEN [e EXCEPT ![o.cur] = NoEntries]
  ELSE e

(* c's chain is not the volume's.                                           *)
Apart(f, a, c) == ChainIn(f, c) \intersect UsedIn(f, a) = {}
(* c was just allocated.                                                    *)
New(f, a, o, c) ==
  c \in Clusters /\ f[c] = EOC /\ c \notin UsedIn(f, a) /\ c \notin ChainIn(f, o.first)
(* The chain built so far is the new file's and no one else's.              *)
Built(f, a, o) ==
  /\ Apart(f, a, o.first)
  /\ o.first # 0 => Whole(f, o.first)
  /\ Cardinality(ChainIn(f, o.first)) = o.len - o.left
EndOf(f, p, c) == p \in ChainIn(f, c) /\ f[p] \notin Clusters
(* A new directory is one blank cluster.                                    *)
BlankDir(f, a, o) ==
  o.isdir => ChainIn(f, o.first) = {o.first} /\ \A i \in DirSlots : a[o.first][i] = NoEntry

OpFine(f, e, a, o) ==
  /\ o.at # "idle" => o.dir \in DirsIn(f, a)
  /\ o.at \notin {"idle", "free", "mark"} => Built(f, a, o)
  /\ o.isdir => o.len = 1
  /\ o.at = "free" => Apart(f, a, o.cur)
  /\ o.at = "mark" => o.cur \in ChainIn(f, o.dir)
                      /\ \A c \in ChainIn(f, o.dir) \ ChainIn(f, o.cur) : a[c] = e[c]
  /\ o.at \in {"alloc", "data"} => (o.prev # 0 => EndOf(f, o.prev, o.first))
  /\ o.at \in {"put", "grow", "join", "fill"} => BlankDir(f, a, o)
  /\ o.at = "put" => o.cur \in ChainIn(f, o.dir)
  /\ o.at \in {"grow", "join"} => EndOf(f, o.prev, o.dir)
  /\ o.at \in {"data", "join"} => New(f, a, o, o.cur)
  /\ o.at = "fill" => /\ o.cur \notin ChainIn(f, o.first) /\ o.prev \in ChainIn(f, o.dir)
                      /\ f[o.prev] = o.cur \/ New(f, a, o, o.cur)

Safe(f, e, o) ==
  Sound(f, After(f, e, o)) /\ OpFine(f, e, After(f, e, o), o)

FatInv == FatTypeOK /\ (~hurt => Safe(fat, entries, op))
---------------------------------------------------------------------------
(* Type correctness.                                                        *)

(* The empty entry, and a call that is over.                                *)
LEMMA Blanks ==
  /\ NoEntry \in FatEntry /\ NoEntries \in [DirSlots -> FatEntry]
  /\ NoEntry.clus = 0 /\ NoEntry.dir = FALSE
  /\ OpTyped(NoCallYet) /\ NoCallYet.at = "idle"
<1>1. NoEntry \in FatEntry /\ NoEntry.clus = 0 /\ NoEntry.dir = FALSE
  BY DEF NoEntry, FatEntry
<1>2. NoEntries \in [DirSlots -> FatEntry]
  BY <1>1 DEF NoEntries
<1>3. OpTyped(NoCallYet) /\ NoCallYet.at = "idle"
  BY DEF NoCallYet, OpTyped, FatOp, FatAts
<1> QED
  BY <1>1, <1>2, <1>3

(* An entry found by name.                                                  *)
LEMMA NamedIs ==
  ASSUME FatTypeOK, NEW d, NEW l, NEW p \in FatNamed(d, l)
  PROVE  /\ p \in PlacesIn(fat, entries, d) /\ p \in Clusters \X DirSlots
         /\ EntryAt(p) = EntryOf(entries, p) /\ EntryAt(p).name = l
         /\ EntryAt(p) \in FatEntry /\ EntryAt(p) # NoEntry
<1>1. p \in PlacesIn(fat, entries, d) /\ EntryAt(p).name = l /\ EntryAt(p) = EntryOf(entries, p)
  BY VolumeIs DEF FatNamed
<1>2. p \in Clusters \X DirSlots
  BY <1>1, ChainAmong DEF PlacesIn
<1>3. EntryAt(p) \in FatEntry
  BY <1>2 DEF FatTypeOK, EntryAt
<1> QED
  BY <1>1, <1>2, <1>3 DEF PlacesIn

(* Directories are clusters.                                                *)
LEMMA DirIn ==
  ASSUME FatTypeOK, NEW d \in FatDirs
  PROVE  d \in Clusters
<1>1. CASE d = RootClus
  BY <1>1, NoClusters
<1>2. CASE d # RootClus
  <2>1. PICK p \in PlacesIn(fat, entries, RootClus) :
          EntryOf(entries, p).dir /\ EntryOf(entries, p).clus = d
    BY <1>2, VolumeIs DEF DirsIn
  <2>2. p \in Clusters \X DirSlots
    BY <2>1, ChainAmong DEF PlacesIn
  <2>3. EntryOf(entries, p) \in FatEntry
    BY <2>2 DEF FatTypeOK, EntryOf
  <2> QED
    BY <2>1, <2>3 DEF FatEntry
<1> QED
  BY <1>1, <1>2

(* fat_set, and the cluster fat_alloc takes.                                *)
LEMMA FatSetTyped ==
  ASSUME FatTypeOK, NEW c \in Clusters, NEW v \in Clusters \union {FreeClus, EOC},
         NEW ok, FatSet(c, v, ok)
  PROVE  fat' \in [Clusters -> Clusters \union {FreeClus, EOC}]
BY DEF FatSet, FatTypeOK

(* The cluster fat_alloc takes is a free one.                              *)
LEMMA FreeIs ==
  FreeClusters # {} => /\ Min(FreeClusters) \in Clusters
                       /\ fat[Min(FreeClusters)] = FreeClus
<1>1. FreeClusters \subseteq Nat
  BY FatAssumption DEF FreeClusters
<1> QED
  BY <1>1, MinIs DEF FreeClusters

(* The place dir_put_entry takes in a cluster is vacant.                   *)
LEMMA VacantIs ==
  \A c : Vacant(c) # {} => /\ Min(Vacant(c)) \in DirSlots
                           /\ entries[c][Min(Vacant(c))] = NoEntry
<1>1. TAKE c
<1>2. Vacant(c) \subseteq Nat
  BY DEF Vacant, DirSlots
<1> QED
  BY <1>2, MinIs DEF Vacant

(* What an allocation leaves.                                               *)
LEMMA AllocTyped ==
  ASSUME FatTypeOK, NEW step, Allocate(step)
  PROVE  /\ fat' \in [Clusters -> Clusters \union {FreeClus, EOC}]
         /\ \/ op' = NoCallYet
            \/ \E m \in Clusters : op' = [op EXCEPT !.at = step, !.cur = m]
<1>1. CASE FreeClusters = {} /\ op' = NoCallYet /\ UNCHANGED fat
  BY <1>1 DEF FatTypeOK
<1>2. CASE FreeClusters # {} /\ \E ok \in BOOLEAN :
             /\ FatSet(Min(FreeClusters), Marked, ok)
             /\ op' = IF ok THEN [op EXCEPT !.at = step, !.cur = Min(FreeClusters)] ELSE NoCallYet
  <2>1. PICK m : m = Min(FreeClusters)
    OBVIOUS
  <2>2. m \in Clusters
    BY <1>2, <2>1, FreeIs
  <2>3. PICK ok \in BOOLEAN :
          /\ FatSet(m, Marked, ok)
          /\ op' = IF ok THEN [op EXCEPT !.at = step, !.cur = m] ELSE NoCallYet
    BY <1>2, <2>1
  <2>4. fat' \in [Clusters -> Clusters \union {FreeClus, EOC}]
    BY <2>2, <2>3, FatSetTyped DEF Marked
  <2> QED
    BY <2>2, <2>3, <2>4
<1> QED
  BY <1>1, <1>2 DEF Allocate

(* The entry a call puts.                                                   *)
LEMMA NewEntryIs ==
  ASSUME FatTypeOK, op.at \in {"put", "grow", "join", "fill"}
  PROVE  NewEntry \in FatEntry /\ NewEntry.clus = op.first /\ NewEntry.dir = op.isdir
         /\ NewEntry.len = op.len
<1>1. op \in FatOp /\ op.leaf \in Leaves /\ op.first \in Clusters
  BY DEF FatTypeOK, OpTyped
<1>2. To83[op.leaf] \in Leaves /\ To83[To83[op.leaf]] = To83[op.leaf] /\ op.first # 0
  BY <1>1, FatAssumption
<1> QED
  BY <1>1, <1>2 DEF NewEntry, FatEntry, FatOp

(* A call begins: with what its first step finds.                           *)
LEMMA OpBegins ==
  ASSUME NEW d \in Clusters, NEW l \in Leaves, NEW n \in Nat, n >= 1,
         NEW at \in {"free", "alloc"}, NEW isdir \in BOOLEAN, at = "free" => ~isdir,
         NEW c \in Clusters \union {0}, at = "free" => c \in Clusters
  PROVE  OpTyped([at |-> at, dir |-> d, leaf |-> l, isdir |-> isdir, len |-> n,
                  left |-> n, cur |-> c, prev |-> 0, first |-> 0])
<1> DEFINE o == [at |-> at, dir |-> d, leaf |-> l, isdir |-> isdir, len |-> n,
                 left |-> n, cur |-> c, prev |-> 0, first |-> 0]
<1>1. o \in FatOp
  BY DEF FatOp, FatAts
<1>2. /\ o.at = at /\ o.dir = d /\ o.leaf = l /\ o.isdir = isdir /\ o.len = n
      /\ o.left = n /\ o.cur = c /\ o.prev = 0 /\ o.first = 0
  OBVIOUS
<1> HIDE DEF o
<1>3. OpTyped(o)
  BY <1>1, <1>2 DEF OpTyped
<1> QED
  BY <1>3 DEF o

(* Every step keeps the types.                                              *)
LEMMA FatTyped ==
  ASSUME FatTypeOK, FatNext
  PROVE  FatTypeOK'
<1> DEFINE FT == [Clusters -> Clusters \union {FreeClus, EOC}]
           ET == [Clusters -> [DirSlots -> FatEntry]]
<1>1. fat \in FT /\ entries \in ET /\ op \in FatOp /\ OpTyped(op) /\ hurt \in BOOLEAN
      /\ OpTyped(NoCallYet)
  BY Blanks DEF FatTypeOK, OpTyped
<1>2. SUFFICES fat' \in FT /\ entries' \in ET /\ OpTyped(op') /\ hurt' \in BOOLEAN
  BY DEF FatTypeOK
<1>3. ASSUME NEW d \in FatDirs, NEW l \in Leaves, NEW n \in 1 .. MaxLen, BeginWrite(d, l, n)
      PROVE  fat' \in FT /\ entries' \in ET /\ OpTyped(op') /\ hurt' \in BOOLEAN
  <2>1. d \in Clusters /\ n \in Nat /\ n >= 1 /\ RootClus \in Clusters
    BY DirIn, FatAssumption
  <2>2. CASE FatNamed(d, l) = {}
    <3>1. op' = [at |-> "alloc", dir |-> d, leaf |-> l, isdir |-> FALSE, len |-> n,
                 left |-> n, cur |-> 0, prev |-> 0, first |-> 0]
      BY <1>3, <2>2 DEF BeginWrite, NoCallYet
    <3>2. OpTyped(op')
      BY <2>1, <3>1, OpBegins
    <3> QED
      BY <1>1, <1>3, <2>2, <3>2 DEF BeginWrite
  <2>3. CASE FatNamed(d, l) # {}
    <3>1. PICK x : x = EntryAt(FirstNamed(d, l))
      OBVIOUS
    <3>2. x \in FatEntry
      BY <2>3, <3>1, FirstNamedIs, NamedIs
    <3>3. OldClus(x) \in Clusters
      BY <2>1, <3>2 DEF FatEntry, OldClus
    <3>4. op' = [at |-> "free", dir |-> d, leaf |-> l, isdir |-> FALSE, len |-> n,
                 left |-> n, cur |-> OldClus(x), prev |-> 0, first |-> 0]
      BY <1>3, <2>3, <3>1 DEF BeginWrite, NoCallYet
    <3>5. OpTyped(op')
      BY <2>1, <3>3, <3>4, OpBegins
    <3>6. hurt' \in BOOLEAN /\ UNCHANGED <<fat, entries>>
      BY <1>1, <1>3, <2>3 DEF BeginWrite
    <3> QED
      BY <1>1, <3>5, <3>6
  <2> QED
    BY <2>2, <2>3
<1>4. ASSUME NEW l \in Leaves, BeginMkdir(l)
      PROVE  fat' \in FT /\ entries' \in ET /\ OpTyped(op') /\ hurt' \in BOOLEAN
  <2>1. PICK b \in BOOLEAN : b = TRUE
    OBVIOUS
  <2>2. op' = [at |-> "alloc", dir |-> RootClus, leaf |-> l, isdir |-> b, len |-> 1,
               left |-> 1, cur |-> 0, prev |-> 0, first |-> 0]
    BY <1>4, <2>1 DEF BeginMkdir, NoCallYet
  <2>3. OpTyped(op')
    BY <2>2, NoClusters, OpBegins
  <2> QED
    BY <1>1, <1>4, <2>3 DEF BeginMkdir
<1>5. CASE FreeOne
  <2>1. op.at = "free" /\ FatSet(op.cur, FreeClus, FALSE) /\ UNCHANGED <<entries, hurt>>
        /\ op' = IF fat[op.cur] \in Clusters THEN [op EXCEPT !.cur = fat[op.cur]]
                 ELSE [op EXCEPT !.at = "mark", !.cur = op.dir]
    BY <1>5 DEF FreeOne
  <2>2. OpTyped(op')
    BY <1>1, <2>1 DEF OpTyped, FatOp, FatAts
  <2>3. fat' \in FT
    BY <1>1, <2>1, FatSetTyped DEF OpTyped
  <2> QED
    BY <1>1, <2>1, <2>2, <2>3
<1>6. CASE MarkDeleted
  <2>1. op.at = "mark" /\ UNCHANGED fat
        /\ op' = IF fat[op.cur] \in Clusters THEN [op EXCEPT !.cur = fat[op.cur]]
                 ELSE [op EXCEPT !.at = "alloc"]
    BY <1>6 DEF MarkDeleted
  <2>2. OpTyped(op')
    BY <1>1, <2>1 DEF OpTyped, FatOp, FatAts
  <2>3. op.cur \in Clusters
    BY <1>1, <2>1 DEF OpTyped
  <2>4. PICK k : k = [i \in DirSlots |->
                 IF OldEntry(entries[op.cur][i]) THEN NoEntry ELSE entries[op.cur][i]]
    OBVIOUS
  <2>5. k \in [DirSlots -> FatEntry]
    BY <1>1, <2>3, <2>4, Blanks
  <2>6. \/ entries' = [entries EXCEPT ![op.cur] = k] /\ UNCHANGED hurt
        \/ hurt' = TRUE /\ UNCHANGED entries
    BY <1>6, <2>4 DEF MarkDeleted
  <2>7. entries' \in ET /\ hurt' \in BOOLEAN
    BY <1>1, <2>3, <2>5, <2>6
  <2> QED
    BY <1>1, <2>1, <2>2, <2>7
<1>7. CASE AllocData
  <2>1. op.at = "alloc" /\ Allocate("data") /\ UNCHANGED <<entries, hurt>>
    BY <1>7 DEF AllocData
  <2>2. fat' \in FT /\ \/ op' = NoCallYet
                       \/ \E m \in Clusters : op' = [op EXCEPT !.at = "data", !.cur = m]
    BY <2>1, AllocTyped
  <2>3. ASSUME NEW m \in Clusters, op' = [op EXCEPT !.at = "data", !.cur = m]
        PROVE  OpTyped(op')
    <3>1. /\ op' \in FatOp /\ op'.at = "data" /\ op'.cur = m
          /\ op'.dir = op.dir /\ op'.leaf = op.leaf /\ op'.left = op.left /\ op'.len = op.len
          /\ op'.prev = op.prev /\ op'.first = op.first /\ op'.isdir = op.isdir
      BY <1>1, <2>3 DEF FatOp, FatAts
    <3> QED
      BY <1>1, <2>1, <3>1 DEF OpTyped
  <2>4. OpTyped(op')
    BY <1>1, <2>2, <2>3
  <2> QED
    BY <1>1, <2>1, <2>2, <2>4
<1>8. CASE WriteData
  <2>1. op.at = "data" /\ op.cur \in Clusters
    BY <1>1, <1>8 DEF WriteData, OpTyped
  <2>2. fat' \in FT /\ hurt' \in BOOLEAN
    BY <1>1, <1>8, <2>1 DEF WriteData, FatOp
  <2>3. CASE op' = NoCallYet /\ UNCHANGED entries
    BY <1>1, <2>2, <2>3
  <2>4. CASE /\ op' = [op EXCEPT !.at = IF op.left = 1 THEN "put" ELSE "alloc",
                                 !.left = op.left - 1, !.prev = op.cur,
                                 !.first = IF op.first = 0 THEN op.cur ELSE op.first,
                                 !.cur = op.dir]
             /\ entries' = IF op.isdir THEN [entries EXCEPT ![op.cur] = NoEntries] ELSE entries
    <3>1. entries' \in ET
      BY <1>1, <2>1, <2>4, Blanks
    <3>2. op.left \in Nat /\ op.left >= 1 /\ op.left <= op.len /\ op.len \in Nat
          /\ op.first \in Clusters \union {0} /\ op.dir \in Clusters
      BY <1>1, <2>1 DEF OpTyped, FatOp
    <3>3. op.left - 1 \in Nat /\ op.left - 1 <= op.len /\ op.cur # 0
          /\ (op.left # 1 => op.left - 1 >= 1)
      BY <2>1, <3>2, NoClusters
    <3>4. PICK at, first : /\ at = IF op.left = 1 THEN "put" ELSE "alloc"
                           /\ first = IF op.first = 0 THEN op.cur ELSE op.first
      OBVIOUS
    <3>5. /\ at \in {"put", "alloc"} /\ (at = "alloc" => op.left - 1 >= 1)
          /\ (at = "put" => op.left - 1 = 0) /\ first \in Clusters /\ first # 0
      BY <2>1, <3>2, <3>3, <3>4
    <3>6. op' = [op EXCEPT !.at = at, !.left = op.left - 1, !.prev = op.cur,
                           !.first = first, !.cur = op.dir]
      BY <2>4, <3>4
    <3>7. /\ op' \in FatOp /\ op'.at = at /\ op'.left = op.left - 1 /\ op'.prev = op.cur
          /\ op'.first = first /\ op'.cur = op.dir /\ op'.dir = op.dir /\ op'.leaf = op.leaf
          /\ op'.len = op.len
      BY <1>1, <2>1, <3>2, <3>3, <3>5, <3>6 DEF FatOp, FatAts
    <3>8. op.leaf \in Leaves
      BY <1>1, <2>1 DEF OpTyped
    <3>9. OpTyped(op')
      BY <2>1, <3>2, <3>3, <3>5, <3>7, <3>8 DEF OpTyped
    <3> QED
      BY <2>2, <3>1, <3>9
  <2> QED
    BY <1>8, <2>3, <2>4 DEF WriteData
<1>9. CASE PutEntry
  <2>1. op.at = "put" /\ op.cur \in Clusters /\ UNCHANGED <<fat, hurt>>
    BY <1>1, <1>9 DEF PutEntry, OpTyped
  <2>2. PICK i : i = Min(Vacant(op.cur))
    OBVIOUS
  <2>3. CASE /\ Vacant(op.cur) # {}
             /\ entries' = [entries EXCEPT ![op.cur][i] = NewEntry] \/ UNCHANGED entries
             /\ op' = NoCallYet
    <3>1. i \in DirSlots /\ NewEntry \in FatEntry
      BY <2>1, <2>2, <2>3, VacantIs, NewEntryIs
    <3>2. PICK x : x = NewEntry
      OBVIOUS
    <3>3. [entries[op.cur] EXCEPT ![i] = x] \in [DirSlots -> FatEntry]
      BY <1>1, <2>1, <3>1, <3>2
    <3>4. entries' = [entries EXCEPT ![op.cur] = [entries[op.cur] EXCEPT ![i] = x]]
          \/ UNCHANGED entries
      BY <1>1, <2>1, <2>3, <3>2
    <3>5. entries' \in ET
      BY <1>1, <2>1, <3>3, <3>4
    <3> QED
      BY <1>1, <2>1, <2>3, <3>5
  <2>4. CASE /\ op' = IF fat[op.cur] \in Clusters THEN [op EXCEPT !.cur = fat[op.cur]]
                      ELSE [op EXCEPT !.at = "grow", !.prev = op.cur]
             /\ UNCHANGED entries
    <3>1. CASE fat[op.cur] \in Clusters
      <4>1. PICK n \in Clusters : op' = [op EXCEPT !.cur = n]
        BY <2>4, <3>1
      <4>2. OpTyped(op')
        BY <1>1, <2>1, <4>1 DEF OpTyped, FatOp
      <4> QED
        BY <1>1, <2>1, <2>4, <4>2
    <3>2. CASE fat[op.cur] \notin Clusters
      <4>1. op' = [op EXCEPT !.at = "grow", !.prev = op.cur]
        BY <2>4, <3>2
      <4>2. OpTyped(op')
        BY <1>1, <2>1, <4>1 DEF OpTyped, FatOp, FatAts
      <4> QED
        BY <1>1, <2>1, <2>4, <4>2
    <3> QED
      BY <3>1, <3>2
  <2> QED
    BY <1>9, <2>2, <2>3, <2>4 DEF PutEntry
<1>10. CASE GrowDir
  <2>1. op.at = "grow" /\ Allocate("join") /\ UNCHANGED <<entries, hurt>>
    BY <1>10 DEF GrowDir
  <2>2. fat' \in FT /\ \/ op' = NoCallYet
                       \/ \E m \in Clusters : op' = [op EXCEPT !.at = "join", !.cur = m]
    BY <2>1, AllocTyped
  <2>3. ASSUME NEW m \in Clusters, op' = [op EXCEPT !.at = "join", !.cur = m]
        PROVE  OpTyped(op')
    <3>1. /\ op' \in FatOp /\ op'.at = "join" /\ op'.cur = m
          /\ op'.dir = op.dir /\ op'.leaf = op.leaf /\ op'.left = op.left /\ op'.len = op.len
          /\ op'.prev = op.prev /\ op'.first = op.first /\ op'.isdir = op.isdir
      BY <1>1, <2>3 DEF FatOp, FatAts
    <3> QED
      BY <1>1, <2>1, <3>1 DEF OpTyped
  <2>4. OpTyped(op')
    BY <1>1, <2>2, <2>3
  <2> QED
    BY <1>1, <2>1, <2>2, <2>4
<1>11. CASE JoinDir
  <2>1. /\ op.at = "join" /\ FatSet(op.prev, op.cur, FALSE) /\ UNCHANGED <<entries, hurt>>
        /\ op' = [op EXCEPT !.at = "fill"]
    BY <1>11 DEF JoinDir
  <2>2. OpTyped(op')
    BY <1>1, <2>1 DEF OpTyped, FatOp, FatAts
  <2>3. fat' \in FT
    BY <1>1, <2>1, FatSetTyped DEF OpTyped
  <2> QED
    BY <1>1, <2>1, <2>2, <2>3
<1>12. CASE FillDir
  <2>1. op.at = "fill" /\ op.cur \in Clusters /\ op' = NoCallYet /\ UNCHANGED fat
    BY <1>1, <1>12 DEF FillDir, OpTyped
  <2>2. NewEntry \in FatEntry
    BY <2>1, NewEntryIs
  <2>3. [NoEntries EXCEPT ![1] = NewEntry] \in [DirSlots -> FatEntry]
    BY <2>2, Blanks
  <2>4. entries' \in ET
    BY <1>1, <1>12, <2>1, <2>3 DEF FillDir
  <2>5. hurt' \in BOOLEAN
    BY <1>1, <1>12 DEF FillDir
  <2> QED
    BY <1>1, <2>1, <2>4, <2>5
<1>13. CASE PowerFails
  BY <1>1, <1>13 DEF PowerFails
<1> QED
  BY <1>3, <1>4, <1>5, <1>6, <1>7, <1>8, <1>9, <1>10, <1>11, <1>12, <1>13 DEF FatNext
---------------------------------------------------------------------------
(* Each step keeps the volume safe.                                         *)

(* When the call is over, the volume need only be sound.                    *)
LEMMA IdleSafe ==
  ASSUME NEW f, NEW e, Sound(f, e), NEW o, o = NoCallYet
  PROVE  Safe(f, e, o)
<1>1. o.at = "idle" /\ ~o.isdir
  BY DEF NoCallYet
<1>2. After(f, e, o) = e
  BY <1>1 DEF After
<1>3. OpFine(f, e, e, o)
  BY <1>1 DEF OpFine
<1> QED
  BY <1>2, <1>3 DEF Safe

(* A chain apart from the volume stays whole and apart when neither is      *)
(* touched.                                                                 *)
LEMMA ApartKept ==
  ASSUME NEW f, NEW a, Sound(f, a), NEW g, NEW h, Agree(f, a, g, h),
         NEW c, Apart(f, a, c), \A x \in ChainIn(f, c) : g[x] = f[x]
  PROVE  /\ ChainIn(g, c) = ChainIn(f, c) /\ Apart(g, h, c)
         /\ Whole(f, c) => Whole(g, c)
<1>1. ChainIn(g, c) = ChainIn(f, c)
  BY ChainAgrees
<1>2. UsedIn(g, h) = UsedIn(f, a)
  BY OffUsed DEF Alike
<1> QED
  BY <1>1, <1>2 DEF Apart, Whole

(* Without the entries of a file's name the volume is sound, the directory  *)
(* still there and the file's chain apart.                                  *)
LEMMA DropFits ==
  ASSUME NEW f, NEW e, Sound(f, e), NEW d \in DirsIn(f, e), NEW l,
         NEW p \in PlacesIn(f, e, d), EntryOf(e, p).name = To83[l],
         NEW h, h = Dropped(e, ChainIn(f, d), l)
  PROVE  Sound(f, h) /\ d \in DirsIn(f, h) /\ Apart(f, h, EntryOf(e, p).clus)
<1>1. ASSUME NEW c \in Clusters, NEW i \in DirSlots
      PROVE  h[c][i] = IF c \in ChainIn(f, d) /\ e[c][i] # NoEntry /\ e[c][i].name = To83[l]
                       THEN NoEntry ELSE e[c][i]
  BY DEF Dropped
<1>2. Dropping(f, e, h)
  BY <1>1, UsedWhole DEF Dropping
<1>3. /\ Sound(f, h) /\ UsedIn(f, h) \subseteq UsedIn(f, e)
      /\ \A q \in LiveIn(f, h) : q \in LiveIn(f, e) /\ EntryOf(h, q) = EntryOf(e, q)
  BY <1>2, Fewer
<1>4. d \in DirsIn(f, h)
  <2>1. CASE d = RootClus
    BY <2>1 DEF DirsIn
  <2>2. CASE d # RootClus
    <3>1. RootClus \in DirsIn(f, e)
      BY DEF DirsIn
    <3>2. Disjoint(f, RootClus, d)
      BY <2>2, <3>1, DirsApart
    <3>3. PICK q \in PlacesIn(f, e, RootClus) : EntryOf(e, q).dir /\ EntryOf(e, q).clus = d
      BY <2>2, DirIs
    <3>4. q \in ChainIn(f, RootClus) \X DirSlots /\ EntryOf(e, q) # NoEntry
      BY DEF PlacesIn
    <3>5. q[1] \in Clusters /\ q[2] \in DirSlots /\ q[1] \notin ChainIn(f, d)
      BY <3>2, <3>4, ChainAmong DEF Disjoint
    <3>6. EntryOf(h, q) = EntryOf(e, q)
      BY <1>1, <3>5 DEF EntryOf
    <3>7. q \in PlacesIn(f, h, RootClus)
      BY <3>4, <3>6 DEF PlacesIn
    <3> QED
      BY <3>3, <3>6, <3>7 DEF DirsIn
  <2> QED
    BY <2>1, <2>2
<1>5. p \in LiveIn(f, e)
  BY DEF LiveIn
<1>6. p \notin LiveIn(f, h)
  <2>1. p \in ChainIn(f, d) \X DirSlots /\ EntryOf(e, p) # NoEntry
    BY DEF PlacesIn
  <2>2. p[1] \in Clusters /\ p[1] \in ChainIn(f, d) /\ p[2] \in DirSlots
    BY <2>1, ChainAmong
  <2>3. EntryOf(h, p) = NoEntry
    BY <1>1, <2>1, <2>2 DEF EntryOf
  <2> QED
    BY <2>3 DEF LiveIn, PlacesIn
<1>7. Apart(f, h, EntryOf(e, p).clus)
  <2>1. PICK c : c = EntryOf(e, p).clus
    OBVIOUS
  <2>2. ChainIn(f, c) \intersect ChainIn(f, RootClus) = {}
    <3>1. CASE c = 0
      BY <3>1, ChainNone, NoClusters
    <3>2. CASE c # 0
      BY <1>5, <2>1, <3>2 DEF Sound, Holds1, Disjoint
    <3> QED
      BY <3>1, <3>2
  <2>3. ASSUME NEW q \in LiveIn(f, h)
        PROVE  ChainIn(f, c) \intersect ChainIn(f, EntryOf(h, q).clus) = {}
    <3>1. q \in LiveIn(f, e) /\ EntryOf(h, q) = EntryOf(e, q) /\ q # p
      BY <1>3, <1>6
    <3> QED
      BY <1>5, <2>1, <3>1 DEF Sound, Disjoint
  <2>4. ChainIn(f, c) \intersect UsedIn(f, h) = {}
    BY <2>2, <2>3 DEF UsedIn
  <2> QED
    BY <2>1, <2>4 DEF Apart
<1> QED
  BY <1>3, <1>4, <1>7

(* A call that begins to build.                                             *)
LEMMA AllocBegins ==
  ASSUME NEW f, NEW e, Sound(f, e), NEW o, o.at = "alloc", o.dir \in DirsIn(f, e),
         o.first = 0, o.prev = 0, o.left = o.len, o.len \in Nat, o.isdir => o.len = 1
  PROVE  Safe(f, e, o)
<1>1. After(f, e, o) = e
  BY DEF After
<1>2. PICK S : S = {}
  OBVIOUS
<1>3. ChainIn(f, o.first) = S
  BY <1>2, ChainNone, NoClusters
<1>4. Cardinality(S) = 0 /\ o.len - o.left = 0
  BY <1>2, FS_EmptySet
<1>5. Built(f, e, o)
  BY <1>2, <1>3, <1>4 DEF Built, Apart
<1>6. OpFine(f, e, e, o)
  BY <1>5 DEF OpFine
<1> QED
  BY <1>1, <1>6 DEF Safe

(* fat32_write, up to its first disk write, keeps Safe: the chain it will  *)
(* free is that of the entry it will mark, and of no other.                *)
LEMMA BeginWriteSafe ==
  ASSUME FatTypeOK, Safe(fat, entries, op), NEW d \in FatDirs, NEW l \in Leaves,
         NEW n \in 1 .. MaxLen, BeginWrite(d, l, n), ~hurt'
  PROVE  Safe(fat, entries, op)'
<1>1. op.at = "idle" /\ fat' = fat /\ entries' = entries /\ n \in Nat
  BY FatAssumption DEF BeginWrite
<1>2. After(fat, entries, op) = entries
  BY <1>1 DEF After
<1>3. Sound(fat, entries) /\ d \in DirsIn(fat, entries)
  BY <1>2, VolumeIs DEF Safe
<1>4. CASE FatNamed(d, l) = {}
  <2>1. op' = [at |-> "alloc", dir |-> d, leaf |-> l, isdir |-> FALSE, len |-> n,
               left |-> n, cur |-> 0, prev |-> 0, first |-> 0]
    BY <1>4 DEF BeginWrite, NoCallYet
  <2>2. /\ op'.at = "alloc" /\ op'.dir = d /\ op'.first = 0 /\ op'.prev = 0
        /\ op'.left = n /\ op'.len = n /\ ~op'.isdir
    BY <2>1
  <2>3. Safe(fat, entries, op')
    BY <1>1, <1>3, <2>2, AllocBegins
  <2> QED
    BY <1>1, <2>3
<1>5. CASE FatNamed(d, l) # {}
  <2>1. PICK p : p = FirstNamed(d, l)
    OBVIOUS
  <2>2. p \in FatNamed(d, l)
    BY <1>5, <2>1, FirstNamedIs
  <2>3. PICK x : x = EntryAt(p)
    OBVIOUS
  <2>4. /\ p \in PlacesIn(fat, entries, d) /\ x = EntryOf(entries, p)
        /\ x.name = l /\ x \in FatEntry
    BY <2>2, <2>3, NamedIs
  <2>5. /\ op' = [at |-> "free", dir |-> d, leaf |-> l, isdir |-> FALSE, len |-> n,
                  left |-> n, cur |-> OldClus(x), prev |-> 0, first |-> 0]
        /\ x.clus # 0
    BY <1>5, <2>1, <2>3 DEF BeginWrite, NoCallYet
  <2>6. /\ op'.at = "free" /\ op'.dir = d /\ op'.leaf = l /\ op'.cur = x.clus /\ ~op'.isdir
    BY <2>5 DEF OldClus
  <2>7. To83[l] = l
    BY <2>4, <2>5 DEF FatEntry
  <2>8. PICK h : h = Dropped(entries, ChainIn(fat, d), l)
    OBVIOUS
  <2>9. Sound(fat, h) /\ d \in DirsIn(fat, h) /\ Apart(fat, h, x.clus)
    BY <1>3, <2>4, <2>7, <2>8, DropFits
  <2>10. After(fat, entries, op') = h
    BY <2>6, <2>8 DEF After
  <2>11. OpFine(fat, entries, h, op')
    BY <2>6, <2>9 DEF OpFine
  <2>12. Safe(fat, entries, op')
    BY <2>9, <2>10, <2>11 DEF Safe
  <2> QED
    BY <1>1, <2>12
<1> QED
  BY <1>4, <1>5

(* So does fat32_mkdir.                                                    *)
LEMMA BeginMkdirSafe ==
  ASSUME FatTypeOK, Safe(fat, entries, op), NEW l \in Leaves, BeginMkdir(l)
  PROVE  Safe(fat, entries, op)'
<1>1. op.at = "idle" /\ fat' = fat /\ entries' = entries
  BY DEF BeginMkdir
<1>2. Sound(fat, entries) /\ RootClus \in DirsIn(fat, entries)
  BY <1>1 DEF Safe, After, DirsIn
<1>3. /\ op'.at = "alloc" /\ op'.dir = RootClus /\ op'.first = 0 /\ op'.prev = 0
      /\ op'.left = 1 /\ op'.len = 1
  BY DEF BeginMkdir, NoCallYet
<1>4. Safe(fat, entries, op')
  BY <1>2, <1>3, AllocBegins
<1> QED
  BY <1>1, <1>4

(* free_chain frees clusters only of entries the call will drop.           *)
LEMMA FreeOneSafe ==
  ASSUME FatTypeOK, Safe(fat, entries, op), FreeOne
  PROVE  Safe(fat, entries, op)'
<1> DEFINE d == op.dir
           h == Dropped(entries, ChainIn(fat, d), op.leaf)
<1>1. /\ op.at = "free" /\ entries' = entries /\ op \in FatOp
      /\ op.cur \in Clusters /\ ~op.isdir
  BY DEF FreeOne, FatTypeOK, OpTyped
<1>2. fat' = [fat EXCEPT ![op.cur] = FreeClus] \/ fat' = fat
  BY DEF FreeOne, FatSet
<1>3. /\ \A c \in Clusters : c # op.cur => fat'[c] = fat[c]
      /\ fat'[op.cur] = FreeClus \/ fat'[op.cur] = fat[op.cur]
  BY <1>1, <1>2 DEF FatTypeOK
<1>4. After(fat, entries, op) = h
  BY <1>1 DEF After
<1> HIDE DEF h
<1>5. Sound(fat, h) /\ OpFine(fat, entries, h, op)
  BY <1>4 DEF Safe
<1>6. d \in DirsIn(fat, h) /\ Apart(fat, h, op.cur)
  BY <1>1, <1>5 DEF OpFine
<1>7. op.cur \in ChainIn(fat, op.cur)
  BY <1>1, ChainClosed
<1>8. op.cur \notin UsedIn(fat, h)
  BY <1>6, <1>7 DEF Apart
<1>9. Agree(fat, h, fat', h)
  BY <1>3, <1>5, <1>8, UsedWhole DEF Agree
<1>10. Sound(fat', h) /\ Alike(fat, h, fat', h)
  BY <1>5, <1>9, OffUsed
<1>11. /\ ChainIn(fat', d) = ChainIn(fat, d) /\ d \in DirsIn(fat', h)
       /\ UsedIn(fat', h) = UsedIn(fat, h)
  BY <1>6, <1>10 DEF Alike
<1>12. op'.at \in {"free", "mark"} /\ op'.dir = d /\ op'.leaf = op.leaf /\ ~op'.isdir
  BY <1>1 DEF FreeOne, FatOp
<1>13. After(fat', entries, op') = h
  BY <1>11, <1>12 DEF After, h
<1>14. ASSUME op'.at = "free" PROVE Apart(fat', h, op'.cur)
  <2>1. PICK k : k = fat[op.cur]
    OBVIOUS
  <2>2. k \in Clusters /\ op'.cur = k
    BY <1>1, <1>14, <2>1 DEF FreeOne, FatOp
  <2>3. PICK S : S = ChainIn(fat, op.cur)
    OBVIOUS
  <2>4. k \in S /\ \A x \in S : x \in Clusters /\ (fat[x] \in Clusters => fat[x] \in S)
    BY <1>1, <2>1, <2>2, <2>3, ChainClosed
  <2>5. \A x \in S : fat'[x] \in Clusters => fat'[x] \in S
    BY <1>3, <2>4, NoClusters
  <2>6. ChainIn(fat', k) \subseteq S
    BY <2>4, <2>5, ChainLeast
  <2> QED
    BY <1>6, <1>11, <2>2, <2>3, <2>6 DEF Apart
<1>15. ASSUME op'.at = "mark"
       PROVE  op'.cur \in ChainIn(fat', d) /\ ChainIn(fat', op'.cur) = ChainIn(fat', d)
  <2>1. op'.cur = d
    BY <1>1, <1>15 DEF FreeOne, FatOp
  <2> QED
    BY <1>10, <1>11, <2>1, DirWhole
<1>16. OpFine(fat', entries, h, op')
  BY <1>11, <1>12, <1>14, <1>15 DEF OpFine
<1> QED
  BY <1>1, <1>10, <1>13, <1>16 DEF Safe

(* Marking entries deleted, cluster after cluster, brings the directory to *)
(* what it was taken for.                                                  *)
LEMMA MarkDeletedSafe ==
  ASSUME FatTypeOK, Safe(fat, entries, op), MarkDeleted, ~hurt'
  PROVE  Safe(fat, entries, op)'
<1> DEFINE S == ChainIn(fat, op.dir)
           h == Dropped(entries, S, op.leaf)
<1>1. /\ op.at = "mark" /\ fat' = fat /\ op \in FatOp /\ op.cur \in Clusters
      /\ op.first = 0 /\ op.prev = 0 /\ op.left = op.len /\ ~op.isdir
  BY DEF MarkDeleted, FatTypeOK, OpTyped
<1>2. After(fat, entries, op) = h
  BY <1>1 DEF After
<1>3. \A c \in Clusters, i \in DirSlots :
        h[c][i] = IF c \in S /\ entries[c][i] # NoEntry /\ entries[c][i].name = To83[op.leaf]
                  THEN NoEntry ELSE entries[c][i]
  BY DEF Dropped
<1>4. h \in [Clusters -> [DirSlots -> FatEntry]] /\ entries \in [Clusters -> [DirSlots -> FatEntry]]
  BY Blanks DEF Dropped, FatTypeOK
<1>5. Sound(fat, h) /\ OpFine(fat, entries, h, op)
  BY <1>2 DEF Safe
<1>6. /\ op.dir \in DirsIn(fat, h) /\ op.cur \in S
      /\ \A c \in S \ ChainIn(fat, op.cur) : h[c] = entries[c]
  BY <1>1, <1>5 DEF OpFine
<1>7. PICK k : k = [i \in DirSlots |->
              IF OldEntry(entries[op.cur][i]) THEN NoEntry ELSE entries[op.cur][i]]
  OBVIOUS
<1>8. entries' = [entries EXCEPT ![op.cur] = k]
  BY <1>7 DEF MarkDeleted
<1>9. k = h[op.cur]
  BY <1>1, <1>6, <1>7 DEF Dropped, OldEntry
<1>10. /\ \A c \in Clusters : entries'[c] = IF c = op.cur THEN h[c] ELSE entries[c]
       /\ entries' \in [Clusters -> [DirSlots -> FatEntry]]
  BY <1>1, <1>4, <1>8, <1>9
<1>11. h = Dropped(entries', S, op.leaf)
  <2>1. \A c \in Clusters, i \in DirSlots :
          h[c][i] = IF c \in S /\ entries'[c][i] # NoEntry /\ entries'[c][i].name = To83[op.leaf]
                    THEN NoEntry ELSE entries'[c][i]
    BY <1>3, <1>10
  <2> HIDE DEF h
  <2>2. h = [c \in Clusters |-> [i \in DirSlots |-> h[c][i]]]
    BY <1>4
  <2> QED
    BY <2>1, <2>2 DEF Dropped
<1> HIDE DEF h, S
<1>12. ChainIn(fat, op.cur) = {op.cur} \union ChainIn(fat, fat[op.cur])
  BY <1>1, ChainUnfolds
<1>13. \A c \in S \ ChainIn(fat, fat[op.cur]) : h[c] = entries'[c]
  BY <1>6, <1>10, <1>12, ChainAmong DEF S
<1>14. CASE fat[op.cur] \in Clusters
  <2>1. PICK n : n = fat[op.cur]
    OBVIOUS
  <2>2. op' = [op EXCEPT !.cur = n] /\ n \in Clusters
    BY <1>14, <2>1 DEF MarkDeleted
  <2>3. /\ op'.at = "mark" /\ op'.dir = op.dir /\ op'.leaf = op.leaf /\ op'.cur = n
        /\ op'.isdir = op.isdir
    BY <1>1, <2>2 DEF FatOp
  <2>4. After(fat, entries', op') = h
    BY <1>11, <2>3 DEF After, S
  <2>5. n \in S
    BY <1>1, <1>6, <2>1, <2>2, ChainClosed, ChainNone DEF S
  <2>6. OpFine(fat, entries', h, op')
    BY <1>1, <1>6, <1>13, <2>1, <2>3, <2>5 DEF OpFine, S
  <2> QED
    BY <1>1, <1>5, <2>4, <2>6 DEF Safe
<1>15. CASE fat[op.cur] \notin Clusters
  <2>1. op' = [op EXCEPT !.at = "alloc"]
    BY <1>15 DEF MarkDeleted
  <2>2. /\ op'.at = "alloc" /\ op'.dir = op.dir /\ op'.first = 0 /\ op'.prev = 0
        /\ op'.left = op'.len /\ op'.len \in Nat /\ ~op'.isdir
    BY <1>1, <2>1 DEF FatOp
  <2>3. \A c \in S : h[c] = entries'[c]
    BY <1>13, <1>15, ChainNone
  <2>4. \A c \in Clusters : h[c] = entries'[c]
    <3>1. TAKE c \in Clusters
    <3>2. CASE c \in S
      BY <2>3, <3>2
    <3>3. CASE c \notin S
      <4>1. \A i \in DirSlots : h[c][i] = entries[c][i]
        BY <1>3, <3>3
      <4>2. h[c] \in [DirSlots -> FatEntry] /\ entries[c] \in [DirSlots -> FatEntry]
        BY <1>4
      <4>3. h[c] = entries[c]
        BY <4>1, <4>2
      <4> QED
        BY <1>6, <1>10, <3>3, <4>3
    <3> QED
      BY <3>2, <3>3
  <2>5. h = entries'
    BY <1>4, <1>10, <2>4
  <2>6. Safe(fat, entries', op')
    BY <1>5, <1>6, <2>2, <2>5, AllocBegins
  <2> QED
    BY <1>1, <2>6
<1> QED
  BY <1>14, <1>15

(* What fat_alloc takes is new to the volume and to the chain being built.  *)
LEMMA AllocSafe ==
  ASSUME FatTypeOK, Safe(fat, entries, op), NEW step, Allocate(step), UNCHANGED entries,
         \/ op.at = "alloc" /\ step = "data"
         \/ op.at = "grow" /\ step = "join"
  PROVE  Safe(fat, entries, op)'
<1>1. /\ fat \in [Clusters -> Clusters \union {FreeClus, EOC}] /\ op \in FatOp
      /\ entries' = entries /\ op.dir \in Clusters
      /\ op.at = "alloc" => (op.prev = 0 <=> op.first = 0)
  BY DEF FatTypeOK, OpTyped
<1>2. After(fat, entries, op) = entries
  BY DEF After
<1>3. Sound(fat, entries) /\ OpFine(fat, entries, entries, op)
  BY <1>2 DEF Safe
<1>4. /\ op.dir \in DirsIn(fat, entries) /\ Built(fat, entries, op)
      /\ op.isdir => op.len = 1
      /\ op.at = "alloc" => (op.prev # 0 => EndOf(fat, op.prev, op.first))
      /\ op.at = "grow" => EndOf(fat, op.prev, op.dir) /\ BlankDir(fat, entries, op)
  BY <1>3 DEF OpFine
<1>5. CASE FreeClusters = {} /\ op' = NoCallYet /\ UNCHANGED fat
  BY <1>1, <1>3, <1>5, IdleSafe
<1>6. CASE FreeClusters # {} /\ \E ok \in BOOLEAN :
             /\ FatSet(Min(FreeClusters), Marked, ok)
             /\ op' = IF ok THEN [op EXCEPT !.at = step, !.cur = Min(FreeClusters)] ELSE NoCallYet
  <2>1. PICK m : m = Min(FreeClusters)
    OBVIOUS
  <2>2. m \in Clusters /\ fat[m] = FreeClus
    BY <1>6, <2>1, FreeIs
  <2>3. PICK ok \in BOOLEAN :
          /\ FatSet(m, EOC, ok)
          /\ op' = IF ok THEN [op EXCEPT !.at = step, !.cur = m] ELSE NoCallYet
    BY <1>6, <2>1 DEF Marked
  <2>4. fat' = [fat EXCEPT ![m] = EOC] \/ fat' = fat
    BY <2>3 DEF FatSet
  <2>5. \A c \in Clusters : c # m => fat'[c] = fat[c]
    BY <1>1, <2>4
  <2>6. m \notin UsedIn(fat, entries)
    BY <1>3, <2>2, UsedWhole
  <2>7. Agree(fat, entries, fat', entries)
    BY <1>3, <2>5, <2>6, UsedWhole DEF Agree
  <2>8. Sound(fat', entries) /\ Alike(fat, entries, fat', entries)
    BY <1>3, <2>7, OffUsed
  <2>9. CASE op' = NoCallYet
    BY <1>1, <2>8, <2>9, IdleSafe
  <2>10. CASE ok
    <3>1. op' = [op EXCEPT !.at = step, !.cur = m] /\ fat' = [fat EXCEPT ![m] = EOC]
      BY <2>3, <2>10 DEF FatSet
    <3>2. /\ op'.at = step /\ op'.cur = m /\ op'.dir = op.dir /\ op'.leaf = op.leaf
          /\ op'.isdir = op.isdir /\ op'.len = op.len /\ op'.left = op.left
          /\ op'.prev = op.prev /\ op'.first = op.first
      BY <1>1, <3>1 DEF FatOp
    <3>3. After(fat', entries, op') = entries
      BY <3>2 DEF After
    <3>4. m \notin ChainIn(fat, op.first)
      <4>1. CASE op.first = 0
        BY <4>1, ChainNone, NoClusters
      <4>2. CASE op.first # 0
        BY <1>4, <2>2, <4>2 DEF Built, Whole
      <4> QED
        BY <4>1, <4>2
    <3>5. \A x \in ChainIn(fat, op.first) : fat'[x] = fat[x]
      BY <2>5, <3>4, ChainAmong
    <3>6. /\ ChainIn(fat', op.first) = ChainIn(fat, op.first)
          /\ Apart(fat', entries, op.first)
          /\ Whole(fat, op.first) => Whole(fat', op.first)
      BY <1>3, <1>4, <2>7, <3>5, ApartKept DEF Built
    <3>7. Built(fat', entries, op')
      BY <1>4, <3>2, <3>6 DEF Built
    <3>8. /\ op.dir \in DirsIn(fat', entries) /\ ChainIn(fat', op.dir) = ChainIn(fat, op.dir)
          /\ UsedIn(fat', entries) = UsedIn(fat, entries)
      BY <1>4, <2>8 DEF Alike
    <3>9. fat'[m] = EOC
      BY <1>1, <2>2, <3>1
    <3>10. New(fat', entries, op', m)
      BY <2>2, <2>6, <3>2, <3>4, <3>6, <3>8, <3>9 DEF New
    <3>11. CASE step = "data"
      <4>1. op.prev # 0 => EndOf(fat', op.prev, op.first)
        BY <1>4, <3>5, <3>6, <3>11 DEF EndOf
      <4>2. OpFine(fat', entries, entries, op')
        BY <1>4, <3>2, <3>7, <3>8, <3>10, <3>11, <4>1 DEF OpFine
      <4> QED
        BY <1>1, <2>8, <3>3, <4>2 DEF Safe
    <3>12. CASE step = "join"
      <4>1. op.prev \in ChainIn(fat, op.dir) /\ fat[op.prev] \notin Clusters
        BY <1>4, <3>12 DEF EndOf
      <4>2. op.prev \in UsedIn(fat, entries)
        BY <1>4, <4>1, InUse
      <4>3. EndOf(fat', op.prev, op.dir)
        BY <2>7, <3>8, <4>1, <4>2 DEF EndOf, Agree
      <4>4. BlankDir(fat', entries, op')
        BY <1>4, <3>2, <3>6, <3>12 DEF BlankDir
      <4>5. OpFine(fat', entries, entries, op')
        BY <1>4, <3>2, <3>7, <3>8, <3>10, <3>12, <4>3, <4>4 DEF OpFine
      <4> QED
        BY <1>1, <2>8, <3>3, <4>5 DEF Safe
    <3> QED
      BY <3>11, <3>12
  <2> QED
    BY <2>3, <2>9, <2>10
<1> QED
  BY <1>5, <1>6 DEF Allocate

(* A cluster linked behind the chain being built.                           *)
LEMMA BuiltGrows ==
  ASSUME FatTypeOK, NEW a, Sound(fat, a), Built(fat, a, op), op.at = "data",
         New(fat, a, op, op.cur), op.prev # 0 => EndOf(fat, op.prev, op.first),
         NEW g, IF op.prev = 0 THEN g = fat ELSE g = [fat EXCEPT ![op.prev] = op.cur],
         NEW first, first = IF op.first = 0 THEN op.cur ELSE op.first
  PROVE  /\ ChainIn(g, first) = ChainIn(fat, op.first) \union {op.cur}
         /\ Whole(g, first) /\ EndOf(g, op.cur, first)
         /\ Cardinality(ChainIn(g, first)) = op.len - op.left + 1
         /\ \A c \in UsedIn(fat, a) : g[c] = fat[c]
<1> DEFINE F == ChainIn(fat, op.first)
<1>1. /\ fat \in [Clusters -> Clusters \union {FreeClus, EOC}]
      /\ op.cur \in Clusters /\ (op.prev = 0 <=> op.first = 0)
      /\ op.len \in Nat /\ op.left \in Nat /\ op.cur # 0 /\ op.prev \in Clusters \union {0}
  BY NoClusters DEF FatTypeOK, OpTyped, FatOp
<1>2. /\ op.cur \notin F /\ op.cur \notin UsedIn(fat, a) /\ fat[op.cur] = EOC
      /\ fat[op.cur] \notin Clusters
  BY NoClusters DEF New
<1>3. F \intersect UsedIn(fat, a) = {} /\ Cardinality(F) = op.len - op.left
      /\ (op.first # 0 => Whole(fat, op.first))
  BY DEF Built, Apart
<1>4. /\ ChainIn(g, first) = F \union {op.cur}
      /\ \A x \in F \union {op.cur} : g[x] # FreeClus
      /\ g[op.cur] = EOC
      /\ \A c \in UsedIn(fat, a) : g[c] = fat[c]
  <2>1. CASE op.first = 0
    <3>1. g = fat /\ first = op.cur /\ F = {}
      BY <1>1, <2>1, ChainNone, NoClusters
    <3>2. ChainIn(fat, fat[op.cur]) = {}
      BY <1>2, ChainNone
    <3>3. ChainIn(fat, op.cur) = {op.cur}
      BY <1>1, <3>2, ChainUnfolds
    <3> QED
      BY <1>2, <3>1, <3>3, NoClusters
  <2>2. CASE op.first # 0
    <3>1. /\ op.prev # 0 /\ first = op.first /\ op.prev \in Clusters
          /\ op.prev \in F /\ fat[op.prev] \notin Clusters
          /\ g = [fat EXCEPT ![op.prev] = op.cur]
      BY <1>1, <2>2 DEF EndOf
    <3>2. g[op.prev] = op.cur /\ \A x \in Clusters \ {op.prev} : g[x] = fat[x]
      BY <1>1, <3>1
    <3>3. ChainIn(g, op.first) = F \union {op.cur}
      <4>1. PICK p, n, c : p = op.prev /\ n = op.cur /\ c = op.first
        OBVIOUS
      <4>2. /\ p \in ChainIn(fat, c) /\ fat[p] \notin Clusters
            /\ n \in Clusters /\ n \notin ChainIn(fat, c) /\ fat[n] \notin Clusters
            /\ g[p] = n /\ \A x \in Clusters \ {p} : g[x] = fat[x]
        BY <1>1, <1>2, <3>1, <3>2, <4>1
      <4>3. ChainIn(g, c) = ChainIn(fat, c) \union {n}
        BY <4>2, ChainGrows
      <4> QED
        BY <4>1, <4>3
    <3>4. \A x \in F : fat[x] # FreeClus
      BY <1>3, <2>2 DEF Whole
    <3>5. op.cur # op.prev
      BY <1>2, <3>1
    <3>6. g[op.cur] = EOC
      BY <1>1, <1>2, <3>2, <3>5
    <3>7. \A x \in F : g[x] # FreeClus
      BY <1>1, <3>2, <3>4, ChainAmong DEF FreeClus
    <3>8. \A c \in UsedIn(fat, a) : g[c] = fat[c]
      BY <1>3, <3>1, <3>2, UsedWhole
    <3> QED
      BY <3>1, <3>3, <3>6, <3>7, <3>8, NoClusters
  <2> QED
    BY <2>1, <2>2
<1>5. first \in Clusters
  BY <1>4, ChainNone
<1>6. Whole(g, first) /\ EndOf(g, op.cur, first)
  BY <1>4, <1>5, NoClusters DEF Whole, EndOf
<1>7. Cardinality(F \union {op.cur}) = Cardinality(F) + 1
  <2>1. IsFiniteSet(F)
    BY ChainAmong, FatAssumption, FS_Subset
  <2> QED
    BY <1>2, <2>1, FS_AddElement
<1> QED
  BY <1>3, <1>4, <1>6, <1>7

(* Linking a cluster behind the last and writing it makes the chain longer *)
(* by it; a link that fails hurts the volume.                              *)
LEMMA WriteDataSafe ==
  ASSUME FatTypeOK, Safe(fat, entries, op), WriteData, ~hurt'
  PROVE  Safe(fat, entries, op)'
<1>1. /\ op.at = "data" /\ op \in FatOp /\ op.cur \in Clusters /\ op.dir \in Clusters
      /\ op.left \in Nat /\ op.len \in Nat /\ op.left >= 1 /\ op.left <= op.len
      /\ (op.prev = 0 <=> op.first = 0)
      /\ entries \in [Clusters -> [DirSlots -> FatEntry]]
  BY DEF WriteData, FatTypeOK, OpTyped, FatOp
<1>2. After(fat, entries, op) = entries
  BY <1>1 DEF After
<1>3. Sound(fat, entries) /\ OpFine(fat, entries, entries, op)
  BY <1>2 DEF Safe
<1>4. /\ op.dir \in DirsIn(fat, entries) /\ Built(fat, entries, op)
      /\ op.isdir => op.len = 1
      /\ op.prev # 0 => EndOf(fat, op.prev, op.first)
      /\ New(fat, entries, op, op.cur)
  BY <1>1, <1>3 DEF OpFine
<1>5. PICK first : first = IF op.first = 0 THEN op.cur ELSE op.first
  OBVIOUS
<1>6. IF op.prev = 0 THEN fat' = fat ELSE fat' = [fat EXCEPT ![op.prev] = op.cur]
  BY DEF WriteData
<1>7. /\ ChainIn(fat', first) = ChainIn(fat, op.first) \union {op.cur}
      /\ Whole(fat', first) /\ EndOf(fat', op.cur, first)
      /\ Cardinality(ChainIn(fat', first)) = op.len - op.left + 1
      /\ \A c \in UsedIn(fat, entries) : fat'[c] = fat[c]
  BY <1>1, <1>3, <1>4, <1>5, <1>6, BuiltGrows
<1>8. CASE op' = NoCallYet /\ UNCHANGED entries
  <2>1. Agree(fat, entries, fat', entries)
    BY <1>7 DEF Agree
  <2>2. Sound(fat', entries)
    BY <1>3, <2>1, OffUsed
  <2> QED
    BY <1>8, <2>2, IdleSafe
<1>9. CASE /\ op' = [op EXCEPT !.at = IF op.left = 1 THEN "put" ELSE "alloc",
                               !.left = op.left - 1, !.prev = op.cur,
                               !.first = IF op.first = 0 THEN op.cur ELSE op.first,
                               !.cur = op.dir]
           /\ entries' = IF op.isdir THEN [entries EXCEPT ![op.cur] = NoEntries] ELSE entries
  <2>1. PICK at : at = IF op.left = 1 THEN "put" ELSE "alloc"
    OBVIOUS
  <2>2. op' = [op EXCEPT !.at = at, !.left = op.left - 1, !.prev = op.cur,
                         !.first = first, !.cur = op.dir]
    BY <1>5, <1>9, <2>1
  <2>3. /\ op'.at = at /\ op'.left = op.left - 1 /\ op'.prev = op.cur /\ op'.first = first
        /\ op'.cur = op.dir /\ op'.dir = op.dir /\ op'.leaf = op.leaf
        /\ op'.isdir = op.isdir /\ op'.len = op.len
    BY <1>1, <2>2 DEF FatOp
  <2>4. After(fat', entries', op') = entries'
    BY <2>1, <2>3 DEF After
  <2>5. op.cur \notin UsedIn(fat, entries)
    BY <1>4 DEF New
  <2>6. \A c \in Clusters : c # op.cur => entries'[c] = entries[c]
    BY <1>1, <1>9
  <2>7. Agree(fat, entries, fat', entries')
    BY <1>3, <1>7, <2>5, <2>6, UsedWhole DEF Agree
  <2>8. Sound(fat', entries') /\ Alike(fat, entries, fat', entries')
    BY <1>3, <2>7, OffUsed
  <2>9. /\ op.dir \in DirsIn(fat', entries')
        /\ UsedIn(fat', entries') = UsedIn(fat, entries)
    BY <1>4, <2>8 DEF Alike
  <2>10. Apart(fat', entries', first)
    BY <1>4, <1>7, <2>5, <2>9 DEF Built, Apart
  <2>11. op.len - op.left + 1 = op.len - (op.left - 1)
    BY <1>1
  <2>12. Built(fat', entries', op')
    BY <1>7, <2>3, <2>10, <2>11 DEF Built
  <2>13. CASE op.left # 1
    <3>1. at = "alloc"
      BY <2>1, <2>13
    <3>2. OpFine(fat', entries', entries', op')
      BY <1>4, <1>7, <2>3, <2>9, <2>12, <3>1 DEF OpFine
    <3> QED
      BY <2>4, <2>8, <3>2 DEF Safe
  <2>14. CASE op.left = 1
    <3>1. at = "put"
      BY <2>1, <2>14
    <3>2. op.dir \in ChainIn(fat', op.dir)
      BY <1>1, ChainClosed
    <3>3. ASSUME op.isdir
          PROVE  /\ ChainIn(fat', first) = {first}
                 /\ \A i \in DirSlots : entries'[first][i] = NoEntry
      <4>1. Cardinality(ChainIn(fat, op.first)) = 0
        BY <1>1, <1>4, <2>14, <3>3 DEF Built
      <4>2. IsFiniteSet(ChainIn(fat, op.first))
        BY ChainAmong, FatAssumption, FS_Subset
      <4>3. ChainIn(fat, op.first) = {}
        BY <4>1, <4>2, FS_EmptySet
      <4>4. op.first = 0
        BY <1>1, <4>3, ChainClosed DEF FatOp
      <4>5. first = op.cur
        BY <1>5, <4>4
      <4>6. entries'[first] = NoEntries
        BY <1>1, <1>9, <3>3, <4>5
      <4> QED
        BY <1>7, <4>3, <4>5, <4>6 DEF NoEntries
    <3>4. BlankDir(fat', entries', op')
      BY <2>3, <3>3 DEF BlankDir
    <3>5. OpFine(fat', entries', entries', op')
      BY <1>4, <2>3, <2>9, <2>12, <3>1, <3>2, <3>4 DEF OpFine
    <3> QED
      BY <2>4, <2>8, <3>5 DEF Safe
  <2> QED
    BY <2>13, <2>14
<1> QED
  BY <1>8, <1>9 DEF WriteData

(* The entry of a finished chain fits its directory.                        *)
LEMMA NewFits ==
  ASSUME FatTypeOK, op.at \in {"put", "fill"}, NEW a, Built(fat, a, op), BlankDir(fat, a, op)
  PROVE  Fit(fat, a, op.dir, NewEntry)
<1>1. op.first \in Clusters /\ op.first # 0 /\ op.left = 0 /\ op.len \in Nat
  BY NoClusters DEF FatTypeOK, OpTyped, FatOp
<1>2. NewEntry.clus = op.first /\ NewEntry.dir = op.isdir /\ NewEntry.len = op.len
  BY NewEntryIs
<1>3. op.len - op.left = op.len
  BY <1>1
<1> QED
  BY <1>1, <1>2, <1>3 DEF Fit, Built, Apart, BlankDir

(* The entry that is put has a chain of its own, of its length.            *)
LEMMA PutEntrySafe ==
  ASSUME FatTypeOK, Safe(fat, entries, op), PutEntry
  PROVE  Safe(fat, entries, op)'
<1>1. /\ op.at = "put" /\ op \in FatOp /\ op.cur \in Clusters /\ fat' = fat
      /\ op.left = 0 /\ op.len \in Nat
      /\ entries \in [Clusters -> [DirSlots -> FatEntry]]
  BY DEF PutEntry, FatTypeOK, OpTyped, FatOp
<1>2. After(fat, entries, op) = entries
  BY <1>1 DEF After
<1>3. Sound(fat, entries) /\ OpFine(fat, entries, entries, op)
  BY <1>2 DEF Safe
<1>4. /\ op.dir \in DirsIn(fat, entries) /\ Built(fat, entries, op) /\ BlankDir(fat, entries, op)
      /\ op.isdir => op.len = 1
      /\ op.cur \in ChainIn(fat, op.dir)
  BY <1>1, <1>3 DEF OpFine
<1>5. CASE /\ Vacant(op.cur) # {} /\ op' = NoCallYet
           /\ \/ entries' = [entries EXCEPT ![op.cur][Min(Vacant(op.cur))] = NewEntry]
              \/ UNCHANGED entries
  <2>1. CASE UNCHANGED entries
    BY <1>1, <1>3, <1>5, <2>1, IdleSafe
  <2>2. CASE entries' = [entries EXCEPT ![op.cur][Min(Vacant(op.cur))] = NewEntry]
    <3>1. PICK i, c : i = Min(Vacant(op.cur)) /\ c = op.cur
      OBVIOUS
    <3>2. PICK x : x = NewEntry
      OBVIOUS
    <3>3. i \in DirSlots /\ entries[c][i] = NoEntry /\ c \in Clusters
      BY <1>1, <1>5, <3>1, VacantIs
    <3>4. entries' = [entries EXCEPT ![c][i] = x]
      BY <2>2, <3>1, <3>2
    <3>5. entries'[c][i] = x
      BY <1>1, <3>3, <3>4
    <3>6. \A k \in Clusters, j \in DirSlots : k # c \/ j # i => entries'[k][j] = entries[k][j]
      BY <1>1, <3>3, <3>4
    <3>7. Fit(fat, entries, op.dir, x)
      BY <1>1, <1>4, <3>2, NewFits
    <3>8. PICK p : p = <<c, i>>
      OBVIOUS
    <3>9. p \in ChainIn(fat, op.dir) \X DirSlots /\ p[1] = c /\ p[2] = i
      BY <1>4, <3>1, <3>3, <3>8
    <3>10. EntryOf(entries, p) = NoEntry /\ EntryOf(entries', p) = x
      BY <3>3, <3>5, <3>9 DEF EntryOf
    <3>11. ASSUME NEW q \in Clusters \X DirSlots, q # p
           PROVE  EntryOf(entries', q) = EntryOf(entries, q)
      BY <3>6, <3>8, <3>11 DEF EntryOf
    <3>12. Putting(fat, entries, op.dir, p, x, entries')
      BY <3>9, <3>10, <3>11 DEF Putting
    <3>13. Sound(fat, entries')
      BY <1>3, <1>4, <3>7, <3>12, Put
    <3> QED
      BY <1>1, <1>5, <3>13, IdleSafe
  <2> QED
    BY <1>5, <2>1, <2>2
<1>6. CASE /\ op' = IF fat[op.cur] \in Clusters THEN [op EXCEPT !.cur = fat[op.cur]]
                    ELSE [op EXCEPT !.at = "grow", !.prev = op.cur]
           /\ UNCHANGED entries
  <2>1. /\ op'.at \in {"put", "grow"} /\ op'.dir = op.dir /\ op'.first = op.first
        /\ op'.isdir = op.isdir /\ op'.len = op.len /\ op'.left = op.left
    BY <1>1, <1>6 DEF FatOp
  <2>2. After(fat, entries, op') = entries
    BY <2>1 DEF After
  <2>3. Built(fat, entries, op') /\ BlankDir(fat, entries, op')
    BY <1>4, <2>1 DEF Built, BlankDir
  <2>4. op.dir \in Clusters
    BY <1>1 DEF FatTypeOK, OpTyped
  <2>5. ASSUME op'.at = "put" PROVE op'.cur \in ChainIn(fat, op.dir)
    <3>1. fat[op.cur] \in Clusters /\ op'.cur = fat[op.cur]
      BY <1>1, <1>6, <2>5 DEF FatOp
    <3> QED
      BY <1>4, <2>4, <3>1, ChainClosed
  <2>6. ASSUME op'.at = "grow" PROVE EndOf(fat, op'.prev, op.dir)
    <3>1. fat[op.cur] \notin Clusters /\ op'.prev = op.cur
      BY <1>1, <1>6, <2>6 DEF FatOp
    <3> QED
      BY <1>4, <3>1 DEF EndOf
  <2>7. OpFine(fat, entries, entries, op')
    BY <1>4, <2>1, <2>3, <2>5, <2>6 DEF OpFine
  <2>8. Safe(fat, entries, op')
    BY <1>3, <2>2, <2>7 DEF Safe
  <2> QED
    BY <1>1, <1>6, <2>8
<1> QED
  BY <1>5, <1>6 DEF PutEntry

(* A directory is extended by a cluster of nobody's, taken as blank until  *)
(* it is written.                                                          *)
LEMMA JoinDirSafe ==
  ASSUME FatTypeOK, Safe(fat, entries, op), JoinDir
  PROVE  Safe(fat, entries, op)'
<1>1. /\ op.at = "join" /\ op \in FatOp /\ op.cur \in Clusters /\ op.prev \in Clusters
      /\ entries' = entries /\ op.first \in Clusters
      /\ fat \in [Clusters -> Clusters \union {FreeClus, EOC}]
      /\ entries \in [Clusters -> [DirSlots -> FatEntry]]
  BY DEF JoinDir, FatTypeOK, OpTyped
<1>2. After(fat, entries, op) = entries
  BY <1>1 DEF After
<1>3. Sound(fat, entries) /\ OpFine(fat, entries, entries, op)
  BY <1>2 DEF Safe
<1>4. /\ op.dir \in DirsIn(fat, entries) /\ Built(fat, entries, op) /\ BlankDir(fat, entries, op)
      /\ op.isdir => op.len = 1
      /\ EndOf(fat, op.prev, op.dir) /\ New(fat, entries, op, op.cur)
  BY <1>1, <1>3 DEF OpFine
<1>5. /\ op'.at = "fill" /\ op'.dir = op.dir /\ op'.first = op.first /\ op'.isdir = op.isdir
      /\ op'.len = op.len /\ op'.left = op.left /\ op'.cur = op.cur /\ op'.prev = op.prev
  BY <1>1 DEF JoinDir, FatOp
<1>6. PICK n, p, d, c : n = op.cur /\ p = op.prev /\ d = op.dir /\ c = op.first
  OBVIOUS
<1>7. PICK h : h = [entries EXCEPT ![n] = NoEntries]
  OBVIOUS
<1>8. After(fat', entries', op') = h
  BY <1>1, <1>5, <1>6, <1>7 DEF After
<1>9. /\ \A x \in Clusters : x # n => h[x] = entries[x]
      /\ \A i \in DirSlots : h[n][i] = NoEntry
  BY <1>1, <1>6, <1>7 DEF NoEntries
<1>10. n \in Clusters /\ fat[n] = EOC /\ n \notin UsedIn(fat, entries) /\ n \notin ChainIn(fat, c)
  BY <1>4, <1>6 DEF New
<1>11. p \in ChainIn(fat, d) /\ fat[p] \notin Clusters /\ p \in Clusters
  BY <1>1, <1>4, <1>6 DEF EndOf
<1>12. Agree(fat, entries, fat, h)
  BY <1>3, <1>9, <1>10, UsedWhole DEF Agree
<1>13. Sound(fat, h) /\ Alike(fat, entries, fat, h)
  BY <1>3, <1>12, OffUsed
<1>14. d \in DirsIn(fat, h) /\ UsedIn(fat, h) = UsedIn(fat, entries)
  BY <1>4, <1>6, <1>13 DEF Alike
<1>15. p \in UsedIn(fat, h)
  BY <1>11, <1>14, InUse
<1>16. Apart(fat, h, c) /\ p \notin ChainIn(fat, c)
  BY <1>4, <1>6, <1>14, <1>15 DEF Built, Apart
<1>17. fat' = [fat EXCEPT ![p] = n] \/ fat' = fat
  BY <1>6 DEF JoinDir, FatSet
<1>18. \A x \in Clusters \ {p} : fat'[x] = fat[x]
  BY <1>1, <1>17
<1>19. ChainIn(fat', c) = ChainIn(fat, c) /\ \A x \in ChainIn(fat, c) : fat'[x] = fat[x]
  <2>1. \A x \in ChainIn(fat, c) : fat'[x] = fat[x]
    BY <1>16, <1>18, ChainAmong
  <2> QED
    BY <2>1, ChainAgrees
<1>20. /\ Sound(fat', h) /\ d \in DirsIn(fat', h)
       /\ UsedIn(fat', h) \subseteq UsedIn(fat, h) \union {n}
       /\ p \in ChainIn(fat', d)
       /\ fat'[p] = n \/ (n \notin UsedIn(fat', h) /\ fat'[n] = EOC)
  <2>1. CASE fat' = [fat EXCEPT ![p] = n]
    <3>1. fat'[p] = n
      BY <1>1, <1>11, <2>1
    <3>2. Growing(fat, h, d, p, n, fat')
      BY <1>9, <1>10, <1>11, <1>14, <1>18, <3>1 DEF Growing
    <3>3. /\ Sound(fat', h) /\ DirsIn(fat', h) = DirsIn(fat, h)
          /\ ChainIn(fat', d) = ChainIn(fat, d) \union {n}
          /\ UsedIn(fat', h) \subseteq UsedIn(fat, h) \union {n}
      BY <1>13, <1>14, <3>2, Grow
    <3>4. d \in DirsIn(fat', h)
      BY <1>14, <3>3
    <3>5. p \in ChainIn(fat', d)
      BY <1>11, <3>3
    <3> QED
      BY <3>1, <3>3, <3>4, <3>5
  <2>2. CASE fat' = fat
    BY <1>10, <1>11, <1>13, <1>14, <2>2
  <2> QED
    BY <1>17, <2>1, <2>2
<1>21. Apart(fat', h, c)
  BY <1>10, <1>16, <1>19, <1>20 DEF Apart
<1>22. Whole(fat', c) /\ c \in ChainIn(fat, c)
  <2>1. c # 0 /\ c \in Clusters
    BY <1>1, <1>6, NoClusters
  <2>2. Whole(fat, c)
    BY <1>4, <1>6, <2>1 DEF Built
  <2> QED
    BY <1>19, <2>1, <2>2, ChainClosed DEF Whole
<1>23. Built(fat', h, op')
  BY <1>4, <1>5, <1>6, <1>19, <1>21, <1>22 DEF Built
<1>24. h[c] = entries[c]
  BY <1>1, <1>6, <1>9, <1>10, <1>22
<1>25. BlankDir(fat', h, op')
  BY <1>4, <1>5, <1>6, <1>19, <1>24 DEF BlankDir
<1>26. fat'[p] = n \/ New(fat', h, op', n)
  BY <1>5, <1>6, <1>10, <1>19, <1>20 DEF New
<1>27. OpFine(fat', entries', h, op')
  BY <1>4, <1>5, <1>6, <1>10, <1>19, <1>20, <1>23, <1>25, <1>26 DEF OpFine
<1> QED
  BY <1>8, <1>20, <1>27 DEF Safe

(* Writing that cluster makes it blank; a failure hurts the volume.        *)
LEMMA FillDirSafe ==
  ASSUME FatTypeOK, Safe(fat, entries, op), FillDir, ~hurt'
  PROVE  Safe(fat, entries, op)'
<1>1. /\ op.at = "fill" /\ op \in FatOp /\ op.cur \in Clusters /\ op.prev \in Clusters
      /\ fat' = fat /\ op' = NoCallYet
      /\ entries \in [Clusters -> [DirSlots -> FatEntry]]
  BY DEF FillDir, FatTypeOK, OpTyped
<1>2. PICK n, p, d : n = op.cur /\ p = op.prev /\ d = op.dir
  OBVIOUS
<1>3. PICK h : h = [entries EXCEPT ![n] = NoEntries]
  OBVIOUS
<1>4. After(fat, entries, op) = h
  BY <1>1, <1>2, <1>3 DEF After
<1>5. Sound(fat, h) /\ OpFine(fat, entries, h, op)
  BY <1>4 DEF Safe
<1>6. /\ d \in DirsIn(fat, h) /\ Built(fat, h, op) /\ BlankDir(fat, h, op)
      /\ p \in ChainIn(fat, d)
      /\ fat[p] = n \/ New(fat, h, op, n)
  BY <1>1, <1>2, <1>5 DEF OpFine
<1>7. /\ \A x \in Clusters : x # n => h[x] = entries[x]
      /\ \A i \in DirSlots : h[n][i] = NoEntry
      /\ n \in Clusters
  BY <1>1, <1>2, <1>3 DEF NoEntries
<1>8. \A x \in Clusters : x # n => entries'[x] = entries[x]
  BY <1>1, <1>2 DEF FillDir
<1>9. CASE n \notin UsedIn(fat, h)
  <2>1. Agree(fat, h, fat, entries')
    BY <1>5, <1>7, <1>8, <1>9, UsedWhole DEF Agree
  <2>2. Sound(fat, entries')
    BY <1>5, <2>1, OffUsed
  <2> QED
    BY <1>1, <2>2, IdleSafe
<1>10. CASE fat[p] = n
  <2>1. PICK x : x = NewEntry
    OBVIOUS
  <2>2. entries' = [entries EXCEPT ![n] = [NoEntries EXCEPT ![1] = x]]
    BY <1>2, <1>10, <2>1 DEF FillDir
  <2>3. 1 \in DirSlots /\ \A i \in DirSlots : NoEntries[i] = NoEntry
    BY FatAssumption DEF DirSlots, NoEntries
  <2>4. /\ entries'[n][1] = x
        /\ \A i \in DirSlots : i # 1 => entries'[n][i] = NoEntry
    BY <1>1, <1>7, <2>2, <2>3, Blanks
  <2>5. Fit(fat, h, d, x)
    BY <1>1, <1>2, <1>6, <2>1, NewFits
  <2>6. n \in ChainIn(fat, d)
    BY <1>5, <1>6, <1>7, <1>10, DirWhole, ChainClosed
  <2>7. PICK q : q = <<n, 1>>
    OBVIOUS
  <2>8. q \in ChainIn(fat, d) \X DirSlots /\ q[1] = n /\ q[2] = 1
    BY <2>3, <2>6, <2>7
  <2>9. EntryOf(h, q) = NoEntry /\ EntryOf(entries', q) = x
    BY <1>7, <2>3, <2>4, <2>8 DEF EntryOf
  <2>10. ASSUME NEW r \in Clusters \X DirSlots, r # q
         PROVE  EntryOf(entries', r) = EntryOf(h, r)
    <3>1. CASE r[1] = n
      <4>1. r[2] \in DirSlots /\ r[2] # 1
        BY <2>7, <2>10, <3>1
      <4> QED
        BY <1>7, <2>4, <3>1, <4>1 DEF EntryOf
    <3>2. CASE r[1] # n
      BY <1>7, <1>8, <3>2 DEF EntryOf
    <3> QED
      BY <3>1, <3>2
  <2>11. Putting(fat, h, d, q, x, entries')
    BY <2>8, <2>9, <2>10 DEF Putting
  <2>12. Sound(fat, entries')
    BY <1>5, <1>6, <2>5, <2>11, Put
  <2> QED
    BY <1>1, <2>12, IdleSafe
<1> QED
  BY <1>6, <1>9, <1>10 DEF New

(* Power fails at a step at which nothing is torn.                          *)
LEMMA PowerFailsSafe ==
  ASSUME FatTypeOK, Safe(fat, entries, op), PowerFails, ~hurt'
  PROVE  Safe(fat, entries, op)'
<1>1. /\ op' = NoCallYet /\ fat' = fat /\ entries' = entries
      /\ op.at \notin {"free", "mark", "fill"}
  BY DEF PowerFails, Torn
<1>2. After(fat, entries, op) = entries
  BY <1>1 DEF After
<1>3. Sound(fat, entries)
  BY <1>2 DEF Safe
<1> QED
  BY <1>1, <1>3, IdleSafe

---------------------------------------------------------------------------
(* The theorems.                                                            *)

(* A formatted volume.                                                      *)
LEMMA FatStarts ==
  ASSUME FatInit
  PROVE  FatInv
<1>1. fat = [c \in Clusters |-> IF c = RootClus THEN EOC ELSE FreeClus]
  BY DEF FatInit
<1>2. op = NoCallYet /\ hurt = FALSE /\ OpTyped(op)
  BY Blanks DEF FatInit
<1>3. \A c \in Clusters, i \in DirSlots :
        entries[c][i] = NoEntry
        \/ \E l \in Leaves : entries[c][i] = [name |-> l, dir |-> FALSE, clus |-> 0, len |-> 0]
  <2>1. TAKE c \in Clusters, i \in DirSlots
  <2>2. i \in Nat /\ i >= 1
    BY DEF DirSlots
  <2>3. entries[c][i] = IF c = RootClus /\ i <= Len(FromPc)
                        THEN [NoEntry EXCEPT !.name = FromPc[i]] ELSE NoEntry
    BY DEF FatInit
  <2>4. CASE c = RootClus /\ i <= Len(FromPc)
    <3>1. PICK l : l = FromPc[i]
      OBVIOUS
    <3>2. l \in Leaves
      BY <2>2, <2>4, <3>1, FatAssumption
    <3>3. entries[c][i] = [NoEntry EXCEPT !.name = l]
      BY <2>3, <2>4, <3>1
    <3>4. entries[c][i] = [name |-> l, dir |-> FALSE, clus |-> 0, len |-> 0]
      BY <3>3 DEF NoEntry
    <3> QED
      BY <3>2, <3>4
  <2> QED
    BY <2>3, <2>4
<1>4. \A c \in Clusters, i \in DirSlots :
        entries[c][i] \in FatEntry /\ entries[c][i].clus = 0 /\ ~entries[c][i].dir
  <2>1. ASSUME NEW l \in Leaves, NEW x, x = [name |-> l, dir |-> FALSE, clus |-> 0, len |-> 0]
        PROVE  x \in FatEntry /\ x.clus = 0 /\ ~x.dir
    BY <2>1 DEF FatEntry
  <2> QED
    BY <1>3, <2>1, Blanks
<1>5. entries = [c \in Clusters |-> [i \in DirSlots |-> entries[c][i]]]
  BY DEF FatInit
<1>6. fat \in [Clusters -> Clusters \union {FreeClus, EOC}]
  BY <1>1
<1>7. entries \in [Clusters -> [DirSlots -> FatEntry]]
  BY <1>4, <1>5
<1>8. FatTypeOK
  BY <1>2, <1>6, <1>7 DEF FatTypeOK
<1>9. ChainIn(fat, RootClus) = {RootClus} /\ Whole(fat, RootClus)
  <2>1. fat[RootClus] = EOC /\ fat[RootClus] \notin Clusters
    BY <1>1, NoClusters
  <2>2. ChainIn(fat, fat[RootClus]) = {}
    BY <2>1, ChainNone
  <2>3. ChainIn(fat, RootClus) = {RootClus}
    BY <2>2, NoClusters, ChainUnfolds
  <2> QED
    BY <2>1, <2>3, NoClusters DEF Whole
<1>10. ASSUME NEW d, NEW p \in PlacesIn(fat, entries, d)
       PROVE  EntryOf(entries, p).clus = 0 /\ ~EntryOf(entries, p).dir
  <2>1. p \in ChainIn(fat, d) \X DirSlots
    BY DEF PlacesIn
  <2>2. p[1] \in Clusters /\ p[2] \in DirSlots
    BY <2>1, ChainAmong
  <2> QED
    BY <1>4, <2>2 DEF EntryOf
<1>11. \A p \in LiveIn(fat, entries) : EntryOf(entries, p).clus = 0 /\ ~EntryOf(entries, p).dir
  BY <1>10 DEF LiveIn
<1>12. \A p \in LiveIn(fat, entries) : ChainIn(fat, EntryOf(entries, p).clus) = {}
  BY <1>11, ChainNone, NoClusters
<1>13. Sound(fat, entries)
  BY <1>9, <1>11, <1>12 DEF Sound, Holds1, Disjoint
<1>14. Safe(fat, entries, op)
  BY <1>2, <1>13, IdleSafe
<1> QED
  BY <1>8, <1>14 DEF FatInv

(* A volume once hurt stays so.                                             *)
LEMMA HurtStays ==
  ASSUME FatTypeOK, FatNext, ~hurt'
  PROVE  ~hurt
BY DEF FatNext, FatTypeOK, BeginWrite, BeginMkdir, FreeOne, MarkDeleted, AllocData, WriteData,
       PutEntry, GrowDir, JoinDir, FillDir, PowerFails

(* Every step keeps the invariant.                                          *)
LEMMA FatSteps ==
  ASSUME FatInv, [FatNext]_fatvars
  PROVE  FatInv'
<1>1. CASE FatNext
  <2>1. FatTypeOK /\ FatTypeOK'
    BY <1>1, FatTyped DEF FatInv
  <2>2. ASSUME ~hurt' PROVE Safe(fat, entries, op)'
    <3>1. Safe(fat, entries, op)
      BY <1>1, <2>1, <2>2, HurtStays DEF FatInv
    <3>2. ASSUME NEW d \in FatDirs, NEW l \in Leaves, NEW n \in 1 .. MaxLen, BeginWrite(d, l, n)
          PROVE  Safe(fat, entries, op)'
      BY <2>1, <2>2, <3>1, <3>2, BeginWriteSafe
    <3>3. ASSUME NEW l \in Leaves, BeginMkdir(l) PROVE Safe(fat, entries, op)'
      BY <2>1, <3>1, <3>3, BeginMkdirSafe
    <3>4. CASE FreeOne
      BY <2>1, <3>1, <3>4, FreeOneSafe
    <3>5. CASE MarkDeleted
      BY <2>1, <2>2, <3>1, <3>5, MarkDeletedSafe
    <3>6. CASE AllocData
      BY <2>1, <3>1, <3>6, AllocSafe DEF AllocData
    <3>7. CASE WriteData
      BY <2>1, <2>2, <3>1, <3>7, WriteDataSafe
    <3>8. CASE PutEntry
      BY <2>1, <3>1, <3>8, PutEntrySafe
    <3>9. CASE GrowDir
      BY <2>1, <3>1, <3>9, AllocSafe DEF GrowDir
    <3>10. CASE JoinDir
      BY <2>1, <3>1, <3>10, JoinDirSafe
    <3>11. CASE FillDir
      BY <2>1, <2>2, <3>1, <3>11, FillDirSafe
    <3>12. CASE PowerFails
      BY <2>1, <2>2, <3>1, <3>12, PowerFailsSafe
    <3> QED
      BY <1>1, <3>2, <3>3, <3>4, <3>5, <3>6, <3>7, <3>8, <3>9, <3>10, <3>11, <3>12 DEF FatNext
  <2> QED
    BY <2>1, <2>2 DEF FatInv
<1>2. CASE UNCHANGED fatvars
  <2>1. fat' = fat /\ entries' = entries /\ op' = op /\ hurt' = hurt
    BY <1>2 DEF fatvars
  <2> QED
    BY <2>1 DEF FatInv, FatTypeOK
<1> QED
  BY <1>1, <1>2

(* The volume of fs/fat32.c keeps its types: every FAT entry is a cluster,  *)
(* free or an end, every directory entry has clusters only under its own    *)
(* 8.3 name, and each step of a call finds the clusters it works on.        *)
THEOREM FatTypesHold == FatSpec => []FatTypeOK
<1>1. FatInit => FatInv
  BY FatStarts
<1>2. FatInv /\ [FatNext]_fatvars => FatInv'
  BY FatSteps
<1>3. FatInv => FatTypeOK
  BY DEF FatInv
<1> QED
  BY <1>1, <1>2, <1>3, PTL DEF FatSpec

(* What the invariant says once no call is between the steps that tear it.  *)
LEMMA SafeApart ==
  ASSUME FatInv
  PROVE  ChainsApart
<1>1. SUFFICES ASSUME ~hurt, ~Torn
      PROVE  /\ Complete(RootClus)
             /\ \A p \in LivePlaces : EntryAt(p).clus # 0 =>
                  /\ Complete(EntryAt(p).clus)
                  /\ EntryAt(p).dir
                     \/ Cardinality(Chain(EntryAt(p).clus)) = EntryAt(p).len
                  /\ Chain(EntryAt(p).clus) \intersect Chain(RootClus) = {}
                  /\ \A q \in LivePlaces \ {p} :
                       Chain(EntryAt(p).clus) \intersect Chain(EntryAt(q).clus) = {}
  BY DEF ChainsApart
<1>2. After(fat, entries, op) = entries
  BY <1>1 DEF After, Torn
<1>3. Sound(fat, entries)
  BY <1>1, <1>2 DEF FatInv, Safe
<1>4. Complete(RootClus)
  BY <1>3, VolumeIs DEF Sound
<1>5. ASSUME NEW p \in LivePlaces, EntryAt(p).clus # 0
      PROVE  /\ Complete(EntryAt(p).clus)
             /\ EntryAt(p).dir \/ Cardinality(Chain(EntryAt(p).clus)) = EntryAt(p).len
             /\ Chain(EntryAt(p).clus) \intersect Chain(RootClus) = {}
             /\ \A q \in LivePlaces \ {p} :
                  Chain(EntryAt(p).clus) \intersect Chain(EntryAt(q).clus) = {}
  <2>1. p \in LiveIn(fat, entries) /\ EntryAt(p) = EntryOf(entries, p)
    BY VolumeIs
  <2>2. Holds1(fat, EntryAt(p))
    BY <1>3, <2>1 DEF Sound
  <2>3. /\ Whole(fat, EntryAt(p).clus) /\ Disjoint(fat, EntryAt(p).clus, RootClus)
        /\ EntryAt(p).dir \/ Cardinality(ChainIn(fat, EntryAt(p).clus)) = EntryAt(p).len
    BY <1>5, <2>2 DEF Holds1
  <2>4. ASSUME NEW q \in LivePlaces, q # p
        PROVE  Disjoint(fat, EntryAt(p).clus, EntryAt(q).clus)
    <3>1. q \in LiveIn(fat, entries) /\ EntryAt(q) = EntryOf(entries, q)
      BY VolumeIs
    <3> QED
      BY <1>3, <2>1, <2>4, <3>1 DEF Sound
  <2>5. Complete(EntryAt(p).clus)
    BY <2>3, VolumeIs
  <2> QED
    BY <2>3, <2>4, <2>5, ChainIs DEF Disjoint
<1> QED
  BY <1>4, <1>5

(* However many clusters and names there are, whatever write fails and      *)
(* wherever power does: unless the volume was hurt, no two entries and no   *)
(* directory share a cluster, a file's chain is as long as its entry says   *)
(* and fat_alloc is never given a cluster of one.                           *)
THEOREM ChainsStayApart == FatSpec => []ChainsApart
<1>1. FatInit => FatInv
  BY FatStarts
<1>2. FatInv /\ [FatNext]_fatvars => FatInv'
  BY FatSteps
<1>3. FatInv => ChainsApart
  BY SafeApart
<1> QED
  BY <1>1, <1>2, <1>3, PTL DEF FatSpec
=============================================================================
