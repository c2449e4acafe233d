------------------------------ MODULE BfsImage -----------------------------
(***************************************************************************)
(* How BoltFS keeps its tree on a disk (the persistence half of            *)
(* fs/ramfs.c): fs_sync rewrites the whole image on every mutation,        *)
(* fs_load_image reads it back at boot, fs_persist_init formats the disk   *)
(* with the seed tree when that fails.                                     *)
(*                                                                         *)
(* A tree is the sequence of pieces its serialisation fills, a piece being *)
(* what one driver command transfers.  Piece 0 carries the superblock: the *)
(* number of bytes and the checksum, modelled as the serialisation itself  *)
(* (two serialisations with equal sums are not distinguished by the code). *)
(*                                                                         *)
(* Two parties mutate the tree.  kmain (shell, desktop) is preempted       *)
(* between any two of its steps, in particular while it waits for the disk;*)
(* a ring-3 program's SYS_OPEN or SYS_WRITE runs with IF clear, to the end *)
(* of its own fs_sync, at any such point.                                  *)
(***************************************************************************)
EXTENDS Integers, Sequences

CONSTANTS
  Trees,    (* the trees the users make, each a nonempty sequence of pieces *)
  Seed,     (* the tree fs_init builds                                      *)
  Bare,     (* the root alone, what fs_clear leaves                         *)
  Garbled,  (* the tree an inconsistent image loads as                      *)
  Cap,      (* g_cap: pieces the partition holds                            *)
  Blank,    (* what an unwritten piece of the disk holds                    *)
  Faults    (* which of "crash", "read", "write", "memory" may happen       *)

AllTrees == Trees \union {Seed, Bare, Garbled}

ASSUME ImageAssumption ==
  /\ Cap \in Nat \ {0}
  /\ \A t \in AllTrees : Len(t) \in Nat \ {0} /\ DOMAIN t = 1 .. Len(t)
  /\ Faults \subseteq {"crash", "read", "write", "memory"}

Where == 0 .. Cap - 1

(* A serialisation: of a tree, consistent unless the tree or g_emit_idx     *)
(* changed under it.                                                        *)
Images == [blob : AllTrees, ok : BOOLEAN]

(* What fs_sync lays out for piece i of an image.                           *)
Piece(e, i) == IF i = 0 THEN <<e>> ELSE <<e.blob[i], e.ok>>
Heads == {<<e>> : e \in Images}
Bodies(i) == {<<e.blob[i], e.ok>> : e \in {x \in Images : i <= Len(x.blob)}}
Contents(i) == {Blank} \union (IF i = 0 THEN Heads ELSE Bodies(i))

VARIABLES
  up,        (* the machine is up                                           *)
  mem,       (* the tree in memory; without power, the tree that was there  *)
  disk,      (* the partition                                               *)
  kpc,       (* kmain: "idle", between measure and emit, or writing         *)
  kimg,      (* the image kmain writes                                      *)
  kpos,      (* how many of its pieces are on the disk                      *)
  disturbed, (* another fs_sync ran since kmain's began                     *)
  (* history *)
  clean,     (* the last mutation was saved, whole and undisturbed          *)
  saved      (* the users' tree has been saved that way at least once       *)

vars == <<up, mem, disk, kpc, kimg, kpos, disturbed, clean, saved>>

TypeOK ==
  /\ up \in BOOLEAN
  /\ mem \in AllTrees
  /\ DOMAIN disk = Where
  /\ \A i \in Where : disk[i] \in Contents(i)
  /\ kpc \in {"idle", "measured", "writing"}
  /\ kimg \in Images
  /\ kpos \in 0 .. Cap
  /\ disturbed \in BOOLEAN
  /\ clean \in BOOLEAN
  /\ saved \in BOOLEAN

PieceCount(t) == 1 + Len(t)
Fits(t) == PieceCount(t) <= Cap

(* The first boot: fs_init has seeded the tree, the disk is new, and        *)
(* fs_persist_init saves the seed.                                          *)
Init ==
  /\ up = TRUE
  /\ mem = Seed
  /\ disk = [i \in Where |-> Blank]
  /\ kpc = IF Fits(Seed) THEN "measured" ELSE "idle"
  /\ kimg = [blob |-> Seed, ok |-> FALSE]
  /\ kpos = 0
  /\ disturbed = FALSE
  /\ clean = FALSE
  /\ saved = FALSE

---------------------------------------------------------------------------
(* kmain.                                                                   *)

(* fs_sync begins: measure, the capacity check and the buffer's kmalloc.  A *)
(* failing check leaves the disk as it was, and fs_autosave says nothing.   *)
StartSync(t) ==
  /\ kimg' = [blob |-> t, ok |-> FALSE]
  /\ kpos' = 0
  /\ disturbed' = FALSE
  /\ clean' = FALSE
  /\ \/ Fits(t) /\ kpc' = "measured"
     \/ (~Fits(t) \/ "memory" \in Faults) /\ kpc' = "idle"

(* fs_create, fs_write, fs_append, fs_move or fs_remove_node.               *)
KMutate(t) ==
  /\ up
  /\ kpc = "idle"
  /\ mem' = t
  /\ StartSync(t)
  /\ UNCHANGED <<up, disk, saved>>

(* emit and the checksum.  Another fs_sync since measure has changed the    *)
(* tree: before emit, which then serialises the new tree if its size is     *)
(* still the measured one, or under it, resetting g_emit_idx.               *)
KEmit ==
  /\ up
  /\ kpc = "measured"
  /\ \/ ~disturbed /\ kimg' = [blob |-> mem, ok |-> TRUE]
     \/ disturbed /\ kimg' = kimg
     \/ /\ disturbed
        /\ Len(mem) = Len(kimg.blob)
        /\ kimg' = [blob |-> mem, ok |-> TRUE]
  /\ kpc' = "writing"
  /\ UNCHANGED <<up, mem, disk, kpos, disturbed, clean, saved>>

(* Mutants of KWrite: the last piece is not written; the superblock is not   *)
(* rewritten.                                                               *)
KWriteShort ==
  /\ up
  /\ kpc = "writing"
  /\ disk' = [disk EXCEPT ![kpos] = Piece(kimg, kpos)]
  /\ kpos' = kpos + 1
  /\ IF kpos + 1 = Len(kimg.blob)
     THEN /\ kpc' = "idle"
          /\ clean' = ~disturbed
          /\ saved' = (saved \/ (~disturbed /\ mem # Seed))
     ELSE UNCHANGED <<kpc, clean, saved>>
  /\ UNCHANGED <<up, mem, kimg, disturbed>>

KWriteBodyOnly ==
  /\ up
  /\ kpc = "writing"
  /\ disk' = IF kpos = 0 /\ disk[0] # Blank THEN disk
             ELSE [disk EXCEPT ![kpos] = Piece(kimg, kpos)]
  /\ kpos' = kpos + 1
  /\ IF kpos + 1 = PieceCount(kimg.blob)
     THEN /\ kpc' = "idle"
          /\ clean' = ~disturbed
          /\ saved' = (saved \/ (~disturbed /\ mem # Seed))
     ELSE UNCHANGED <<kpc, clean, saved>>
  /\ UNCHANGED <<up, mem, kimg, disturbed>>

(* One command of blk_write.                                                *)
KWrite ==
  /\ up
  /\ kpc = "writing"
  /\ disk' = [disk EXCEPT ![kpos] = Piece(kimg, kpos)]
  /\ kpos' = kpos + 1
  /\ IF kpos + 1 = PieceCount(kimg.blob)
     THEN /\ kpc' = "idle"
          /\ clean' = ~disturbed
          /\ saved' = (saved \/ (~disturbed /\ mem # Seed))
     ELSE UNCHANGED <<kpc, clean, saved>>
  /\ UNCHANGED <<up, mem, kimg, disturbed>>

(* A command fails: blk_write returns -1 and fs_autosave ignores it.        *)
KWriteError ==
  /\ up
  /\ kpc = "writing"
  /\ "write" \in Faults
  /\ kpc' = "idle"
  /\ UNCHANGED <<up, mem, disk, kimg, kpos, disturbed, clean, saved>>

---------------------------------------------------------------------------
(* Mutant of Overwritten: the serialisation is laid where the superblock     *)
(* belongs.                                                                 *)
OverwrittenAtSuper(e, n) ==
  [i \in Where |-> IF i + 1 < n THEN Piece(e, i + 1) ELSE disk[i]]

(* A ring-3 program's call: the mutation and its whole fs_sync, which       *)
(* writes the first n pieces (all of them unless a command fails).          *)
Overwritten(e, n) == [i \in Where |-> IF i < n THEN Piece(e, i) ELSE disk[i]]

SysMutate(t) ==
  /\ up
  /\ mem' = t
  /\ disturbed' = TRUE
  /\ UNCHANGED <<up, kpc, kimg, kpos>>
  /\ LET e == [blob |-> t, ok |-> TRUE]
         all == PieceCount(t)
     IN  \/ /\ Fits(t)
            /\ disk' = Overwritten(e, all)
            /\ clean' = (kpc = "idle")
            /\ saved' = (saved \/ (kpc = "idle" /\ t # Seed))
         \/ /\ Fits(t)
            /\ "write" \in Faults
            /\ \E n \in 0 .. all - 1 : disk' = Overwritten(e, n)
            /\ clean' = FALSE
            /\ UNCHANGED saved
         \/ /\ ~Fits(t) \/ "memory" \in Faults
            /\ clean' = FALSE
            /\ UNCHANGED <<disk, saved>>

---------------------------------------------------------------------------
(* Power goes, at any moment or only between kmain's operations.            *)
PowerOff ==
  /\ up
  /\ kpc = "idle" \/ "crash" \in Faults
  /\ up' = FALSE
  /\ kpc' = "idle"
  /\ UNCHANGED <<mem, disk, kimg, kpos, disturbed, clean, saved>>

(* fs_load_image finds an image: a superblock whose checksum is that of the *)
(* pieces behind it.                                                        *)
Holds(e) ==
  /\ disk[0] = <<e>>
  /\ Fits(e.blob)
  /\ \A i \in 1 .. Len(e.blob) : disk[i] = Piece(e, i)
Loadable == \E e \in Images : Holds(e)

(* fs_persist_init: load, or keep the seed tree when no image was found; a  *)
(* load that fails after fs_clear leaves the root alone.  Whatever tree it  *)
(* ends with, it saves.                                                     *)
Boot(t) ==
  /\ ~up
  /\ up' = TRUE
  /\ mem' = t
  /\ StartSync(t)
  /\ UNCHANGED <<disk, saved>>

BootLoads == \E e \in Images : Holds(e) /\ e.ok /\ Boot(e.blob)
BootLoadsGarbled == \E e \in Images : Holds(e) /\ ~e.ok /\ Boot(Garbled)
BootFormats == (~Loadable \/ "read" \in Faults \/ "memory" \in Faults) /\ Boot(Seed)
BootClears ==
  /\ \E e \in Images : Holds(e) /\ (~e.ok \/ "memory" \in Faults)
  /\ Boot(Bare)

---------------------------------------------------------------------------
Next ==
  \/ \E t \in Trees : KMutate(t)
  \/ KEmit
  \/ KWrite
  \/ KWriteError
  \/ \E t \in Trees : SysMutate(t)
  \/ PowerOff
  \/ BootLoads
  \/ BootLoadsGarbled
  \/ BootFormats
  \/ BootClears

Spec == Init /\ [][Next]_vars

---------------------------------------------------------------------------
(* Properties.                                                              *)

(* fs_sync, fs_load_image: once the last mutation has been saved by a sync  *)
(* nothing overlapped, the disk holds exactly the tree in memory, whatever  *)
(* torn, longer or older image was there before; and still does when the    *)
(* power goes.                                                              *)
DiskMatches == clean => Holds([blob |-> mem, ok |-> TRUE])

(* fs_persist_init: after a power cycle a tree saved that way comes back as *)
(* it was, or, when the boot itself cannot read the disk or runs out of     *)
(* memory, not at all: never altered and never an older one.                *)
SavedTreeAllOrNothing ==
  [][~up /\ up' /\ clean => mem' \in {mem, Seed, Bare}]_vars

---------------------------------------------------------------------------
(* README.md: a saved image is loaded on boot, or the seed tree formatted   *)
(* if there is none, so files survive reboots.  The code formats over a     *)
(* tree that had been saved.                                                *)
FilesSurviveReboots == [][~up /\ up' /\ saved => mem' # Seed]_vars
============================================================================
