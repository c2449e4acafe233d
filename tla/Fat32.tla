------------------------------- MODULE Fat32 -------------------------------
(***************************************************************************)
(* The writable FAT32 volume of fs/fat32.c, one disk write to a step:       *)
(* fat32_write frees what the name had, marks the old entries deleted,      *)
(* allocates and links the new clusters and puts the new entry; fat32_mkdir *)
(* allocates, then puts.  kmain is the only caller, so calls never overlap, *)
(* but power fails between two steps and a write can fail.                  *)
(*                                                                          *)
(* A file name is what the caller passes; an entry keeps the 8.3 name       *)
(* to_short makes of it, and is found by that name only.  Directories are   *)
(* the root and those in it.  A directory cluster is modelled by its        *)
(* entries (a free slot and a deleted one alike), a data cluster by its     *)
(* place in a chain.  Of the copies of the FAT, the code reads the first.   *)
(***************************************************************************)
EXTENDS Integers, Sequences, FiniteSetsExt

CONSTANTS
  Clusters,   (* the cluster numbers 2 .. fs.total_clus + 1                 *)
  RootClus,   (* fs.root_clus                                               *)
  SlotsPer,   (* directory entries in a cluster                             *)
  Leaves,     (* names callers pass                                         *)
  To83,       (* to_short: the 8.3 name of each, itself among Leaves        *)
  MaxLen,     (* bound: clusters in a file                                  *)
  FromPc      (* 8.3 names of the empty files a PC left in the root        *)

ASSUME FatAssumption ==
  /\ IsFiniteSet(Clusters) /\ Clusters \subseteq Nat \ {0} /\ RootClus \in Clusters
  /\ SlotsPer \in Nat \ {0} /\ MaxLen \in Nat
  /\ FromPc \in Seq(Leaves) /\ Len(FromPc) <= SlotsPer
  /\ To83 \in [Leaves -> Leaves] /\ \A l \in Leaves : To83[To83[l]] = To83[l]

FreeClus == 0
EOC == -1
DirSlots == 1 .. SlotsPer
NoEntry == [name |-> "", dir |-> FALSE, clus |-> 0, len |-> 0]
NoEntries == [i \in DirSlots |-> NoEntry]

VARIABLES
  fat,      (* the FAT                                                      *)
  entries,  (* the entries in each cluster, where it is a directory's       *)
  op,       (* the call in progress and its next step; cur is the cluster   *)
            (* it is at, left the clusters still to be written              *)
  (* history *)
  hurt      (* the volume was left inconsistent: power or an unchecked      *)
            (* write failed in the wrong place, or an empty file was        *)
            (* written over                                                 *)

fatvars == <<fat, entries, op, hurt>>

NoCallYet == [at |-> "idle", dir |-> 0, leaf |-> "", isdir |-> FALSE, len |-> 0,
              left |-> 0, cur |-> 0, prev |-> 0, first |-> 0]

(* A formatted volume, and the PC's files in it.                            *)
FatInit ==
  /\ fat = [c \in Clusters |-> IF c = RootClus THEN EOC ELSE FreeClus]
  /\ entries = [c \in Clusters |-> [i \in DirSlots |->
       IF c = RootClus /\ i <= Len(FromPc) THEN [NoEntry EXCEPT !.name = FromPc[i]]
       ELSE NoEntry]]
  /\ op = NoCallYet
  /\ hurt = FALSE

---------------------------------------------------------------------------
(* What a walk finds.                                                       *)

(* The cluster after each, if there is one.                                 *)
Linked == [k \in Clusters |-> {fat[k]} \intersect Clusters]

Chain(c) ==
  LET within[n \in 0 .. Cardinality(Clusters)] ==
        IF n = 0 THEN {c} \intersect Clusters
        ELSE LET s == within[n - 1] IN s \union UNION {Linked[k] : k \in s}
  IN  within[Cardinality(Clusters)]

EntryPlaces(d) == {p \in Chain(d) \X DirSlots : entries[p[1]][p[2]] # NoEntry}
EntryAt(p) == entries[p[1]][p[2]]
FatNamed(d, l) == {p \in EntryPlaces(d) : EntryAt(p).name = l}
Before(p, q) == IF p[1] = q[1] THEN p[2] <= q[2] ELSE q[1] \in Chain(fat[p[1]])
FirstNamed(d, l) == CHOOSE p \in FatNamed(d, l) : \A q \in FatNamed(d, l) : Before(p, q)

FatDirs == {RootClus} \union {EntryAt(p).clus : p \in {q \in EntryPlaces(RootClus) : EntryAt(q).dir}}

(* fat_set of one entry: its result, and what reached the disk: a failure   *)
(* can come with the second copy.                                           *)
FatSet(c, v, ok) ==
  \/ fat' = [fat EXCEPT ![c] = v]
  \/ ~ok /\ UNCHANGED fat

(* Mutant of Marked: fat_alloc leaves the cluster free.                      *)
MarkedFree == FreeClus
Marked == EOC

FreeClusters == {c \in Clusters : fat[c] = FreeClus}

(* fat_alloc takes the lowest free cluster; with none left, or when the     *)
(* write fails, the call returns -1.                                        *)
Allocate(step) ==
  \/ FreeClusters = {} /\ op' = NoCallYet /\ UNCHANGED fat
  \/ /\ FreeClusters # {}
     /\ \E ok \in BOOLEAN :
          /\ FatSet(Min(FreeClusters), Marked, ok)
          /\ op' = IF ok THEN [op EXCEPT !.at = step, !.cur = Min(FreeClusters)] ELSE NoCallYet

---------------------------------------------------------------------------
(* fat32_write and fat32_mkdir.                                             *)

(* resolve gives the root directory for an entry that has no cluster.       *)
OldClus(e) == IF e.clus = 0 THEN RootClus ELSE e.clus

BeginWrite(d, l, n) ==
  LET new == [NoCallYet EXCEPT !.dir = d, !.leaf = l, !.len = n, !.left = n]
      old == EntryAt(FirstNamed(d, l))
  IN  /\ op.at = "idle"
      /\ \/ /\ FatNamed(d, l) = {}
            /\ op' = [new EXCEPT !.at = "alloc"]
            /\ UNCHANGED hurt
         \/ /\ FatNamed(d, l) # {} /\ ~old.dir
            /\ op' = [new EXCEPT !.at = "free", !.cur = OldClus(old)]
            /\ hurt' = (hurt \/ old.clus = 0)
      /\ UNCHANGED <<fat, entries>>

BeginMkdir(l) ==
  /\ op.at = "idle" /\ FatNamed(RootClus, l) = {}
  /\ op' = [NoCallYet EXCEPT !.at = "alloc", !.dir = RootClus, !.leaf = l,
                             !.isdir = TRUE, !.len = 1, !.left = 1]
  /\ UNCHANGED <<fat, entries, hurt>>

(* free_chain: the next cluster is read before this one is freed; whether   *)
(* the write succeeds is not looked at.                                     *)
FreeOne ==
  /\ op.at = "free"
  /\ FatSet(op.cur, FreeClus, FALSE)
  /\ op' = IF fat[op.cur] \in Clusters THEN [op EXCEPT !.cur = fat[op.cur]]
           ELSE [op EXCEPT !.at = "mark", !.cur = op.dir]
  /\ UNCHANGED <<entries, hurt>>

(* Mutant of OldEntry: the old entry stays, and its chain is freed.          *)
NoOldEntry(e) == e.name = ""
OldEntry(e) == e # NoEntry /\ e.name = To83[op.leaf]

(* One cluster of the directory: every entry with the 8.3 name is marked    *)
(* deleted; whether the write succeeds is not looked at.                    *)
MarkDeleted ==
  /\ op.at = "mark"
  /\ LET kept == [i \in DirSlots |->
                   IF OldEntry(entries[op.cur][i]) THEN NoEntry ELSE entries[op.cur][i]]
     IN  \/ entries' = [entries EXCEPT ![op.cur] = kept] /\ UNCHANGED hurt
         \/ kept # entries[op.cur] /\ hurt' = TRUE /\ UNCHANGED entries
  /\ op' = IF fat[op.cur] \in Clusters THEN [op EXCEPT !.cur = fat[op.cur]]
           ELSE [op EXCEPT !.at = "alloc"]
  /\ UNCHANGED fat

AllocData ==
  /\ op.at = "alloc"
  /\ Allocate("data")
  /\ UNCHANGED <<entries, hurt>>

(* The new cluster is linked behind the last one, unchecked, and written.   *)
WriteData ==
  /\ op.at = "data"
  /\ IF op.prev = 0 THEN UNCHANGED <<fat, hurt>>
     ELSE \/ fat' = [fat EXCEPT ![op.prev] = op.cur] /\ UNCHANGED hurt
          \/ UNCHANGED fat /\ hurt' = TRUE
  /\ \/ /\ op' = [op EXCEPT !.at = IF op.left = 1 THEN "put" ELSE "alloc",
                            !.left = op.left - 1, !.prev = op.cur,
                            !.first = IF op.first = 0 THEN op.cur ELSE op.first,
                            !.cur = op.dir]
        /\ entries' = IF op.isdir THEN [entries EXCEPT ![op.cur] = NoEntries] ELSE entries
     \/ op' = NoCallYet /\ UNCHANGED entries

NewEntry == [name |-> To83[op.leaf], dir |-> op.isdir, clus |-> op.first, len |-> op.len]
Vacant(c) == {i \in DirSlots : entries[c][i] = NoEntry}

(* dir_put_entry looks for room cluster by cluster,                         *)
PutEntry ==
  /\ op.at = "put"
  /\ \/ /\ Vacant(op.cur) # {}
        /\ \/ entries' = [entries EXCEPT ![op.cur][Min(Vacant(op.cur))] = NewEntry]
           \/ UNCHANGED entries
        /\ op' = NoCallYet
     \/ /\ Vacant(op.cur) = {}
        /\ op' = IF fat[op.cur] \in Clusters THEN [op EXCEPT !.cur = fat[op.cur]]
                 ELSE [op EXCEPT !.at = "grow", !.prev = op.cur]
        /\ UNCHANGED entries
  /\ UNCHANGED <<fat, hurt>>

(* and extends the directory: allocate, link unchecked, write.              *)
GrowDir ==
  /\ op.at = "grow"
  /\ Allocate("join")
  /\ UNCHANGED <<entries, hurt>>

JoinDir ==
  /\ op.at = "join"
  /\ FatSet(op.prev, op.cur, FALSE)
  /\ op' = [op EXCEPT !.at = "fill"]
  /\ UNCHANGED <<entries, hurt>>

FillDir ==
  /\ op.at = "fill"
  /\ \/ entries' = [entries EXCEPT ![op.cur] = [NoEntries EXCEPT ![1] = NewEntry]]
        /\ UNCHANGED hurt
     \/ hurt' = (hurt \/ fat[op.prev] = op.cur) /\ UNCHANGED entries
  /\ op' = NoCallYet
  /\ UNCHANGED fat

(* Steps between which an entry's chain is freed, or a directory's last     *)
(* cluster holds whatever it held.                                          *)
Torn == op.at \in {"free", "mark", "fill"}

(* The machine stops here and mounts the volume again.                      *)
PowerFails ==
  /\ op.at # "idle"
  /\ op' = NoCallYet
  /\ hurt' = (hurt \/ Torn)
  /\ UNCHANGED <<fat, entries>>

FatNext ==
  \/ \E d \in FatDirs, l \in Leaves, n \in 1 .. MaxLen : BeginWrite(d, l, n)
  \/ \E l \in Leaves : BeginMkdir(l)
  \/ FreeOne \/ MarkDeleted \/ AllocData \/ WriteData
  \/ PutEntry \/ GrowDir \/ JoinDir \/ FillDir \/ PowerFails

FatSpec == FatInit /\ [][FatNext]_fatvars

---------------------------------------------------------------------------
(* Properties.                                                              *)

LivePlaces == UNION {EntryPlaces(d) : d \in FatDirs}
Complete(c) == c \in Clusters /\ \A k \in Chain(c) : fat[k] # FreeClus

(* However full the disk, whatever fails or loses power in between, and     *)
(* with two entries of one 8.3 name (two long names shortened alike): no    *)
(* two entries and no directory share a cluster, every chain is as long as  *)
(* its entry says and none of it is free for fat_alloc.  Unless the volume  *)
(* was hurt: old clusters are freed before the entry is marked (fat32.c:316)*)
(* and a directory is extended before the new cluster is written.           *)
ChainsApart ==
  ~hurt /\ ~Torn =>
    /\ Complete(RootClus)
    /\ \A p \in LivePlaces : EntryAt(p).clus # 0 =>
         /\ Complete(EntryAt(p).clus)
         /\ EntryAt(p).dir \/ Cardinality(Chain(EntryAt(p).clus)) = EntryAt(p).len
         /\ Chain(EntryAt(p).clus) \intersect Chain(RootClus) = {}
         /\ \A q \in LivePlaces \ {p} :
              Chain(EntryAt(p).clus) \intersect Chain(EntryAt(q).clus) = {}

(* fat32.c:316 says "free old data + remove old directory entry": writing   *)
(* frees the clusters of the file written over, never the root directory's. *)
RootHeld == fat[RootClus] # FreeClus
=============================================================================
