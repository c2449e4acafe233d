------------------------------- MODULE Files -------------------------------
(***************************************************************************)
(* The BoltFS tree (fs/ramfs.c), the descriptors of ring-3 programs        *)
(* (kernel/vfs.c, the file calls of kernel/syscall.c, proc_exec and        *)
(* proc_exit of kernel/proc.c), the shell's file commands and the Explorer *)
(* (kernel/app_files.c).                                                   *)
(*                                                                         *)
(* References to nodes are raw pointers.  One whose node has been freed is *)
(* written Freed, whatever its memory holds by then; what a step does      *)
(* through it is undefined, and such a step is not modelled.               *)
(*                                                                         *)
(* kmain runs the shell and the Explorer with IF set: a program's call,    *)
(* which runs to its end, may come between the walk that finds the end of  *)
(* a sibling list and the store that appends to it.                        *)
(***************************************************************************)
EXTENDS Integers, Sequences, FiniteSets, SequencesExt

CONSTANTS
  Users,   (* the programs that may be alive at a time                      *)
  Nodes,   (* addresses of nodes                                            *)
  Root,    (* root_                                                         *)
  Names,   (* file names                                                    *)
  Bin,     (* ".trash", one of them                                         *)
  None,    (* the null pointer                                              *)
  Freed,   (* a pointer to freed memory                                     *)
  MaxFd,   (* PROC_MAX_FD                                                   *)
  Std,     (* descriptors opened by exec (3 in the code)                    *)
  MaxLost  (* bound: objects lost to failed calls                           *)

ASSUME FilesAssumption ==
  /\ IsFiniteSet(Nodes) /\ IsFiniteSet(Users)
  /\ Root \in Nodes /\ Bin \in Names
  /\ None # Freed /\ (Nodes \union {"dev", "proc"}) \intersect {None, Freed} = {}
  /\ Nodes \intersect {"dev", "proc"} = {}
  /\ None \notin [n : Nodes, d : Nodes, list : Seq(Nodes)]
  /\ MaxFd \in Nat /\ Std \in 0 .. MaxFd /\ MaxLost \in Nat

Fds == 0 .. MaxFd - 1
Devices == {"dev", "proc"}

VARIABLES
  ui,        (* where the user works: "shell" or "explorer"                 *)
  tree,      (* each allocated node: is_dir, parent, name, list of children *)
  cwd,       (* cwd_                                                        *)
  oldcwd,    (* the directory cmd_sandbox will go back to                   *)
  link,      (* the append kmain is about to do: node, directory, old list  *)
  pane,      (* the Explorer: its folder, selection, last folder            *)
  clip,      (* the node cut in the Explorer                                *)
  alive,     (* programs that run                                           *)
  fds,       (* their descriptors: a node, a device, or None                *)
  objects,   (* file objects on the heap                                    *)
  buffers,   (* /proc texts on the heap                                     *)
  (* history *)
  mixed,     (* a program created a file in the list kmain was appending to *)
  lost       (* file objects and /proc texts lost to failing calls          *)

filevars == <<ui, tree, cwd, oldcwd, link, pane, clip, alive, fds, objects, buffers,
              mixed, lost>>

Node == [dir : BOOLEAN, up : Nodes \union {None}, name : Names \union {None}, kids : Seq(Nodes)]
Pointers == DOMAIN tree \union {None, Freed}

FilesTypeOK ==
  /\ DOMAIN tree \subseteq Nodes
  /\ \A n \in DOMAIN tree : tree[n] \in Node
  /\ {cwd, oldcwd, clip} \subseteq Pointers
  /\ pane \in [{"dir", "sel", "prev"} -> Pointers]
  /\ link = None \/ ({link.n, link.d} \subseteq DOMAIN tree /\ link.list \in Seq(Nodes))
  /\ alive \subseteq Users
  /\ fds \in [Users -> [Fds -> Pointers \union Devices]]
  /\ objects \in Nat /\ buffers \in Nat
  /\ mixed \in BOOLEAN /\ ui \in {"shell", "explorer"}
  /\ lost \in [{"object", "buffer"} -> 0 .. MaxLost]

NewNode(dir, up, name) == [dir |-> dir, up |-> up, name |-> name, kids |-> <<>>]

(* fs_init, the recycle bin made, the Explorer open on the root.            *)
FilesInit ==
  /\ ui \in {"shell", "explorer"}
  /\ \E bin \in Nodes \ {Root} :
       tree = [n \in {Root, bin} |->
                 IF n = Root THEN [NewNode(TRUE, None, None) EXCEPT !.kids = <<bin>>]
                 ELSE NewNode(TRUE, Root, Bin)]
  /\ cwd = Root
  /\ oldcwd = None
  /\ link = None
  /\ pane = [dir |-> Root, sel |-> None, prev |-> None]
  /\ clip = None
  /\ alive = {}
  /\ fds = [p \in Users |-> [d \in Fds |-> None]]
  /\ objects = 0
  /\ buffers = 0
  /\ mixed = FALSE
  /\ lost = [object |-> 0, buffer |-> 0]

---------------------------------------------------------------------------
(* Walking the tree.                                                        *)

Child(d, name) == {n \in ToSet(tree[d].kids) : tree[n].name = name}

(* What is reached from n when next[x] is reached from x.                   *)
Reached(n, next) ==
  LET within[k \in 0 .. Cardinality(Nodes)] ==
        IF k = 0 THEN {n}
        ELSE LET s == within[k - 1] IN s \union UNION {next[x] : x \in s}
  IN  within[Cardinality(Nodes)]

(* n and everything below it; what a path from the root can name.           *)
Kids == [d \in DOMAIN tree |-> ToSet(tree[d].kids)]
Below(n) == Reached(n, Kids)
Named == Below(Root)
Dirs == {n \in Named : tree[n].dir}

(* Parents, up to the root.                                                 *)
Parents == [n \in DOMAIN tree |-> {tree[n].up} \ {None}]
Above(n) == Reached(n, Parents)
IsAncestor(a, n) == a \in Above(n)

---------------------------------------------------------------------------
(* kmain: operations of the tree.  Each ends with fs_autosave (BfsImage).   *)

KIdle == link = None
At(place) == KIdle /\ ui = place
Alive(x) == x \in DOMAIN tree

(* node_new and fs_move look for the end of d's list ...                    *)
StartLink(n, d) == link' = [n |-> n, d |-> d, list |-> RemoveFirst(tree[d].kids, n)]

(* ... and store the node there: what was appended meanwhile is cut off.    *)
KLink ==
  /\ link # None
  /\ tree' = [tree EXCEPT ![link.d].kids = Append(link.list, link.n)]
  /\ mixed' = (mixed \/ tree[link.d].kids # link.list)
  /\ link' = None
  /\ UNCHANGED <<ui, cwd, oldcwd, pane, clip, alive, fds, objects, buffers, lost>>

(* fs_create: mkdir, touch, cp, the Explorer's new items and copies.        *)
KCreate(d, name, dir) ==
  /\ KIdle
  /\ Child(d, name) = {}
  /\ \E n \in Nodes \ DOMAIN tree :
       /\ tree' = [x \in DOMAIN tree \union {n} |->
                     IF x = n THEN NewNode(dir, d, name) ELSE tree[x]]
       /\ StartLink(n, d)
  /\ UNCHANGED <<ui, cwd, oldcwd, pane, clip, alive, fds, objects, buffers,
                 mixed, lost>>

Unlinked(t, n) ==
  IF t[n].up \notin DOMAIN t THEN t
  ELSE [t EXCEPT ![t[n].up].kids = RemoveFirst(@, n)]

(* Mutant of MayMove: a directory may go below itself.                      *)
MayMoveAnywhere(n, d, name) ==
  /\ n # Root
  /\ tree[d].dir
  /\ Child(d, name) = {}

(* fs_move's checks.                                                        *)
MayMove(n, d, name) ==
  /\ n # Root
  /\ tree[d].dir
  /\ ~IsAncestor(n, d)
  /\ Child(d, name) = {}

Move(n, d, name) ==
  /\ MayMove(n, d, name)
  /\ tree' = [Unlinked(tree, n) EXCEPT ![n].up = d, ![n].name = name]
  /\ StartLink(n, d)

(* mv, trash and recover.                                                   *)
KMove(n, d, name) ==
  /\ At("shell")
  /\ Move(n, d, name)
  /\ UNCHANGED <<ui, cwd, oldcwd, pane, clip, alive, fds, objects, buffers, mixed, lost>>

(* Mutant of CwdAfter: the current directory is not looked at.              *)
CwdUntouched(n) == cwd

CwdAfter(n) == IF cwd = n THEN tree[n].up ELSE cwd

(* fs_remove_node.  The caller's own pane may be changed first.             *)
RemoveNode(n, view) ==
  LET freed == Below(n)
      t == Unlinked(tree, n)
      Left(x) == IF x \in freed THEN Freed ELSE x
  IN  /\ n # Root
      /\ tree' = [x \in DOMAIN tree \ freed |-> t[x]]
      /\ cwd' = Left(CwdAfter(n))
      /\ oldcwd' = Left(oldcwd)
      /\ clip' = Left(clip)
      /\ pane' = [r \in DOMAIN view |-> Left(view[r])]
      /\ fds' = [p \in Users |-> [d \in Fds |-> Left(fds[p][d])]]

(* rm and rm -r.                                                            *)
KRemove(n) ==
  /\ At("shell")
  /\ RemoveNode(n, pane)
  /\ UNCHANGED <<ui, link, alive, objects, buffers, mixed, lost>>

(* cd, fs_set_cwd.                                                          *)
KChdir(d) ==
  /\ At("shell")
  /\ oldcwd = None
  /\ cwd' = d
  /\ UNCHANGED <<ui, tree, oldcwd, link, pane, clip, alive, fds, objects, buffers,
                 mixed, lost>>

(* cmd_sandbox: the current directory is put aside while a command runs ... *)
KSandbox(box) ==
  /\ At("shell")
  /\ oldcwd = None
  /\ oldcwd' = cwd
  /\ cwd' = box
  /\ UNCHANGED <<ui, tree, link, pane, clip, alive, fds, objects, buffers, mixed, lost>>

(* ... and taken up again, whatever the command has removed.                *)
KSandboxEnds ==
  /\ At("shell")
  /\ oldcwd # None
  /\ cwd' = oldcwd
  /\ oldcwd' = None
  /\ UNCHANGED <<ui, tree, link, pane, clip, alive, fds, objects, buffers, mixed, lost>>

---------------------------------------------------------------------------
(* kmain: the Explorer.                                                     *)

(* go: a folder of the grid, the parent, or a place by its path.            *)
Go(d) ==
  /\ At("explorer")
  /\ d # pane.dir
  /\ pane' = [dir |-> d, sel |-> None, prev |-> pane.dir]
  /\ UNCHANGED <<ui, tree, cwd, oldcwd, link, clip, alive, fds, objects, buffers,
                 mixed, lost>>

(* go_back: whatever has happened to that folder.                           *)
GoBack ==
  /\ At("explorer")
  /\ pane.prev # None
  /\ pane' = [dir |-> pane.prev, sel |-> None, prev |-> None]
  /\ UNCHANGED <<ui, tree, cwd, oldcwd, link, clip, alive, fds, objects, buffers,
                 mixed, lost>>

Click ==
  /\ At("explorer")
  /\ Alive(pane.dir)
  /\ \E n \in ToSet(tree[pane.dir].kids) : pane' = [pane EXCEPT !.sel = n]
  /\ UNCHANGED <<ui, tree, cwd, oldcwd, link, clip, alive, fds, objects, buffers,
                 mixed, lost>>

CutSel ==
  /\ At("explorer")
  /\ pane.sel \notin {None, Root}
  /\ clip' = pane.sel
  /\ UNCHANGED <<ui, tree, cwd, oldcwd, link, pane, alive, fds, objects, buffers,
                 mixed, lost>>

(* paste_into after a cut, under a name not in use.                         *)
Paste(name) ==
  /\ At("explorer")
  /\ Alive(clip)
  /\ Alive(pane.dir)
  /\ Move(clip, pane.dir, name)
  /\ pane' = [pane EXCEPT !.sel = clip]
  /\ clip' = None
  /\ UNCHANGED <<ui, cwd, oldcwd, alive, fds, objects, buffers, mixed, lost>>

(* commit_rename of the selection.                                          *)
Rename(name) ==
  /\ At("explorer")
  /\ Alive(pane.sel)
  /\ tree[pane.sel].up \in DOMAIN tree
  /\ Move(pane.sel, tree[pane.sel].up, name)
  /\ UNCHANGED <<ui, cwd, oldcwd, pane, clip, alive, fds, objects, buffers,
                 mixed, lost>>

(* Mutant of Purges: whatever is selected is gone for good.                 *)
PurgesAll(n) == tree[n].up \in DOMAIN tree

(* delete_sel purges what is in a folder called ".trash".                   *)
Purges(n) == tree[n].up \in DOMAIN tree /\ tree[tree[n].up].name = Bin

(* Mutant of Delete: the selection stays.                                   *)
DeleteKeepsSel(name) ==
  /\ At("explorer")
  /\ Alive(pane.sel)
  /\ tree[pane.sel].name # Bin
  /\ IF Purges(pane.sel)
     THEN RemoveNode(pane.sel, pane) /\ UNCHANGED link
     ELSE /\ \E d \in Child(Root, Bin) : Move(pane.sel, d, name)
          /\ UNCHANGED <<cwd, oldcwd, clip, fds, pane>>
  /\ UNCHANGED <<ui, alive, objects, buffers, mixed, lost>>

(* delete_sel: into /.trash under a name not in use there, or for good.     *)
Delete(name) ==
  /\ At("explorer")
  /\ Alive(pane.sel)
  /\ tree[pane.sel].name # Bin
  /\ LET view == [pane EXCEPT !.sel = None]
     IN  IF Purges(pane.sel)
         THEN RemoveNode(pane.sel, view) /\ UNCHANGED link
         ELSE /\ \E d \in Child(Root, Bin) : Move(pane.sel, d, name)
              /\ pane' = view
              /\ UNCHANGED <<cwd, oldcwd, clip, fds>>
  /\ UNCHANGED <<ui, alive, objects, buffers, mixed, lost>>

---------------------------------------------------------------------------
(* Programs and their descriptors.                                          *)

FreeFds(p) == {d \in Fds : fds[p][d] = None}
LowestFd(p) == CHOOSE d \in FreeFds(p) : \A e \in FreeFds(p) : d <= e
OpenOn(kinds) == Cardinality({x \in Users \X Fds : fds[x[1]][x[2]] \in kinds})
IsProc(what) == IF what = "proc" THEN 1 ELSE 0

(* Mutant of Install: a full table is not noticed.                          *)
InstallUnclosed(p, what) ==
  /\ objects' = objects + 1
  /\ buffers' = buffers + IsProc(what)
  /\ fds' = IF FreeFds(p) = {} THEN fds ELSE [fds EXCEPT ![p][LowestFd(p)] = what]

(* SYS_OPEN has a file object: it gets the lowest free descriptor, or is     *)
(* closed again.                                                            *)
Install(p, what) ==
  IF FreeFds(p) = {} THEN UNCHANGED <<fds, objects, buffers>>
  ELSE /\ fds' = [fds EXCEPT ![p][LowestFd(p)] = what]
       /\ objects' = objects + 1
       /\ buffers' = buffers + IsProc(what)

SysOpenOld(p, d, name) ==
  /\ p \in alive
  /\ \E n \in Child(d, name) : ~tree[n].dir /\ Install(p, n)
  /\ UNCHANGED <<ui, tree, cwd, oldcwd, link, pane, clip, alive, mixed, lost>>

(* O_CREAT: fs_create, at once.  The node stays if there is no descriptor or *)
(* no memory for it.                                                        *)
SysOpenNew(p, d, name) ==
  /\ p \in alive
  /\ Child(d, name) = {}
  /\ \E n \in Nodes \ DOMAIN tree :
       /\ tree' = [x \in DOMAIN tree \union {n} |->
                     IF x = n THEN NewNode(FALSE, d, name)
                     ELSE IF x = d THEN [tree[d] EXCEPT !.kids = Append(@, n)] ELSE tree[x]]
       /\ Install(p, n) \/ UNCHANGED <<fds, objects, buffers>>
  /\ UNCHANGED <<ui, cwd, oldcwd, link, pane, clip, alive, mixed, lost>>

SysOpenOther(p, what) ==
  /\ p \in alive
  /\ Install(p, what)
  /\ UNCHANGED <<ui, tree, cwd, oldcwd, link, pane, clip, alive, mixed, lost>>

(* vfs_open: the text of a /proc file is there, the file object is not.      *)
SysOpenProcFails(p) ==
  /\ p \in alive
  /\ lost.object + lost.buffer < MaxLost
  /\ buffers' = buffers + 1
  /\ lost' = [lost EXCEPT !.buffer = @ + 1]
  /\ UNCHANGED <<ui, tree, cwd, oldcwd, link, pane, clip, alive, fds, objects,
                 mixed>>

(* Mutant of SysClose: a descriptor that is not open is closed, too.        *)
SysCloseUnchecked(p, d) ==
  /\ p \in alive
  /\ fds' = [fds EXCEPT ![p][d] = None]
  /\ objects' = objects - 1
  /\ buffers' = buffers - IsProc(fds[p][d])
  /\ UNCHANGED <<ui, tree, cwd, oldcwd, link, pane, clip, alive, mixed, lost>>

SysClose(p, d) ==
  /\ p \in alive
  /\ fds[p][d] # None
  /\ fds' = [fds EXCEPT ![p][d] = None]
  /\ objects' = objects - 1
  /\ buffers' = buffers - IsProc(fds[p][d])
  /\ UNCHANGED <<ui, tree, cwd, oldcwd, link, pane, clip, alive, mixed, lost>>

(* proc_exit closes what is open.                                           *)
SysExitFiles(p) ==
  /\ p \in alive
  /\ alive' = alive \ {p}
  /\ fds' = [fds EXCEPT ![p] = [d \in Fds |-> None]]
  /\ objects' = objects - Cardinality(Fds \ FreeFds(p))
  /\ buffers' = buffers - Cardinality({d \in Fds : fds[p][d] = "proc"})
  /\ UNCHANGED <<ui, tree, cwd, oldcwd, link, pane, clip, mixed, lost>>

(* proc_exec opens the console; when sched_add_user fails it frees the      *)
(* proc_t and leaves what it opened.                                        *)
KExecFiles(p) ==
  /\ KIdle
  /\ p \notin alive
  /\ objects' = objects + Std
  /\ \/ /\ alive' = alive \union {p}
        /\ fds' = [fds EXCEPT ![p] = [d \in Fds |-> IF d < Std THEN "dev" ELSE None]]
        /\ UNCHANGED lost
     \/ /\ lost.object + lost.buffer + Std <= MaxLost
        /\ lost' = [lost EXCEPT !.object = @ + Std]
        /\ UNCHANGED <<ui, alive, fds>>
  /\ UNCHANGED <<ui, tree, cwd, oldcwd, link, pane, clip, buffers, mixed>>

---------------------------------------------------------------------------
FilesNext ==
  \/ KLink
  \/ \E d \in Dirs, name \in Names :
       \/ \E dir \in BOOLEAN : KCreate(d, name, dir)
       \/ \E n \in Named : KMove(n, d, name)
       \/ \E p \in Users : SysOpenOld(p, d, name) \/ SysOpenNew(p, d, name)
  \/ \E n \in Named : KRemove(n)
  \/ \E d \in Dirs : KChdir(d) \/ KSandbox(d) \/ Go(d)
  \/ KSandboxEnds
  \/ GoBack
  \/ Click
  \/ CutSel
  \/ \E name \in Names : Paste(name) \/ Rename(name) \/ Delete(name)
  \/ \E p \in Users :
       \/ \E what \in Devices : SysOpenOther(p, what)
       \/ SysOpenProcFails(p)
       \/ \E d \in Fds : SysClose(p, d)
       \/ SysExitFiles(p)
       \/ KExecFiles(p)

FilesSpec == FilesInit /\ [][FilesNext]_filevars

---------------------------------------------------------------------------
(* Properties.                                                              *)

(* ramfs.c: whatever is created, moved and removed, and by whom, the child  *)
(* lists make one tree: each node but the one kmain is about to append is   *)
(* in exactly one list, once, the one of its parent, and is named from the  *)
(* root; siblings have different names.  Only a program's file that kmain's *)
(* append cut off breaks this.                                              *)
TreeOK ==
  ~mixed =>
    LET flying == IF link = None THEN {} ELSE Below(link.n)
    IN  /\ DOMAIN tree = Named \union flying
        /\ \A d, n \in DOMAIN tree :
             n \in ToSet(tree[d].kids) <=>
               tree[n].up = d /\ (link = None \/ n # link.n)
        /\ \A d \in DOMAIN tree : \A i, k \in 1 .. Len(tree[d].kids) :
             i # k => tree[tree[d].kids[i]].name # tree[tree[d].kids[k]].name

(* vfs.c, proc.c: every file object is behind exactly one descriptor and    *)
(* every /proc text behind one file object, through full tables, closes and *)
(* exits; what is not is what failing calls lost.                           *)
DescriptorsCounted ==
  /\ objects = OpenOn(Nodes \union Devices \union {Freed}) + lost.object
  /\ buffers = OpenOn({"proc"}) + lost.buffer

(* app_files.c: while the user works in the Explorer its selection never    *)
(* becomes a freed node, nor does the folder shown, unless Back returns to  *)
(* one that was purged; whatever is cut, pasted and renamed and wherever    *)
(* programs create files.                                                   *)
PaneHolds ==
  [][ ui = "explorer" =>
        /\ pane'.sel # Freed
        /\ pane'.dir = Freed => Freed \in {pane.dir, pane.prev} ]_filevars

(* fs_remove_node: the current directory dangles only when its parent was   *)
(* removed with it, or when cmd_sandbox brings back one that was removed.   *)
CwdOutlivesRm ==
  [][ cwd' = Freed /\ cwd # Freed =>
        oldcwd = Freed \/ tree[cwd].up \notin DOMAIN tree' ]_filevars

(* delete_sel: the Explorer frees only nodes below a folder named .trash.   *)
BinOnly ==
  [][ ui = "explorer" => \A n \in DOMAIN tree \ DOMAIN tree' :
        \E a \in Above(n) : tree[a].name = Bin ]_filevars
=============================================================================
