------------------------------- MODULE MCLists ------------------------------
(* Two linked structures that share no state, each explored by itself: the  *)
(* heap's blocks and the tree's sibling lists.                              *)
(* The heap's addresses are in units of 8 bytes: a header of 24 bytes is 3, *)
(* the 16-byte granule 2.                                                   *)
EXTENDS KHeap, Files, TLC

VARIABLE part

Parts == {"heap", "files"}

ListsInit ==
  /\ part \in Parts /\ Init /\ FilesInit
  /\ part = "heap" => ui = "explorer"

(* What the part other than p keeps.                                        *)
OthersKeep(p) ==
  /\ part = p /\ part' = p
  /\ p = "heap" \/ UNCHANGED vars
  /\ p = "files" \/ UNCHANGED filevars

ListsNext ==
  \/ OthersKeep("heap") /\ Next
  \/ OthersKeep("files") /\ FilesNext

ListsSpec == ListsInit /\ [][ListsNext]_<<part, vars, filevars>>

(* Types of the heap's and the tree's state.                                *)
ListsTypeOK == TypeOK /\ FilesTypeOK

(* Bound: beyond the first inconsistency, or once a program's file was cut  *)
(* off, where the properties claim nothing any more, nothing is explored.   *)
MCUndisturbed == ~mixed

(* The part explored; the other keeps its initial value.                    *)
MCView == <<part, IF part = "heap" THEN vars ELSE filevars>>

MCSym == Permutations(Users) \union Permutations(Nodes \ {Root})
=============================================================================
