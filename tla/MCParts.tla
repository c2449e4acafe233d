------------------------------ MODULE MCParts ------------------------------
(* Six parts of the kernel that share no state, each explored by itself.   *)
EXTENDS MCBfsImage, MCFat32, UserMem, Smp, Keys, Nvme, TLC

CONSTANTS b, c1, c2, c3   (* processors *)

VARIABLE part

Parts == {"image", "fat", "nvme", "mem", "smp", "keys"}

PartsInit ==
  /\ part \in Parts
  /\ Init /\ FatInit /\ MemInit /\ SmpInit /\ KeysInit /\ NvmeInit

(* What the parts other than p keep.                                        *)
OthersKeep(p) ==
  /\ part = p /\ part' = p
  /\ p = "image" \/ UNCHANGED vars
  /\ p = "fat" \/ UNCHANGED fatvars
  /\ p = "mem" \/ UNCHANGED memvars
  /\ p = "smp" \/ UNCHANGED smpvars
  /\ p = "keys" \/ UNCHANGED keysvars
  /\ p = "nvme" \/ UNCHANGED nvmevars

PartsNext ==
  \/ OthersKeep("image") /\ Next
  \/ OthersKeep("fat") /\ FatNext
  \/ OthersKeep("mem") /\ MemNext
  \/ OthersKeep("smp") /\ SmpNext
  \/ OthersKeep("keys") /\ KeysNext
  \/ OthersKeep("nvme") /\ NvmeNext

PartsSpec == PartsInit /\ [][PartsNext]_<<part, vars, fatvars, memvars, smpvars, keysvars, nvmevars>>

MCPath == <<<<"root", "ends">>, <<"root", "image">>,
            <<"root", "mmap">>, <<"root", "mmap">>, <<"root", "ends">>>>
MCMadt == <<c1, b, c2, c3>>

(* Bound: beyond the first race, clash or inconsistency, where the          *)
(* properties claim nothing any more, nothing is explored.                  *)
MCUndisturbed == ~raced /\ ~crossed /\ ~clash /\ ~hurt

MCSym == Permutations(Procs) \union Permutations(Values)

(* Entries of NVMe's rings that are over: without a clash nothing reads     *)
(* them again.  Phase bits matter only by comparison with each other.       *)
NvmeView ==
  <<[i \in Slots |-> IF Ahead(sqHead, i) <= Ahead(sqHead, sqTail) THEN sq[i] ELSE 0],
    [i \in Slots |-> IF Ahead(cqHead, i) < Ahead(cqHead, cqTail) THEN <<cq[i].ok, cq[i].cid>>
                     ELSE 0],
    [i \in Slots |-> cq[i].phase = phase], devPhase = phase,
    sqTail, cqHead, sqHead, cqTail, cid, bounce, call, fetched, media, clash, late>>

(* The part explored; the others keep their initial values.                 *)
MCView == <<part, CASE part = "image" -> vars
                    [] part = "fat" -> fatvars
                    [] part = "mem" -> memvars
                    [] part = "smp" -> smpvars
                    [] part = "keys" -> keysvars
                    [] part = "nvme" -> NvmeView>>
=============================================================================
