------------------------------ MODULE UserMem ------------------------------
(***************************************************************************)
(* Physical frames and the address spaces of ring-3 programs: mm/pmm.c,    *)
(* mm/vmm.c, kernel/elf.c, proc_exec and proc_exit of kernel/proc.c, brk   *)
(* and mmap of kernel/syscall.c.                                           *)
(*                                                                         *)
(* Every operation that builds or grows an address space is a job that     *)
(* walks a range of pages, asking pmm for one frame at a time: the root    *)
(* table, then for each page its frame and the tables on its path that are *)
(* missing.  A program's system call runs with IF clear, so from its first *)
(* step to its last nothing else runs.  kmain's exec runs with IF set: it  *)
(* is preempted anywhere, also between pmm's test of a bit and its setting.*)
(***************************************************************************)
EXTENDS Integers, Sequences

CONSTANTS
  Procs,      (* the programs that may be alive at a time                   *)
  Frames,     (* the frames pmm manages                                     *)
  Path,       (* page -> the tables above it, the root first                *)
  ImageEnd,   (* the first page after the ELF image (brk_end)               *)
  MmapBase,   (* USER_MMAP_BASE                                             *)
  StackBase,  (* the lowest page of the stack                               *)
  Top         (* the first page above the stack                             *)

NoFrame == 0
Pages == 1 .. Top - 1
Tables == UNION {{Path[v][i] : i \in DOMAIN Path[v]} : v \in Pages}
Pml4 == Path[1][1]

ASSUME MemAssumption ==
  /\ NoFrame \notin Frames
  /\ Frames \subseteq Nat
  /\ {ImageEnd, MmapBase, StackBase, Top} \subseteq Nat
  /\ 1 < ImageEnd /\ ImageEnd < MmapBase
  /\ MmapBase < StackBase /\ StackBase < Top
  /\ \A v \in Pages :
       Path[v] \in Seq(Tables) /\ Path[v] # <<>> /\ Path[v][1] = Pml4

VARIABLES
  used,       (* pmm's bitmap                                               *)
  life,       (* each program: none, being loaded, running                  *)
  table,      (* its page tables: the frame behind each table, or NoFrame   *)
  page,       (* its mappings: the frame behind each page, or NoFrame       *)
  brk,        (* proc_t.brk_cur, as a page number                           *)
  mcur,       (* proc_t.mmap_cur                                            *)
  job,        (* what kmain and the program in a system call are doing      *)
  (* history *)
  abandoned,  (* frames nobody refers to and nobody frees                   *)
  raced,      (* kmain has taken a frame that was taken since it looked     *)
  patchy      (* programs whose mmap failed after mapping some pages        *)

memvars == <<used, life, table, page, brk, mcur, job, abandoned, raced, patchy>>

Workers == {"kmain", "program"}
Ops == {"idle", "image", "stack", "add", "brk", "mmap"}
Idle == [op |-> "idle", p |-> NoFrame, at |-> 0, end |-> 0, held |-> NoFrame, pick |-> NoFrame]

MemTypeOK ==
  /\ used \subseteq Frames
  /\ life \in [Procs -> {"none", "loading", "runs"}]
  /\ table \in [Procs -> [Tables -> Frames \union {NoFrame}]]
  /\ page \in [Procs -> [Pages -> Frames \union {NoFrame}]]
  /\ brk \in [Procs -> 0 .. MmapBase]
  /\ mcur \in [Procs -> 0 .. StackBase]
  /\ \A p \in Procs : life[p] = "runs" => brk[p] >= 1 /\ mcur[p] >= MmapBase
  /\ job \in [Workers -> [op : Ops, p : Procs \union {NoFrame}, at : 0 .. Top,
                          end : 0 .. Top, held : Frames \union {NoFrame},
                          pick : Frames \union {NoFrame}]]
  /\ abandoned \subseteq Frames
  /\ raced \in BOOLEAN
  /\ patchy \subseteq Procs

MemInit ==
  /\ used = {}
  /\ life = [p \in Procs |-> "none"]
  /\ table = [p \in Procs |-> [t \in Tables |-> NoFrame]]
  /\ page = [p \in Procs |-> [v \in Pages |-> NoFrame]]
  /\ brk = [p \in Procs |-> 0]
  /\ mcur = [p \in Procs |-> 0]
  /\ job = [w \in Workers |-> Idle]
  /\ abandoned = {}
  /\ raced = FALSE
  /\ patchy = {}

---------------------------------------------------------------------------
(* What a job asks for next.                                                *)

Free == Frames \ used
IsFirst(x, S) == x \in S /\ \A y \in S : x <= y

(* The levels of the walk to page v that have no table yet.                 *)
Missing(p, v) == {i \in DOMAIN Path[v] : table[p][Path[v][i]] = NoFrame}

(* elf_load and do_brk keep a page that is mapped; do_mmap and the stack     *)
(* builder map every page of their range anew.                              *)
Skips(j) ==
  j.op \in {"image", "brk"} /\ j.held = NoFrame /\ page[j.p][j.at] # NoFrame

Busy(j) == j.op \in {"image", "stack", "brk", "mmap"} /\ j.at < j.end

(* A frame for the root, for the page, or for a table in the walk to it.    *)
NeedsTable(j) == table[j.p][Pml4] = NoFrame \/ (j.held # NoFrame /\ Missing(j.p, j.at) # {})
NeedsFrame(j) == Busy(j) /\ (NeedsTable(j) \/ (j.held = NoFrame /\ ~Skips(j)))
CanMap(j) == Busy(j) /\ ~NeedsTable(j) /\ j.held # NoFrame

(* Only the program in the system call runs; else kmain or any program may. *)
MayRun(w) == w = "program" \/ job["program"].op = "idle"

(* The frame f becomes what the job of w needed.                            *)
Use(w, f) ==
  LET j == job[w]
  IN  IF NeedsTable(j)
      THEN /\ \E i \in DOMAIN Path[j.at] :
                /\ IsFirst(i, Missing(j.p, j.at))
                /\ table' = [table EXCEPT ![j.p][Path[j.at][i]] = f]
           /\ job' = [job EXCEPT ![w].pick = NoFrame]
      ELSE /\ job' = [job EXCEPT ![w].held = f, ![w].pick = NoFrame]
           /\ UNCHANGED table

---------------------------------------------------------------------------
(* pmm_alloc_frame.                                                         *)

(* In a system call it is one step.                                         *)
SysAlloc ==
  /\ NeedsFrame(job["program"])
  /\ \E f \in Free : /\ IsFirst(f, Free)
                    /\ Use("program", f)
                    /\ used' = used \union {f}
  /\ UNCHANGED <<life, page, brk, mcur, abandoned, raced, patchy>>

(* kmain: is_used says no (the scan up to there is one step) ...            *)
KPick ==
  /\ MayRun("kmain")
  /\ NeedsFrame(job["kmain"])
  /\ job["kmain"].pick = NoFrame
  /\ \E f \in Free : IsFirst(f, Free) /\ job' = [job EXCEPT !["kmain"].pick = f]
  /\ UNCHANGED <<used, life, table, page, brk, mcur, abandoned, raced, patchy>>

(* ... and set_used, whatever has happened to the bit.                      *)
KTake ==
  /\ MayRun("kmain")
  /\ job["kmain"].pick # NoFrame
  /\ LET f == job["kmain"].pick
     IN  /\ Use("kmain", f)
         /\ used' = used \union {f}
         /\ raced' = (raced \/ f \in used)
  /\ UNCHANGED <<life, page, brk, mcur, abandoned, patchy>>

(* Mutant of MapPage: the loop maps the frame it has again.                 *)
MapPageSameFrame(w) ==
  /\ MayRun(w)
  /\ LET j == job[w]
     IN  /\ CanMap(j)
         /\ page' = [page EXCEPT ![j.p][j.at] = j.held]
         /\ job' = [job EXCEPT ![w].at = j.at + 1]
         /\ abandoned' = IF j.p \in patchy
                         THEN abandoned \union ({page[j.p][j.at]} \ {NoFrame})
                         ELSE abandoned
  /\ UNCHANGED <<used, life, table, brk, mcur, raced, patchy>>

(* vmm_map once the walk has its tables: the entry is overwritten, and the  *)
(* frame an earlier, failed mmap left there is lost.                        *)
MapPage(w) ==
  /\ MayRun(w)
  /\ LET j == job[w]
     IN  /\ CanMap(j)
         /\ page' = [page EXCEPT ![j.p][j.at] = j.held]
         /\ job' = [job EXCEPT ![w].held = NoFrame, ![w].at = j.at + 1]
         /\ abandoned' = IF j.p \in patchy
                         THEN abandoned \union ({page[j.p][j.at]} \ {NoFrame})
                         ELSE abandoned
  /\ UNCHANGED <<used, life, table, brk, mcur, raced, patchy>>

SkipPage(w) ==
  /\ MayRun(w)
  /\ LET j == job[w]
     IN  /\ Busy(j)
         /\ ~NeedsTable(j)
         /\ Skips(j)
         /\ job' = [job EXCEPT ![w].at = j.at + 1]
  /\ UNCHANGED <<used, life, table, page, brk, mcur, abandoned, raced, patchy>>

---------------------------------------------------------------------------
(* kmain: proc_exec_argv.                                                   *)

Start(w, op, p, from, to) ==
  job' = [job EXCEPT ![w] = [op |-> op, p |-> p, at |-> from, end |-> to,
                             held |-> NoFrame, pick |-> NoFrame]]

(* The address space, then elf_load.                                        *)
KExec(p) ==
  /\ MayRun("kmain")
  /\ job["kmain"].op = "idle"
  /\ life[p] = "none"
  /\ life' = [life EXCEPT ![p] = "loading"]
  /\ Start("kmain", "image", p, 1, ImageEnd)
  /\ UNCHANGED <<used, table, page, brk, mcur, abandoned, raced, patchy>>

(* elf_load has returned; setup_user_stack, and then the proc_t.            *)
KNextPart ==
  /\ MayRun("kmain")
  /\ LET j == job["kmain"]
     IN  /\ j.at = j.end
         /\ \/ j.op = "image" /\ Start("kmain", "stack", j.p, StackBase, Top)
            \/ j.op = "stack" /\ Start("kmain", "add", j.p, 0, 0)
  /\ UNCHANGED <<used, life, table, page, brk, mcur, abandoned, raced, patchy>>

(* Mutant of KAdd: mmap_cur is left as memset made it.                      *)
KAddNoMmapCur ==
  /\ MayRun("kmain")
  /\ job["kmain"].op = "add"
  /\ LET p == job["kmain"].p
     IN  /\ life' = [life EXCEPT ![p] = "runs"]
         /\ brk' = [brk EXCEPT ![p] = ImageEnd]
  /\ job' = [job EXCEPT !["kmain"] = Idle]
  /\ UNCHANGED <<used, table, page, mcur, abandoned, raced, patchy>>

(* The proc_t is filled in and sched_add_user starts the program.           *)
KAdd ==
  /\ MayRun("kmain")
  /\ job["kmain"].op = "add"
  /\ LET p == job["kmain"].p
     IN  /\ life' = [life EXCEPT ![p] = "runs"]
         /\ brk' = [brk EXCEPT ![p] = ImageEnd]
         /\ mcur' = [mcur EXCEPT ![p] = MmapBase]
  /\ job' = [job EXCEPT !["kmain"] = Idle]
  /\ UNCHANGED <<used, table, page, abandoned, raced, patchy>>

SpaceOf(p) ==
  ({table[p][t] : t \in Tables} \union {page[p][v] : v \in Pages}) \ {NoFrame}

(* The space of p is forgotten, and with it the frames in extra.            *)
Forget(p, extra) ==
  /\ abandoned' = abandoned \union SpaceOf(p) \union (extra \ {NoFrame})
  /\ table' = [table EXCEPT ![p] = [t \in Tables |-> NoFrame]]
  /\ page' = [page EXCEPT ![p] = [v \in Pages |-> NoFrame]]
  /\ life' = [life EXCEPT ![p] = "none"]
  /\ brk' = [brk EXCEPT ![p] = 0]
  /\ mcur' = [mcur EXCEPT ![p] = 0]
  /\ patchy' = patchy \ {p}

(* No frame is left, the ELF is bad, or kmalloc or sched_add_user fails:     *)
(* proc_exec returns -1 and keeps nothing of the space.  ensure_page frees  *)
(* the frame it could not map; setup_user_stack does not.                   *)
KExecFails ==
  /\ MayRun("kmain")
  /\ LET j == job["kmain"]
     IN  /\ j.pick = NoFrame
         /\ \/ j.op \in {"image", "add"} /\ j.held = NoFrame
            \/ NeedsFrame(j) /\ Free = {}
         /\ IF j.op = "image"
            THEN Forget(j.p, {}) /\ used' = used \ {j.held}
            ELSE Forget(j.p, {j.held}) /\ UNCHANGED used
  /\ job' = [job EXCEPT !["kmain"] = Idle]
  /\ UNCHANGED raced

---------------------------------------------------------------------------
(* A program's calls.                                                       *)

Calls(p) == life[p] = "runs" /\ job["program"].op = "idle"

SysBrkGrow(p, target) ==
  /\ Calls(p)
  /\ target > brk[p]
  /\ Start("program", "brk", p, brk[p], target)
  /\ UNCHANGED <<used, life, table, page, brk, mcur, abandoned, raced, patchy>>

(* Mutant of SysBrkShrink: the entries stay.                                *)
SysBrkShrinkStillMapped(p, target) ==
  /\ Calls(p)
  /\ target < brk[p]
  /\ used' = used \ {page[p][v] : v \in target .. brk[p] - 1}
  /\ brk' = [brk EXCEPT ![p] = target]
  /\ UNCHANGED <<life, table, page, mcur, job, abandoned, raced, patchy>>

(* Every page from the new break to the old is unmapped and freed; the new  *)
(* break is not compared with brk_start.                                    *)
SysBrkShrink(p, target) ==
  /\ Calls(p)
  /\ target < brk[p]
  /\ LET cut == target .. brk[p] - 1
     IN  /\ used' = used \ {page[p][v] : v \in cut}
         /\ page' = [page EXCEPT ![p] = [v \in Pages |-> IF v \in cut THEN NoFrame ELSE @[v]]]
  /\ brk' = [brk EXCEPT ![p] = target]
  /\ UNCHANGED <<life, table, mcur, job, abandoned, raced, patchy>>

SysMmap(p, pages) ==
  /\ Calls(p)
  /\ mcur[p] + pages <= StackBase
  /\ Start("program", "mmap", p, mcur[p], mcur[p] + pages)
  /\ UNCHANGED <<used, life, table, page, brk, mcur, abandoned, raced, patchy>>

SysDone ==
  /\ LET j == job["program"]
     IN  /\ j.op # "idle"
         /\ j.at = j.end
         /\ IF j.op = "brk"
            THEN brk' = [brk EXCEPT ![j.p] = j.end] /\ UNCHANGED mcur
            ELSE mcur' = [mcur EXCEPT ![j.p] = j.end] /\ UNCHANGED brk
  /\ job' = [job EXCEPT !["program"] = Idle]
  /\ UNCHANGED <<used, life, table, page, abandoned, raced, patchy>>

(* Mutants of SysFail: the frame that could not be mapped is kept; mmap_cur  *)
(* moves although the call failed.                                          *)
SysFailKeepsFrame ==
  /\ LET j == job["program"]
     IN  /\ NeedsFrame(j)
         /\ Free = {}
         /\ patchy' = IF j.op = "mmap" /\ j.at > mcur[j.p] THEN patchy \union {j.p} ELSE patchy
  /\ job' = [job EXCEPT !["program"] = Idle]
  /\ UNCHANGED <<used, life, table, page, brk, mcur, abandoned, raced>>

SysFailMovesBreak ==
  /\ LET j == job["program"]
     IN  /\ NeedsFrame(j)
         /\ Free = {}
         /\ used' = used \ {j.held}
         /\ patchy' = IF j.op = "mmap" /\ j.at > mcur[j.p] THEN patchy \union {j.p} ELSE patchy
         /\ brk' = IF j.op = "brk" THEN [brk EXCEPT ![j.p] = j.end] ELSE brk
  /\ job' = [job EXCEPT !["program"] = Idle]
  /\ UNCHANGED <<life, table, page, mcur, abandoned, raced>>

(* No frame is left: the break or mmap_cur stays where it was, the pages    *)
(* mapped so far stay mapped.                                               *)
SysFail ==
  /\ LET j == job["program"]
     IN  /\ NeedsFrame(j)
         /\ Free = {}
         /\ used' = used \ {j.held}
         /\ patchy' = IF j.op = "mmap" /\ j.at > mcur[j.p] THEN patchy \union {j.p} ELSE patchy
  /\ job' = [job EXCEPT !["program"] = Idle]
  /\ UNCHANGED <<life, table, page, brk, mcur, abandoned, raced>>

(* proc_exit frees no frame.                                                *)
SysExit(p) ==
  /\ Calls(p)
  /\ Forget(p, {})
  /\ UNCHANGED <<used, job, raced>>

---------------------------------------------------------------------------
MemNext ==
  \/ SysAlloc
  \/ KPick
  \/ KTake
  \/ \E w \in Workers : MapPage(w) \/ SkipPage(w)
  \/ \E p \in Procs : KExec(p)
  \/ KNextPart
  \/ KAdd
  \/ KExecFails
  \/ \E p \in Procs : \E target \in 1 .. MmapBase :
       SysBrkGrow(p, target) \/ SysBrkShrink(p, target)
  \/ \E p \in Procs : \E pages \in 1 .. StackBase - MmapBase : SysMmap(p, pages)
  \/ SysDone
  \/ SysFail
  \/ \E p \in Procs : SysExit(p)

MemSpec == MemInit /\ [][MemNext]_memvars

---------------------------------------------------------------------------
(* Properties.  raced is the one thing that breaks them: kmain took a frame *)
(* whose bit a system call had set after kmain looked.                      *)

(* Every place that refers to a frame, and the frame.                       *)
Places ==
  ({"table"} \X Procs \X Tables) \union ({"page"} \X Procs \X Pages)
    \union {<<"held", w, NoFrame>> : w \in Workers}
FrameAt(o) ==
  CASE o[1] = "table" -> table[o[2]][o[3]]
    [] o[1] = "page" -> page[o[2]][o[3]]
    [] OTHER -> job[o[2]].held
Taken == {o \in Places : FrameAt(o) # NoFrame}

(* pmm.c, do_brk, ensure_page: no frame is in two places at once, whatever  *)
(* programs grow, shrink, fail and start in between; a page table is never  *)
(* some program's data, and no program sees another's.                      *)
SoleOwner ==
  ~raced => \A a, b \in Taken : FrameAt(a) = FrameAt(b) => a = b

(* ... and what is referred to is never in the pool.                        *)
OwnedIsUsed ==
  ~raced => \A o \in Taken : FrameAt(o) \in used

(* Frames are lost in exactly three ways: with a program that is over, with *)
(* an exec that failed, and by an mmap retried over the pages a failed one  *)
(* left.                                                                    *)
NoFrameLost ==
  ~raced =>
    \A f \in used \ abandoned : \E o \in Places : FrameAt(o) = f

(* do_brk, do_mmap: what a successful call granted stays mapped until the   *)
(* program lowers its break, also while later calls of it fail half way and *)
(* while frames are being raced for.                                        *)
GrantedIsMapped ==
  \A p \in Procs : \A v \in Pages :
    /\ life[p] = "runs"
    /\ v < brk[p] \/ (MmapBase <= v /\ v < mcur[p]) \/ StackBase <= v
    => page[p][v] # NoFrame
=============================================================================
