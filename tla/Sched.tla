------------------------------- MODULE Sched -------------------------------
(***************************************************************************)
(* The preemptive round-robin scheduler (kernel/sched.c), the tick that    *)
(* drives it (kernel/isr.asm, kernel/interrupts.c), the creation and exit  *)
(* of ring-3 programs as far as the scheduler sees them (kernel/proc.c),   *)
(* the SYSCALL path (kernel/syscall.asm, kernel/syscall.c) and the         *)
(* framebuffer claim that the compositor (kernel/gui.c) polls.             *)
(*                                                                         *)
(* There is one CPU.  An atomic step is a stretch of code nothing can      *)
(* interrupt, or whose partial effects no other thread can see: kmain runs *)
(* with IF set and is preempted between any two steps of its own, system   *)
(* calls and interrupt handlers run with IF clear.                         *)
(*                                                                         *)
(* A thread stands for everything that is its own: its register frame, its *)
(* stack, its address space, its FPU contents.  So th[s].rsp is the thread *)
(* whose frame the slot holds, and the FPU registers hold the thread whose *)
(* values they are.                                                        *)
(***************************************************************************)
EXTENDS Integers

CONSTANTS
  MaxT,      (* MAXT, the number of scheduler slots                         *)
  Kmain,     (* the boot context, adopted as slot 0; runs the GUI           *)
  KThreads,  (* kernel threads kmain starts (demo_thread_a, demo_thread_b)  *)
  Procs,     (* runs of ring-3 programs: one element per proc_exec          *)
  None,      (* a null pointer                                              *)
  Clean,     (* the FPU image fpu_init_area lays down                       *)
  Blank      (* the all-zero image of a slot never initialised (.bss)       *)

Threads == {Kmain} \union KThreads \union Procs

ASSUME SchedAssumption ==
  /\ MaxT \in Nat \ {0}
  /\ Kmain \notin KThreads \union Procs
  /\ KThreads \intersect Procs = {}
  /\ {None, Clean, Blank} \intersect Threads = {}
  /\ Clean # Blank

Slots == 0 .. MaxT - 1
FxImages == Threads \union {Clean, Blank}

VARIABLES
  (* the slot table th[] and the scheduler's globals *)
  used,      (* th[s].used                                                  *)
  rsp,       (* th[s].rsp: the thread whose frame is saved there            *)
  proc,      (* th[s].proc, and with it th[s].cr3 and th[s].kstack_top      *)
  fx,        (* th[s].fxarea                                                *)
  cur,       (* cur                                                         *)
  (* the processor *)
  running,   (* the thread whose registers are loaded                       *)
  ifl,       (* RFLAGS.IF                                                   *)
  cr3,       (* the loaded address space: a process, None for the kernel's  *)
  fpu,       (* whose values the FPU/SSE registers hold                     *)
  (* the SYSCALL entry's globals *)
  kstackTop, (* syscall_kstack_top: whose kernel stack the next entry uses  *)
  userRsp,   (* syscall_user_rsp: the one saved user stack pointer          *)
  (* threads *)
  pc,        (* where each thread is                                        *)
  aslot,     (* kmain's local i and the thread it is adding, in sched_add   *)
  athr,
  (* the panel *)
  fbExcl,    (* g_fb_exclusive                                              *)
  screen,    (* whose pixels the panel shows                                *)
  (* history *)
  own,       (* the FPU values each thread last had                         *)
  claims     (* programs that took the panel and neither gave it back nor   *)
             (* exited                                                      *)

slotVars == <<used, rsp, proc, fx, cur>>
cpuVars  == <<running, ifl, cr3, fpu>>
sysVars  == <<kstackTop, userRsp>>
addVars  == <<aslot, athr>>
panelVars == <<fbExcl, screen, claims>>
vars == <<slotVars, cpuVars, sysVars, pc, addVars, panelVars, own>>

KmainPcs  == {"run", "picked", "filled", "published", "blit"}
ThreadPcs == {"new", "ready", "sys", "http", "parked"}

TypeOK ==
  /\ used \in [Slots -> BOOLEAN]
  /\ rsp \in [Slots -> Threads \union {None}]
  /\ proc \in [Slots -> Procs \union {None}]
  /\ fx \in [Slots -> FxImages]
  /\ cur \in Slots
  /\ running \in Threads
  /\ ifl \in BOOLEAN
  /\ cr3 \in Procs \union {None}
  /\ fpu \in FxImages
  /\ kstackTop \in Procs \union {None}
  /\ userRsp \in Procs \union {None}
  /\ pc \in [Threads -> KmainPcs \union ThreadPcs]
  /\ aslot \in Slots
  /\ athr \in Threads
  /\ fbExcl \in BOOLEAN
  /\ screen \in Threads
  /\ own \in [Threads -> FxImages]
  /\ claims \subseteq Procs

(* The state sched_init leaves: kmain in slot 0, every other slot unused.   *)
(* syscall_init has pointed syscall_kstack_top at its fallback stack.       *)
Init ==
  /\ used = [s \in Slots |-> s = 0]
  /\ rsp = [s \in Slots |-> None]
  /\ proc = [s \in Slots |-> None]
  /\ fx = [s \in Slots |-> IF s = 0 THEN Clean ELSE Blank]
  /\ cur = 0
  /\ running = Kmain
  /\ ifl = TRUE
  /\ cr3 = None
  /\ fpu = Clean
  /\ kstackTop = None
  /\ userRsp = None
  /\ pc = [t \in Threads |-> IF t = Kmain THEN "run" ELSE "new"]
  /\ aslot = 0
  /\ athr = Kmain
  /\ fbExcl = FALSE
  /\ screen = Kmain
  /\ own = [t \in Threads |-> Clean]
  /\ claims = {}

---------------------------------------------------------------------------
(* Adding a thread: sched_add and sched_add_user, run by kmain.             *)

At(t, where) == running = t /\ pc[t] = where
Goto(t, where) == pc' = [pc EXCEPT ![t] = where]

(* slot_alloc: the lowest unused slot. *)
FirstFree(i) == ~used[i] /\ \A j \in 0 .. i - 1 : used[j]

(* slot_alloc returns i (when it returns -1 nothing happens).               *)
AddPick(t) ==
  /\ At(Kmain, "run")
  /\ pc[t] = "new"
  /\ \E i \in Slots : FirstFree(i) /\ aslot' = i
  /\ athr' = t
  /\ Goto(Kmain, "picked")
  /\ UNCHANGED <<slotVars, cpuVars, sysVars, panelVars, own>>

(* kmalloc finds no room for the kernel stack: the add returns -1.          *)
AddNoMemory ==
  /\ At(Kmain, "picked")
  /\ Goto(Kmain, "run")
  /\ UNCHANGED <<slotVars, cpuVars, sysVars, addVars, panelVars, own>>

(* Mutant of AddFill: a kernel thread's slot keeps the proc it had before.   *)
AddFillKeepsProc ==
  /\ At(Kmain, "picked")
  /\ rsp' = [rsp EXCEPT ![aslot] = athr]
  /\ proc' = IF athr \in Procs THEN [proc EXCEPT ![aslot] = athr] ELSE proc
  /\ Goto(Kmain, "filled")
  /\ UNCHANGED <<used, fx, cur, cpuVars, sysVars, addVars, panelVars, own>>

(* The stack is there; the initial frame is laid down and the slot filled.  *)
AddFill ==
  /\ At(Kmain, "picked")
  /\ rsp' = [rsp EXCEPT ![aslot] = athr]
  /\ proc' = [proc EXCEPT ![aslot] = IF athr \in Procs THEN athr ELSE None]
  /\ Goto(Kmain, "filled")
  /\ UNCHANGED <<used, fx, cur, cpuVars, sysVars, addVars, panelVars, own>>

(* th[i].used = 1: from here on the tick may run the new thread.            *)
AddPublish ==
  /\ At(Kmain, "filled")
  /\ used' = [used EXCEPT ![aslot] = TRUE]
  /\ pc' = [pc EXCEPT ![Kmain] = "published", ![athr] = "ready"]
  /\ UNCHANGED <<rsp, proc, fx, cur, cpuVars, sysVars, addVars, panelVars, own>>

(* fpu_init_area, only now.                                                 *)
AddFpu ==
  /\ At(Kmain, "published")
  /\ fx' = [fx EXCEPT ![aslot] = Clean]
  /\ own' = [own EXCEPT ![athr] = Clean]
  /\ Goto(Kmain, "run")
  /\ UNCHANGED <<used, rsp, proc, cur, cpuVars, sysVars, addVars, panelVars>>

---------------------------------------------------------------------------
(* The running thread computes with the FPU.                                *)
Compute(t) ==
  /\ running = t
  /\ pc[t] \notin {"parked", "http"}
  /\ fpu' = t
  /\ own' = [own EXCEPT ![t] = t]
  /\ UNCHANGED <<slotVars, running, ifl, cr3, sysVars, pc, addVars, panelVars>>

(* The desktop loop: look at g_fb_exclusive, then blit the composed frame.  *)
GuiCheck ==
  /\ At(Kmain, "run")
  /\ ~fbExcl
  /\ Goto(Kmain, "blit")
  /\ UNCHANGED <<slotVars, cpuVars, sysVars, addVars, panelVars, own>>

GuiBlit ==
  /\ At(Kmain, "blit")
  /\ screen' = Kmain
  /\ Goto(Kmain, "run")
  /\ UNCHANGED <<slotVars, cpuVars, sysVars, addVars, fbExcl, claims, own>>

---------------------------------------------------------------------------
(* System calls.  Entry clears IF (FMASK), stashes the user stack pointer   *)
(* in a global and takes the stack the scheduler armed; the return reloads  *)
(* the stack pointer from the global and RFLAGS, IF included, from R11.     *)

SysEnter(p) ==
  /\ At(p, "ready")
  /\ p \in Procs
  /\ userRsp' = p
  /\ ifl' = FALSE
  /\ Goto(p, "sys")
  /\ UNCHANGED <<slotVars, running, cr3, fpu, kstackTop, addVars, panelVars, own>>

Sysret(p) == ifl' = TRUE /\ Goto(p, "ready")

(* Every call that changes nothing modelled here, and every failing one.    *)
SysOther(p) ==
  /\ At(p, "sys")
  /\ Sysret(p)
  /\ UNCHANGED <<slotVars, running, cr3, fpu, sysVars, addVars, panelVars, own>>

SysFbInfo(p) ==
  /\ At(p, "sys")
  /\ fbExcl' = TRUE
  /\ claims' = claims \union {p}
  /\ Sysret(p)
  /\ UNCHANGED <<slotVars, running, cr3, fpu, sysVars, addVars, screen, own>>

SysFbPresent(p) ==
  /\ At(p, "sys")
  /\ fbExcl
  /\ screen' = p
  /\ Sysret(p)
  /\ UNCHANGED <<slotVars, running, cr3, fpu, sysVars, addVars, fbExcl, claims, own>>

SysFbEnd(p) ==
  /\ At(p, "sys")
  /\ fbExcl' = FALSE
  /\ claims' = claims \ {p}
  /\ Sysret(p)
  /\ UNCHANGED <<slotVars, running, cr3, fpu, sysVars, addVars, screen, own>>

(* SYS_HTTPGET gets past its arguments and waits for the network: every     *)
(* wait in arp_resolve, dns_resolve and tcp.c is a loop around hlt.         *)
SysHttpWait(p) ==
  /\ At(p, "sys")
  /\ Goto(p, "http")
  /\ UNCHANGED <<slotVars, cpuVars, sysVars, addVars, panelVars, own>>

(* Mutants of SysExit: the slot is not retired; the panel is not given back. *)
SysExitKeepsSlot(p) ==
  /\ At(p, "sys")
  /\ fbExcl' = FALSE
  /\ claims' = claims \ {p}
  /\ ifl' = TRUE
  /\ Goto(p, "parked")
  /\ UNCHANGED <<slotVars, running, cr3, fpu, sysVars, addVars, screen, own>>

SysExitKeepsPanel(p) ==
  /\ At(p, "sys")
  /\ claims' = claims \ {p}
  /\ used' = IF cur # 0 THEN [used EXCEPT ![cur] = FALSE] ELSE used
  /\ ifl' = TRUE
  /\ Goto(p, "parked")
  /\ UNCHANGED <<rsp, proc, fx, cur, running, cr3, fpu, sysVars, addVars, fbExcl, screen, own>>

(* proc_exit: free the panel, retire the slot, sti, and park in hlt.        *)
SysExit(p) ==
  /\ At(p, "sys")
  /\ fbExcl' = FALSE
  /\ claims' = claims \ {p}
  /\ used' = IF cur # 0 THEN [used EXCEPT ![cur] = FALSE] ELSE used
  /\ ifl' = TRUE
  /\ Goto(p, "parked")
  /\ UNCHANGED <<rsp, proc, fx, cur, running, cr3, fpu, sysVars, addVars, screen, own>>

SysCall(p) ==
  \/ SysOther(p)
  \/ SysFbInfo(p)
  \/ SysFbPresent(p)
  \/ SysFbEnd(p)
  \/ SysHttpWait(p)
  \/ SysExit(p)

---------------------------------------------------------------------------
(* Interrupts: taken only with IF set.  isr_common saves the FPU registers  *)
(* in th[cur].fxarea, calls isr_handler, and reloads them from th[cur] of   *)
(* the thread it resumes.  A thread parked in a wait loop's hlt goes on.    *)

(* Mutant of FxSaved: the entry does not save the FPU registers.             *)
FxNotSaved == fx

FxSaved == [fx EXCEPT ![cur] = fpu]
Woken == IF pc[running] = "http" THEN [pc EXCEPT ![running] = "sys"] ELSE pc

(* Mutants of NextSlot: the scan takes the next slot, used or not; it starts *)
(* from slot 0 every time.                                                  *)
NextSlotUntested(n) == n = (cur + 1) % MaxT
NextSlotLowest(n) == used[n] /\ \A j \in 0 .. n - 1 : ~used[j]

(* The scan of schedule(): the next used slot after cur, cur the last one.  *)
NextSlot(n) ==
  \E k \in 1 .. MaxT :
    /\ n = (cur + k) % MaxT
    /\ used[n] \/ k = MaxT
    /\ \A j \in 1 .. k - 1 : ~used[(cur + j) % MaxT]

(* The outgoing frame is saved only while the slot is alive.                *)
RspSaved == IF used[cur] THEN [rsp EXCEPT ![cur] = running] ELSE rsp

(* Mutant of SwitchTo: the incoming program's kernel stack is not armed.     *)
SwitchToUnarmed(n) ==
  /\ cur' = n
  /\ running' = RspSaved[n]
  /\ cr3' = proc[n]
  /\ fpu' = FxSaved[n]
  /\ UNCHANGED kstackTop

(* n becomes the current slot; its frame, its address space and, for a      *)
(* ring-3 thread, its kernel stack are loaded.                              *)
SwitchTo(n) ==
  /\ cur' = n
  /\ running' = RspSaved[n]
  /\ cr3' = proc[n]
  /\ kstackTop' = IF proc[n] # None THEN proc[n] ELSE kstackTop
  /\ fpu' = FxSaved[n]

Tick ==
  /\ ifl
  /\ fx' = FxSaved
  /\ rsp' = RspSaved
  /\ \E n \in Slots :
       /\ NextSlot(n)
       /\ IF n = cur /\ used[cur]
          THEN UNCHANGED <<cur, running, cr3, kstackTop, fpu>>
          ELSE SwitchTo(n)
  /\ pc' = Woken
  /\ UNCHANGED <<used, proc, ifl, userRsp, addVars, panelVars, own>>

(* Any other interrupt: the handler runs and the same thread resumes.       *)
Irq ==
  /\ ifl
  /\ fx' = FxSaved
  /\ pc' = Woken
  /\ UNCHANGED <<used, rsp, proc, cur, cpuVars, sysVars, addVars, panelVars, own>>

---------------------------------------------------------------------------
Next ==
  \/ \E t \in KThreads \union Procs : AddPick(t)
  \/ AddNoMemory
  \/ AddFill
  \/ AddPublish
  \/ AddFpu
  \/ \E t \in Threads : Compute(t)
  \/ GuiCheck
  \/ GuiBlit
  \/ \E p \in Procs : SysEnter(p)
  \/ \E p \in Procs : SysCall(p)
  \/ Tick
  \/ Irq

(* A handler runs to its end, and the timer keeps firing.  The local APIC   *)
(* holds a tick that arrives with IF clear and delivers it at the next      *)
(* instruction boundary with IF set, so a program that makes call after     *)
(* call cannot outrun it: the tick is strongly fair.                        *)
Fairness ==
  /\ \A p \in Procs : WF_vars(SysCall(p))
  /\ SF_vars(Tick)

Spec == Init /\ [][Next]_vars
FairSpec == Spec /\ Fairness

---------------------------------------------------------------------------
(* Properties.                                                              *)

(* schedule, slot reuse: a frame that waits in the table is the frame of a  *)
(* thread that has not exited, is not the one running, and waits in no      *)
(* other slot; and th[].proc names the thread the slot really holds.  A     *)
(* violation resumes one context twice or one that has been abandoned.      *)
Holder(s) == IF s = cur THEN running ELSE rsp[s]

SavedContexts ==
  \A s \in Slots : used[s] =>
    /\ Holder(s) \in Threads
    /\ pc[Holder(s)] \notin {"new", "parked"}
    /\ \A u \in Slots \ {s} : used[u] => Holder(u) # Holder(s)
    /\ Holder(s) \in Procs => proc[s] = Holder(s)
    /\ proc[s] # None => proc[s] = Holder(s)

(* syscall.asm's single scratch word and single armed stack: a program in   *)
(* ring 3 or in a call runs in its own address space and enters on its own  *)
(* kernel stack, its stack pointer is still in syscall_user_rsp when the    *)
(* call returns, and no call of another program is under way.               *)
SyscallContext ==
  /\ running \in Procs => cr3 = running /\ kstackTop = running
  /\ \A p \in Procs : pc[p] \in {"sys", "http"} =>
       running = p /\ userRsp = p /\ ~ifl

(* Switching (isr_common, schedule): once its creation is complete, a       *)
(* thread that runs finds in the FPU registers the values it left there,    *)
(* through slot reuse and through interrupts.                               *)
BeingAdded(t) == pc[Kmain] = "published" /\ athr = t
FpuPreserved == ~BeingAdded(running) => fpu = own[running]

(* proc_exit and SYS_FBEND: the compositor is never kept parked on behalf   *)
(* of a program that has exited or given the panel back.                    *)
PanelNotLeaked ==
  fbExcl => \E p \in claims : \E s \in Slots : used[s] /\ proc[s] = p

(* sched_exit_current: a retired context is never entered again.            *)
NoResurrection ==
  [][running' # running => pc[running'] \notin {"new", "parked"} /\ used[cur']]_vars

(* Round robin: a live thread gets the processor again, unless it exits or  *)
(* the processor has halted with IF clear inside SYS_HTTPGET.               *)
Wedged == pc[running] = "http" /\ ~ifl
EverySlotRuns ==
  \A s \in Slots : used[s] ~> (cur = s \/ ~used[s] \/ Wedged)

---------------------------------------------------------------------------
(* What the documentation says, and the code does not do.                   *)

(* README.md: XMM/x87 state never leaks between threads.  What a thread     *)
(* finds in the FPU registers is its own or an initial image.               *)
FpuNeverLeaks == fpu \in {running, Clean, Blank}

(* include/syscall.h: SYS_HTTPGET returns the body length or -1.            *)
HttpGetReturns == \A p \in Procs : pc[p] = "http" ~> pc[p] = "ready"

(* kernel/syscall.c: there is no shared-VRAM race with the compositor.  A   *)
(* program that holds the panel and has painted it keeps its picture.       *)
NoVramRace == [][fbExcl /\ screen \in claims => screen' # Kmain]_vars
============================================================================
