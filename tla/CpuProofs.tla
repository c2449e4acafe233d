----------------------------- MODULE CpuProofs ------------------------------
(***************************************************************************)
(* Proofs about what runs on the processors: the scheduler (Sched), for any *)
(* number of slots, threads and programs; and the start of the other        *)
(* processors (Smp), for any number of them, any order of the MADT and any  *)
(* size of the table.                                                       *)
(***************************************************************************)
EXTENDS Sched, Smp, FiniteSetTheorems, TLAPS

---------------------------------------------------------------------------
(* Sched.                                                                   *)

Live(t) == pc[t] \notin {"new", "parked"}

(* Where a thread can be, by its kind.                                      *)
PcInv ==
  /\ pc[Kmain] \in KmainPcs
  /\ \A t \in KThreads : pc[t] \in {"new", "ready"}
  /\ \A p \in Procs : pc[p] \in ThreadPcs

(* Slot 0 is kmain's for ever: the scan in schedule always finds a slot.    *)
SlotZero == used[0] /\ Holder(0) = Kmain

(* A thread that can go on sits in a slot, and the processor leaves a       *)
(* retired slot only with the exited thread parked.                         *)
Seated == \A t \in Threads : Live(t) => \E s \in Slots : used[s] /\ Holder(s) = t
Retired == ~used[cur] => pc[running] = "parked"

(* kmain's sched_add: the slot it fills stays its own until it publishes    *)
(* it, and then belongs to the new thread until that exits.                 *)
Adding ==
  /\ pc[Kmain] \in {"picked", "filled"} =>
       /\ aslot # cur
       /\ ~used[aslot]
       /\ athr \in KThreads \union Procs
       /\ pc[athr] = "new"
  /\ pc[Kmain] = "filled" =>
       /\ rsp[aslot] = athr
       /\ proc[aslot] = IF athr \in Procs THEN athr ELSE None
  /\ pc[Kmain] = "published" =>
       /\ athr \in KThreads \union Procs
       /\ IF used[aslot] THEN Holder(aslot) = athr ELSE pc[athr] = "parked"

(* Every waiting slot but the one being created holds its thread's values.  *)
FpuSaved ==
  \A s \in Slots :
    used[s] /\ s # cur /\ ~(pc[Kmain] = "published" /\ s = aslot) =>
      fx[s] = own[rsp[s]]

(* The panel is claimed by programs that can still give it back.            *)
PanelInv == (fbExcl => claims # {}) /\ \A p \in claims : Live(p)

IInv ==
  /\ TypeOK
  /\ PcInv
  /\ SlotZero
  /\ SavedContexts
  /\ Seated
  /\ Retired
  /\ Adding
  /\ SyscallContext
  /\ FpuPreserved
  /\ FpuSaved
  /\ PanelInv

(* The desktop loop, or a creation that is given up: kmain moves on, and    *)
(* nothing else that matters changes.                                       *)
LEMMA KmainMovesInv ==
  ASSUME IInv, NEW where \in {"run", "blit"},
         pc[Kmain] \in {"run", "picked", "blit"}, Goto(Kmain, where),
         UNCHANGED <<slotVars, cpuVars, sysVars, addVars, fbExcl, claims, own>>,
         screen' \in Threads
  PROVE  IInv'
  <1>1. TypeOK'
    BY DEF IInv, TypeOK, Goto, slotVars, cpuVars, sysVars, addVars, KmainPcs
  <1>2. PcInv'
    BY DEF IInv, TypeOK, PcInv, Goto, KmainPcs, ThreadPcs
  <1>3. SlotZero' /\ SavedContexts' /\ Seated' /\ Retired'
    BY DEF IInv, TypeOK, SlotZero, SavedContexts, Seated, Retired, Goto,
       slotVars, cpuVars, Holder, Live
  <1>4. Adding'
    BY DEF IInv, TypeOK, Adding, Goto, slotVars, cpuVars, addVars
  <1>5. SyscallContext' /\ PanelInv'
    BY DEF IInv, TypeOK, SyscallContext, PanelInv, Goto, cpuVars, sysVars, Live
  <1>6. FpuPreserved' /\ FpuSaved'
    BY DEF IInv, TypeOK, FpuPreserved, FpuSaved, Goto, slotVars, cpuVars,
       addVars, BeingAdded
  <1> QED
    BY <1>1, <1>2, <1>3, <1>4, <1>5, <1>6 DEF IInv

(* A failing kmalloc in sched_add.                                          *)
LEMMA AddNoMemoryInv ==
  ASSUME IInv, AddNoMemory
  PROVE  IInv'
  BY KmainMovesInv DEF AddNoMemory, At, panelVars, IInv, TypeOK

(* The two steps of the desktop loop.                                       *)
LEMMA GuiInv ==
  ASSUME IInv, GuiCheck \/ GuiBlit
  PROVE  IInv'
  BY KmainMovesInv DEF GuiCheck, GuiBlit, At, panelVars, IInv, TypeOK, Threads

(* kmain picks a slot: an unused one, so not the current one, as kmain runs *)
(* on a used slot.                                                          *)
LEMMA AddPickInv ==
  ASSUME IInv, NEW t \in KThreads \union Procs, AddPick(t)
  PROVE  IInv'
  <1>1. TypeOK' /\ PcInv'
    BY DEF IInv, TypeOK, PcInv, AddPick, Goto, slotVars, cpuVars, sysVars,
       panelVars, Threads, KmainPcs, ThreadPcs
  <1>2. SlotZero' /\ SavedContexts' /\ Seated' /\ Retired'
    BY DEF IInv, TypeOK, SlotZero, SavedContexts, Seated, Retired, AddPick,
       Goto, At, slotVars, cpuVars, Holder, Live
  <1>3. Adding'
    BY DEF IInv, TypeOK, Adding, Retired, AddPick, Goto, At, slotVars,
       FirstFree
  <1>4. SyscallContext' /\ PanelInv'
    BY DEF IInv, TypeOK, SyscallContext, PanelInv, AddPick, Goto, At,
       cpuVars, sysVars, panelVars, Live
  <1>5. FpuPreserved' /\ FpuSaved'
    BY DEF IInv, FpuPreserved, FpuSaved, AddPick, At, slotVars, cpuVars,
       BeingAdded
  <1> QED
    BY <1>1, <1>2, <1>3, <1>4, <1>5 DEF IInv

(* kmain fills a slot that is unused, so nobody's.                          *)
LEMMA AddFillInv ==
  ASSUME IInv, AddFill
  PROVE  IInv'
  <1>1. TypeOK'
    BY DEF IInv, TypeOK, AddFill, Goto, cpuVars, sysVars, addVars, panelVars,
       KmainPcs
  <1>2. PcInv'
    BY DEF IInv, TypeOK, PcInv, AddFill, Goto, KmainPcs, ThreadPcs
  <1>3. SlotZero' /\ SavedContexts' /\ Seated' /\ Retired'
    BY DEF IInv, TypeOK, SlotZero, SavedContexts, Seated, Retired, Adding,
       AddFill, Goto, At, cpuVars, Holder, Live
  <1>4. Adding'
    BY DEF IInv, TypeOK, Adding, AddFill, Goto, At, addVars
  <1>5. SyscallContext' /\ PanelInv'
    BY DEF IInv, TypeOK, SyscallContext, PanelInv, AddFill, Goto, cpuVars,
       sysVars, panelVars, Live
  <1>6. FpuPreserved' /\ FpuSaved'
    BY DEF IInv, TypeOK, FpuPreserved, FpuSaved, Adding, AddFill, At,
       cpuVars, BeingAdded
  <1> QED
    BY <1>1, <1>2, <1>3, <1>4, <1>5, <1>6 DEF IInv

(* The slot joins the table with a frame no other slot holds, as the new    *)
(* thread held none.                                                        *)
LEMMA AddPublishInv ==
  ASSUME IInv, AddPublish
  PROVE  IInv'
  <1>1. TypeOK' /\ PcInv'
    BY DEF IInv, TypeOK, PcInv, AddPublish, cpuVars, sysVars, addVars,
       panelVars, Threads, KmainPcs, ThreadPcs
  <1>2. SlotZero' /\ Retired'
    BY DEF IInv, SlotZero, Retired, AddPublish, At, cpuVars, Holder
  <1>3. SavedContexts'
    BY DEF IInv, TypeOK, SavedContexts, Adding, AddPublish, At, cpuVars, Holder
  <1>4. Seated'
    BY DEF IInv, TypeOK, Seated, Adding, AddPublish, At, cpuVars, Holder, Live
  <1>5. Adding'
    BY DEF IInv, TypeOK, Adding, AddPublish, At, addVars, Holder
  <1>6. SyscallContext' /\ PanelInv'
    BY DEF IInv, TypeOK, SyscallContext, PanelInv, AddPublish, cpuVars,
       sysVars, panelVars, Live, Threads
  <1>7. FpuPreserved' /\ FpuSaved'
    BY DEF IInv, TypeOK, FpuPreserved, FpuSaved, AddPublish, At, cpuVars,
       addVars, BeingAdded
  <1> QED
    BY <1>1, <1>2, <1>3, <1>4, <1>5, <1>6, <1>7 DEF IInv

(* The slot's FPU image is laid down: for the thread that waits there or,   *)
(* if that has run and exited meanwhile, for nobody.                        *)
LEMMA AddFpuInv ==
  ASSUME IInv, AddFpu
  PROVE  IInv'
  <1>1. TypeOK'
    BY DEF IInv, TypeOK, AddFpu, Goto, cpuVars, sysVars, addVars, panelVars,
       KmainPcs, FxImages
  <1>2. PcInv'
    BY DEF IInv, TypeOK, PcInv, AddFpu, Goto, KmainPcs, ThreadPcs
  <1>3. SlotZero' /\ SavedContexts' /\ Seated' /\ Retired'
    BY DEF IInv, TypeOK, SlotZero, SavedContexts, Seated, Retired, AddFpu,
       Goto, At, cpuVars, Holder, Live
  <1>4. Adding'
    BY DEF IInv, TypeOK, Adding, AddFpu, Goto, cpuVars, addVars, Holder
  <1>5. SyscallContext' /\ PanelInv'
    BY DEF IInv, TypeOK, SyscallContext, PanelInv, AddFpu, Goto, cpuVars,
       sysVars, panelVars, Live
  <1>6. FpuPreserved'
    BY DEF IInv, TypeOK, PcInv, FpuPreserved, Adding, AddFpu, At, cpuVars,
       BeingAdded, ThreadPcs
  <1>7. FpuSaved'
    BY DEF IInv, TypeOK, FpuSaved, SavedContexts, Adding, AddFpu, At, Holder
  <1> QED
    BY <1>1, <1>2, <1>3, <1>4, <1>5, <1>6, <1>7 DEF IInv

(* A computation changes the FPU registers of the running thread, whose     *)
(* slot holds no image that counts.                                         *)
LEMMA ComputeInv ==
  ASSUME IInv, NEW t \in Threads, Compute(t)
  PROVE  IInv'
  <1>1. TypeOK' /\ PcInv'
    BY DEF IInv, TypeOK, PcInv, Compute, slotVars, sysVars, addVars,
       panelVars, FxImages
  <1>2. SlotZero' /\ SavedContexts' /\ Seated' /\ Retired'
    BY DEF IInv, SlotZero, SavedContexts, Seated, Retired, Compute, slotVars,
       Holder, Live
  <1>3. Adding'
    BY DEF IInv, Adding, Compute, slotVars, addVars, Holder
  <1>4. SyscallContext' /\ PanelInv'
    BY DEF IInv, SyscallContext, PanelInv, Compute, sysVars, panelVars, Live
  <1>5. FpuPreserved'
    BY DEF IInv, TypeOK, FpuPreserved, Compute
  <1>6. FpuSaved'
    BY DEF IInv, TypeOK, FpuSaved, SavedContexts, Retired, Compute, slotVars,
       addVars, Holder
  <1> QED
    BY <1>1, <1>2, <1>3, <1>4, <1>5, <1>6 DEF IInv

(* A program enters a call on its own stack; it is the running program, so  *)
(* no other is in one.                                                      *)
LEMMA SysEnterInv ==
  ASSUME IInv, NEW p \in Procs, SysEnter(p)
  PROVE  IInv'
  <1>1. p \in Threads /\ p # Kmain
    BY SchedAssumption DEF Threads
  <1>2. TypeOK'
    BY <1>1 DEF IInv, TypeOK, SysEnter, Goto, slotVars, addVars, panelVars,
       ThreadPcs
  <1>3. PcInv'
    BY <1>1, SchedAssumption DEF IInv, TypeOK, PcInv, SysEnter, Goto, ThreadPcs
  <1>4. SlotZero' /\ SavedContexts' /\ Seated' /\ Retired'
    BY <1>1 DEF IInv, TypeOK, SlotZero, SavedContexts, Seated, Retired,
       SysEnter, Goto, At, slotVars, Holder, Live
  <1>5. Adding'
    BY <1>1 DEF IInv, TypeOK, Adding, SysEnter, Goto, At, slotVars, addVars,
       Holder
  <1>6. SyscallContext' /\ PanelInv'
    BY <1>1 DEF IInv, TypeOK, SyscallContext, PanelInv, SysEnter, Goto, At,
       panelVars, Live
  <1>7. FpuPreserved' /\ FpuSaved'
    BY <1>1 DEF IInv, TypeOK, FpuPreserved, FpuSaved, SysEnter, Goto, At,
       slotVars, addVars, BeingAdded
  <1> QED
    BY <1>2, <1>3, <1>4, <1>5, <1>6, <1>7 DEF IInv

(* The calls that return: nothing changes but the panel, and whoever takes  *)
(* it is alive.                                                             *)
LEMMA SysretInv ==
  ASSUME IInv, NEW p \in Procs, At(p, "sys"), Sysret(p),
         UNCHANGED <<slotVars, running, cr3, fpu, sysVars, addVars, own>>,
         fbExcl' \in BOOLEAN, screen' \in Threads,
         fbExcl' => claims' # {}, claims' \subseteq claims \union {p}
  PROVE  IInv'
  <1>1. p \in Threads /\ p # Kmain
    BY SchedAssumption DEF Threads
  <1>2. TypeOK'
    BY <1>1 DEF IInv, TypeOK, Sysret, Goto, slotVars, sysVars, addVars,
       ThreadPcs
  <1>3. PcInv'
    BY <1>1, SchedAssumption DEF IInv, TypeOK, PcInv, Sysret, Goto, ThreadPcs
  <1>4. SlotZero' /\ SavedContexts' /\ Seated' /\ Retired'
    BY <1>1 DEF IInv, TypeOK, SlotZero, SavedContexts, Seated, Retired, At,
       Sysret, Goto, slotVars, Holder, Live
  <1>5. Adding'
    BY <1>1 DEF IInv, TypeOK, Adding, At, Sysret, Goto, slotVars, addVars,
       Holder
  <1>6. SyscallContext' /\ PanelInv'
    BY <1>1 DEF IInv, TypeOK, SyscallContext, PanelInv, At, Sysret, Goto,
       sysVars, Live
  <1>7. FpuPreserved' /\ FpuSaved'
    BY <1>1 DEF IInv, TypeOK, FpuPreserved, FpuSaved, At, Sysret, Goto,
       slotVars, addVars, BeingAdded
  <1> QED
    BY <1>2, <1>3, <1>4, <1>5, <1>6, <1>7 DEF IInv

(* The panel's calls, and those without effect here.                        *)
LEMMA SysPanelInv ==
  ASSUME IInv, NEW p \in Procs,
         SysOther(p) \/ SysFbInfo(p) \/ SysFbPresent(p) \/ SysFbEnd(p)
  PROVE  IInv'
  <1>1. fbExcl \in BOOLEAN /\ screen \in Threads /\ p \in Threads /\ (fbExcl => claims # {})
    BY DEF IInv, TypeOK, PanelInv, Threads
  <1>2. CASE SysOther(p)
    BY <1>1, <1>2, SysretInv DEF SysOther, panelVars
  <1>3. CASE SysFbInfo(p)
    BY <1>1, <1>3, SysretInv DEF SysFbInfo
  <1>4. CASE SysFbPresent(p)
    BY <1>1, <1>4, SysretInv DEF SysFbPresent
  <1>5. CASE SysFbEnd(p)
    BY <1>1, <1>5, SysretInv DEF SysFbEnd
  <1> QED
    BY <1>2, <1>3, <1>4, <1>5

(* A call that waits in hlt keeps its context, and the machine.             *)
LEMMA SysHttpWaitInv ==
  ASSUME IInv, NEW p \in Procs, SysHttpWait(p)
  PROVE  IInv'
  <1>1. p \in Threads /\ p # Kmain
    BY SchedAssumption DEF Threads
  <1>2. TypeOK'
    BY <1>1 DEF IInv, TypeOK, SysHttpWait, Goto, slotVars, cpuVars, sysVars,
       addVars, panelVars, ThreadPcs
  <1>3. PcInv'
    BY <1>1, SchedAssumption DEF IInv, TypeOK, PcInv, SysHttpWait, Goto,
       ThreadPcs
  <1>4. SlotZero' /\ SavedContexts' /\ Seated' /\ Retired'
    BY <1>1 DEF IInv, TypeOK, SlotZero, SavedContexts, Seated, Retired,
       SysHttpWait, Goto, At, slotVars, cpuVars, Holder, Live
  <1>5. Adding'
    BY <1>1 DEF IInv, TypeOK, Adding, SysHttpWait, Goto, At, slotVars,
       cpuVars, addVars, Holder
  <1>6. SyscallContext' /\ PanelInv'
    BY <1>1 DEF IInv, TypeOK, SyscallContext, PanelInv, SysHttpWait, Goto,
       At, cpuVars, sysVars, panelVars, Live
  <1>7. FpuPreserved' /\ FpuSaved'
    BY <1>1 DEF IInv, TypeOK, FpuPreserved, FpuSaved, SysHttpWait, Goto, At,
       slotVars, cpuVars, addVars, BeingAdded
  <1> QED
    BY <1>2, <1>3, <1>4, <1>5, <1>6, <1>7 DEF IInv

(* An exit retires the current slot, which is the exiting program's and not *)
(* slot 0.  If kmain is still creating that program, Adding goes over from  *)
(* a published slot to a parked thread.                                     *)
LEMMA SysExitInv ==
  ASSUME IInv, NEW p \in Procs, SysExit(p)
  PROVE  IInv'
  <1>1. p \in Threads /\ p # Kmain
    BY SchedAssumption DEF Threads
  <1>2. cur # 0
    BY <1>1 DEF IInv, SlotZero, SysExit, At, Holder
  <1>3. TypeOK'
    BY <1>1 DEF IInv, TypeOK, SysExit, Goto, sysVars, addVars, ThreadPcs
  <1>4. PcInv'
    BY <1>1, SchedAssumption DEF IInv, TypeOK, PcInv, SysExit, Goto, ThreadPcs
  <1>5. SlotZero' /\ Retired'
    BY <1>1, <1>2 DEF IInv, TypeOK, SlotZero, Retired, SysExit, Goto, At,
       Holder
  <1>6. SavedContexts'
    BY <1>1, <1>2 DEF IInv, TypeOK, SavedContexts, Retired, SysExit, Goto,
       At, Holder
  <1>7. Seated'
    BY <1>1 DEF IInv, TypeOK, Seated, SysExit, Goto, At, Holder, Live
  <1>8. Adding'
    BY <1>1 DEF IInv, TypeOK, Adding, SysExit, Goto, At, addVars, Holder
  <1>9. SyscallContext' /\ PanelInv'
    BY <1>1 DEF IInv, TypeOK, SyscallContext, PanelInv, SysExit, Goto, At,
       sysVars, Live
  <1>10. FpuPreserved' /\ FpuSaved'
    BY <1>1 DEF IInv, TypeOK, FpuPreserved, FpuSaved, SysExit, Goto, At,
       addVars, BeingAdded
  <1> QED
    BY <1>3, <1>4, <1>5, <1>6, <1>7, <1>8, <1>9, <1>10 DEF IInv

(* schedule() always finds a used slot, slot 0 if no other.                 *)
LEMMA ScanFindsUsed ==
  ASSUME TypeOK, SlotZero, NEW n \in Slots, NextSlot(n)
  PROVE  used[n]
  <1>1. MaxT \in Nat \ {0} /\ cur \in 0 .. MaxT - 1
    BY SchedAssumption DEF TypeOK, Slots
  <1>2. SUFFICES ASSUME ~used[n]
                 PROVE  FALSE
    OBVIOUS
  <1>3. \A j \in 1 .. MaxT - 1 : ~used[(cur + j) % MaxT]
    BY <1>1, <1>2 DEF NextSlot
  <1>4. n = (cur + MaxT) % MaxT
    BY <1>2 DEF NextSlot
  <1>5. CASE cur = 0
    <2>1. n = 0
      BY <1>1, <1>4, <1>5
    <2> QED
      BY <1>2, <2>1 DEF SlotZero
  <1>6. CASE cur # 0
    <2>1. MaxT - cur \in 1 .. MaxT - 1 /\ cur + (MaxT - cur) = MaxT
      BY <1>1, <1>6
    <2>2. MaxT % MaxT = 0
      BY <1>1
    <2> QED
      BY <1>3, <2>1, <2>2 DEF SlotZero
  <1> QED
    BY <1>5, <1>6

(* A thread waits in SYS_HTTPGET only with IF clear, so no interrupt that   *)
(* is taken wakes one.                                                      *)
LEMMA NobodyWoken ==
  ASSUME IInv, ifl
  PROVE  Woken = pc
  <1>1. pc[running] # "http"
    BY DEF IInv, TypeOK, PcInv, SyscallContext, Threads, KmainPcs
  <1> QED
    BY <1>1 DEF Woken

(* The tick: every slot goes on holding the thread it held, the outgoing    *)
(* thread's frame and FPU values are saved if its slot is alive, and the    *)
(* incoming one's are those that were saved for it.                         *)
LEMMA TickInv ==
  ASSUME IInv, Tick
  PROVE  IInv'
  <1>1. /\ ifl' = ifl /\ ifl
        /\ pc' = pc
        /\ UNCHANGED <<used, proc, ifl, userRsp, aslot, athr, fbExcl, screen, claims, own>>
    BY NobodyWoken DEF Tick, addVars, panelVars
  <1>2. PICK n \in Slots :
          /\ NextSlot(n)
          /\ IF n = cur /\ used[cur]
             THEN UNCHANGED <<cur, running, cr3, kstackTop, fpu>>
             ELSE SwitchTo(n)
    BY DEF Tick
  <1>3. used[n]
    BY <1>2, ScanFindsUsed DEF IInv
  <1>4. cur' = n /\ running' = Holder(n)
    BY <1>2, <1>3 DEF SwitchTo, RspSaved, Holder, IInv, TypeOK
  <1>5. \A s \in Slots : used[s] => Holder(s)' = Holder(s)
    BY <1>3, <1>4 DEF Tick, RspSaved, Holder, IInv, TypeOK
  <1>6. \A s \in Slots : s # cur => rsp'[s] = rsp[s]
    BY DEF Tick, RspSaved, IInv, TypeOK
  <1>7. TypeOK'
    <2>1. running' \in Threads
      BY <1>3, <1>4 DEF IInv, SavedContexts
    <2>2. rsp' \in [Slots -> Threads \union {None}]
      BY DEF Tick, RspSaved, IInv, TypeOK
    <2>3. fx' \in [Slots -> FxImages] /\ fpu' \in FxImages
      BY <1>2 DEF Tick, SwitchTo, FxSaved, IInv, TypeOK
    <2>4. cr3' \in Procs \union {None} /\ kstackTop' \in Procs \union {None}
      BY <1>2 DEF SwitchTo, IInv, TypeOK
    <2> QED
      BY <1>1, <1>4, <2>1, <2>2, <2>3, <2>4 DEF IInv, TypeOK
  <1>8. PcInv' /\ PanelInv'
    BY <1>1 DEF IInv, PcInv, PanelInv, Live
  <1>9. SlotZero'
    <2>1. 0 \in Slots
      BY SchedAssumption DEF Slots
    <2> QED
      BY <1>1, <1>5, <2>1 DEF IInv, SlotZero
  <1>10. SavedContexts'
    BY <1>1, <1>5 DEF IInv, SavedContexts
  <1>11. Seated' /\ Retired'
    BY <1>1, <1>3, <1>4, <1>5 DEF IInv, Seated, Retired, Live
  <1>12. Adding'
    <2>1. aslot \in Slots
      BY DEF IInv, TypeOK
    <2> QED
      BY <1>1, <1>3, <1>4, <1>5, <1>6, <2>1 DEF IInv, Adding
  <1>13. SyscallContext'
    <2>1. \A p \in Procs : pc[p] \notin {"sys", "http"}
      BY <1>1 DEF IInv, SyscallContext
    <2>2. CASE n = cur
      BY <1>1, <1>2, <1>3, <2>1, <2>2 DEF IInv, SyscallContext
    <2>3. CASE n # cur
      <3>1. cr3' = proc[n] /\ (proc[n] # None => kstackTop' = proc[n])
        BY <1>2, <2>3 DEF SwitchTo
      <3>2. running' \in Procs => proc[n] = running' /\ proc[n] # None
        BY <1>3, <1>4, SchedAssumption DEF IInv, SavedContexts, Threads
      <3> QED
        BY <1>1, <2>1, <3>1, <3>2 DEF SyscallContext
    <2> QED
      BY <2>2, <2>3
  <1>14. FpuPreserved' /\ FpuSaved'
    <2>1. fx' = [fx EXCEPT ![cur] = fpu] /\ fx \in [Slots -> FxImages] /\ cur \in Slots
      BY DEF Tick, FxSaved, IInv, TypeOK
    <2>2. used[cur] /\ ~BeingAdded(running) => fpu = own[running]
      BY DEF IInv, FpuPreserved
    <2>3. BeingAdded(running) /\ used[cur] => cur = aslot
      BY DEF BeingAdded, IInv, TypeOK, Adding, SavedContexts, Holder
    <2>4. FpuSaved'
      <3> SUFFICES ASSUME NEW s \in Slots, used[s], s # n,
                          ~(pc[Kmain] = "published" /\ s = aslot)
                   PROVE  fx'[s] = own[rsp'[s]]
        BY <1>1, <1>4 DEF FpuSaved
      <3>1. CASE s = cur
        <4>1. fx'[s] = fpu /\ rsp'[s] = running
          BY <2>1, <3>1 DEF Tick, RspSaved, IInv, TypeOK
        <4> QED
          BY <2>2, <2>3, <3>1, <4>1 DEF BeingAdded
      <3>2. CASE s # cur
        BY <1>6, <2>1, <3>2 DEF IInv, FpuSaved
      <3> QED
        BY <3>1, <3>2
    <2>5. CASE n = cur
      <3>1. fpu' = fpu /\ running' = running
        BY <1>2, <1>3, <2>5
      <3> QED
        BY <1>1, <2>4, <3>1 DEF IInv, FpuPreserved, BeingAdded
    <2>6. CASE n # cur
      <3>1. fpu' = fx[n] /\ running' = rsp[n]
        BY <1>2, <1>4, <2>1, <2>6 DEF SwitchTo, FxSaved, Holder
      <3>2. pc[Kmain] = "published" /\ n = aslot => BeingAdded(running)'
        BY <1>1, <1>3, <1>4 DEF IInv, Adding, BeingAdded
      <3>3. ~(pc[Kmain] = "published" /\ n = aslot) => fx[n] = own[rsp[n]]
        BY <1>3, <2>6 DEF IInv, FpuSaved
      <3> QED
        BY <1>1, <2>4, <3>1, <3>2, <3>3 DEF FpuPreserved
    <2> QED
      BY <2>5, <2>6
  <1> QED
    BY <1>7, <1>8, <1>9, <1>10, <1>11, <1>12, <1>13, <1>14 DEF IInv

(* An interrupt that does not switch only saves the FPU registers in the    *)
(* current slot, whose image does not count.                                *)
LEMMA IrqInv ==
  ASSUME IInv, Irq
  PROVE  IInv'
  <1>1. /\ UNCHANGED <<used, rsp, proc, cur, cpuVars, sysVars, pc, addVars, panelVars, own>>
        /\ fx' = [fx EXCEPT ![cur] = fpu]
    BY NobodyWoken DEF Irq, FxSaved
  <1>2. TypeOK' /\ PcInv'
    BY <1>1 DEF IInv, TypeOK, PcInv, cpuVars, sysVars, addVars, panelVars
  <1>3. SlotZero' /\ SavedContexts' /\ Seated' /\ Retired'
    BY <1>1 DEF IInv, SlotZero, SavedContexts, Seated, Retired, cpuVars,
       Holder, Live
  <1>4. Adding'
    BY <1>1 DEF IInv, Adding, cpuVars, addVars, Holder
  <1>5. SyscallContext' /\ PanelInv'
    BY <1>1 DEF IInv, SyscallContext, PanelInv, cpuVars, sysVars, panelVars,
       Live
  <1>6. FpuPreserved' /\ FpuSaved'
    BY <1>1 DEF IInv, TypeOK, FpuPreserved, FpuSaved, cpuVars, addVars,
       BeingAdded
  <1> QED
    BY <1>2, <1>3, <1>4, <1>5, <1>6 DEF IInv

(* sched_init establishes the invariant: kmain alone, in slot 0.            *)
LEMMA InitInv ==
  ASSUME Init
  PROVE  IInv
  <1> USE SchedAssumption DEF Init
  <1>1. 0 \in Slots /\ Kmain \in Threads
    BY DEF Slots, Threads
  <1>2. TypeOK
    BY <1>1 DEF TypeOK, FxImages, KmainPcs, ThreadPcs
  <1>3. PcInv
    BY <1>1 DEF PcInv, Threads, KmainPcs, ThreadPcs
  <1>4. SlotZero
    BY <1>1 DEF SlotZero, Holder
  <1>5. \A s \in Slots : used[s] => s = 0 /\ Holder(s) = Kmain /\ proc[s] = None
    BY DEF Holder
  <1>6. SavedContexts
    BY <1>1, <1>5 DEF SavedContexts
  <1>7. Seated /\ Retired
    BY <1>1, <1>4 DEF Seated, Retired, Live, SlotZero
  <1>8. Adding
    BY <1>1 DEF Adding
  <1>9. SyscallContext
    BY DEF SyscallContext, Threads
  <1>10. FpuPreserved /\ FpuSaved
    BY <1>1, <1>5 DEF FpuPreserved, FpuSaved
  <1>11. PanelInv
    BY DEF PanelInv
  <1> QED
    BY <1>2, <1>3, <1>4, <1>6, <1>7, <1>8, <1>9, <1>10, <1>11 DEF IInv

(* A step that changes nothing preserves it.                                *)
LEMMA StutterInv ==
  ASSUME IInv, UNCHANGED vars
  PROVE  IInv'
  <1>1. /\ UNCHANGED <<used, rsp, proc, fx, cur, running, ifl, cr3, fpu>>
        /\ UNCHANGED <<kstackTop, userRsp, pc, aslot, athr, fbExcl, screen, claims, own>>
    BY DEF vars, slotVars, cpuVars, sysVars, addVars, panelVars
  <1>2. \A s \in Slots : Holder(s)' = Holder(s)
    BY <1>1 DEF Holder
  <1>3. TypeOK' /\ PcInv'
    BY <1>1 DEF IInv, TypeOK, PcInv
  <1>4. SlotZero' /\ SavedContexts' /\ Seated' /\ Retired' /\ Adding'
    BY <1>1 DEF IInv, SlotZero, SavedContexts, Seated, Retired, Adding, Live,
       Holder
  <1>5. SyscallContext' /\ FpuPreserved' /\ FpuSaved' /\ PanelInv'
    BY <1>1 DEF IInv, SyscallContext, FpuPreserved, FpuSaved, PanelInv,
       BeingAdded, Live
  <1> QED
    BY <1>3, <1>4, <1>5 DEF IInv

(* Every step preserves it, action by action.                               *)
LEMMA NextInv ==
  ASSUME IInv, [Next]_vars
  PROVE  IInv'
  <1>1. ASSUME NEW t \in KThreads \union Procs, AddPick(t)
        PROVE  IInv'
    BY <1>1, AddPickInv
  <1>2. CASE AddNoMemory \/ AddFill \/ AddPublish \/ AddFpu
    BY <1>2, AddNoMemoryInv, AddFillInv, AddPublishInv, AddFpuInv
  <1>3. ASSUME NEW t \in Threads, Compute(t)
        PROVE  IInv'
    BY <1>3, ComputeInv
  <1>4. CASE GuiCheck \/ GuiBlit
    BY <1>4, GuiInv
  <1>5. ASSUME NEW p \in Procs, SysEnter(p)
        PROVE  IInv'
    BY <1>5, SysEnterInv
  <1>6. ASSUME NEW p \in Procs, SysCall(p)
        PROVE  IInv'
    BY <1>6, SysPanelInv, SysHttpWaitInv, SysExitInv DEF SysCall
  <1>7. CASE Tick \/ Irq
    BY <1>7, TickInv, IrqInv
  <1>8. CASE UNCHANGED vars
    BY <1>8, StutterInv
  <1> QED
    BY <1>1, <1>2, <1>3, <1>4, <1>5, <1>6, <1>7, <1>8 DEF Next

(* The inductive invariant holds in every reachable state.                  *)
THEOREM Invariance == Spec => []IInv
  BY InitInv, NextInv, PTL DEF Spec

(* Every variable keeps its type; in particular the scan of schedule never  *)
(* loads a null frame.                                                      *)
THEOREM TypeCorrect == Spec => []TypeOK
  <1>1. IInv => TypeOK
    BY DEF IInv
  <1> QED
    BY <1>1, Invariance, PTL

(* sched_add, schedule and sched_exit_current, in any interleaving and for  *)
(* any number of slots: a frame in the table is the frame of one live       *)
(* thread, in one slot, with that thread's process.                         *)
THEOREM ContextsSafe == Spec => []SavedContexts
  <1>1. IInv => SavedContexts
    BY DEF IInv
  <1> QED
    BY <1>1, Invariance, PTL

(* SYSCALL entry and return: the one scratch word and the one armed stack   *)
(* always belong to the program that is running.                            *)
THEOREM CallsKeepContext == Spec => []SyscallContext
  <1>1. IInv => SyscallContext
    BY DEF IInv
  <1> QED
    BY <1>1, Invariance, PTL

(* isr_common's FPU save and restore: a thread whose creation is complete   *)
(* finds the values it left.                                                *)
THEOREM FpuKept == Spec => []FpuPreserved
  <1>1. IInv => FpuPreserved
    BY DEF IInv
  <1> QED
    BY <1>1, Invariance, PTL

(* proc_exit and SYS_FBEND: the compositor is parked only while some        *)
(* program that asked for the panel still sits in a slot.                   *)
THEOREM PanelComesBack == Spec => []PanelNotLeaked
  <1>1. ASSUME IInv, fbExcl
        PROVE  \E p \in claims : \E s \in Slots : used[s] /\ proc[s] = p
    <2>1. PICK p \in claims : Live(p)
      BY <1>1 DEF IInv, PanelInv
    <2>2. p \in Procs /\ p \in Threads
      BY <1>1 DEF IInv, TypeOK, Threads
    <2>3. PICK s \in Slots : used[s] /\ Holder(s) = p
      BY <1>1, <2>1, <2>2 DEF IInv, Seated
    <2>4. proc[s] = p
      BY <1>1, <2>2, <2>3 DEF IInv, SavedContexts
    <2> QED
      BY <2>1, <2>3, <2>4
  <1>2. IInv => PanelNotLeaked
    BY <1>1 DEF PanelNotLeaked
  <1> QED
    BY <1>2, Invariance, PTL

(* Only the tick switches, and it switches to a used slot, so to a live     *)
(* thread.                                                                  *)
LEMMA ResumesLive ==
  ASSUME IInv, [Next]_vars, running' # running
  PROVE  pc[running'] \notin {"new", "parked"} /\ used[cur']
  <1>1. Tick
    BY DEF Next, vars, slotVars, cpuVars, AddPick, AddNoMemory, AddFill,
       AddPublish,
       AddFpu, Compute, GuiCheck, GuiBlit, SysEnter, SysCall, SysOther, SysFbInfo,
       SysFbPresent, SysFbEnd, SysHttpWait, SysExit, Irq
  <1>2. PICK n \in Slots : NextSlot(n) /\ SwitchTo(n)
    BY <1>1 DEF Tick
  <1>3. used[n]
    BY <1>2, ScanFindsUsed DEF IInv
  <1>4. running' = Holder(n)
    BY <1>2, <1>3 DEF SwitchTo, RspSaved, Holder, IInv, TypeOK
  <1> QED
    BY <1>2, <1>3, <1>4 DEF SwitchTo, IInv, SavedContexts

(* sched_exit_current: no step ever enters a thread that has exited or has  *)
(* not been published.                                                      *)
THEOREM NoneResurrected == Spec => NoResurrection
  <1>1. IInv /\ [Next]_vars =>
          [running' # running => pc[running'] \notin {"new", "parked"} /\ used[cur']]_vars
    BY ResumesLive
  <1> QED
    BY <1>1, Invariance, PTL DEF Spec, NoResurrection

---------------------------------------------------------------------------
(* Smp.                                                                     *)

Round == bsp \notin {"next", "done"}
Now(c) == Round /\ c = Id

(* In a round the block and the slot are prepared for Id.                   *)
RoundOK ==
  /\ Round => /\ at \in DOMAIN Madt /\ Id \in Aps /\ idx < MaxCpus
              /\ param.stack = stacks /\ percpu[idx].stack = stacks
  /\ bsp \in {"clear", "init", "sipi", "resend", "wait"} => param.arg = idx

(* Processors whose INIT has not been sent are off; only those of earlier   *)
(* rounds have been given up.                                               *)
Fresh ==
  /\ \A j \in DOMAIN Madt :
       /\ j >= at /\ (j = at => bsp \in {"next", "arg", "clear", "init"})
       /\ Madt[j] \in Aps
       => ap[Madt[j]].pc = "off"
  /\ \A c \in givenUp : \E j \in DOMAIN Madt : j < at /\ Madt[j] = c

Base == SmpTypeOK /\ RoundOK /\ Fresh

(* Every step keeps the types and what the round has prepared.             *)
LEMMA TypeStep ==
  ASSUME SmpTypeOK, RoundOK, [SmpNext]_smpvars
  PROVE  SmpTypeOK' /\ RoundOK'
<1> USE DEF SmpTypeOK, RoundOK, Round, CpuSlots, InTrampoline, Running
<1>1. CASE SkipBsp \/ NoMoreCpus
  BY <1>1 DEF SkipBsp, NoMoreCpus
<1>1a. CASE DidNotStart
  BY <1>1a DEF DidNotStart
<1>1b. CASE CountIt
  BY <1>1b DEF CountIt, NextIdx
<1>2. CASE Prepare
  <2>1. idx \in 0 .. MaxCpus - 1 /\ Id \in Lapics /\ Id \in Aps /\ at \in DOMAIN Madt
    BY <1>2, SmpAssumption DEF Prepare, MoreCpus, Id, Aps
  <2>2. percpu' \in [CpuSlots -> [lapic : Lapics, stack : Nat, online : BOOLEAN]]
    BY <1>2, <2>1 DEF Prepare
  <2>3. percpu'[idx].stack = stacks'
    BY <1>2, <2>1 DEF Prepare
  <2>4. param' \in [stack : Nat, arg : Nat] /\ param'.stack = stacks'
    BY <1>2 DEF Prepare
  <2>5. SmpTypeOK'
    BY <1>2, <2>2, <2>4 DEF Prepare
  <2>6. RoundOK'
    BY <1>2, <2>1, <2>3, <2>4 DEF Prepare, MoreCpus, Id
  <2> QED BY <2>5, <2>6
<1>3. CASE SetArg \/ ClearAck
  BY <1>3 DEF SetArg, ClearAck, AckAfter, Id
<1>4. CASE SendInit \/ SendSipi \/ ResendSipi
  <2>1. PICK s \in {"reset", "stack"} : ap' = ap \/ ap' = [ap EXCEPT ![Id].pc = s]
    BY <1>4 DEF SendInit, SendSipi, ResendSipi, Sipi
  <2>2. ap' \in [Aps -> [pc : {"off", "reset"} \union InTrampoline \union Running,
                        rsp : Nat, rdi : Nat]]
    <3>1. CASE ap' = ap
      BY <3>1
    <3>2. CASE ap' = [ap EXCEPT ![Id].pc = s]
      <4>1. ap' = [c \in Aps |-> IF c = Id THEN [ap[c] EXCEPT !.pc = s] ELSE ap[c]]
        BY <3>2
      <4>2. \A c \in Aps : [ap[c] EXCEPT !.pc = s] \in
              [pc : {"off", "reset"} \union InTrampoline \union Running, rsp : Nat, rdi : Nat]
        OBVIOUS
      <4> QED BY <4>1, <4>2
    <3> QED BY <2>1, <3>1, <3>2
  <2>3. /\ bsp \in {"init", "sipi", "resend"} /\ bsp' \in {"sipi", "resend", "wait"}
        /\ UNCHANGED <<at, idx, cpuCount, online, ack, param, percpu, stacks, givenUp>>
    BY <1>4 DEF SendInit, SendSipi, ResendSipi
  <2> HIDE DEF InTrampoline, Running, CpuSlots
  <2> QED BY <2>2, <2>3 DEF Id
<1>5. ASSUME NEW c \in Aps, ReadStack(c) \/ ReadArg(c) \/ Acknowledge(c)
      PROVE  SmpTypeOK' /\ RoundOK'
  <2>1. /\ ack' \in BOOLEAN
        /\ UNCHANGED <<bsp, at, idx, cpuCount, online, param, percpu, stacks, givenUp>>
    BY <1>5 DEF ReadStack, ReadArg, Acknowledge
  <2>2. ap' \in [Aps -> [pc : {"off", "reset"} \union InTrampoline \union Running,
                        rsp : Nat, rdi : Nat]]
    <3>1. CASE ReadStack(c)
      BY Z3T(30), <3>1 DEF ReadStack
    <3>2. CASE ReadArg(c)
      <4>1. param.arg \in Nat
        OBVIOUS
      <4>2. ap' = [ap EXCEPT ![c].rdi = param.arg, ![c].pc = "entry"]
        BY <3>2 DEF ReadArg
      <4>3. [ap[c] EXCEPT !.rdi = param.arg, !.pc = "entry"] \in
              [pc : {"off", "reset"} \union InTrampoline \union Running, rsp : Nat, rdi : Nat]
        BY <4>1
      <4> QED BY <4>2, <4>3
    <3>3. CASE Acknowledge(c)
      BY <3>3 DEF Acknowledge
    <3> QED BY <1>5, <3>1, <3>2, <3>3
  <2> HIDE DEF InTrampoline, Running, CpuSlots
  <2> QED BY <2>1, <2>2 DEF Id
<1>6. ASSUME NEW c \in Aps, Enter(c)
      PROVE  SmpTypeOK' /\ RoundOK'
  <2>1. c \in Lapics
    BY DEF Aps
  <2>2. percpu' \in [CpuSlots -> [lapic : Lapics, stack : Nat, online : BOOLEAN]]
    <3>1. percpu' = [percpu EXCEPT ![ap[c].rdi].online = TRUE, ![ap[c].rdi].lapic = c]
      BY <1>6 DEF Enter
    <3>2. \A r \in [lapic : Lapics, stack : Nat, online : BOOLEAN] :
            [r EXCEPT !.online = TRUE, !.lapic = c] \in [lapic : Lapics, stack : Nat, online : BOOLEAN]
      BY <2>1
    <3> SUFFICES ASSUME NEW i \in CpuSlots
                 PROVE  percpu'[i] \in [lapic : Lapics, stack : Nat, online : BOOLEAN]
      BY <3>1
    <3>3. percpu[i] \in [lapic : Lapics, stack : Nat, online : BOOLEAN]
      OBVIOUS
    <3>4. \/ percpu'[i] = percpu[i]
          \/ percpu'[i] = [percpu[i] EXCEPT !.online = TRUE, !.lapic = c]
      BY <3>1
    <3> QED BY <3>2, <3>3, <3>4
  <2>3. \A i \in CpuSlots : percpu'[i].stack = percpu[i].stack
    BY <1>6, <2>1 DEF Enter
  <2>4. /\ online' = online + 1
        /\ UNCHANGED <<bsp, at, idx, cpuCount, ack, param, stacks, givenUp>>
    BY <1>6 DEF Enter
  <2>5. ap' \in [Aps -> [pc : {"off", "reset"} \union InTrampoline \union Running,
                        rsp : Nat, rdi : Nat]]
    BY <1>6 DEF Enter
  <2>6. SmpTypeOK'
    BY <2>2, <2>4, <2>5
  <2>7. RoundOK'
    BY <2>3, <2>4, SmpAssumption DEF Id
  <2> QED BY <2>6, <2>7
<1>7. CASE UNCHANGED smpvars
  BY <1>7 DEF smpvars, Id
<1> QED BY <1>1, <1>2, <1>3, <1>4, <1>5, <1>6, <1>7, <1>1a, <1>1b DEF SmpNext, Returned

(* Processors whose turn has not come are off.                             *)
LEMMA FreshStep ==
  ASSUME Base, [SmpNext]_smpvars
  PROVE  Fresh'
<1> USE DEF Base, Fresh
<1>1. at \in Nat /\ (Round => at \in DOMAIN Madt /\ Id \in Aps /\ Id = Madt[at])
  BY DEF SmpTypeOK, RoundOK, Id
<1>2. CASE UNCHANGED <<ap, givenUp>> /\ (at' = at \/ at' = at + 1)
           /\ (at' = at => \/ bsp' = bsp
                           \/ bsp \in {"next", "arg", "clear", "init"}
                           \/ bsp' \notin {"next", "arg", "clear", "init"})
  BY <1>1, <1>2, SmpAssumption
<1>3. CASE SkipBsp \/ Prepare \/ NoMoreCpus \/ SetArg \/ ClearAck \/ CountIt \/ UNCHANGED smpvars
  BY <1>1, <1>2, <1>3 DEF SkipBsp, Prepare, NoMoreCpus, SetArg, ClearAck, CountIt, smpvars
<1>4. CASE DidNotStart
  BY <1>1, <1>4, SmpAssumption DEF DidNotStart, Round
<1>5. CASE SendInit \/ SendSipi \/ ResendSipi
  <2>1. /\ bsp \in {"init", "sipi", "resend"} /\ bsp' \in {"sipi", "resend", "wait"}
        /\ UNCHANGED <<at, givenUp>>
    BY <1>5 DEF SendInit, SendSipi, ResendSipi
  <2>2. \A c \in Aps \ {Id} : ap'[c] = ap[c]
    BY <1>5 DEF SendInit, SendSipi, ResendSipi, Sipi, SmpTypeOK
  <2>3. \A j \in DOMAIN Madt : j # at => Madt[j] # Id
    BY <1>1, <2>1, SmpAssumption DEF Round
  <2> QED BY <2>1, <2>2, <2>3
<1>6. ASSUME NEW c \in Aps, ReadStack(c) \/ ReadArg(c) \/ Enter(c) \/ Acknowledge(c)
      PROVE  Fresh'
  <2>1. /\ UNCHANGED <<bsp, at, givenUp>> /\ ap[c].pc # "off"
        /\ \A d \in Aps \ {c} : ap'[d] = ap[d]
    BY <1>6 DEF ReadStack, ReadArg, Enter, Acknowledge, SmpTypeOK
  <2> QED BY <2>1
<1> QED BY <1>3, <1>4, <1>5, <1>6 DEF SmpNext, Returned

(* Base is an invariant, whoever answers late.                             *)
LEMMA BaseInv == SmpSpec => []Base
<1>1. ASSUME SmpInit PROVE Base
  <2>1. percpu \in [CpuSlots -> [lapic : Lapics, stack : Nat, online : BOOLEAN]]
    <3>1. \A i \in CpuSlots : [NoCpu EXCEPT !.online = i = 0]
            \in [lapic : Lapics, stack : Nat, online : BOOLEAN]
      BY SmpAssumption DEF NoCpu
    <3> QED BY <1>1, <3>1 DEF SmpInit
  <2>2. ap \in [Aps -> [pc : {"off", "reset"} \union InTrampoline \union Running,
                       rsp : Nat, rdi : Nat]]
    BY <1>1 DEF SmpInit
  <2>3. SmpTypeOK
    <3>1. /\ bsp = "next" /\ at = 1 /\ idx = 1 /\ stacks = 0
          /\ cpuCount = 1 /\ online = 1 /\ givenUp = {}
      BY <1>1 DEF SmpInit
    <3>2. param \in [stack : Nat, arg : Nat]
      BY <1>1 DEF SmpInit
    <3>3. ack \in BOOLEAN
      BY <1>1 DEF SmpInit
    <3> QED BY <2>1, <2>2, <3>1, <3>2, <3>3 DEF SmpTypeOK
  <2>4. RoundOK /\ Fresh
    BY <1>1 DEF SmpInit, RoundOK, Fresh, Round
  <2> QED BY <2>3, <2>4 DEF Base
<1>2. Base /\ [SmpNext]_smpvars => Base'
  BY TypeStep, FreshStep DEF Base
<1> QED BY <1>1, <1>2, PTL DEF SmpSpec

(* Every variable of Smp keeps its type, whatever the processors that answer *)
(* late read from the block and write to it (kernel/smp.c:102-142).         *)
THEOREM SmpTypes == SmpSpec => []SmpTypeOK
<1>1. Base => SmpTypeOK
  BY DEF Base
<1> QED BY BaseInv, <1>1, PTL

---------------------------------------------------------------------------
(* An acknowledgement counts at most one processor: those counted, and the  *)
(* one whose acknowledgement is about to be counted, are in idle.           *)

Idle == {c \in Aps : ap[c].pc = "idle"}
Pending == IF ack /\ bsp \in {"init", "sipi", "resend", "wait"} THEN 1 ELSE 0
Counted == cpuCount + Pending <= 1 + Cardinality(Idle)

(* The processors in idle can be counted, before and after a step.         *)
LEMMA IdleFinite ==
  /\ IsFiniteSet(Aps)
  /\ IsFiniteSet(Idle) /\ IsFiniteSet(Idle')
  /\ Cardinality(Idle) \in Nat /\ Cardinality(Idle') \in Nat
<1>1. IsFiniteSet(Aps)
  BY SmpAssumption, FS_Subset, Aps \subseteq Lapics DEF Aps
<1>2. IsFiniteSet(Idle) /\ IsFiniteSet(Idle')
  BY <1>1, FS_Subset, Idle \subseteq Aps, Idle' \subseteq Aps DEF Idle
<1> QED BY <1>1, <1>2, FS_CardinalityType

(* No step counts a processor that is not in idle.                         *)
LEMMA CountedStep ==
  ASSUME Base, Counted, [SmpNext]_smpvars
  PROVE  Counted'
<1>1. /\ at \in Nat /\ cpuCount \in Nat /\ ack \in BOOLEAN
      /\ ap \in [Aps -> [pc : {"off", "reset"} \union InTrampoline \union Running,
                        rsp : Nat, rdi : Nat]]
      /\ Cardinality(Idle) \in Nat /\ Cardinality(Idle') \in Nat
  BY IdleFinite DEF Base, SmpTypeOK
<1>2. CASE Idle' = Idle /\ cpuCount' = cpuCount
           /\ (bsp' \in {"init", "sipi", "resend", "wait"} /\ ack' =>
                bsp \in {"init", "sipi", "resend", "wait"} /\ ack)
  BY <1>1, <1>2 DEF Counted, Pending
<1>3. CASE SkipBsp \/ Prepare \/ NoMoreCpus \/ SetArg \/ ClearAck \/ DidNotStart \/ UNCHANGED smpvars
  <2>1. Idle' = Idle
    BY <1>3 DEF SkipBsp, Prepare, NoMoreCpus, SetArg, ClearAck, DidNotStart, smpvars, Idle
  <2>2. cpuCount' = cpuCount
    BY <1>3 DEF SkipBsp, Prepare, NoMoreCpus, SetArg, ClearAck, DidNotStart, smpvars
  <2>3. bsp' \in {"init", "sipi", "resend", "wait"} /\ ack' =>
          bsp \in {"init", "sipi", "resend", "wait"} /\ ack
    BY <1>3 DEF SkipBsp, Prepare, NoMoreCpus, SetArg, ClearAck, AckAfter, DidNotStart, smpvars
  <2> QED BY <1>2, <2>1, <2>2, <2>3
<1>4. CASE SendInit \/ SendSipi \/ ResendSipi
  <2>1. /\ bsp \in {"init", "sipi", "resend"} /\ ack' = ack /\ cpuCount' = cpuCount
        /\ Id \in Aps /\ at \in DOMAIN Madt /\ Id = Madt[at]
    BY <1>4 DEF SendInit, SendSipi, ResendSipi, Base, RoundOK, Round, Id
  <2>2. bsp = "init" => ap[Id].pc = "off"
    BY <1>1, <2>1 DEF Base, Fresh
  <2>3. \A c \in Aps : (ap'[c].pc = "idle") = (ap[c].pc = "idle")
    BY <1>1, <1>4, <2>1, <2>2 DEF SendInit, SendSipi, ResendSipi, Sipi
  <2>4. Idle' = Idle
    BY <2>3 DEF Idle
  <2> QED BY <1>2, <2>1, <2>4
<1>5. CASE CountIt
  <2>1. Idle' = Idle
    BY <1>5 DEF CountIt, Idle
  <2>2. Pending = 1 /\ Pending' = 0 /\ cpuCount' = cpuCount + 1
    BY <1>5 DEF CountIt, Pending
  <2> QED BY <1>1, <2>1, <2>2 DEF Counted
<1>6. ASSUME NEW c \in Aps, ReadStack(c) \/ ReadArg(c) \/ Enter(c)
      PROVE  Counted'
  <2>1. Idle' = Idle
    BY <1>1, <1>6 DEF ReadStack, ReadArg, Enter, Idle
  <2>2. bsp' = bsp /\ ack' = ack /\ cpuCount' = cpuCount
    BY <1>6 DEF ReadStack, ReadArg, Enter
  <2> QED BY <1>2, <2>1, <2>2
<1>7. ASSUME NEW c \in Aps, Acknowledge(c)
      PROVE  Counted'
  <2>1. c \notin Idle /\ Idle' = Idle \union {c}
    BY <1>1, <1>7 DEF Acknowledge, Idle
  <2>2. Cardinality(Idle') = Cardinality(Idle) + 1
    BY <2>1, IdleFinite, FS_AddElement
  <2>3. Pending' <= Pending + 1 /\ Pending \in Nat /\ Pending' \in Nat
    BY DEF Pending
  <2>4. cpuCount' = cpuCount
    BY <1>7 DEF Acknowledge
  <2> QED BY <1>1, <2>2, <2>3, <2>4 DEF Counted
<1> QED BY <1>3, <1>4, <1>5, <1>6, <1>7 DEF SmpNext, Returned

(* For any number of processors, however late each of them answers and      *)
(* whoever's acknowledgement it is, g_cpu_count never exceeds the number of  *)
(* processors that run (kernel/smp.c:136-137 trusts the flag alone).        *)
THEOREM NoneCountedIdly == SmpSpec => []CountedAreOnline
<1>1. SmpInit => Counted
  BY IdleFinite DEF SmpInit, Counted, Pending
<1>2. Base /\ Counted /\ [SmpNext]_smpvars => Counted'
  BY CountedStep
<1>3. Base /\ Counted => CountedAreOnline
  <2> SUFFICES ASSUME Base, Counted PROVE CountedAreOnline
    OBVIOUS
  <2> DEFINE Up == {c \in Aps : ap[c].pc \in Running}
  <2>1. Idle \subseteq Up
    BY DEF Idle, Running
  <2>2. IsFiniteSet(Up)
    BY IdleFinite, FS_Subset, Up \subseteq Aps
  <2>3. Cardinality(Idle) <= Cardinality(Up) /\ Cardinality(Up) \in Nat
    BY <2>1, <2>2, FS_Subset, FS_CardinalityType
  <2>4. cpuCount <= 1 + Cardinality(Idle)
    BY IdleFinite DEF Base, SmpTypeOK, Counted, Pending
  <2>5. cpuCount \in Nat /\ Cardinality(Idle) \in Nat
    BY IdleFinite DEF Base, SmpTypeOK
  <2>6. cpuCount <= 1 + Cardinality(Up)
    BY <2>3, <2>4, <2>5
  <2> QED BY <2>6 DEF CountedAreOnline
<1> QED BY BaseInv, <1>1, <1>2, <1>3, PTL DEF SmpSpec

---------------------------------------------------------------------------
(* Where everybody's place is, as long as nobody is late.                   *)

Holds(c) == ap[c].pc \in {"arg", "entry", "ack", "idle"}   (* has read RSP *)
Knows(c) == ap[c].pc \in {"entry", "ack", "idle"}          (* and RDI      *)

(* Only the processor of this round is on its way, and its acknowledgement  *)
(* is the one seen.                                                         *)
NowOK ==
  /\ \A c \in Aps : ap[c].pc \in {"stack", "arg", "entry", "ack"} =>
       Now(c) /\ bsp \in {"resend", "wait"}
  /\ ack /\ bsp \in {"init", "sipi", "resend", "wait"} => ap[Id].pc = "idle"

(* Nobody else has the last stack, and no stack has two.                    *)
StacksOK ==
  \A c \in Aps : Holds(c) =>
    /\ ap[c].rsp <= stacks
    /\ Round => (ap[c].rsp = stacks <=> c = Id)
    /\ \A d \in Aps : Holds(d) /\ ap[c].rsp = ap[d].rsp => c = d

(* The slots below idx are those of earlier rounds.                         *)
SlotsOK ==
  /\ \A c \in Aps : Knows(c) =>
       ap[c].rdi >= 1 /\ IF Now(c) THEN ap[c].rdi = idx ELSE ap[c].rdi < idx
  /\ \A c \in Aps : ap[c].pc \in Running =>
       percpu[ap[c].rdi] = [lapic |-> c, stack |-> ap[c].rsp, online |-> TRUE]

OnlineOK ==
  online = cpuCount + (IF Round /\ ap[Id].pc \in Running THEN 1 ELSE 0)

OwnOK == NowOK /\ StacksOK /\ SlotsOK /\ OnlineOK

(* Being late does not end: if nobody is late after a step, nobody was.    *)
LEMMA LateStaysLate ==
  ASSUME Base, [SmpNext]_smpvars, NoneLate'
  PROVE  NoneLate
<1> USE DEF Base, NoneLate
<1>1. \A c \in givenUp : c \in Aps /\ (Round => c # Id)
  <2>1. \A c \in givenUp : c \in Aps /\ \E j \in DOMAIN Madt : j < at /\ Madt[j] = c
    BY DEF SmpTypeOK, Fresh
  <2>2. Round => at \in DOMAIN Madt
    BY DEF RoundOK
  <2>3. at \in Nat
    BY DEF SmpTypeOK
  <2>4. \A j \in DOMAIN Madt : j < at /\ at \in DOMAIN Madt => Madt[j] # Madt[at]
    BY <2>3, SmpAssumption
  <2> QED BY <2>1, <2>2, <2>4 DEF Id
<1>2. givenUp \subseteq givenUp'
  BY DEF SmpNext, SkipBsp, Prepare, NoMoreCpus, SetArg, ClearAck, SendInit, SendSipi, ResendSipi,
     CountIt, DidNotStart, Returned, ReadStack, ReadArg, Enter, Acknowledge, smpvars
<1>3. ASSUME NEW c \in Aps, Round => c # Id
      PROVE  ap'[c].pc = "reset" => ap[c].pc = "reset"
  <2>1. CASE UNCHANGED ap
    BY <2>1
  <2>2. CASE SendInit \/ SendSipi \/ ResendSipi
    <3>1. c # Id
      BY <1>3, <2>2 DEF SendInit, SendSipi, ResendSipi, Round
    <3> QED BY <2>2, <3>1 DEF SendInit, SendSipi, ResendSipi, Sipi, SmpTypeOK
  <2>3. ASSUME NEW d \in Aps, ReadStack(d) \/ ReadArg(d) \/ Enter(d) \/ Acknowledge(d)
        PROVE  ap'[c].pc = "reset" => ap[c].pc = "reset"
    BY <2>3 DEF ReadStack, ReadArg, Enter, Acknowledge, SmpTypeOK
  <2> QED BY <2>1, <2>2, <2>3 DEF SmpNext, SkipBsp, Prepare, NoMoreCpus, SetArg, ClearAck,
        CountIt, DidNotStart, Returned, smpvars
<1> QED BY <1>1, <1>2, <1>3

(* The facts of Base the steps below use.                                   *)
LEMMA BaseFacts ==
  ASSUME Base
  PROVE  /\ at \in Nat /\ idx \in Nat \ {0} /\ stacks \in Nat /\ cpuCount \in Nat
         /\ \A c \in Aps : ap[c].rsp \in Nat /\ ap[c].rdi \in Nat
         /\ ap = [c \in Aps |-> ap[c]]
         /\ \A c \in Aps : ap[c] = [pc |-> ap[c].pc, rsp |-> ap[c].rsp, rdi |-> ap[c].rdi]
         /\ Round => /\ Id \in Aps /\ idx \in CpuSlots /\ param.stack = stacks
                     /\ percpu[idx].stack = stacks
         /\ bsp \in {"resend", "wait"} => param.arg = idx
         /\ bsp \in {"next", "arg", "clear", "init"} /\ at \in DOMAIN Madt /\ Id \in Aps
            => ap[Id].pc = "off"
<1>1. at \in Nat /\ idx \in Nat \ {0} /\ stacks \in Nat /\ cpuCount \in Nat
  BY DEF Base, SmpTypeOK
<1>2. /\ \A c \in Aps : ap[c].rsp \in Nat /\ ap[c].rdi \in Nat
      /\ ap = [c \in Aps |-> ap[c]]
      /\ \A c \in Aps : ap[c] = [pc |-> ap[c].pc, rsp |-> ap[c].rsp, rdi |-> ap[c].rdi]
  BY DEF Base, SmpTypeOK
<1>3. Round => /\ Id \in Aps /\ idx \in CpuSlots /\ param.stack = stacks
               /\ percpu[idx].stack = stacks
  BY <1>1, SmpAssumption DEF Base, RoundOK, CpuSlots
<1>4. bsp \in {"resend", "wait"} => param.arg = idx
  BY DEF Base, RoundOK
<1>5. bsp \in {"next", "arg", "clear", "init"} /\ at \in DOMAIN Madt /\ Id \in Aps
      => ap[Id].pc = "off"
  BY <1>1 DEF Base, Fresh, Id
<1> QED BY <1>1, <1>2, <1>3, <1>4, <1>5

(* What kmain does between two rounds, and on its way to the first IPI,    *)
(* touches nobody's stack or slot.                                         *)
LEMMA OwnBetween ==
  ASSUME Base, OwnOK, SkipBsp \/ NoMoreCpus \/ SetArg \/ ClearAck \/ UNCHANGED smpvars
  PROVE  OwnOK'
<1>1. /\ UNCHANGED <<idx, cpuCount, online, percpu, stacks, ap>>
      /\ Round' = Round /\ (Round => Id' = Id)
  BY DEF SkipBsp, NoMoreCpus, SetArg, ClearAck, smpvars, Round, Id
<1>2. \/ bsp' = bsp /\ ack' = ack /\ (Round => Id' = Id)
      \/ bsp \notin {"resend", "wait"} /\ bsp' \notin {"init", "sipi", "resend", "wait"}
      \/ bsp \notin {"resend", "wait"} /\ bsp' = "init" /\ ~ack'
  BY DEF SkipBsp, NoMoreCpus, SetArg, ClearAck, AckAfter, smpvars, Round, Id
<1>3. NowOK'
  BY <1>1, <1>2 DEF OwnOK, NowOK, Now, Round
<1>4. StacksOK'
  BY <1>1 DEF OwnOK, StacksOK, Holds
<1>5. SlotsOK'
  BY <1>1 DEF OwnOK, SlotsOK, Knows, Now
<1>6. OnlineOK'
  BY <1>1 DEF OwnOK, OnlineOK
<1> QED BY <1>3, <1>4, <1>5, <1>6 DEF OwnOK

(* A new stack, above all given out; its slot is above all taken.          *)
LEMMA OwnPrepare ==
  ASSUME Base, OwnOK, Prepare
  PROVE  OwnOK'
<1> USE BaseFacts
<1>1. /\ UNCHANGED <<idx, cpuCount, online, ap, ack>> /\ stacks' = stacks + 1
      /\ ~Round /\ Round' /\ bsp' = "arg" /\ Id' = Id
      /\ \A i \in CpuSlots \ {idx} : percpu'[i] = percpu[i]
  BY DEF Prepare, Round, Id, Base, SmpTypeOK
<1>2. Id \in Aps /\ ap[Id].pc = "off" /\ idx \in CpuSlots
  <2>1. at \in DOMAIN Madt /\ idx < MaxCpus /\ bsp = "next" /\ Id # Bsp
    BY DEF Prepare, MoreCpus
  <2>2. Id \in Aps
    BY <2>1, SmpAssumption DEF Id, Aps
  <2>3. idx \in CpuSlots
    BY <2>1, SmpAssumption DEF CpuSlots
  <2>4. ap[Id].pc = "off"
    BY <2>1, <2>2 DEF Base, Fresh, Id
  <2> QED
    BY <2>2, <2>3, <2>4
<1>3. NowOK'
  BY <1>1 DEF OwnOK, NowOK, Now
<1>4. StacksOK'
  BY <1>1, <1>2 DEF OwnOK, StacksOK, Holds
<1>5. SlotsOK'
  <2>1. \A c \in Aps : Knows(c) => ap[c].rdi >= 1 /\ ap[c].rdi < idx /\ c # Id
    BY <1>1, <1>2 DEF OwnOK, SlotsOK, Knows, Now
  <2>2. \A c \in Aps : Knows(c) => ap[c].rdi \in CpuSlots \ {idx}
    BY <2>1, <1>2, SmpAssumption DEF CpuSlots
  <2> QED BY <1>1, <2>1, <2>2 DEF OwnOK, SlotsOK, Knows, Now, Running
<1>6. OnlineOK'
  BY <1>1, <1>2 DEF OwnOK, OnlineOK, Running
<1> QED BY <1>3, <1>4, <1>5, <1>6 DEF OwnOK

(* An IPI starts the processor of the round and no other.                  *)
LEMMA OwnSend ==
  ASSUME Base, OwnOK, SendInit \/ SendSipi \/ ResendSipi
  PROVE  OwnOK'
<1> USE BaseFacts
<1>1. /\ UNCHANGED <<at, idx, cpuCount, online, ack, percpu, stacks>>
      /\ Round /\ Round' /\ Id' = Id /\ Id \in Aps
      /\ bsp \in {"init", "sipi", "resend"} /\ bsp' \in {"sipi", "resend", "wait"}
  BY DEF SendInit, SendSipi, ResendSipi, Round, Id
<1>2. \/ ap' = ap
      \/ ap[Id].pc = "off" /\ bsp = "init" /\ ap' = [ap EXCEPT ![Id].pc = "reset"]
      \/ ap[Id].pc = "reset" /\ bsp' \in {"resend", "wait"} /\ ap' = [ap EXCEPT ![Id].pc = "stack"]
  <2>1. bsp = "init" => ap[Id].pc = "off"
    BY <1>1 DEF Base, RoundOK
  <2>2. CASE SendInit
    BY <2>1, <2>2 DEF SendInit
  <2>3. CASE SendSipi \/ ResendSipi
    BY <2>3 DEF SendSipi, ResendSipi, Sipi
  <2> QED BY <2>2, <2>3
<1>3. (bsp \in {"init", "sipi"} /\ bsp' = "sipi") \/ bsp' \in {"resend", "wait"}
  BY DEF SendInit, SendSipi, ResendSipi
<1>4. \A c \in Aps :
        /\ ap'[c].rsp = ap[c].rsp /\ ap'[c].rdi = ap[c].rdi
        /\ \/ ap'[c].pc = ap[c].pc
           \/ c = Id /\ ap[c].pc \in {"off", "reset"} /\ ap'[c].pc = "reset"
           \/ c = Id /\ ap[c].pc \in {"off", "reset"} /\ ap'[c].pc = "stack" /\ bsp' \in {"resend", "wait"}
  BY <1>1, <1>2 DEF Base, SmpTypeOK
<1>5. NowOK'
  BY <1>1, <1>3, <1>4 DEF OwnOK, NowOK, Now
<1>6. StacksOK'
  BY <1>1, <1>4 DEF OwnOK, StacksOK, Holds
<1>7. SlotsOK'
  BY <1>1, <1>4 DEF OwnOK, SlotsOK, Knows, Now, Running
<1>8. OnlineOK'
  BY <1>1, <1>4 DEF OwnOK, OnlineOK, Running
<1> QED BY <1>5, <1>6, <1>7, <1>8 DEF OwnOK

(* A round ends with its processor counted, or given up and not started.   *)
LEMMA OwnEnds ==
  ASSUME Base, OwnOK, NoneLate', CountIt \/ DidNotStart
  PROVE  OwnOK'
<1> USE BaseFacts
<1>1. /\ UNCHANGED <<online, percpu, stacks, ap>>
      /\ Round /\ ~Round' /\ Id \in Aps
      /\ bsp = "wait" /\ bsp' = "next"
  BY DEF CountIt, DidNotStart, Round
<1>2. \/ idx' = idx + 1 /\ cpuCount' = cpuCount + 1 /\ ap[Id].pc = "idle"
      \/ idx' = idx /\ cpuCount' = cpuCount /\ ap[Id].pc = "reset"
  <2>1. CASE CountIt
    BY <2>1 DEF CountIt, NextIdx, OwnOK, NowOK
  <2>2. CASE DidNotStart
    BY <2>2 DEF DidNotStart, NoneLate
  <2> QED BY <2>1, <2>2
<1>3. NowOK'
  BY <1>1, <1>2 DEF OwnOK, NowOK, Now
<1>4. StacksOK'
  BY <1>1 DEF OwnOK, StacksOK, Holds
<1>5. SlotsOK'
  <2>1. \A c \in Aps : Knows(c) => ap[c].rdi >= 1 /\ ap[c].rdi < idx'
    BY <1>1, <1>2 DEF OwnOK, SlotsOK, Knows, Now
  <2> QED BY <1>1, <2>1 DEF OwnOK, SlotsOK, Knows, Now
<1>6. OnlineOK'
  BY <1>1, <1>2 DEF OwnOK, OnlineOK, Running
<1> QED BY <1>3, <1>4, <1>5, <1>6 DEF OwnOK

(* What the steps of a processor have in common.                            *)
LEMMA OwnNow ==
  ASSUME Base, OwnOK, NEW c \in Aps, ap[c].pc \in {"stack", "arg", "entry", "ack"}
  PROVE  /\ c = Id /\ Round /\ bsp \in {"resend", "wait"} /\ ~ack
         /\ \A d \in Aps \ {c} : ap[d].pc \in {"off", "reset", "idle"}
BY DEF OwnOK, NowOK, Now, Base, SmpTypeOK, InTrampoline, Running

(* The trampoline reads the parameters of its own round.                   *)
LEMMA OwnReads ==
  ASSUME Base, OwnOK, NEW c \in Aps, ReadStack(c) \/ ReadArg(c)
  PROVE  OwnOK'
<1> USE BaseFacts
<1>1. /\ UNCHANGED <<bsp, at, idx, cpuCount, online, ack, percpu, stacks>>
      /\ ap[c].pc \in {"stack", "arg"} /\ Id' = Id /\ Round' = Round
  BY DEF ReadStack, ReadArg, Id, Round
<1>2. /\ c = Id /\ Round /\ bsp \in {"resend", "wait"} /\ ~ack
      /\ \A d \in Aps \ {c} : ap[d].pc \in {"off", "reset", "idle"}
  BY <1>1, OwnNow
<1>3. \A d \in Aps \ {c} : ap'[d] = ap[d]
  BY DEF ReadStack, ReadArg
<1>4. /\ ap'[c].rsp = stacks
      /\ \/ ap'[c].pc = "arg"
         \/ ap'[c].pc = "entry" /\ ap'[c].rdi = idx
  <2>1. CASE ReadStack(c)
    BY <2>1, <1>2 DEF ReadStack
  <2>2. CASE ReadArg(c)
    BY <2>2, <1>2 DEF ReadArg, OwnOK, StacksOK, Holds
  <2> QED BY <2>1, <2>2
<1>5. NowOK'
  BY <1>1, <1>2, <1>3 DEF OwnOK, NowOK, Now
<1>6. StacksOK'
  BY <1>1, <1>2, <1>3, <1>4 DEF OwnOK, StacksOK, Holds
<1>7. SlotsOK'
  BY <1>1, <1>2, <1>3, <1>4 DEF OwnOK, SlotsOK, Knows, Now, Running
<1>8. OnlineOK'
  BY <1>1, <1>2, <1>4 DEF OwnOK, OnlineOK, Running
<1> QED BY <1>5, <1>6, <1>7, <1>8 DEF OwnOK

(* ap_entry64 writes the slot of its own round.                            *)
LEMMA OwnEnter ==
  ASSUME Base, OwnOK, NEW c \in Aps, Enter(c)
  PROVE  OwnOK'
<1> USE BaseFacts
<1>1. /\ UNCHANGED <<bsp, at, idx, cpuCount, ack, stacks>> /\ online' = online + 1
      /\ ap[c].pc = "entry" /\ Id' = Id /\ Round' = Round
      /\ ap'[c].pc = "ack" /\ ap'[c].rsp = ap[c].rsp /\ ap'[c].rdi = ap[c].rdi
      /\ \A d \in Aps \ {c} : ap'[d] = ap[d]
  BY DEF Enter, Id, Round
<1>2. /\ c = Id /\ Round /\ bsp \in {"resend", "wait"} /\ ~ack
      /\ \A d \in Aps \ {c} : ap[d].pc \in {"off", "reset", "idle"}
  BY <1>1, OwnNow
<1>3. ap[c].rdi = idx /\ ap[c].rsp = stacks
  BY <1>1, <1>2 DEF OwnOK, SlotsOK, StacksOK, Knows, Holds, Now
<1>4. percpu'[idx] = [lapic |-> c, stack |-> stacks, online |-> TRUE]
  <2>1. percpu \in [CpuSlots -> [lapic : Lapics, stack : Nat, online : BOOLEAN]]
    BY DEF Base, SmpTypeOK
  <2>2. percpu' = [percpu EXCEPT ![idx].online = TRUE, ![idx].lapic = c]
    BY <1>3 DEF Enter
  <2>3. idx \in CpuSlots /\ percpu[idx].stack = stacks
    BY <1>2
  <2> QED BY ZenonT(30), <2>1, <2>2, <2>3
<1>5. \A i \in CpuSlots \ {idx} : percpu'[i] = percpu[i]
  BY <1>3 DEF Enter, Base, SmpTypeOK
<1>6. NowOK'
  BY <1>1, <1>2 DEF OwnOK, NowOK, Now
<1>7. StacksOK'
  BY <1>1, <1>2 DEF OwnOK, StacksOK, Holds
<1>8. SlotsOK'
  <2>1. \A d \in Aps : Knows(d)' => ap'[d].rdi >= 1 /\ IF Now(d)' THEN ap'[d].rdi = idx' ELSE ap'[d].rdi < idx'
    BY <1>1, <1>2, <1>3 DEF OwnOK, SlotsOK, Knows, Now
  <2>2. \A d \in Aps \ {c} : Knows(d) => ap[d].rdi \in CpuSlots \ {idx}
    <3>1. \A d \in Aps \ {c} : Knows(d) => ap[d].rdi >= 1 /\ ap[d].rdi < idx
      BY <1>2 DEF OwnOK, SlotsOK, Now
    <3> QED BY <1>2, <3>1, SmpAssumption DEF CpuSlots
  <2>3. \A d \in Aps : ap'[d].pc \in Running =>
          percpu'[ap'[d].rdi] = [lapic |-> d, stack |-> ap'[d].rsp, online |-> TRUE]
    <3>1. \A d \in Aps \ {c} : ap[d].pc \in Running =>
            Knows(d) /\ percpu[ap[d].rdi] = [lapic |-> d, stack |-> ap[d].rsp, online |-> TRUE]
      BY DEF OwnOK, SlotsOK, Knows, Running
    <3>2. ASSUME NEW d \in Aps \ {c}, ap'[d].pc \in Running
          PROVE  percpu'[ap'[d].rdi] = [lapic |-> d, stack |-> ap'[d].rsp, online |-> TRUE]
      BY <1>1, <1>5, <2>2, <3>1, <3>2
    <3>3. percpu'[ap'[c].rdi] = [lapic |-> c, stack |-> ap'[c].rsp, online |-> TRUE]
      BY <1>1, <1>3, <1>4
    <3> QED BY <3>2, <3>3
  <2> QED BY <2>1, <2>3 DEF SlotsOK
<1>9. OnlineOK'
  BY <1>1, <1>2 DEF OwnOK, OnlineOK, Running, Base, SmpTypeOK
<1> QED BY <1>6, <1>7, <1>8, <1>9 DEF OwnOK

(* An acknowledgement is that of the round's processor.                    *)
LEMMA OwnAcknowledge ==
  ASSUME Base, OwnOK, NEW c \in Aps, Acknowledge(c)
  PROVE  OwnOK'
<1> USE BaseFacts
<1>1. /\ UNCHANGED <<bsp, at, idx, cpuCount, online, percpu, stacks>> /\ ack'
      /\ ap[c].pc = "ack" /\ Id' = Id /\ Round' = Round
      /\ ap'[c].pc = "idle" /\ ap'[c].rsp = ap[c].rsp /\ ap'[c].rdi = ap[c].rdi
      /\ \A d \in Aps \ {c} : ap'[d] = ap[d]
  BY DEF Acknowledge, Id, Round
<1>2. /\ c = Id /\ Round /\ bsp \in {"resend", "wait"}
      /\ \A d \in Aps \ {c} : ap[d].pc \in {"off", "reset", "idle"}
  BY <1>1, OwnNow
<1>3. NowOK'
  BY <1>1, <1>2 DEF OwnOK, NowOK, Now
<1>4. StacksOK'
  BY <1>1, <1>2 DEF OwnOK, StacksOK, Holds
<1>5. SlotsOK'
  BY <1>1, <1>2 DEF OwnOK, SlotsOK, Knows, Now, Running
<1>6. OnlineOK'
  BY <1>1, <1>2 DEF OwnOK, OnlineOK, Running
<1> QED BY <1>3, <1>4, <1>5, <1>6 DEF OwnOK

(* Every step keeps OwnOK unless somebody becomes late.                    *)
LEMMA OwnStep ==
  ASSUME Base, NoneLate => OwnOK, [SmpNext]_smpvars
  PROVE  (NoneLate => OwnOK)'
<1> SUFFICES ASSUME NoneLate' PROVE OwnOK'
  OBVIOUS
<1>1. OwnOK
  BY LateStaysLate
<1> QED BY <1>1, OwnBetween, OwnPrepare, OwnSend, OwnEnds, OwnReads, OwnEnter, OwnAcknowledge
        DEF SmpNext, Returned

(* For any number of processors and any table: unless one that was given up *)
(* is on its way, every processor in ap_entry64 has the stack and the slot  *)
(* of g_cpus that kernel/smp.c:106-119 prepared for it and shares neither,  *)
(* and in the end all that run are counted.                                 *)
THEOREM EachHasItsPlace == SmpSpec => []OwnPlace
<1>1. SmpInit => (NoneLate => OwnOK)
  BY DEF SmpInit, OwnOK, NowOK, StacksOK, SlotsOK, OnlineOK, Holds, Knows, Now, Round, Running
<1>2. Base /\ (NoneLate => OwnOK) /\ [SmpNext]_smpvars => (NoneLate => OwnOK)'
  BY OwnStep
<1>3. Base /\ (NoneLate => OwnOK) => OwnPlace
  <2> SUFFICES ASSUME Base, OwnOK PROVE OwnPlace
    BY DEF OwnPlace
  <2>1. ASSUME NEW c \in Aps, ap[c].pc \in Running
        PROVE  /\ ap[c].rdi # 0
               /\ percpu[ap[c].rdi] = [lapic |-> c, stack |-> ap[c].rsp, online |-> TRUE]
    BY <2>1, BaseFacts DEF OwnOK, SlotsOK, Knows, Running
  <2>2. ASSUME NEW c \in Aps, NEW d \in Aps \ {c}, ap[c].pc \in Running, ap[d].pc \in Running
        PROVE  ap[c].rdi # ap[d].rdi /\ ap[c].rsp # ap[d].rsp
    <3>1. percpu[ap[c].rdi] = [lapic |-> c, stack |-> ap[c].rsp, online |-> TRUE]
      BY <2>1, <2>2
    <3>3. percpu[ap[d].rdi] = [lapic |-> d, stack |-> ap[d].rsp, online |-> TRUE]
      BY <2>1, <2>2
    <3>2. ap[c].rsp # ap[d].rsp
      BY <2>2 DEF OwnOK, StacksOK, Holds, Running
    <3> QED BY <3>1, <3>2, <3>3
  <2>3. bsp = "done" => cpuCount = online
    BY BaseFacts DEF OwnOK, OnlineOK, Round
  <2> QED BY <2>1, <2>2, <2>3 DEF OwnPlace
<1> QED BY BaseInv, <1>1, <1>2, <1>3, PTL DEF SmpSpec
=============================================================================
