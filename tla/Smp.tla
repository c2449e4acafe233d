-------------------------------- MODULE Smp --------------------------------
(***************************************************************************)
(* Starting the application processors (kernel/smp.c, kernel/ap_boot.asm).  *)
(* The boot processor prepares one parameter block, sends INIT and two      *)
(* SIPIs, waits up to 100 ms for the acknowledgement, and goes on to the    *)
(* next processor whether it came or not.  A processor may ignore a SIPI,   *)
(* and runs the trampoline at its own pace: it can be still running it, or  *)
(* acknowledge, when the wait is over and the block is another's.           *)
(***************************************************************************)
EXTENDS Integers, FiniteSets, Sequences

CONSTANTS
  Lapics,   (* the local APICs' ids                                         *)
  Bsp,      (* the boot processor's                                         *)
  Madt,     (* acpi_info.cpu_lapic_id, in the order of the MADT              *)
  MaxCpus   (* SMP_MAX_CPUS                                                 *)

ASSUME SmpAssumption ==
  /\ IsFiniteSet(Lapics) /\ Bsp \in Lapics
  /\ Madt \in Seq(Lapics)
  /\ \A i, j \in DOMAIN Madt : Madt[i] = Madt[j] => i = j
  /\ MaxCpus \in Nat \ {0}

Aps == Lapics \ {Bsp}
CpuSlots == 0 .. MaxCpus - 1

VARIABLES
  bsp,       (* where smp_init is                                           *)
  at,        (* i                                                           *)
  idx,       (* idx                                                         *)
  cpuCount,  (* g_cpu_count                                                 *)
  online,    (* g_online                                                    *)
  ack,       (* g_ap_ack                                                    *)
  param,     (* the parameter block: param[1] and param[3]                  *)
  percpu,    (* g_cpus: lapic_id, kernel_stack, online                      *)
  stacks,    (* the stacks kmalloc has returned are 1 .. stacks             *)
  ap,        (* each AP: how far it is; its RSP and RDI                     *)
  givenUp    (* history: the APs smp_init has stopped waiting for           *)

smpvars == <<bsp, at, idx, cpuCount, online, ack, param, percpu, stacks, ap, givenUp>>

NoCpu == [lapic |-> Bsp, stack |-> 0, online |-> FALSE]
InTrampoline == {"stack", "arg", "entry"}
Running == {"ack", "idle"}   (* in ap_entry64, past the count of g_online *)

SmpTypeOK ==
  /\ bsp \in {"next", "arg", "clear", "init", "sipi", "resend", "wait", "done"}
  /\ at \in Nat \ {0} /\ idx \in Nat \ {0} /\ stacks \in Nat
  /\ cpuCount \in Nat /\ online \in Nat
  /\ ack \in BOOLEAN
  /\ param \in [stack : Nat, arg : Nat]
  /\ percpu \in [CpuSlots -> [lapic : Lapics, stack : Nat, online : BOOLEAN]]
  /\ ap \in [Aps -> [pc : {"off", "reset"} \union InTrampoline \union Running,
                     rsp : Nat, rdi : Nat]]
  /\ givenUp \subseteq Aps

SmpInit ==
  /\ bsp = "next" /\ at = 1 /\ idx = 1
  /\ cpuCount = 1 /\ online = 1 /\ ack = FALSE
  /\ param = [stack |-> 0, arg |-> 0]
  /\ percpu = [i \in CpuSlots |-> [NoCpu EXCEPT !.online = i = 0]]
  /\ stacks = 0
  /\ ap = [c \in Aps |-> [pc |-> "off", rsp |-> 0, rdi |-> 0]]
  /\ givenUp = {}

(* The processor this round is for.                                         *)
Id == Madt[at]
MoreCpus == at \in DOMAIN Madt /\ idx < MaxCpus

SkipBsp ==
  /\ bsp = "next" /\ MoreCpus /\ Id = Bsp
  /\ at' = at + 1
  /\ UNCHANGED <<bsp, idx, cpuCount, online, ack, param, percpu, stacks, ap, givenUp>>

(* The per-CPU block, and the first half of the parameter block.            *)
Prepare ==
  /\ bsp = "next" /\ MoreCpus /\ Id # Bsp
  /\ stacks' = stacks + 1
  /\ percpu' = [percpu EXCEPT ![idx] = [lapic |-> Id, stack |-> stacks', online |-> FALSE]]
  /\ param' = [param EXCEPT !.stack = stacks']
  /\ bsp' = "arg"
  /\ UNCHANGED <<at, idx, cpuCount, online, ack, ap, givenUp>>

(* kmalloc fails, or there is no processor or no slot left.                 *)
NoMoreCpus ==
  /\ bsp = "next" /\ (MoreCpus => Id # Bsp)
  /\ bsp' = "done"
  /\ UNCHANGED <<at, idx, cpuCount, online, ack, param, percpu, stacks, ap, givenUp>>

SetArg ==
  /\ bsp = "arg"
  /\ param' = [param EXCEPT !.arg = idx]
  /\ bsp' = "clear"
  /\ UNCHANGED <<at, idx, cpuCount, online, ack, percpu, stacks, ap, givenUp>>

(* Mutant of AckAfter: g_ap_ack keeps the last processor's acknowledgement.  *)
AckKept == ack
AckAfter == FALSE

ClearAck ==
  /\ bsp = "clear"
  /\ ack' = AckAfter
  /\ bsp' = "init"
  /\ UNCHANGED <<at, idx, cpuCount, online, param, percpu, stacks, ap, givenUp>>

SendInit ==
  /\ bsp = "init"
  /\ ap' = [ap EXCEPT ![Id].pc = "reset"]
  /\ bsp' = "sipi"
  /\ UNCHANGED <<at, idx, cpuCount, online, ack, param, percpu, stacks, givenUp>>

(* A SIPI starts a processor that waits for one, or is lost.                *)
Sipi ==
  \/ UNCHANGED ap
  \/ ap[Id].pc = "reset" /\ ap' = [ap EXCEPT ![Id].pc = "stack"]

SendSipi ==
  /\ bsp = "sipi"
  /\ Sipi
  /\ bsp' = "resend"
  /\ UNCHANGED <<at, idx, cpuCount, online, ack, param, percpu, stacks, givenUp>>

ResendSipi ==
  /\ bsp = "resend"
  /\ IF ack THEN UNCHANGED ap ELSE Sipi
  /\ bsp' = "wait"
  /\ UNCHANGED <<at, idx, cpuCount, online, ack, param, percpu, stacks, givenUp>>

(* Mutant of NextIdx: a slot is kept for the next processor.                 *)
IdxKept == idx
NextIdx == idx + 1

CountIt ==
  /\ bsp = "wait" /\ ack
  /\ cpuCount' = cpuCount + 1
  /\ idx' = NextIdx
  /\ at' = at + 1
  /\ bsp' = "next"
  /\ UNCHANGED <<online, ack, param, percpu, stacks, ap, givenUp>>

DidNotStart ==
  /\ bsp = "wait" /\ ~ack
  /\ givenUp' = givenUp \union {Id}
  /\ at' = at + 1
  /\ bsp' = "next"
  /\ UNCHANGED <<idx, cpuCount, online, ack, param, percpu, stacks, ap>>

(* lm64 in the trampoline reads RSP, then RDI, out of the block.            *)
ReadStack(c) ==
  /\ ap[c].pc = "stack"
  /\ ap' = [ap EXCEPT ![c].rsp = param.stack, ![c].pc = "arg"]
  /\ UNCHANGED <<bsp, at, idx, cpuCount, online, ack, param, percpu, stacks, givenUp>>

ReadArg(c) ==
  /\ ap[c].pc = "arg"
  /\ ap' = [ap EXCEPT ![c].rdi = param.arg, ![c].pc = "entry"]
  /\ UNCHANGED <<bsp, at, idx, cpuCount, online, ack, param, percpu, stacks, givenUp>>

(* ap_entry64 on the slot RDI names.                                        *)
Enter(c) ==
  /\ ap[c].pc = "entry"
  /\ percpu' = [percpu EXCEPT ![ap[c].rdi].online = TRUE, ![ap[c].rdi].lapic = c]
  /\ online' = online + 1
  /\ ap' = [ap EXCEPT ![c].pc = "ack"]
  /\ UNCHANGED <<bsp, at, idx, cpuCount, ack, param, stacks, givenUp>>

Acknowledge(c) ==
  /\ ap[c].pc = "ack"
  /\ ack' = TRUE
  /\ ap' = [ap EXCEPT ![c].pc = "idle"]
  /\ UNCHANGED <<bsp, at, idx, cpuCount, online, param, percpu, stacks, givenUp>>

(* smp_init has returned; processors that are up halt for good.             *)
Returned == bsp = "done" /\ UNCHANGED smpvars

SmpNext ==
  \/ SkipBsp \/ Prepare \/ NoMoreCpus \/ SetArg \/ ClearAck
  \/ SendInit \/ SendSipi \/ ResendSipi \/ CountIt \/ DidNotStart \/ Returned
  \/ \E c \in Aps : ReadStack(c) \/ ReadArg(c) \/ Enter(c) \/ Acknowledge(c)

SmpSpec == SmpInit /\ [][SmpNext]_smpvars

---------------------------------------------------------------------------
(* Properties.                                                              *)

(* smp_cpu_count() never counts a processor that is not running in          *)
(* ap_entry64, however late the processors answer: an acknowledgement that  *)
(* comes after its wait stands for one processor, in another's round.       *)
CountedAreOnline == cpuCount <= 1 + Cardinality({c \in Aps : ap[c].pc \in Running})

(* No processor that was given up is on its way after all.                  *)
NoneLate == \A c \in givenUp : ap[c].pc = "reset"

(* Unless one that was given up is on its way: every running processor has  *)
(* the stack and the slot that were prepared for it and shares neither, its *)
(* slot says online, and when smp_init is done all that run are counted.    *)
(* (With a late one, two processors can be on one stack.)                   *)
OwnPlace ==
  NoneLate =>
    /\ \A c \in Aps : ap[c].pc \in Running =>
         /\ ap[c].rdi # 0
         /\ percpu[ap[c].rdi] = [lapic |-> c, stack |-> ap[c].rsp, online |-> TRUE]
         /\ \A d \in Aps \ {c} : ap[d].pc \in Running =>
              ap[c].rdi # ap[d].rdi /\ ap[c].rsp # ap[d].rsp
    /\ bsp = "done" => cpuCount = online
=============================================================================
