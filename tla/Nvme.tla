-------------------------------- MODULE Nvme --------------------------------
(***************************************************************************)
(* The I/O queue pair of drivers/nvme.c: nvme_rw cuts a request into        *)
(* chunks, moves each through one bounce page, and submit puts one command  *)
(* on the ring and waits for the phase bit of the next completion.          *)
(*                                                                          *)
(* kmain waits in hlt with IF set and is preempted anywhere; a program's    *)
(* SYS_OPEN or SYS_WRITE saves the file system and so runs a whole nvme_rw  *)
(* with IF clear.  The controller fetches and completes on its own, in any  *)
(* order, now or after submit has given up.                                 *)
(***************************************************************************)
EXTENDS Integers, FiniteSets, SequencesExt

CONSTANTS
  Depth,      (* QDEPTH                                                     *)
  CidSpace,   (* the values of nv.cid, 2^16                                 *)
  LastBlock,  (* the namespace is the chunks 0 .. LastBlock                 *)
  Values,     (* what a chunk may hold                                      *)
  NoData,     (* a read brings none                                         *)
  MaxLate     (* bound: how often submit may time out                       *)

ASSUME NvmeAssumption ==
  /\ Depth \in Nat /\ Depth >= 2
  /\ CidSpace \in Nat /\ CidSpace >= 1
  /\ {LastBlock, MaxLate} \subseteq Nat
  /\ Values # {} /\ NoData \notin Values

Callers == {"kmain", "program"}
Slots == 0 .. Depth - 1
Blocks == 0 .. LastBlock
Cids == 0 .. CidSpace - 1
Commands == [cid : Cids, write : BOOLEAN, block : Blocks]

VARIABLES
  sq, cq,          (* the rings: commands; phase bit, status, cid           *)
  sqTail, cqHead,  (* nvme_queue, and the doorbells                         *)
  phase,           (* the phase bit submit waits for                        *)
  cid,             (* nv.cid                                                *)
  bounce,          (* the bounce page                                       *)
  call,            (* kmain's and the program's nvme_rw and submit          *)
  (* the controller *)
  sqHead, cqTail, devPhase,
  fetched,         (* the commands it works on, in the order fetched       *)
  media,
  (* history *)
  clash,           (* a program's call has begun inside a chunk of kmain's  *)
  late             (* how often submit has timed out                        *)

hostvars == <<sqTail, cqHead, phase, cid, call, clash, late>>
devvars == <<sqHead, cqTail, devPhase, fetched, media>>
nvmevars == <<sq, cq, sqTail, cqHead, phase, cid, bounce, call,
              sqHead, cqTail, devPhase, fetched, media, clash, late>>

Steps == {"idle", "copy", "fill", "ring", "look", "wait", "out"}
NoCall == [pc |-> "idle", write |-> FALSE, at |-> 0, end |-> 0, cid |-> 0, slot |-> 0,
           data |-> NoData]

NvmeTypeOK ==
  /\ sq \in [Slots -> Commands]
  /\ cq \in [Slots -> [phase : {0, 1}, ok : BOOLEAN, cid : Cids]]
  /\ {sqTail, cqHead, sqHead, cqTail} \subseteq Slots
  /\ {phase, devPhase} \subseteq {0, 1}
  /\ cid \in Cids
  /\ bounce \in Values
  /\ call \in [Callers -> [pc : Steps, write : BOOLEAN, at : 0 .. LastBlock + 1,
                           end : 0 .. LastBlock + 1, cid : Cids, slot : Slots,
                           data : Values \union {NoData}]]
  /\ \A w \in Callers : call[w].write => call[w].data \in Values
  /\ \A w \in Callers : call[w].pc # "idle" => call[w].at < call[w].end
  /\ fetched \in Seq(Commands)
  /\ media \in [Blocks -> Values]
  /\ clash \in BOOLEAN
  /\ late \in 0 .. MaxLate

Next1(i) == IF i = Depth - 1 THEN 0 ELSE i + 1

(* alloc_queue, after identify and the creation of the queues.              *)
NvmeInit ==
  /\ sq = [i \in Slots |-> [cid |-> 0, write |-> FALSE, block |-> 0]]
  /\ cq = [i \in Slots |-> [phase |-> 0, ok |-> TRUE, cid |-> 0]]
  /\ sqTail = 0 /\ cqHead = 0 /\ sqHead = 0 /\ cqTail = 0
  /\ phase = 1 /\ devPhase = 1
  /\ cid = 0
  /\ call = [w \in Callers |-> NoCall]
  /\ \E v \in Values : /\ bounce = v
                       /\ media = [b \in Blocks |-> v]
  /\ fetched = <<>>
  /\ clash = FALSE
  /\ late = 0

---------------------------------------------------------------------------
(* A program's call runs from its first step to its last.                   *)
Runs(w) == w = "program" \/ call["program"].pc = "idle"

At(w, pc) == Runs(w) /\ call[w].pc = pc

(* blk_read and blk_write check the range; nvme_rw begins.  A program may   *)
(* call wherever kmain stands; only between two chunks is that harmless.    *)
Begin(w, write, from, to, v) ==
  /\ At(w, "idle")
  /\ from < to
  /\ call' = [call EXCEPT ![w] = [NoCall EXCEPT !.pc = "copy", !.write = write,
                                                !.at = from, !.end = to,
                                                !.data = IF write THEN v ELSE NoData]]
  /\ clash' = (clash \/ call["kmain"].pc \notin {"idle", "copy"})
  /\ UNCHANGED <<sq, cq, sqTail, cqHead, phase, cid, bounce, devvars, late>>

(* The chunk's data goes to the bounce page.                                *)
Copy(w) ==
  /\ At(w, "copy")
  /\ bounce' = IF call[w].write THEN call[w].data ELSE bounce
  /\ call' = [call EXCEPT ![w].pc = "fill"]
  /\ UNCHANGED <<sq, cq, sqTail, cqHead, phase, cid, devvars, clash, late>>

(* submit: the entry at sq_tail.                                            *)
Fill(w) ==
  /\ At(w, "fill")
  /\ sq' = [sq EXCEPT ![sqTail] =
              [cid |-> cid, write |-> call[w].write, block |-> call[w].at]]
  /\ cid' = (cid + 1) % CidSpace
  /\ call' = [call EXCEPT ![w].pc = "ring", ![w].cid = cid]
  /\ UNCHANGED <<cq, sqTail, cqHead, phase, bounce, devvars, clash, late>>

(* Mutant of Ring: the tail does not wrap.                                  *)
RingUnwrapped(w) ==
  /\ At(w, "ring")
  /\ sqTail' = sqTail + 1
  /\ call' = [call EXCEPT ![w].pc = "look"]
  /\ UNCHANGED <<sq, cq, cqHead, phase, cid, bounce, devvars, clash, late>>

(* The tail moves and the doorbell is rung.                                 *)
Ring(w) ==
  /\ At(w, "ring")
  /\ sqTail' = Next1(sqTail)
  /\ call' = [call EXCEPT ![w].pc = "look"]
  /\ UNCHANGED <<sq, cq, cqHead, phase, cid, bounce, devvars, clash, late>>

(* The completion to wait for is read off cq_head once.                     *)
Look(w) ==
  /\ At(w, "look")
  /\ call' = [call EXCEPT ![w].pc = "wait", ![w].slot = cqHead]
  /\ UNCHANGED <<sq, cq, sqTail, cqHead, phase, cid, bounce, devvars, clash, late>>

(* nvme_rw returns, or goes on to the next chunk.                           *)
NextChunk(w) ==
  IF call[w].at + 1 = call[w].end
  THEN [call EXCEPT ![w] = NoCall]
  ELSE [call EXCEPT ![w].pc = "copy", ![w].at = @ + 1]

AfterTake(w) ==
  IF ~cq[call[w].slot].ok THEN [call EXCEPT ![w] = NoCall]
  ELSE IF call[w].write THEN NextChunk(w)
  ELSE [call EXCEPT ![w].pc = "out"]

(* Mutants of TakeCompletion: the phase is not toggled; the head stays.     *)
TakeSamePhase(w) ==
  /\ At(w, "wait")
  /\ cq[call[w].slot].phase = phase
  /\ cqHead' = Next1(cqHead)
  /\ phase' = phase
  /\ call' = AfterTake(w)
  /\ UNCHANGED <<sq, cq, sqTail, cid, bounce, devvars, clash, late>>

TakeInPlace(w) ==
  /\ At(w, "wait")
  /\ cq[call[w].slot].phase = phase
  /\ call' = AfterTake(w)
  /\ UNCHANGED <<sq, cq, sqTail, cqHead, phase, cid, bounce, devvars, clash, late>>

(* The phase bit is the one expected now: the completion is taken, whatever *)
(* its cid.  A status other than 0 ends the request.                        *)
TakeCompletion(w) ==
  /\ At(w, "wait")
  /\ cq[call[w].slot].phase = phase
  /\ cqHead' = Next1(cqHead)
  /\ phase' = IF cqHead' = 0 THEN 1 - phase ELSE phase
  /\ call' = AfterTake(w)
  /\ UNCHANGED <<sq, cq, sqTail, cid, bounce, devvars, clash, late>>

(* Five million turns: submit returns -1 and leaves the command behind.     *)
Timeout(w) ==
  /\ At(w, "wait")
  /\ cq[call[w].slot].phase # phase
  /\ late < MaxLate
  /\ late' = late + 1
  /\ call' = [call EXCEPT ![w] = NoCall]
  /\ UNCHANGED <<sq, cq, sqTail, cqHead, phase, cid, bounce, devvars, clash>>

(* A read: the caller is given the bounce page.                             *)
Out(w) ==
  /\ At(w, "out")
  /\ call' = NextChunk(w)
  /\ UNCHANGED <<sq, cq, sqTail, cqHead, phase, cid, bounce, devvars, clash, late>>

---------------------------------------------------------------------------
(* The controller.                                                          *)

DevFetch ==
  /\ sqHead # sqTail
  /\ fetched' = Append(fetched, sq[sqHead])
  /\ sqHead' = Next1(sqHead)
  /\ UNCHANGED <<sq, cq, bounce, hostvars, cqTail, devPhase, media>>

(* Data moves between the bounce page and the media unless the command      *)
(* fails, then the completion is posted; one slot of the ring stays free.   *)
DevComplete(i, ok) ==
  LET c == fetched[i]
  IN  /\ Next1(cqTail) # cqHead
      /\ media' = IF ok /\ c.write THEN [media EXCEPT ![c.block] = bounce] ELSE media
      /\ bounce' = IF ok /\ ~c.write THEN media[c.block] ELSE bounce
      /\ cq' = [cq EXCEPT ![cqTail] = [phase |-> devPhase, ok |-> ok, cid |-> c.cid]]
      /\ cqTail' = Next1(cqTail)
      /\ devPhase' = IF cqTail' = 0 THEN 1 - devPhase ELSE devPhase
      /\ fetched' = RemoveAt(fetched, i)
      /\ UNCHANGED <<sq, sqHead, hostvars>>

NvmeNext ==
  \/ \E w \in Callers : \E write \in BOOLEAN, from, to \in 0 .. LastBlock + 1, v \in Values :
       Begin(w, write, from, to, v)
  \/ \E w \in Callers :
       Copy(w) \/ Fill(w) \/ Ring(w) \/ Look(w) \/ TakeCompletion(w) \/ Timeout(w) \/ Out(w)
  \/ DevFetch
  \/ \E i \in 1 .. Len(fetched), ok \in BOOLEAN : DevComplete(i, ok)

NvmeSpec == NvmeInit /\ [][NvmeNext]_nvmevars

---------------------------------------------------------------------------
(* Commands rung and not fetched, and completions posted and not taken.     *)
Ahead(from, to) == IF from <= to THEN to - from ELSE to + Depth - from
Outstanding == Ahead(sqHead, sqTail) + Len(fetched) + Ahead(cqHead, cqTail)
Waiting == {w \in Callers : call[w].pc \in {"look", "wait"}}

(* submit's "one command outstanding at a time": while no program's call    *)
(* falls inside a chunk of kmain's, what is outstanding is the command      *)
(* waited for and one more for every timeout there ever was; the queue      *)
(* never catches up.                                                        *)
BehindByTimeouts ==
  ~clash /\ late < Depth - 1 => Outstanding = Cardinality(Waiting) + late

(* nvme_rw: a chunk that ends well has moved the caller's data to its own   *)
(* block or its block's data to the caller, across retries, errors, wrapped *)
(* rings and toggled phases, and with programs' calls between kmain's       *)
(* chunks.                                                                  *)
WritesWell(w) ==
  /\ call[w].pc = "wait" /\ call[w].write
  /\ call' = NextChunk(w)
  /\ cq[call[w].slot].ok /\ late' = late
ChunksMove ==
  [][\A w \in Callers : ~clash /\ late = 0 =>
       /\ WritesWell(w) => media[call[w].at] = call[w].data
       /\ call[w].pc = "out" /\ call'[w] # call[w] => bounce = media[call[w].at]]_nvmevars

(* nvme.c:115 "the lone outstanding completion is consumed exactly once":   *)
(* the completion a caller takes is the one of its own command.             *)
OwnCompletion ==
  [][\A w \in Callers :
       call[w].pc = "wait" /\ cqHead' # cqHead /\ call'[w] # call[w] =>
         cq[call[w].slot].cid = call[w].cid]_nvmevars
=============================================================================
