-------------------------------- MODULE Keys --------------------------------
(***************************************************************************)
(* The keyboard ring of drivers/keyboard.c and everyone at its two ends.    *)
(* The keyboard's interrupt pushes and a program's SYS_GETKEY takes with    *)
(* IF clear, in one step each.  kmain pushes what xhci_poll decodes and     *)
(* takes keys for the shell or the desktop with IF set: it can be           *)
(* interrupted or preempted between any two of its loads and stores.        *)
(* Keys are numbered in the order in which they were pressed.               *)
(***************************************************************************)
EXTENDS Integers, Sequences

CONSTANTS
  KeySlots,  (* RBSZ; the 8-bit indices wrap there                          *)
  MaxKeys    (* bound: keys pressed                                         *)

ASSUME KeysAssumption == KeySlots \in Nat \ {0} /\ MaxKeys \in Nat

VARIABLES
  rb, rhead, rtail,
  take,      (* kmain in kbd_trygetc: how far; the character; the new head  *)
  give,      (* kmain in push: how far; the character; the new tail         *)
  pressed,   (* the keys pressed so far are 1 .. pressed                    *)
  (* history *)
  kept,      (* the keys that found room in the ring, in order              *)
  served,    (* the keys handed to kmain or a program, in order             *)
  crossed    (* somebody else moved an end of the ring while kmain was      *)
             (* moving the same end                                         *)

keysvars == <<rb, rhead, rtail, take, give, pressed, kept, served, crossed>>

RingIndices == 0 .. KeySlots - 1
NoTake == [pc |-> "out", c |-> 0, head |-> 0]
NoGive == [pc |-> "out", c |-> 0, tail |-> 0]

KeysInit ==
  /\ rb = [i \in RingIndices |-> 0]
  /\ rhead = 0 /\ rtail = 0
  /\ take = NoTake /\ give = NoGive
  /\ pressed = 0
  /\ kept = <<>> /\ served = <<>> /\ crossed = FALSE

After(i) == (i + 1) % KeySlots

(* Mutant of HasRoom: a full ring is overwritten.                            *)
AlwaysRoom(n) == n \in RingIndices
HasRoom(n) == n # rhead

Press == pressed < MaxKeys /\ pressed' = pressed + 1

(* on_key, or xhci_irq when the controller interrupts: the whole push.      *)
KeyIrq ==
  /\ Press
  /\ IF HasRoom(After(rtail))
     THEN /\ rb' = [rb EXCEPT ![rtail] = pressed']
          /\ rtail' = After(rtail)
          /\ kept' = Append(kept, pressed')
          /\ crossed' = (crossed \/ give.pc # "out")
     ELSE UNCHANGED <<rb, rtail, kept, crossed>>
  /\ UNCHANGED <<rhead, take, give, served>>

(* kmain's push, from xhci_poll: room or not, the store of the character,   *)
(* the store of the tail.                                                   *)
PollRoom ==
  /\ take.pc = "out" /\ give.pc = "out"
  /\ Press
  /\ give' = IF HasRoom(After(rtail))
             THEN [pc |-> "store", c |-> pressed', tail |-> After(rtail)]
             ELSE give
  /\ UNCHANGED <<rb, rhead, rtail, take, kept, served, crossed>>

PollStore ==
  /\ give.pc = "store"
  /\ rb' = [rb EXCEPT ![rtail] = give.c]
  /\ give' = [give EXCEPT !.pc = "tail"]
  /\ UNCHANGED <<rhead, rtail, take, pressed, kept, served, crossed>>

PollTail ==
  /\ give.pc = "tail"
  /\ rtail' = give.tail
  /\ kept' = Append(kept, give.c)
  /\ give' = NoGive
  /\ UNCHANGED <<rb, rhead, take, pressed, served, crossed>>

(* SYS_GETKEY.                                                              *)
GetKey ==
  /\ rhead # rtail
  /\ served' = Append(served, rb[rhead])
  /\ rhead' = After(rhead)
  /\ crossed' = (crossed \/ take.pc # "out")
  /\ UNCHANGED <<rb, rtail, take, give, pressed, kept>>

(* kmain's kbd_trygetc: the test, the load of the character, the load and   *)
(* the store of the head.                                                   *)
TryGet ==
  /\ take.pc = "out" /\ give.pc = "out"
  /\ rhead # rtail
  /\ take' = [take EXCEPT !.pc = "load"]
  /\ UNCHANGED <<rb, rhead, rtail, give, pressed, kept, served, crossed>>

TakeLoad ==
  /\ take.pc = "load"
  /\ take' = [take EXCEPT !.c = rb[rhead], !.pc = "next"]
  /\ UNCHANGED <<rb, rhead, rtail, give, pressed, kept, served, crossed>>

TakeNext ==
  /\ take.pc = "next"
  /\ take' = [take EXCEPT !.head = After(rhead), !.pc = "head"]
  /\ UNCHANGED <<rb, rhead, rtail, give, pressed, kept, served, crossed>>

TakeHead ==
  /\ take.pc = "head"
  /\ rhead' = take.head
  /\ served' = Append(served, take.c)
  /\ take' = NoTake
  /\ UNCHANGED <<rb, rtail, give, pressed, kept, crossed>>

(* Both return -1 when the ring is empty, and kmain asks again.              *)
NoKey ==
  /\ rhead = rtail /\ take.pc = "out" /\ give.pc = "out"
  /\ UNCHANGED keysvars

KeysNext ==
  \/ KeyIrq \/ PollRoom \/ PollStore \/ PollTail
  \/ GetKey \/ TryGet \/ TakeLoad \/ TakeNext \/ TakeHead \/ NoKey

KeysSpec == KeysInit /\ [][KeysNext]_keysvars

---------------------------------------------------------------------------
(* Properties.                                                              *)

(* The keys between the two ends of the ring.                               *)
Buffered == [i \in 1 .. (rtail - rhead) % KeySlots |-> rb[(rhead + i - 1) % KeySlots]]

(* Every key that found room is handed over once, in the order of the       *)
(* presses, whoever pushed it and whoever asks, as long as neither end is   *)
(* moved under kmain's hands (keyboard.c:37 has one producer and one        *)
(* consumer; there are two of each).                                        *)
KeysOnce == ~crossed => kept = served \o Buffered
=============================================================================
