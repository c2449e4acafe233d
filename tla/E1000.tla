------------------------------- MODULE E1000 -------------------------------
(***************************************************************************)
(* drivers/e1000.c under net/eth.c: the two descriptor rings, the one frame *)
(* every send is put together in, and the two that drain the receive ring.  *)
(* kmain polls, sends and answers with IF set.  Where the 8259 delivers the *)
(* card's line, its handler drains and answers too, with IF clear, between  *)
(* any two steps of kmain.  The card is external: it fills what it owns of  *)
(* the receive ring and sends what it owns of the transmit ring, when it    *)
(* likes.                                                                   *)
(*                                                                          *)
(* Frames received are numbered in the order in which the card took them,   *)
(* frames sent in the order in which they were put together.                *)
(***************************************************************************)
EXTENDS Integers, Sequences

CONSTANTS
  RxDescs,    (* RX_DESCS                                                   *)
  TxDescs,    (* TX_DESCS                                                   *)
  Asking,     (* the frames received that are answered with one: requests   *)
              (* of ARP for our address, echo requests, segments of TCP     *)
  MaxIn,      (* bound: frames the card takes                               *)
  MaxOut      (* bound: frames sent                                         *)

ASSUME E1000Assumption ==
  /\ RxDescs \in Nat \ {0, 1} /\ TxDescs \in Nat \ {0, 1}
  /\ Asking \subseteq Nat /\ MaxIn \in Nat /\ MaxOut \in Nat

VARIABLES
  rx, rxCur, rdh, rdt,       (* status and buffer of each descriptor;       *)
                             (* dev.rx_cur; the card's RDH and RDT          *)
  tx, txCur, tdh, tdt,
  txframe,
  k,                         (* where kmain is, in rx_drain or a send:      *)
                             (* d in rx_drain; slot and what to fill in     *)
                             (* eth_send and e1000_send                     *)
  irq,                       (* the card's line: "low", "high", or its      *)
                             (* handler runs                                *)
  (* history *)
  handed,                    (* frames given to eth_input                   *)
  wire,                      (* frames the card sent                        *)
  taken, made,               (* how many were taken and put together        *)
  nested,                    (* the handler drained a frame while kmain was *)
                             (* draining or sending                         *)
  full                       (* the transmit ring was full                  *)

rxvars == <<rx, rxCur, rdh, rdt, handed, taken>>
txvars == <<tx, txCur, tdh, tdt, txframe, wire, made, full>>
e1000vars == <<rxvars, txvars, k, irq, nested>>

RxRing == 0 .. RxDescs - 1
TxRing == 0 .. TxDescs - 1
Out == [at |-> "out", d |-> 0, slot |-> 0, back |-> "out"]

E1000Init ==
  /\ rx = [i \in RxRing |-> [dd |-> FALSE, buf |-> 0]]
  /\ rxCur = 0 /\ rdh = 0 /\ rdt = RxDescs - 1
  /\ tx = [i \in TxRing |-> [dd |-> TRUE, buf |-> 0]]
  /\ txCur = 0 /\ tdh = 0 /\ tdt = 0
  /\ txframe = 0
  /\ k = Out /\ irq = "low"
  /\ handed = <<>> /\ wire = <<>> /\ taken = 0 /\ made = 0
  /\ nested = FALSE /\ full = FALSE

---------------------------------------------------------------------------
(* The card.                                                                *)

(* A frame for us arrives; with no descriptor of its own the card drops it. *)
CardTakes ==
  /\ taken < MaxIn /\ rdh # rdt
  /\ taken' = taken + 1
  /\ rx' = [rx EXCEPT ![rdh] = [dd |-> TRUE, buf |-> taken']]
  /\ rdh' = (rdh + 1) % RxDescs
  /\ irq' = IF irq = "low" THEN "high" ELSE irq
  /\ UNCHANGED <<rxCur, rdt, handed, txvars, k, nested>>

CardSends ==
  /\ tdh # tdt
  /\ wire' = Append(wire, tx[tdh].buf)
  /\ tx' = [tx EXCEPT ![tdh].dd = TRUE]
  /\ tdh' = (tdh + 1) % TxDescs
  /\ UNCHANGED <<rxvars, txCur, tdt, txframe, made, full, k, irq, nested>>

---------------------------------------------------------------------------
(* kmain in rx_drain: the test, netif_rx, the status, rx_cur, RDT.          *)

PollTest ==
  /\ irq # "runs" /\ k.at = "out" /\ rx[rxCur].dd
  /\ k' = [Out EXCEPT !.at = "deliver", !.d = rxCur]
  /\ UNCHANGED <<rxvars, txvars, irq, nested>>

Hand ==
  /\ irq # "runs" /\ k.at = "deliver"
  /\ handed' = Append(handed, rx[k.d].buf)
  /\ k' = IF rx[k.d].buf \in Asking /\ made < MaxOut
          THEN [k EXCEPT !.at = "fill", !.back = "clear"]
          ELSE [k EXCEPT !.at = "clear"]
  /\ UNCHANGED <<rx, rxCur, rdh, rdt, taken, txvars, irq, nested>>

Clear ==
  /\ irq # "runs" /\ k.at = "clear"
  /\ rx' = [rx EXCEPT ![k.d].dd = FALSE]
  /\ k' = [k EXCEPT !.at = "advance", !.back = "out"]
  /\ UNCHANGED <<rxCur, rdh, rdt, handed, taken, txvars, irq, nested>>

Advance ==
  /\ irq # "runs" /\ k.at = "advance"
  /\ rxCur' = (rxCur + 1) % RxDescs
  /\ k' = [k EXCEPT !.at = "handback", !.d = rxCur]
  /\ UNCHANGED <<rx, rdh, rdt, handed, taken, txvars, irq, nested>>

(* Mutant of HandedBack: the descriptor after it goes back as well.         *)
OneMore(old) == (old + 1) % RxDescs
HandedBack(old) == old

HandBack ==
  /\ irq # "runs" /\ k.at = "handback"
  /\ rdt' = HandedBack(k.d)
  /\ k' = Out
  /\ UNCHANGED <<rx, rxCur, rdh, handed, taken, txvars, irq, nested>>

---------------------------------------------------------------------------
(* kmain in eth_send and e1000_send: the frame, the slot, the copy, the     *)
(* rest.  The wait for the slot ends when it is done, or after so long.     *)

SendOwn ==
  /\ irq # "runs" /\ k.at = "out" /\ made < MaxOut
  /\ k' = [Out EXCEPT !.at = "fill"]
  /\ UNCHANGED <<rxvars, txvars, irq, nested>>

Fill ==
  /\ irq # "runs" /\ k.at = "fill"
  /\ made' = made + 1
  /\ txframe' = made'
  /\ k' = [k EXCEPT !.at = "slot"]
  /\ UNCHANGED <<rxvars, tx, txCur, tdh, tdt, wire, full, irq, nested>>

Slot ==
  /\ irq # "runs" /\ k.at = "slot"
  /\ k' = [k EXCEPT !.at = "copy", !.slot = txCur]
  /\ full' = (full \/ ~tx[txCur].dd)
  /\ UNCHANGED <<rxvars, tx, txCur, tdh, tdt, txframe, wire, made, irq, nested>>

Copy ==
  /\ irq # "runs" /\ k.at = "copy"
  /\ tx' = [tx EXCEPT ![k.slot].buf = txframe]
  /\ k' = [k EXCEPT !.at = "post"]
  /\ UNCHANGED <<rxvars, txCur, tdh, tdt, txframe, wire, made, full, irq, nested>>

(* Descriptor i goes to the card.  Where every one is its own, RDH and RDT  *)
(* are equal, and it takes the ring for empty.                              *)
PostSlot(i) ==
  /\ txCur' = (i + 1) % TxDescs
  /\ tdt' = txCur'
  /\ full' = (full \/ ~tx[i].dd \/ txCur' = tdh)

Post ==
  /\ irq # "runs" /\ k.at = "post"
  /\ PostSlot(k.slot)
  /\ tx' = [tx EXCEPT ![k.slot].dd = FALSE]
  /\ k' = [k EXCEPT !.at = k.back]
  /\ UNCHANGED <<rxvars, tdh, txframe, wire, made, irq, nested>>

---------------------------------------------------------------------------
(* e1000_isr.                                                               *)

IsrEnter ==
  /\ irq = "high"
  /\ irq' = "runs"
  /\ UNCHANGED <<rxvars, txvars, k, nested>>

(* Bound: kmain in eth_send has one of MaxOut to itself.                    *)
IsrMaySend == made < IF k.at = "fill" THEN MaxOut - 1 ELSE MaxOut

(* One turn of the loop in rx_drain.                                        *)
IsrDrain ==
  /\ irq = "runs" /\ rx[rxCur].dd
  /\ handed' = Append(handed, rx[rxCur].buf)
  /\ rx' = [rx EXCEPT ![rxCur].dd = FALSE]
  /\ rdt' = HandedBack(rxCur)
  /\ rxCur' = (rxCur + 1) % RxDescs
  /\ IF rx[rxCur].buf \in Asking /\ IsrMaySend
     THEN /\ made' = made + 1
          /\ txframe' = made'
          /\ tx' = [tx EXCEPT ![txCur] = [dd |-> FALSE, buf |-> made']]
          /\ PostSlot(txCur)
     ELSE UNCHANGED <<made, txframe, tx, txCur, tdt, full>>
  /\ nested' = (nested \/ k.at # "out")
  /\ UNCHANGED <<rdh, taken, tdh, wire, k, irq>>

IsrLeave ==
  /\ irq = "runs" /\ ~rx[rxCur].dd
  /\ irq' = "low"
  /\ UNCHANGED <<rxvars, txvars, k, nested>>

(* Nothing to poll for, nothing to send: kmain polls again.                 *)
PollNothing ==
  /\ irq # "runs" /\ k.at = "out" /\ ~rx[rxCur].dd
  /\ UNCHANGED e1000vars

E1000Next ==
  \/ CardTakes \/ CardSends
  \/ PollTest \/ Hand \/ Clear \/ Advance \/ HandBack \/ PollNothing
  \/ SendOwn \/ Fill \/ Slot \/ Copy \/ Post
  \/ IsrEnter \/ IsrDrain \/ IsrLeave

E1000Spec == E1000Init /\ [][E1000Next]_e1000vars

---------------------------------------------------------------------------
(* Properties.                                                              *)

E1000TypeOK ==
  /\ rx \in [RxRing -> [dd : BOOLEAN, buf : 0 .. MaxIn]]
  /\ tx \in [TxRing -> [dd : BOOLEAN, buf : 0 .. MaxOut]]
  /\ {rxCur, rdh, rdt} \subseteq RxRing /\ {txCur, tdh, tdt} \subseteq TxRing
  /\ k \in [at : {"out", "deliver", "clear", "advance", "handback",
                  "fill", "slot", "copy", "post"},
            d : RxRing, slot : TxRing, back : {"out", "clear"}]
  /\ irq \in {"low", "high", "runs"}
  /\ taken \in 0 .. MaxIn /\ {made, txframe} \subseteq 0 .. MaxOut
  /\ handed \in Seq(1 .. MaxIn) /\ wire \in Seq(0 .. MaxOut)
  /\ {nested, full} \subseteq BOOLEAN

(* The frames in ring of n descriptors from one up to another.              *)
Held(ring, from, to, n) ==
  [i \in 1 .. (to - from) % n |-> ring[(from + i - 1) % n].buf]

(* What the card has taken and nobody has been given.                       *)
Unread ==
  LET given == k.at \in {"clear", "advance"} \/ k.back = "clear"
  IN  Held(rx, IF given THEN (rxCur + 1) % RxDescs ELSE rxCur, rdh, RxDescs)

(* rx_drain, e1000_send: every frame the card took is given to the stack    *)
(* once, in order, and none is written over before; every frame put         *)
(* together goes out once, as it was put together and in order, unless the  *)
(* ring was full; as long as the handler drains nothing while kmain is at   *)
(* the rings.                                                               *)
FramesOnce ==
  ~nested =>
    /\ handed \o Unread = [i \in 1 .. taken |-> i]
    /\ ~full => wire \o Held(tx, tdh, tdt, TxDescs)
                  = [i \in 1 .. IF k.at \in {"slot", "copy", "post"} THEN made - 1 ELSE made |-> i]
=============================================================================
