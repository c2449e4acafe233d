-------------------------------- MODULE Dhcp --------------------------------
(***************************************************************************)
(* net/dhcp.c: DISCOVER, wait for an OFFER, REQUEST, wait for an ACK,       *)
(* install the lease, or go back to the static configuration.  Replies are  *)
(* handled only inside netif_poll_all, which empties the receive ring       *)
(* before wait_flag looks at its flag; every reply with the right xid       *)
(* overwrites what the last one said.  Servers and the network are          *)
(* external: replies are lost, repeated, delayed and reordered.             *)
(***************************************************************************)
EXTENDS Integers, Sequences

CONSTANTS
  Servers,      (* server_id; also the router that server announces         *)
  Addresses,    (* what a server may lease                                  *)
  Static,       (* the address and router of the static configuration       *)
  None0,        (* address 0: unconfigured, or an option that is absent     *)
  RxSlots,      (* bound: frames waiting in the receive ring                *)
  MaxRuns       (* bound: calls of dhcp_configure                           *)

ASSUME DhcpAssumption ==
  /\ {RxSlots, MaxRuns} \subseteq Nat
  /\ None0 \notin Servers \union Addresses \union {Static}

VARIABLES
  stage,        (* where dhcp_configure is                                  *)
  xid,          (* cur_xid: which run                                       *)
  net,          (* net_ip and net_gw (net_mask and net_dns behave as it)    *)
  save,         (* save_ip, save_gw                                         *)
  offer,        (* offered_ip, server_id, router_ip                         *)
  gotOffer, gotAck,
  inbox,        (* the receive ring                                         *)
  (* history *)
  asked,        (* the REQUEST of each run                                  *)
  granted,      (* the runs whose ACK was read                              *)
  stray         (* a reply was read that its run had no use for             *)

dhcpvars == <<stage, xid, net, save, offer, gotOffer, gotAck, inbox, asked, granted, stray>>

Ids == Servers \union {None0}
Leases == Addresses \union {None0}
Configs == [ip : Leases \union {Static}, gw : Ids \union {Static}]
Replies == [xid : 1 .. MaxRuns, type : {"offer", "ack", "nak"},
            ip : Leases, sid : Servers, gw : Ids]

DhcpTypeOK ==
  /\ stage \in {"idle", "offer", "ack"}
  /\ xid \in 0 .. MaxRuns
  /\ {net, save} \subseteq Configs
  /\ offer \in [ip : Leases, sid : Ids, gw : Ids]
  /\ {gotOffer, gotAck, stray} \subseteq BOOLEAN
  /\ inbox \in Seq(Replies) /\ Len(inbox) <= RxSlots
  /\ asked \in [1 .. MaxRuns -> [ip : Leases, sid : Ids]]
  /\ granted \subseteq 1 .. xid
  /\ stage # "idle" => net.ip = None0 /\ xid >= 1

Nothing == [ip |-> None0, sid |-> None0, gw |-> None0]

DhcpInit ==
  /\ stage = "idle" /\ xid = 0
  /\ net = [ip |-> Static, gw |-> Static]
  /\ save = net
  /\ offer = Nothing
  /\ gotOffer = FALSE /\ gotAck = FALSE
  /\ inbox = <<>>
  /\ asked = [x \in 1 .. MaxRuns |-> [ip |-> None0, sid |-> None0]]
  /\ granted = {}
  /\ stray = FALSE

---------------------------------------------------------------------------
(* dhcp_configure up to the first wait.                                     *)
Discover ==
  /\ stage = "idle"
  /\ xid < MaxRuns
  /\ stage' = "offer"
  /\ xid' = xid + 1
  /\ save' = net
  /\ net' = [net EXCEPT !.ip = None0]
  /\ offer' = Nothing
  /\ gotOffer' = FALSE /\ gotAck' = FALSE
  /\ UNCHANGED <<inbox, asked, granted, stray>>

(* Of no use: any reply but the first OFFER of the run and repetitions of   *)
(* it, and the ACK of what was asked.                                       *)
Useless(m) ==
  CASE m.type = "offer" -> offer.sid # None0 /\ (m.ip # offer.ip \/ m.sid # offer.sid)
    [] m.type = "ack" -> FALSE
    [] OTHER -> TRUE

(* Mutant of ParseReply: the xid is not compared.                           *)
ParseReplyAnyXid(m) ==
  /\ offer' = [ip |-> m.ip, sid |-> m.sid, gw |-> IF m.gw = None0 THEN offer.gw ELSE m.gw]
  /\ gotOffer' = (gotOffer \/ m.type = "offer")
  /\ gotAck' = (gotAck \/ m.type = "ack")
  /\ granted' = IF m.type = "ack" THEN granted \union {xid} ELSE granted
  /\ stray' = (stray \/ Useless(m))

(* parse_reply and on_dhcp: yiaddr and the options found replace what was   *)
(* known, whatever the type; an absent option leaves the value it had.      *)
ParseReply(m) ==
  IF m.xid # xid
  THEN UNCHANGED <<offer, gotOffer, gotAck, granted, stray>>
  ELSE /\ offer' = [ip |-> m.ip, sid |-> m.sid,
                    gw |-> IF m.gw = None0 THEN offer.gw ELSE m.gw]
       /\ gotOffer' = (gotOffer \/ m.type = "offer")
       /\ gotAck' = (gotAck \/ m.type = "ack")
       /\ granted' = IF m.type = "ack" THEN granted \union {xid} ELSE granted
       /\ stray' = (stray \/ Useless(m))

(* One frame of netif_poll_all; with nobody listening it is dropped.        *)
Poll ==
  /\ inbox # <<>>
  /\ inbox' = Tail(inbox)
  /\ IF stage = "idle"
     THEN UNCHANGED <<offer, gotOffer, gotAck, granted, stray>>
     ELSE ParseReply(Head(inbox))
  /\ UNCHANGED <<stage, xid, net, save, asked>>

(* The ring is empty and there is an OFFER: REQUEST what the last reply     *)
(* said.                                                                    *)
Request ==
  /\ stage = "offer" /\ inbox = <<>> /\ gotOffer
  /\ stage' = "ack"
  /\ asked' = [asked EXCEPT ![xid] = [ip |-> offer.ip, sid |-> offer.sid]]
  /\ UNCHANGED <<xid, net, save, offer, gotOffer, gotAck, inbox, granted, stray>>

(* ... and there is an ACK: the lease is what the last reply said.          *)
Install ==
  /\ stage = "ack" /\ inbox = <<>> /\ gotAck
  /\ stage' = "idle"
  /\ net' = [ip |-> offer.ip, gw |-> IF offer.gw = None0 THEN net.gw ELSE offer.gw]
  /\ UNCHANGED <<xid, save, offer, gotOffer, gotAck, inbox, asked, granted, stray>>

(* The wait is over before the flag is set.                                 *)
GiveUp ==
  /\ \/ stage = "offer" /\ ~gotOffer
     \/ stage = "ack" /\ ~gotAck
  /\ stage' = "idle"
  /\ net' = save
  /\ UNCHANGED <<xid, save, offer, gotOffer, gotAck, inbox, asked, granted, stray>>

---------------------------------------------------------------------------
(* What a server may have answered to some DISCOVER or REQUEST so far.      *)
MayAnswer(m) ==
  /\ m.xid <= xid
  /\ m.gw \in {m.sid, None0}
  /\ \/ m.type = "offer" /\ m.ip # None0
     \/ m.type = "ack" /\ m.ip # None0 /\ asked[m.xid] = [ip |-> m.ip, sid |-> m.sid]
     \/ m.type = "nak" /\ m.ip = None0 /\ asked[m.xid].sid = m.sid

Deliver(m) ==
  /\ Len(inbox) < RxSlots
  /\ MayAnswer(m)
  /\ inbox' = Append(inbox, m)
  /\ UNCHANGED <<stage, xid, net, save, offer, gotOffer, gotAck, asked, granted, stray>>

DhcpNext ==
  \/ Discover
  \/ Poll
  \/ Request
  \/ Install
  \/ GiveUp
  \/ \E m \in Replies : Deliver(m)

DhcpSpec == DhcpInit /\ [][DhcpNext]_dhcpvars

---------------------------------------------------------------------------
(* dhcp_configure: whatever is lost, repeated, delayed or left over from an *)
(* earlier run, the machine has the address the server it asked last has    *)
(* acknowledged and a router of a server that has, or the static ones; a    *)
(* run that fails, also after one that succeeded, changes nothing.  It      *)
(* holds as long as no reply comes in that its run has no use for: a second *)
(* server's late OFFER, or a NAK, in the same poll as the ACK is enough to  *)
(* install what nobody has acknowledged.                                    *)
LastGrantIsInstalled ==
  stage = "idle" /\ ~stray =>
    /\ \/ granted = {} /\ net.ip = Static
       \/ \E x \in granted : (\A y \in granted : y <= x) /\ net.ip = asked[x].ip
    /\ net.gw \in {Static} \union {asked[x].sid : x \in granted}
=============================================================================
