------------------------------ MODULE NetProofs ------------------------------
(***************************************************************************)
(* Proofs about two of the network's protocols: Dhcp, for any servers,      *)
(* addresses, ring and number of runs; and what `share` saves and reports   *)
(* (Share), for any machines, files, lengths and capacity of the network.   *)
(* At the end, what these proofs, TcpProofs and RingProofs say of MCNet.    *)
(***************************************************************************)
EXTENDS MCNet, RingProofs, TcpProofs

---------------------------------------------------------------------------
(* Dhcp.                                                                    *)

(* What is in the ring was sent: ACKs only to REQUESTs.                     *)
RingOK ==
  \A i \in 1 .. Len(inbox) :
    /\ inbox[i].gw \in {inbox[i].sid, None0}
    /\ inbox[i].type = "ack" =>
         /\ inbox[i].ip # None0
         /\ asked[inbox[i].xid] = [ip |-> inbox[i].ip, sid |-> inbox[i].sid]

(* No run has asked before its first wait is over.                          *)
AskedOK ==
  \A x \in 1 .. MaxRuns :
    (x > xid \/ (x = xid /\ stage = "offer")) => asked[x].ip = None0

(* What the last runs have left, for the configuration c.                   *)
Holds(c) ==
  /\ \/ granted = {} /\ c.ip = Static
     \/ \E x \in granted : (\A y \in granted : y <= x) /\ c.ip = asked[x].ip
  /\ c.gw \in {Static} \union {asked[x].sid : x \in granted}

(* A run that has seen nothing useless holds the lease it asks for, and     *)
(* what it can go back to.                                                  *)
RunOK ==
  /\ offer.gw \in {offer.sid, None0}
  /\ stage = "idle" => Holds(net)
  /\ stage # "idle" /\ ~gotAck => Holds(save) /\ xid \notin granted
  /\ stage # "idle" => net.gw = save.gw
  /\ stage = "offer" => ~gotAck
  /\ stage = "ack" => asked[xid] = [ip |-> offer.ip, sid |-> offer.sid] /\ offer.sid # None0
  /\ stage = "ack" /\ gotAck =>
       xid \in granted /\ save.gw \in {Static} \union {asked[x].sid : x \in granted}
  /\ stage = "offer" /\ gotOffer => offer.sid # None0

DhcpInv == DhcpTypeOK /\ RingOK /\ AskedOK /\ (~stray => RunOK)

LEMMA RingTypes ==
  ASSUME DhcpTypeOK, inbox # <<>>
  PROVE  /\ Len(inbox) \in Nat /\ Len(inbox) >= 1
         /\ Head(inbox) = inbox[1] /\ Head(inbox) \in Replies
         /\ Tail(inbox) \in Seq(Replies) /\ Len(Tail(inbox)) = Len(inbox) - 1
         /\ \A i \in 1 .. Len(Tail(inbox)) : Tail(inbox)[i] = inbox[i + 1]
BY HeadTailProperties DEF DhcpTypeOK

LEMMA DhcpInitInv == DhcpInit => DhcpInv
<1> SUFFICES ASSUME DhcpInit PROVE DhcpInv
  OBVIOUS
<1>1. DhcpTypeOK
  <2>1. net \in Configs /\ save \in Configs
    BY DEF DhcpInit, Configs
  <2>2. offer \in [ip : Leases, sid : Ids, gw : Ids]
    BY DEF DhcpInit, Nothing, Leases, Ids
  <2>3. inbox \in Seq(Replies) /\ Len(inbox) <= RxSlots
    BY DhcpAssumption DEF DhcpInit
  <2>4. asked \in [1 .. MaxRuns -> [ip : Leases, sid : Ids]]
    BY DEF DhcpInit, Leases, Ids
  <2>5. /\ stage = "idle" /\ xid \in 0 .. MaxRuns /\ granted \subseteq 1 .. xid
    BY DhcpAssumption DEF DhcpInit
  <2>6. {gotOffer, gotAck, stray} \subseteq BOOLEAN
    BY DEF DhcpInit
  <2> QED
    BY <2>1, <2>2, <2>3, <2>4, <2>5, <2>6 DEF DhcpTypeOK
<1>2. RingOK /\ AskedOK
  BY DEF DhcpInit, RingOK, AskedOK
<1>3. RunOK
  BY DEF DhcpInit, RunOK, Holds, Nothing
<1> QED
  BY <1>1, <1>2, <1>3 DEF DhcpInv

LEMMA DiscoverInv ==
  ASSUME DhcpInv, Discover
  PROVE  DhcpInv'
<1> USE DhcpAssumption DEF DhcpInv, Discover
<1>1. DhcpTypeOK'
  <2>1. net' \in Configs /\ save' \in Configs /\ net'.ip = None0
    BY DEF DhcpTypeOK, Configs, Leases
  <2>2. offer' \in [ip : Leases, sid : Ids, gw : Ids]
    BY DEF Nothing, Leases, Ids
  <2>3. xid' \in 0 .. MaxRuns /\ xid' >= 1 /\ granted' \subseteq 1 .. xid'
    BY DEF DhcpTypeOK
  <2> QED
    BY <2>1, <2>2, <2>3 DEF DhcpTypeOK
<1>2. RingOK'
  BY DEF RingOK
<1>3. AskedOK'
  BY DEF AskedOK, DhcpTypeOK
<1>4. (~stray => RunOK)'
  <2>1. xid + 1 \notin granted
    BY DEF DhcpTypeOK
  <2> QED
    BY <2>1 DEF DhcpTypeOK, RunOK, Holds, Nothing, Configs
<1> QED
  BY <1>1, <1>2, <1>3, <1>4

LEMMA PollInv ==
  ASSUME DhcpInv, Poll
  PROVE  DhcpInv'
<1> USE DhcpAssumption DEF DhcpInv
<1>0. PICK m \in Replies : m = Head(inbox) /\ m = inbox[1]
  BY RingTypes DEF Poll
<1>a. UNCHANGED <<stage, xid, net, save, asked>> /\ inbox' = Tail(inbox) /\ inbox # <<>>
  BY DEF Poll
<1>b. \/ UNCHANGED <<offer, gotOffer, gotAck, granted, stray>>
      \/ /\ stage # "idle" /\ m.xid = xid
         /\ offer' = [ip |-> m.ip, sid |-> m.sid, gw |-> IF m.gw = None0 THEN offer.gw ELSE m.gw]
         /\ gotOffer' = (gotOffer \/ m.type = "offer")
         /\ gotAck' = (gotAck \/ m.type = "ack")
         /\ granted' = IF m.type = "ack" THEN granted \union {xid} ELSE granted
         /\ stray' = (stray \/ Useless(m))
  BY <1>0 DEF Poll, ParseReply
<1>c. m.gw \in {m.sid, None0} /\ m.sid \in Servers /\ m.type \in {"offer", "ack", "nak"}
      /\ (m.type = "ack" => m.ip # None0 /\ asked[m.xid] = [ip |-> m.ip, sid |-> m.sid])
  BY <1>0, <1>a, RingTypes DEF RingOK, Replies
<1>1. DhcpTypeOK'
  <2>1. offer' \in [ip : Leases, sid : Ids, gw : Ids]
    BY <1>b DEF DhcpTypeOK, Replies, Ids
  <2>2. inbox' \in Seq(Replies) /\ Len(inbox') <= RxSlots
    BY <1>a, RingTypes DEF DhcpTypeOK
  <2>3. Useless(m) \in BOOLEAN
    BY <1>c DEF Useless
  <2>4. {gotOffer, gotAck, stray}' \subseteq BOOLEAN
    BY <1>b, <2>3 DEF DhcpTypeOK
  <2>5. granted' \subseteq 1 .. xid'
    <3>1. stage # "idle" => xid \in 1 .. xid
      BY DEF DhcpTypeOK
    <3>2. granted' \subseteq granted \union {xid}
      BY <1>b
    <3> QED
      BY <1>a, <1>b, <3>1, <3>2 DEF DhcpTypeOK
  <2>6. /\ stage' \in {"idle", "offer", "ack"} /\ xid' \in 0 .. MaxRuns
        /\ net' \in Configs /\ save' \in Configs
        /\ asked' \in [1 .. MaxRuns -> [ip : Leases, sid : Ids]]
        /\ stage' # "idle" => net'.ip = None0 /\ xid' >= 1
    BY <1>a DEF DhcpTypeOK
  <2> QED
    BY <2>1, <2>2, <2>4, <2>5, <2>6 DEF DhcpTypeOK
<1>2. RingOK'
  BY <1>a, RingTypes DEF RingOK
<1>3. AskedOK'
  BY <1>a DEF AskedOK
<1>4. ASSUME ~stray' PROVE RunOK'
  <2>1. CASE UNCHANGED <<offer, gotOffer, gotAck, granted, stray>>
    BY <1>4, <1>a, <2>1 DEF RunOK, Holds
  <2>2. CASE /\ stage # "idle" /\ m.xid = xid
             /\ offer' = [ip |-> m.ip, sid |-> m.sid, gw |-> IF m.gw = None0 THEN offer.gw ELSE m.gw]
             /\ gotOffer' = (gotOffer \/ m.type = "offer")
             /\ gotAck' = (gotAck \/ m.type = "ack")
             /\ granted' = IF m.type = "ack" THEN granted \union {xid} ELSE granted
             /\ stray' = (stray \/ Useless(m))
    <3>0. ~stray /\ ~Useless(m) /\ RunOK
      BY <1>4, <2>2
    <3>a. offer'.ip = m.ip /\ offer'.sid = m.sid
          /\ offer'.gw = IF m.gw = None0 THEN offer.gw ELSE m.gw
      BY <2>2
    <3>1. CASE m.type = "offer"
      <4>1. offer.sid = None0 \/ (m.ip = offer.ip /\ m.sid = offer.sid)
        BY <3>0, <3>1 DEF Useless
      <4>2. granted' = granted /\ gotAck' = gotAck
        BY <2>2, <3>1 DEF DhcpTypeOK
      <4>3. offer'.gw \in {offer'.sid, None0} /\ offer'.sid # None0
        BY <1>c, <3>0, <3>a, <4>1 DEF RunOK
      <4>4. stage = "ack" => offer'.ip = offer.ip /\ offer'.sid = offer.sid
        BY <3>0, <3>a, <4>1 DEF RunOK
      <4> QED
        BY <1>a, <2>2, <3>0, <4>2, <4>3, <4>4 DEF RunOK, Holds
    <3>2. CASE m.type = "ack"
      <4>1. m.ip # None0 /\ asked[xid] = [ip |-> m.ip, sid |-> m.sid]
        BY <1>c, <2>2, <3>2
      <4>2. stage = "ack"
        <5>1. xid \in 1 .. MaxRuns
          BY <2>2 DEF DhcpTypeOK
        <5>2. stage # "offer"
          BY <4>1, <5>1 DEF AskedOK
        <5> QED
          BY <2>2, <5>2 DEF DhcpTypeOK
      <4>3. m.ip = offer.ip /\ m.sid = offer.sid /\ offer.sid # None0
        BY <3>0, <4>1, <4>2 DEF RunOK
      <4>4. offer'.gw \in {offer'.sid, None0}
        BY <1>c, <3>0, <3>a, <4>3 DEF RunOK
      <4>5. granted' = granted \union {xid} /\ gotAck' = TRUE
        BY <2>2, <3>2
      <4>6. save.gw \in {Static} \union {asked[x].sid : x \in granted \union {xid}}
        BY <3>0, <4>2 DEF RunOK, Holds
      <4>7. asked[xid] = [ip |-> offer'.ip, sid |-> offer'.sid]
        BY <3>a, <4>1
      <4> QED
        BY <1>a, <2>2, <3>0, <3>a, <4>2, <4>3, <4>4, <4>5, <4>6, <4>7 DEF RunOK
    <3>3. CASE m.type = "nak"
      BY <3>0, <3>3 DEF Useless
    <3> QED
      BY <1>c, <3>1, <3>2, <3>3
  <2> QED
    BY <1>b, <2>1, <2>2
<1> QED
  BY <1>1, <1>2, <1>3, <1>4

LEMMA RequestInv ==
  ASSUME DhcpInv, Request
  PROVE  DhcpInv'
<1> USE DhcpAssumption DEF DhcpInv, Request
<1>0. xid \in 1 .. MaxRuns
  BY DEF DhcpTypeOK
<1>1. DhcpTypeOK'
  BY <1>0 DEF DhcpTypeOK
<1>2. RingOK'
  BY DEF RingOK
<1>3. AskedOK'
  BY <1>0 DEF AskedOK, DhcpTypeOK
<1>4. ASSUME ~stray PROVE RunOK'
  <2>1. RunOK /\ xid \notin granted /\ ~gotAck
    BY <1>4 DEF RunOK, DhcpTypeOK
  <2>2. \A x \in granted : asked'[x] = asked[x]
    BY <2>1 DEF DhcpTypeOK
  <2>3. {asked'[x].sid : x \in granted} = {asked[x].sid : x \in granted}
    BY <2>2
  <2>4. Holds(save) => Holds(save)'
    BY <2>2, <2>3 DEF Holds
  <2>5. asked'[xid] = [ip |-> offer.ip, sid |-> offer.sid]
    BY <1>0 DEF DhcpTypeOK
  <2> QED
    BY <2>1, <2>4, <2>5 DEF RunOK, DhcpTypeOK
<1> QED
  BY <1>1, <1>2, <1>3, <1>4

LEMMA InstallInv ==
  ASSUME DhcpInv, Install
  PROVE  DhcpInv'
<1> USE DhcpAssumption DEF DhcpInv, Install
<1>0. net' \in Configs
  BY DEF DhcpTypeOK, Configs
<1>1. DhcpTypeOK'
  BY <1>0 DEF DhcpTypeOK
<1>2. RingOK' /\ AskedOK'
  BY DEF RingOK, AskedOK
<1>3. ASSUME ~stray PROVE RunOK'
  <2>1. /\ xid \in granted /\ asked[xid].ip = offer.ip /\ asked[xid].sid = offer.sid
        /\ net.gw = save.gw /\ save.gw \in {Static} \union {asked[x].sid : x \in granted}
        /\ offer.gw \in {offer.sid, None0}
    BY <1>3 DEF RunOK
  <2>2. \A y \in granted : y <= xid
    BY DEF DhcpTypeOK
  <2>3. net'.ip = asked[xid].ip /\ net'.gw \in {Static} \union {asked[x].sid : x \in granted}
    BY <2>1
  <2>4. Holds(net)'
    BY <2>1, <2>2, <2>3 DEF Holds
  <2> QED
    BY <2>1, <2>4 DEF RunOK
<1> QED
  BY <1>1, <1>2, <1>3

LEMMA GiveUpInv ==
  ASSUME DhcpInv, GiveUp
  PROVE  DhcpInv'
<1> USE DEF DhcpInv, GiveUp
<1>1. DhcpTypeOK'
  BY DEF DhcpTypeOK
<1>2. RingOK' /\ AskedOK'
  BY DEF RingOK, AskedOK
<1>3. ASSUME ~stray PROVE RunOK'
  BY <1>3 DEF RunOK, Holds
<1> QED
  BY <1>1, <1>2, <1>3

LEMMA DeliverInv ==
  ASSUME DhcpInv, NEW m \in Replies, Deliver(m)
  PROVE  DhcpInv'
<1> USE DEF DhcpInv, Deliver
<1>1. /\ inbox \in Seq(Replies) /\ inbox' = Append(inbox, m) /\ Len(inbox) \in Nat
      /\ Len(inbox') = Len(inbox) + 1 /\ inbox' \in Seq(Replies)
      /\ inbox'[Len(inbox) + 1] = m /\ \A i \in 1 .. Len(inbox) : inbox'[i] = inbox[i]
  BY AppendProperties DEF DhcpTypeOK
<1>2. DhcpTypeOK'
  BY <1>1, DhcpAssumption DEF DhcpTypeOK
<1>3. RingOK'
  <2>1. m.gw \in {m.sid, None0}
        /\ (m.type = "ack" => m.ip # None0 /\ asked[m.xid] = [ip |-> m.ip, sid |-> m.sid])
    BY DEF MayAnswer
  <2>2. \A i \in 1 .. Len(inbox') : i \in 1 .. Len(inbox) \/ i = Len(inbox) + 1
    BY <1>1
  <2> QED
    BY <1>1, <2>1, <2>2 DEF RingOK
<1>4. AskedOK' /\ (~stray => RunOK)'
  BY DEF AskedOK, RunOK, Holds
<1> QED
  BY <1>2, <1>3, <1>4

LEMMA DhcpNextInv ==
  ASSUME DhcpInv, [DhcpNext]_dhcpvars
  PROVE  DhcpInv'
<1>1. CASE Discover
  BY <1>1, DiscoverInv
<1>2. CASE Poll
  BY <1>2, PollInv
<1>3. CASE Request
  BY <1>3, RequestInv
<1>4. CASE Install
  BY <1>4, InstallInv
<1>5. CASE GiveUp
  BY <1>5, GiveUpInv
<1>6. ASSUME NEW m \in Replies, Deliver(m)
      PROVE  DhcpInv'
  BY <1>6, DeliverInv
<1>7. CASE UNCHANGED dhcpvars
  <2>1. DhcpTypeOK' = DhcpTypeOK
    BY <1>7 DEF dhcpvars, DhcpTypeOK
  <2>2. RingOK' = RingOK /\ AskedOK' = AskedOK
    BY <1>7 DEF dhcpvars, RingOK, AskedOK
  <2>3. RunOK' = RunOK /\ stray' = stray
    BY <1>7 DEF dhcpvars, RunOK, Holds
  <2> QED BY <2>1, <2>2, <2>3 DEF DhcpInv
<1> QED
  BY <1>1, <1>2, <1>3, <1>4, <1>5, <1>6, <1>7 DEF DhcpNext

LEMMA DhcpInvHolds == DhcpSpec => []DhcpInv
<1>1. DhcpInit => DhcpInv
  BY DhcpInitInv
<1>2. DhcpInv /\ [DhcpNext]_dhcpvars => DhcpInv'
  BY DhcpNextInv
<1> QED
  BY <1>1, <1>2, PTL DEF DhcpSpec

---------------------------------------------------------------------------
(* net/dhcp.c: every variable keeps its type, and net_ip is 0 throughout a   *)
(* run.                                                                     *)
THEOREM DhcpTypes == DhcpSpec => []DhcpTypeOK
<1>1. DhcpInv => DhcpTypeOK
  BY DEF DhcpInv
<1> QED
  BY <1>1, DhcpInvHolds, PTL

(* dhcp_configure installs what was acknowledged last or goes back to it,    *)
(* for any number of servers and runs and any ring, as long as every reply  *)
(* read is one its run has a use for.                                       *)
THEOREM LeaseWasGranted == DhcpSpec => []LastGrantIsInstalled
<1>1. DhcpInv => LastGrantIsInstalled
  BY DEF DhcpInv, RunOK, Holds, LastGrantIsInstalled
<1> QED
  BY <1>1, DhcpInvHolds, PTL
---------------------------------------------------------------------------
(* Share.                                                                   *)

SendState == [at : {"idle", "offer", "data", "done"}, seq : Nat,
              accept : BOOLEAN, ack : Nat \union {-1}, id : Runs \union {0}]
RecvState == [on : BOOLEAN, busy : BOOLEAN, done : BOOLEAN,
              src : Senders \union {NoSender}, name : Files \union {NoFile},
              buf : Seq(Files \X Nat), expect : Nat, id : Runs \union {0}]

(* Transfer i has at least its first n chunks in the receiver's buffer, or  *)
(* is over there.                                                           *)
HasGot(i, n) ==
  \/ fate[i] # "none"
  \/ recv.busy /\ recv.id = i /\ n <= recv.expect

AllOf(i) == Chunks[file[i]]

(* What a packet tells of the transfer it belongs to.                       *)
PacketOK(m) ==
  /\ m.t = "data" => m.seq < AllOf(m.id) /\ HasGot(m.id, m.seq)
  /\ m.t = "done" => HasGot(m.id, AllOf(m.id))
  /\ m.t = "accept" => HasGot(m.id, 0)
  /\ m.t = "ack" /\ m.seq < AllOf(m.id) => HasGot(m.id, m.seq + 1)

(* What a sender knows of its own.                                          *)
SenderOK(l) ==
  /\ l.at = "offer" /\ l.accept => HasGot(l.id, 0)
  /\ l.at = "data" =>
       /\ l.seq < AllOf(l.id) /\ HasGot(l.id, l.seq)
       /\ 0 <= l.ack /\ l.ack < AllOf(l.id) => HasGot(l.id, l.ack + 1)
  /\ l.at = "done" => HasGot(l.id, AllOf(l.id))

PacketsOK == \A m \in lan : PacketOK(m)
SendersOK == \A s \in Senders : SenderOK(send[s])

(* The receiver's buffer is the chunks before the one expected, of the file *)
(* offered.                                                                 *)
RecvOK ==
  recv.busy =>
    /\ fate[recv.id] = "none"
    /\ recv.name = file[recv.id]
    /\ recv.expect <= Chunks[recv.name]
    /\ Len(recv.buf) = recv.expect
    /\ \A j \in 1 .. recv.expect : recv.buf[j] = Piece(recv.name, j - 1)
    /\ recv.done => recv.expect = Chunks[recv.name]

ReportedOK == \A i \in reported : HasGot(i, AllOf(i))

SavedOK == \A w \in disk : w[2] = Whole(w[1])

Core == PacketsOK /\ SendersOK /\ RecvOK /\ ReportedOK /\ SavedOK

ShareInv == ShareTypeOK /\ (~mixed => Core)

---------------------------------------------------------------------------
(* Types, unfolded.                                                         *)

LEMMA Types ==
  ASSUME ShareTypeOK
  PROVE  /\ file \in Seq(Files) /\ Runs = 1 .. Len(file)
         /\ \A i \in Runs : i \in Nat /\ file[i] \in Files /\ AllOf(i) \in Nat
         /\ \A s \in Senders : send[s] \in SendState
         /\ \A s \in Senders : send[s].at # "idle" => send[s].id \in Runs
         /\ recv \in RecvState
         /\ \A m \in lan : m \in Packets
BY ShareAssumption DEF ShareTypeOK, SendState, RecvState, Runs, AllOf

(* sh_send adds its packet or nothing.                                      *)
LEMMA PutPacket ==
  ASSUME NEW rest, NEW p
  PROVE  Put(rest, p) \subseteq rest \union {p}
BY DEF Put

(* A packet put together from parts of the right kinds has those parts.     *)
LEMMA PacketType ==
  ASSUME NEW t \in {"offer", "data", "done", "accept", "ack"}, NEW s \in Senders,
         NEW seq \in Nat, NEW id \in Runs
  PROVE  /\ Packet(t, s, seq, id) \in Packets
         /\ Packet(t, s, seq, id).t = t /\ Packet(t, s, seq, id).s = s
         /\ Packet(t, s, seq, id).seq = seq /\ Packet(t, s, seq, id).id = id
BY DEF Packet, Packets

---------------------------------------------------------------------------
(* Every step goes forward: files of transfers stay, and what a transfer    *)
(* has got it keeps, or it is over.                                         *)

ShareForward ==
  /\ Runs \subseteq Runs'
  /\ \A i \in Runs : file'[i] = file[i]
  /\ \A i \in Runs, n \in Nat : HasGot(i, n) => HasGot(i, n)'

(* What a packet tells stays true.                                          *)
LEMMA PacketForward ==
  ASSUME ShareTypeOK, ShareForward, NEW m \in lan, PacketOK(m)
  PROVE  PacketOK(m)'
<1>1. m.id \in Runs /\ m.seq \in Nat
  BY Types DEF Packets
<1>2. AllOf(m.id) \in Nat /\ AllOf(m.id)' = AllOf(m.id)
  BY <1>1, Types DEF ShareForward, AllOf
<1>3. \A n \in Nat : HasGot(m.id, n) => HasGot(m.id, n)'
  BY <1>1 DEF ShareForward
<1> QED
  BY <1>1, <1>2, <1>3 DEF PacketOK

(* What a sender that does nothing knows stays true.                        *)
LEMMA SenderForward ==
  ASSUME ShareTypeOK, ShareForward, NEW s \in Senders, SenderOK(send[s]),
         send'[s] = send[s]
  PROVE  SenderOK(send[s])'
<1> DEFINE l == send[s]
<1>0. CASE l.at = "idle"
  BY <1>0 DEF SenderOK
<1>1. CASE l.at # "idle"
  <2>1. l.id \in Runs /\ l.seq \in Nat /\ l.ack \in Nat \union {-1}
    BY <1>1, Types DEF SendState
  <2>2. AllOf(l.id) \in Nat /\ Chunks[file'[l.id]] = AllOf(l.id)
    BY <2>1, Types DEF ShareForward, AllOf
  <2>3. \A n \in Nat : HasGot(l.id, n) =>
          \/ fate'[l.id] # "none"
          \/ recv'.busy /\ recv'.id = l.id /\ n <= recv'.expect
    BY <2>1 DEF ShareForward, HasGot
  <2>4. l.ack >= 0 => l.ack \in Nat /\ l.ack + 1 \in Nat
    BY <2>1
  <2> QED
    BY <2>1, <2>2, <2>3, <2>4 DEF SenderOK, HasGot, AllOf
<1> QED
  BY <1>0, <1>1

(* What was reported stays received.                                        *)
LEMMA ReportedForward ==
  ASSUME ShareTypeOK, ShareForward, ReportedOK, reported' = reported
  PROVE  ReportedOK'
<1> SUFFICES ASSUME NEW i \in reported PROVE HasGot(i, AllOf(i))'
  BY DEF ReportedOK
<1>1. i \in Runs
  BY DEF ShareTypeOK
<1>2. AllOf(i) \in Nat /\ AllOf(i)' = AllOf(i)
  BY <1>1, Types DEF ShareForward, AllOf
<1> QED
  BY <1>1, <1>2 DEF ShareForward, ReportedOK, HasGot

(* Steps of the senders and the network are such steps.                     *)
LEMMA StillForward ==
  ASSUME UNCHANGED <<recv, file, fate>>
  PROVE  ShareForward
BY DEF ShareForward, HasGot, Runs

(* The machines start with nothing sent.                                    *)
LEMMA InitInv == ShareInit => ShareInv
<1> SUFFICES ASSUME ShareInit PROVE ShareInv
  OBVIOUS
<1> USE ShareAssumption
<1>1. Len(file) = 0 /\ Runs = {}
  BY DEF ShareInit, Runs
<1>2. ShareTypeOK
  <2>1. file \in Seq(Files) /\ fate \in Seq({"none", "saved", "unsaved", "cancelled"})
    BY DEF ShareInit
  <2>2. fate \in [Runs -> {"none", "saved", "unsaved", "cancelled"}]
    BY <2>1, <1>1 DEF ShareInit
  <2>3. send \in [Senders -> [at : {"idle", "offer", "data", "done"}, seq : Nat,
                             accept : BOOLEAN, ack : Nat \union {-1}, id : Runs \union {0}]]
    BY DEF ShareInit, Idle
  <2>4. recv \in [on : BOOLEAN, busy : BOOLEAN, done : BOOLEAN,
                 src : Senders \union {NoSender}, name : Files \union {NoFile},
                 buf : Seq(Files \X Nat), expect : Nat, id : Runs \union {0}]
    BY DEF ShareInit, Closed
  <2> QED
    BY <2>1, <2>2, <2>3, <2>4 DEF ShareInit, ShareTypeOK, Idle, Closed
<1>3. Core
  BY DEF ShareInit, Core, PacketsOK, SendersOK, SenderOK, RecvOK, ReportedOK, SavedOK, Idle, Closed
<1> QED  BY <1>2, <1>3 DEF ShareInv

---------------------------------------------------------------------------
(* The senders.                                                             *)

(* A sender goes from one state to another and may send what the new one    *)
(* asks for.                                                                *)
LEMMA SenderMoves ==
  ASSUME ShareInv, NEW s \in Senders, NEW l \in SendState,
         l.at # "idle" => l.id \in Runs,
         mixed' \in BOOLEAN, mixed => mixed', ~mixed' => SenderOK(l),
         send' = [send EXCEPT ![s] = l],
         lan' \subseteq lan \union (IF l.at = "idle" THEN {} ELSE {Now(s, l)}),
         reported' \subseteq Runs, ~mixed' => ReportedOK',
         UNCHANGED <<recv, disk, file, fate>>
  PROVE  ShareInv'
<1>0. ShareTypeOK /\ ShareForward /\ Runs' = Runs
  BY StillForward DEF ShareInv, Runs
<1>1. l.at # "idle" =>
        /\ Now(s, l) \in Packets
        /\ SenderOK(l) => PacketOK(Now(s, l))
  <2>1. CASE l.at = "offer"
    <3>1. Now(s, l) = Packet("offer", s, 0, l.id) /\ l.id \in Runs /\ 0 \in Nat
      BY <2>1 DEF Now, SendState
    <3>2. /\ Now(s, l) \in Packets
          /\ Now(s, l).t = "offer" /\ Now(s, l).seq = 0 /\ Now(s, l).id = l.id
      BY <3>1, PacketType
    <3> QED
      BY <2>1, <3>2 DEF PacketOK, SenderOK
  <2>2. CASE l.at = "data"
    <3>1. Now(s, l) = Packet("data", s, l.seq, l.id) /\ l.id \in Runs /\ l.seq \in Nat
      BY <2>2 DEF Now, SendState
    <3>2. /\ Now(s, l) \in Packets
          /\ Now(s, l).t = "data" /\ Now(s, l).seq = l.seq /\ Now(s, l).id = l.id
      BY <3>1, PacketType
    <3> QED
      BY <2>2, <3>2 DEF PacketOK, SenderOK
  <2>3. CASE l.at = "done"
    <3>1. Now(s, l) = Packet("done", s, 0, l.id) /\ l.id \in Runs /\ 0 \in Nat
      BY <2>3 DEF Now, SendState
    <3>2. /\ Now(s, l) \in Packets
          /\ Now(s, l).t = "done" /\ Now(s, l).seq = 0 /\ Now(s, l).id = l.id
      BY <3>1, PacketType
    <3> QED
      BY <2>3, <3>2 DEF PacketOK, SenderOK
  <2> QED
    BY <2>1, <2>2, <2>3 DEF SendState
<1>2. send' \in [Senders -> SendState]
  BY <1>0 DEF ShareTypeOK, SendState
<1>3. ShareTypeOK'
  <2>1. lan' \subseteq Packets'
    BY <1>0, <1>1 DEF ShareTypeOK, Packets
  <2> QED
    BY <1>0, <1>2, <2>1 DEF ShareTypeOK, SendState
<1>4. ASSUME ~mixed' PROVE Core'
  <2>1. PacketsOK'
    <3> SUFFICES ASSUME NEW m \in lan' PROVE PacketOK(m)'
      BY DEF PacketsOK
    <3>1. PacketOK(m)
      BY <1>1, <1>4 DEF ShareInv, Core, PacketsOK
    <3> QED
      BY <3>1 DEF PacketOK, HasGot, AllOf
  <2>2. SendersOK'
    <3> SUFFICES ASSUME NEW r \in Senders PROVE SenderOK(send[r])'
      BY DEF SendersOK
    <3>1. SenderOK(send'[r])
      BY <1>0, <1>4 DEF ShareInv, Core, SendersOK, ShareTypeOK
    <3> QED
      BY <3>1 DEF SenderOK, HasGot, AllOf
  <2> QED
    BY <2>1, <2>2, <1>4 DEF ShareInv, Core, RecvOK, SavedOK, Whole, Piece
<1> QED
  BY <1>3, <1>4 DEF ShareInv

(* From an acceptance or an acknowledgement the sender goes on to a chunk   *)
(* it may send, or to the end.                                              *)
LEMMA NextChunkOK ==
  ASSUME ShareInv, NEW s \in Senders, NEW seq \in Nat, send[s].at # "idle",
         ~mixed => HasGot(send[s].id, seq) /\ seq <= AllOf(send[s].id)
  PROVE  LET l == ToChunk(send[s], seq) IN
           /\ l \in SendState /\ l.at # "idle" /\ l.id \in Runs
           /\ ~mixed => SenderOK(l)
<1>1. send[s] \in SendState /\ send[s].id \in Runs /\ AllOf(send[s].id) \in Nat
  BY Types DEF ShareInv
<1>2. CASE seq < AllOf(send[s].id)
  <2> DEFINE l == [send[s] EXCEPT !.at = "data", !.seq = seq, !.ack = -1]
  <2>1. ToChunk(send[s], seq) = l
    BY <1>2 DEF ToChunk, AllOf
  <2>2. l \in SendState /\ l.at = "data" /\ l.seq = seq /\ l.ack = -1 /\ l.id = send[s].id
    BY <1>1 DEF SendState
  <2>3. ~mixed => SenderOK(l)
    BY <1>2, <2>2 DEF SenderOK
  <2> QED
    BY <1>1, <2>1, <2>2, <2>3
<1>3. CASE ~(seq < AllOf(send[s].id))
  <2> DEFINE l == [send[s] EXCEPT !.at = "done"]
  <2>1. ToChunk(send[s], seq) = l
    BY <1>3 DEF ToChunk, AllOf
  <2>2. l \in SendState /\ l.at = "done" /\ l.id = send[s].id
    BY <1>1 DEF SendState
  <2>3. ~mixed => seq = AllOf(send[s].id)
    BY <1>1, <1>3
  <2>4. ~mixed => SenderOK(l)
    BY <2>2, <2>3 DEF SenderOK
  <2> QED
    BY <1>1, <2>1, <2>2, <2>4
<1> QED
  BY <1>2, <1>3

(* ... and sends what the new state asks for.                               *)
LEMMA GoMoves ==
  ASSUME ShareInv, NEW s \in Senders, NEW l \in SendState,
         l.at # "idle", l.id \in Runs, ~mixed => SenderOK(l), Go(s, l),
         UNCHANGED <<recv, disk, file, fate, reported, mixed>>
  PROVE  ShareInv'
<1>1. lan' \subseteq lan \union {Now(s, l)}
  BY PutPacket DEF Go
<1>2. reported' \subseteq Runs /\ (~mixed => ReportedOK')
  BY DEF ShareInv, ShareTypeOK, Core, ReportedOK, HasGot, AllOf
<1>3. mixed' \in BOOLEAN /\ (mixed => mixed') /\ (~mixed' => ~mixed)
  BY DEF ShareInv, ShareTypeOK
<1> QED
  BY <1>1, <1>2, <1>3, SenderMoves DEF Go

(* share_send_to after the offer.                                           *)
LEMMA SenderInv ==
  ASSUME ShareInv, NEW s \in Senders,
         Accepted(s) \/ Acked(s) \/ Resend(s) \/ Stall(s) \/ Report(s)
  PROVE  ShareInv'
<1>1. /\ send[s] \in SendState
      /\ send[s].at # "idle" => send[s].id \in Runs /\ AllOf(send[s].id) \in Nat
      /\ ~mixed => SenderOK(send[s])
  BY Types DEF ShareInv, Core, SendersOK
<1>2. CASE Accepted(s)
  <2>1. send[s].at = "offer" /\ (~mixed => HasGot(send[s].id, 0) /\ 0 <= AllOf(send[s].id))
    BY <1>1, <1>2 DEF Accepted, SenderOK
  <2> QED
    BY <1>2, <2>1, NextChunkOK, GoMoves DEF Accepted
<1>3. CASE Acked(s)
  <2>1. send[s].at = "data" /\ send[s].seq \in Nat /\ send[s].ack = send[s].seq
    BY <1>1, <1>3 DEF Acked, SendState
  <2>2. ~mixed => /\ HasGot(send[s].id, send[s].seq + 1)
                  /\ send[s].seq + 1 <= AllOf(send[s].id)
    BY <1>1, <2>1 DEF SenderOK
  <2>3. send[s].seq + 1 \in Nat
    BY <2>1
  <2> QED
    BY <1>3, <2>1, <2>2, <2>3, NextChunkOK, GoMoves DEF Acked
<1>4. CASE Resend(s)
  <2>1. send[s].at # "idle"
    BY <1>4 DEF Resend, Waiting
  <2> QED
    BY <1>1, <1>4, <2>1, GoMoves DEF Resend
<1>5. /\ Idle \in SendState /\ Idle.at = "idle" /\ SenderOK(Idle)
      /\ mixed \in BOOLEAN
  BY DEF Idle, SendState, SenderOK, ShareInv, ShareTypeOK
<1>6. CASE Stall(s)
  <2>1. reported' \subseteq Runs /\ (~mixed => ReportedOK')
    BY <1>6 DEF Stall, ShareInv, ShareTypeOK, Core, ReportedOK, HasGot, AllOf
  <2>2. mixed' \in BOOLEAN /\ (mixed => mixed') /\ lan' \subseteq lan
    BY <1>5, <1>6 DEF Stall
  <2> QED
    BY <1>5, <1>6, <2>1, <2>2, SenderMoves DEF Stall
<1>7. CASE Report(s)
  <2>1. send[s].at = "done" /\ send[s].id \in Runs
    BY <1>1, <1>7 DEF Report
  <2>2. ~mixed => ReportedOK'
    BY <1>1, <1>7, <2>1 DEF Report, ShareInv, Core, ReportedOK, SenderOK, HasGot, AllOf
  <2>3. reported' \subseteq Runs
    BY <1>7, <2>1 DEF Report, ShareInv, ShareTypeOK
  <2>4. mixed' \in BOOLEAN /\ (mixed => mixed') /\ lan' \subseteq lan
    BY <1>5, <1>7 DEF Report
  <2> QED
    BY <1>5, <1>7, <2>2, <2>3, <2>4, SenderMoves DEF Report
<1> QED
  BY <1>2, <1>3, <1>4, <1>6, <1>7

(* A transfer begins: nobody has heard of it.                               *)
LEMMA OfferInv ==
  ASSUME ShareInv, NEW s \in Senders, NEW x \in Files, Offer(s, x)
  PROVE  ShareInv'
<1> DEFINE n == Len(file) + 1
           l == [Idle EXCEPT !.at = "offer", !.id = n]
<1>1. ShareTypeOK /\ n \in Nat
  BY Types DEF ShareInv
<1>2. /\ file' \in Seq(Files) /\ Runs' = Runs \union {n} /\ n \notin Runs
      /\ \A i \in Runs : file'[i] = file[i]
  BY <1>1 DEF Offer, ShareTypeOK, Runs
<1>3. /\ fate \in Seq({"none", "saved", "unsaved", "cancelled"}) /\ Len(fate) = Len(file)
  BY <1>1 DEF ShareTypeOK, Runs
<1>4. /\ fate' \in [Runs' -> {"none", "saved", "unsaved", "cancelled"}]
      /\ \A i \in Runs : fate'[i] = fate[i]
  <2>1. /\ fate' \in Seq({"none", "saved", "unsaved", "cancelled"}) /\ Len(fate') = n
        /\ \A i \in 1 .. Len(fate) : fate'[i] = fate[i]
    BY <1>1, <1>3 DEF Offer
  <2>2. Runs = 1 .. Len(fate) /\ Runs' = 1 .. n
    BY <1>1, <1>2, <1>3 DEF Offer, ShareTypeOK, Runs
  <2> QED
    BY <1>1, <2>1, <2>2
<1>5. ShareForward
  BY <1>2, <1>4 DEF ShareForward, HasGot, Offer
<1>6. /\ l.at = "offer" /\ l.id = n /\ l.accept = FALSE
      /\ l \in [at : {"idle", "offer", "data", "done"}, seq : Nat,
                accept : BOOLEAN, ack : Nat \union {-1}, id : Runs' \union {0}]
  BY <1>1, <1>2 DEF Idle
<1>7. /\ send' = [send EXCEPT ![s] = l]
      /\ lan' \subseteq lan \union {Packet("offer", s, 0, n)}
  BY <1>6, PutPacket DEF Offer, Go, Now
<1>8. Packet("offer", s, 0, n) \in Packets' /\ Packet("offer", s, 0, n).t = "offer"
  BY <1>2 DEF Packet, Packets
<1>9. ShareTypeOK'
  <2>1. lan' \subseteq Packets'
    BY <1>1, <1>2, <1>7, <1>8 DEF ShareTypeOK, Packets
  <2>2. send' \in [Senders -> [at : {"idle", "offer", "data", "done"}, seq : Nat,
                  accept : BOOLEAN, ack : Nat \union {-1}, id : Runs' \union {0}]]
    BY <1>1, <1>2, <1>6, <1>7 DEF ShareTypeOK
  <2>3. \A r \in Senders : send'[r].at # "idle" => send'[r].id \in Runs'
    BY <1>1, <1>2, <1>6, <1>7 DEF ShareTypeOK
  <2>4. recv' \in [on : BOOLEAN, busy : BOOLEAN, done : BOOLEAN,
                  src : Senders \union {NoSender}, name : Files \union {NoFile},
                  buf : Seq(Files \X Nat), expect : Nat, id : Runs' \union {0}]
    BY <1>1, <1>2 DEF Offer, ShareTypeOK
  <2> QED
    BY <1>1, <1>2, <1>4, <2>1, <2>2, <2>3, <2>4 DEF Offer, ShareTypeOK
<1>10. ASSUME ~mixed' PROVE Core'
  <2>1. Core
    BY <1>10 DEF Offer, ShareInv
  <2>2. PacketsOK'
    <3> SUFFICES ASSUME NEW m \in lan' PROVE PacketOK(m)'
      BY DEF PacketsOK
    <3>1. CASE m \in lan
      BY <1>1, <1>5, <2>1, <3>1, PacketForward DEF Core, PacketsOK
    <3>2. CASE m = Packet("offer", s, 0, n)
      BY <1>8, <3>2 DEF PacketOK
    <3> QED
      BY <1>7, <3>1, <3>2
  <2>3. SendersOK'
    <3> SUFFICES ASSUME NEW r \in Senders PROVE SenderOK(send[r])'
      BY DEF SendersOK
    <3>1. CASE r # s
      BY <1>1, <1>5, <1>7, <2>1, <3>1, SenderForward DEF Core, SendersOK, ShareTypeOK
    <3>2. CASE r = s
      <4>1. send'[r] = l
        BY <1>1, <1>7, <3>2 DEF ShareTypeOK
      <4> QED
        BY <1>6, <4>1 DEF SenderOK
    <3> QED
      BY <3>1, <3>2
  <2>4. RecvOK'
    BY <1>1, <1>2, <1>4, <2>1 DEF Offer, Core, RecvOK, ShareTypeOK, Piece
  <2>5. ReportedOK'
    BY <1>1, <1>5, <2>1, ReportedForward DEF Offer, Core
  <2> QED
    BY <2>1, <2>2, <2>3, <2>4, <2>5 DEF Offer, Core, SavedOK, Whole, Piece
<1> QED
  BY <1>9, <1>10 DEF ShareInv

(* An answer comes to a sender: it is of its own transfer, or mixed is set.  *)
LEMMA AnswerInv ==
  ASSUME ShareInv, NEW m \in lan, NEW stays \in BOOLEAN, TakeAnswer(m, stays)
  PROVE  ShareInv'
<1> DEFINE l == IF m.t = "accept" THEN [send[m.s] EXCEPT !.accept = TRUE]
                                  ELSE [send[m.s] EXCEPT !.ack = m.seq]
<1>1. /\ m.s \in Senders /\ m.seq \in Nat
      /\ send[m.s] \in SendState /\ send[m.s].id \in Runs /\ send[m.s].at # "idle"
      /\ AllOf(send[m.s].id) \in Nat
  BY Types DEF ShareInv, TakeAnswer, Packets
<1>2. l \in SendState /\ l.at = send[m.s].at /\ l.id = send[m.s].id
  BY <1>1 DEF SendState
<1>3. send' = [send EXCEPT ![m.s] = l]
  BY <1>1 DEF TakeAnswer, ShareInv, ShareTypeOK
<1>4. mixed' \in BOOLEAN /\ (mixed => mixed')
  BY DEF TakeAnswer, ShareInv, ShareTypeOK
<1>5. ASSUME ~mixed' PROVE SenderOK(l) /\ ReportedOK'
  <2>1. Core /\ m.id = send[m.s].id
    BY <1>5 DEF TakeAnswer, ShareInv
  <2>2. PacketOK(m) /\ SenderOK(send[m.s])
    BY <1>1, <2>1 DEF Core, PacketsOK, SendersOK
  <2>3. CASE m.t = "accept"
    <3>1. l.accept = TRUE /\ l.seq = send[m.s].seq /\ l.ack = send[m.s].ack
      BY <1>1, <2>3 DEF SendState
    <3> QED
      BY <1>2, <2>1, <2>2, <2>3, <3>1 DEF PacketOK, SenderOK, TakeAnswer, Core, ReportedOK, HasGot, AllOf
  <2>4. CASE m.t = "ack"
    <3>1. l.accept = send[m.s].accept /\ l.seq = send[m.s].seq /\ l.ack = m.seq
      BY <1>1, <2>4 DEF SendState
    <3> QED
      BY <1>2, <2>1, <2>2, <2>4, <3>1 DEF PacketOK, SenderOK, TakeAnswer, Core, ReportedOK, HasGot, AllOf
  <2> QED
    BY <2>3, <2>4 DEF TakeAnswer
<1>6. lan' \subseteq lan /\ reported' \subseteq Runs /\ UNCHANGED <<recv, disk, file, fate>>
  BY DEF TakeAnswer, Handed, ShareInv, ShareTypeOK
<1> QED
  BY <1>1, <1>2, <1>3, <1>4, <1>5, <1>6, SenderMoves

---------------------------------------------------------------------------
(* The receiver.                                                            *)

(* The receiver goes from one state to another and may send packets of P.   *)
LEMMA ReceiverMoves ==
  ASSUME ShareInv, NEW P,
         lan' \subseteq lan \union P, P \subseteq Packets,
         recv' \in RecvState,
         recv'.busy => recv'.on /\ recv'.id \in Runs /\ recv'.name \in Files,
         recv'.done => recv'.busy,
         fate' \in [Runs -> {"none", "saved", "unsaved", "cancelled"}],
         mixed' \in BOOLEAN, mixed => mixed',
         ~mixed' => /\ ShareForward /\ RecvOK' /\ SavedOK'
                    /\ \A p \in P : PacketOK(p)',
         UNCHANGED <<send, file, reported>>
  PROVE  ShareInv'
<1>1. ShareTypeOK /\ Runs' = Runs /\ Packets' = Packets
  BY DEF ShareInv, Runs, Packets
<1>2. ShareTypeOK'
  BY <1>1 DEF ShareTypeOK, RecvState
<1>3. ASSUME ~mixed' PROVE Core'
  <2>1. Core
    BY <1>3 DEF ShareInv
  <2>2. PacketsOK'
    <3> SUFFICES ASSUME NEW m \in lan' PROVE PacketOK(m)'
      BY DEF PacketsOK
    <3> QED
      BY <1>1, <1>3, <2>1, PacketForward DEF Core, PacketsOK
  <2>3. SendersOK'
    <3> SUFFICES ASSUME NEW r \in Senders PROVE SenderOK(send[r])'
      BY DEF SendersOK
    <3> QED
      BY <1>1, <1>3, <2>1, SenderForward DEF Core, SendersOK
  <2> QED
    BY <1>1, <1>3, <2>1, <2>2, <2>3, ReportedForward DEF Core
<1> QED
  BY <1>2, <1>3 DEF ShareInv

(* A buffer that holds a file's chunks, each at its place, is the file.     *)
LEMMA AllItsChunks ==
  ASSUME NEW x \in Files, NEW b \in Seq(Files \X Nat), Len(b) = Chunks[x],
         \A j \in 1 .. Chunks[x] : b[j] = Piece(x, j - 1)
  PROVE  b = Whole(x)
<1>1. PICK n : n = Chunks[x]
  OBVIOUS
<1>2. b \in [1 .. n -> Files \X Nat]
  BY <1>1, LenProperties, Zenon
<1>3. \A j \in 1 .. n : b[j] = Piece(x, j - 1)
  BY <1>1
<1>4. b = [j \in 1 .. n |-> b[j]]
  BY <1>2, Zenon
<1>5. [j \in 1 .. n |-> b[j]] = [j \in 1 .. n |-> Piece(x, j - 1)]
  BY <1>3, Zenon
<1>6. b = [j \in 1 .. n |-> Piece(x, j - 1)]
  BY <1>4, <1>5, Zenon
<1> QED
  BY <1>1, <1>6, Zenon DEF Whole

(* share_recv begins and ends: a transfer in hand is over.                  *)
LEMMA CloseInv ==
  ASSUME ShareInv, Listen \/ Save \/ CannotSave \/ Cancel
  PROVE  ShareInv'
<1>1. ShareTypeOK /\ recv \in RecvState
  BY Types DEF ShareInv
<1>2. recv' \in RecvState /\ ~recv'.busy /\ ~recv'.done
  <2>1. Closed \in RecvState /\ Closed.busy = FALSE /\ Closed.done = FALSE
    BY DEF Closed, RecvState
  <2> DEFINE r == [Closed EXCEPT !.on = TRUE]
  <2>2. r \in RecvState /\ r.busy = FALSE /\ r.done = FALSE
    BY <2>1 DEF RecvState
  <2> QED
    BY <2>1, <2>2 DEF Listen, Save, CannotSave, Cancel, Close
<1>3. /\ fate' \in [Runs -> {"none", "saved", "unsaved", "cancelled"}]
      /\ \A i \in Runs : fate[i] # "none" => fate'[i] # "none"
      /\ recv.busy /\ recv.on => fate'[recv.id] # "none"
  <2>1. CASE Listen
    BY <1>1, <2>1 DEF Listen, Close, ShareTypeOK
  <2>2. CASE Save
    BY <1>1, <2>2 DEF Save, Close, ShareTypeOK
  <2>3. CASE CannotSave \/ Cancel
    BY <1>1, <2>3 DEF CannotSave, Cancel, Close, ShareTypeOK
  <2> QED
    BY <2>1, <2>2, <2>3
<1>4. UNCHANGED <<send, lan, file, reported, mixed>>
  BY DEF Listen, Save, CannotSave, Cancel, Close
<1>5. ShareForward
  BY <1>1, <1>3, <1>4 DEF ShareForward, HasGot, Runs, ShareTypeOK
<1>6. ASSUME ~mixed, Save PROVE <<recv.name, recv.buf>>[2] = Whole(<<recv.name, recv.buf>>[1])
  <2>1. recv.busy /\ RecvOK
    BY <1>6 DEF ShareInv, Core, Save, ShareTypeOK
  <2>2. /\ recv.buf \in Seq(Files \X Nat) /\ Len(recv.buf) = Chunks[recv.name]
        /\ \A j \in 1 .. Chunks[recv.name] : recv.buf[j] = Piece(recv.name, j - 1)
    BY <1>1, <1>6, <2>1 DEF RecvOK, Save, RecvState
  <2>3. recv.name \in Files /\ Chunks[recv.name] \in Nat
    BY <1>1, <2>1, ShareAssumption DEF ShareTypeOK
  <2>4. recv.buf = Whole(recv.name)
    BY <2>2, <2>3, AllItsChunks
  <2> QED
    BY <2>4
<1>7. ~mixed => SavedOK'
  <2>1. CASE Save
    <3>1. disk' = disk \union {<<recv.name, recv.buf>>}
      BY <2>1 DEF Save
    <3>2. ~mixed => SavedOK
      BY DEF ShareInv, Core
    <3> QED
      BY <1>6, <2>1, <3>1, <3>2 DEF SavedOK, Whole, Piece
  <2>2. CASE ~Save
    BY <2>2 DEF Listen, CannotSave, Cancel, SavedOK, ShareInv, Core, Whole, Piece
  <2> QED
    BY <2>1, <2>2
<1>8. ~mixed => RecvOK'
  BY <1>2 DEF RecvOK
<1> DEFINE none == {}
<1>9. lan' \subseteq lan \union none /\ none \subseteq Packets
  BY <1>4
<1> HIDE DEF none
<1>10. \A p \in none : PacketOK(p)'
  BY DEF none
<1> QED
  BY <1>1, <1>2, <1>3, <1>4, <1>5, <1>7, <1>8, <1>9, <1>10, ReceiverMoves DEF ShareTypeOK

(* What the receiver takes from the network, and the transfer in hand.      *)
LEMMA WhatCame ==
  ASSUME ShareInv, NEW m \in lan
  PROVE  /\ ShareTypeOK /\ recv \in RecvState /\ mixed \in BOOLEAN
         /\ m.s \in Senders /\ m.seq \in Nat /\ m.id \in Runs
         /\ file[m.id] \in Files /\ AllOf(m.id) \in Nat
         /\ recv.busy => /\ recv.on /\ recv.id \in Runs /\ recv.name \in Files
                         /\ Chunks[recv.name] \in Nat
         /\ ~mixed => Core /\ PacketOK(m)
BY Types, ShareAssumption DEF ShareInv, ShareTypeOK, Packets, Core, PacketsOK

(* An answer goes into what is left of the network.                         *)
LEMMA Answered ==
  ASSUME NEW m \in lan, NEW stays \in BOOLEAN, NEW t, NEW seq, NEW id,
         lan' = Put(Handed(m, stays), Packet(t, m.s, seq, id))
  PROVE  lan' \subseteq lan \union {Packet(t, m.s, seq, id)}
BY PutPacket DEF Handed

(* The receiver answers with p, and its own state is sound.                 *)
LEMMA ReceiverAnswers ==
  ASSUME ShareInv, NEW p \in Packets, lan' \subseteq lan \union {p},
         recv' \in RecvState,
         recv'.busy => recv'.on /\ recv'.id \in Runs /\ recv'.name \in Files,
         recv'.done => recv'.busy,
         mixed' \in BOOLEAN, mixed => mixed',
         ~mixed' => ShareForward /\ RecvOK' /\ PacketOK(p)',
         UNCHANGED <<send, disk, file, fate, reported>>
  PROVE  ShareInv'
<1>1. {p} \subseteq Packets
  OBVIOUS
<1>2. fate' \in [Runs -> {"none", "saved", "unsaved", "cancelled"}]
  BY DEF ShareInv, ShareTypeOK
<1>3. ~mixed' => SavedOK'
  BY DEF ShareInv, Core, SavedOK, Whole, Piece
<1>4. ASSUME ~mixed' PROVE \A q \in {p} : PacketOK(q)'
  <2> TAKE q \in {p}
  <2>1. q = p
    OBVIOUS
  <2> QED
    BY <1>4, <2>1 DEF PacketOK
<1>5. UNCHANGED <<send, file, reported>>
  OBVIOUS
<1> QED
  BY <1>1, <1>2, <1>3, <1>4, <1>5, ReceiverMoves

(* share_cb, SH_OFFER: an offer of the transfer in hand, or a new one.      *)
LEMMA TakeOfferInv ==
  ASSUME ShareInv, NEW m \in lan, NEW stays \in BOOLEAN, TakeOffer(m, stays)
  PROVE  ShareInv'
<1>0. UNCHANGED <<send, disk, file, fate, reported>>
  BY DEF TakeOffer
<1>1. CASE recv.busy
  <2>0. PICK p : p = Packet("accept", m.s, 0, recv.id)
    OBVIOUS
  <2>1. lan' \subseteq lan \union {p} /\ recv' = recv
    BY <1>1, <2>0, Answered DEF TakeOffer, Answer
  <2>2. p \in Packets /\ p.t = "accept" /\ p.seq = 0 /\ p.id = recv.id
    BY <1>1, <2>0, WhatCame, PacketType
  <2>3. ShareForward
    BY <1>0, <2>1, StillForward
  <2>4. HasGot(recv.id, 0)'
    BY <1>1, <2>1, WhatCame DEF HasGot, RecvState
  <2>5. PacketOK(p)'
    BY <2>1, <2>2, <2>4 DEF PacketOK, HasGot
  <2>6. mixed' \in BOOLEAN /\ (mixed => mixed')
    BY <1>1, WhatCame DEF TakeOffer
  <2>7. ~mixed' => RecvOK'
    BY <1>0, <2>1, <2>6, WhatCame DEF Core, RecvOK, Piece
  <2>8. /\ recv'.busy => recv'.on /\ recv'.id \in Runs /\ recv'.name \in Files
        /\ recv'.done => recv'.busy
        /\ recv' \in RecvState
    BY <2>1, WhatCame DEF ShareTypeOK
  <2> QED
    BY <1>0, <2>1, <2>2, <2>3, <2>5, <2>6, <2>7, <2>8, ReceiverAnswers
<1>2. CASE ~recv.busy
  <2> DEFINE p == Packet("accept", m.s, 0, m.id)
             r == [recv EXCEPT !.busy = TRUE, !.src = m.s, !.name = file[m.id],
                               !.buf = <<>>, !.expect = 0, !.id = m.id]
  <2>0. /\ recv \in RecvState /\ m.s \in Senders /\ m.id \in Runs /\ file[m.id] \in Files
        /\ <<>> \in Seq(Files \X Nat)
    BY WhatCame
  <2>1. /\ r.on = recv.on /\ r.done = recv.done /\ r.busy = TRUE /\ r.src = m.s
        /\ r.name = file[m.id] /\ r.buf = <<>> /\ r.expect = 0 /\ r.id = m.id
    BY <2>0 DEF RecvState
  <2>2. r \in RecvState
    BY <2>0 DEF RecvState
  <2>3. recv' = r
    BY <1>2 DEF TakeOffer
  <2>4. lan' \subseteq lan \union {p}
    BY <1>2, <2>1, <2>3, Answered DEF TakeOffer, Answer
  <2>5. p \in Packets /\ p.t = "accept" /\ p.seq = 0 /\ p.id = m.id
    BY <2>0, PacketType
  <2>6. ShareForward
    BY <1>0, <1>2 DEF ShareForward, HasGot, Runs
  <2>7. PacketOK(p)'
    <3>1. HasGot(p.id, 0)'
      BY <2>1, <2>3, <2>5 DEF HasGot
    <3> QED
      BY <2>5, <3>1 DEF PacketOK
  <2>8. mixed' \in BOOLEAN /\ (mixed => mixed') /\ (~mixed' => fate[m.id] = "none")
    BY <1>2, WhatCame DEF TakeOffer
  <2>9. ~recv.done /\ recv.on
    BY <1>2, WhatCame DEF TakeOffer, ShareTypeOK
  <2>10. ~mixed' => RecvOK'
    BY <1>0, <2>1, <2>3, <2>8, <2>9, WhatCame DEF RecvOK, AllOf
  <2> HIDE DEF p, r
  <2>11. /\ recv'.busy => recv'.on /\ recv'.id \in Runs /\ recv'.name \in Files
         /\ recv'.done => recv'.busy
         /\ recv' \in RecvState
    BY <2>0, <2>1, <2>2, <2>3, <2>9
  <2> QED
    BY <1>0, <2>4, <2>5, <2>6, <2>7, <2>8, <2>10, <2>11, ReceiverAnswers
<1> QED
  BY <1>1, <1>2

(* The chunk expected is appended, where there is room as every sound       *)
(* transfer has it; any chunk is acknowledged, and is in the buffer then.   *)
LEMMA TakeDataInv ==
  ASSUME ShareInv, NEW m \in lan, NEW stays \in BOOLEAN, TakeData(m, stays)
  PROVE  ShareInv'
<1> DEFINE c == Piece(file[m.id], m.seq)
           b == IF Len(recv.buf) < Chunks[recv.name] THEN Append(recv.buf, c) ELSE recv.buf
           r == [recv EXCEPT !.expect = recv.expect + 1, !.buf = b]
<1> PICK p : p = Packet("ack", m.s, m.seq, recv.id)
  OBVIOUS
<1>0. UNCHANGED <<send, disk, file, fate, reported>>
  BY DEF TakeData
<1>1. /\ recv.busy /\ recv.on /\ recv \in RecvState /\ recv.id \in Runs
      /\ recv.name \in Files /\ Chunks[recv.name] \in Nat
      /\ m.seq \in Nat /\ m.id \in Runs /\ file[m.id] \in Files /\ m.t = "data"
  BY WhatCame DEF TakeData, Mine
<1>2. recv' = IF m.seq = recv.expect THEN r ELSE recv
  BY DEF TakeData, Expected
<1>3. recv.expect \in Nat /\ recv.buf \in Seq(Files \X Nat) /\ c \in Files \X Nat
  BY <1>1 DEF RecvState, Piece
<1>4. b \in Seq(Files \X Nat)
  BY <1>3
<1> HIDE DEF b
<1>5. /\ r.on = recv.on /\ r.done = recv.done /\ r.busy = recv.busy /\ r.src = recv.src
      /\ r.name = recv.name /\ r.buf = b /\ r.expect = recv.expect + 1 /\ r.id = recv.id
  BY <1>1 DEF RecvState
<1>6. r \in RecvState
  <2>1. recv.expect + 1 \in Nat
    BY <1>3
  <2> HIDE DEF c
  <2> QED
    BY <1>1, <1>4, <2>1 DEF RecvState
<1>7. lan' \subseteq lan \union {p}
  BY Answered DEF TakeData, Answer
<1>8. p \in Packets /\ p.t = "ack" /\ p.seq = m.seq /\ p.id = recv.id
  BY <1>1, WhatCame, PacketType
<1>9. mixed' \in BOOLEAN /\ (mixed => mixed') /\ (~mixed' => m.id = recv.id)
  BY WhatCame DEF TakeData
<1>10. /\ recv'.busy /\ recv'.on /\ recv'.id = recv.id /\ recv'.name = recv.name
       /\ recv'.done = recv.done /\ recv' \in RecvState
       /\ recv'.expect = IF m.seq = recv.expect THEN recv.expect + 1 ELSE recv.expect
       /\ recv'.buf = IF m.seq = recv.expect THEN b ELSE recv.buf
  BY <1>1, <1>2, <1>5, <1>6
<1> HIDE DEF r
<1>11. ShareForward
  <2>1. recv.expect <= recv'.expect
    BY <1>3, <1>10
  <2> QED
    BY <1>0, <1>1, <1>3, <1>10, <2>1 DEF ShareForward, HasGot, Runs, RecvState
<1>12. ASSUME ~mixed'
       PROVE  /\ RecvOK' /\ m.seq <= recv.expect /\ m.seq < AllOf(recv.id)
              /\ fate[recv.id] = "none"
  <2>1. /\ ~mixed /\ m.id = recv.id /\ PacketOK(m) /\ RecvOK
    BY <1>9, <1>12, WhatCame DEF Core
  <2>2. /\ fate[recv.id] = "none" /\ recv.name = file[recv.id]
        /\ recv.expect <= Chunks[recv.name] /\ Len(recv.buf) = recv.expect
        /\ \A j \in 1 .. recv.expect : recv.buf[j] = Piece(recv.name, j - 1)
        /\ recv.done => recv.expect = Chunks[recv.name]
    BY <1>1, <2>1 DEF RecvOK
  <2>3. m.seq <= recv.expect /\ m.seq < AllOf(recv.id) /\ AllOf(recv.id) = Chunks[recv.name]
    BY <1>1, <2>1, <2>2 DEF PacketOK, HasGot, AllOf
  <2>4. CASE m.seq = recv.expect
    <3>1. b = Append(recv.buf, c) /\ c = Piece(recv.name, recv.expect) /\ ~recv.done
      BY <1>3, <2>1, <2>2, <2>3, <2>4 DEF b
    <3> HIDE DEF c
    <3>2. Len(b) = recv.expect + 1 /\ b[recv.expect + 1] = c
          /\ \A j \in 1 .. recv.expect : b[j] = recv.buf[j]
      BY <1>3, <2>2, <3>1
    <3>3. \A j \in 1 .. recv.expect + 1 : b[j] = Piece(recv.name, j - 1)
      <4> TAKE j \in 1 .. recv.expect + 1
      <4>1. CASE j \in 1 .. recv.expect
        BY <2>2, <3>2, <4>1
      <4>2. CASE j = recv.expect + 1
        <5>1. j - 1 = recv.expect
          BY <1>3, <4>2
        <5> QED
          BY <3>1, <3>2, <4>2, <5>1
      <4> QED
        BY <1>3, <4>1, <4>2
    <3>4. recv.expect + 1 <= Chunks[recv.name]
      BY <1>1, <1>3, <2>3, <2>4
    <3>5. RecvOK'
      BY <1>0, <1>10, <2>2, <2>4, <3>1, <3>2, <3>3, <3>4 DEF RecvOK, Piece
    <3> QED
      BY <2>2, <2>3, <3>5
  <2>5. CASE m.seq # recv.expect
    <3>1. RecvOK'
      BY <1>0, <1>10, <2>2, <2>5 DEF RecvOK, Piece
    <3> QED
      BY <2>2, <2>3, <3>1
  <2> QED
    BY <2>4, <2>5
<1>13. ASSUME ~mixed' PROVE PacketOK(p)'
  <2>1. m.seq + 1 <= recv'.expect
    BY <1>1, <1>3, <1>10, <1>12, <1>13
  <2>2. recv'.busy /\ recv'.id = p.id /\ p.seq + 1 <= recv'.expect
    BY <1>8, <1>10, <2>1
  <2> QED
    BY <1>8, <2>2 DEF PacketOK, HasGot
<1>14. /\ recv'.busy => recv'.on /\ recv'.id \in Runs /\ recv'.name \in Files
       /\ recv'.done => recv'.busy
  BY <1>1, <1>10
<1> QED
  BY <1>0, <1>7, <1>8, <1>9, <1>10, <1>11, <1>12, <1>13, <1>14, ReceiverAnswers

(* share_cb, SH_DONE: all chunks are in the buffer by then.                 *)
LEMMA TakeDoneInv ==
  ASSUME ShareInv, NEW m \in lan, NEW stays \in BOOLEAN, TakeDone(m, stays)
  PROVE  ShareInv'
<1> DEFINE r == [recv EXCEPT !.done = TRUE]
<1> PICK p : p = Packet("ack", m.s, 0, recv.id)
  OBVIOUS
<1>0. UNCHANGED <<send, disk, file, fate, reported>>
  BY DEF TakeDone
<1>1. /\ recv.busy /\ recv.on /\ recv \in RecvState /\ recv.id \in Runs
      /\ recv.name \in Files /\ Chunks[recv.name] \in Nat /\ m.t = "done"
  BY WhatCame DEF TakeDone, Mine
<1>2. recv' = r
  BY DEF TakeDone
<1>3. /\ r.on = recv.on /\ r.done = TRUE /\ r.busy = recv.busy
      /\ r.name = recv.name /\ r.buf = recv.buf /\ r.expect = recv.expect /\ r.id = recv.id
      /\ r \in RecvState
  BY <1>1 DEF RecvState
<1>4. lan' \subseteq lan \union {p}
  BY Answered DEF TakeDone, Answer
<1>5. p \in Packets /\ p.t = "ack" /\ p.seq = 0 /\ p.id = recv.id
  BY <1>1, WhatCame, PacketType
<1>6. mixed' \in BOOLEAN /\ (mixed => mixed') /\ (~mixed' => m.id = recv.id)
  BY WhatCame DEF TakeDone
<1> HIDE DEF r
<1>7. ShareForward
  BY <1>0, <1>2, <1>3 DEF ShareForward, HasGot, Runs
<1>8. ASSUME ~mixed' PROVE RecvOK' /\ PacketOK(p)'
  <2>1. ~mixed /\ m.id = recv.id /\ PacketOK(m) /\ RecvOK
    BY <1>6, <1>8, WhatCame DEF Core
  <2>2. /\ recv.expect = Chunks[recv.name] /\ AllOf(recv.id) = recv.expect
    BY <1>1, <2>1 DEF PacketOK, HasGot, RecvOK, AllOf, RecvState
  <2>3. RecvOK'
    BY <1>0, <1>1, <1>2, <1>3, <2>1, <2>2 DEF RecvOK, Piece
  <2>4. AllOf(p.id)' = recv'.expect /\ recv'.expect \in Nat /\ recv'.busy /\ recv'.id = p.id
    BY <1>0, <1>1, <1>2, <1>3, <1>5, <2>2 DEF AllOf, RecvState
  <2>5. PacketOK(p)'
    BY <1>5, <2>4 DEF PacketOK, HasGot
  <2> QED
    BY <2>3, <2>5
<1>9. /\ recv'.busy => recv'.on /\ recv'.id \in Runs /\ recv'.name \in Files
      /\ recv'.done => recv'.busy
      /\ recv' \in RecvState
  BY <1>1, <1>2, <1>3
<1> QED
  BY <1>0, <1>4, <1>5, <1>6, <1>7, <1>8, <1>9, ReceiverAnswers

(* A packet is lost.                                                        *)
LEMMA VanishInv ==
  ASSUME ShareInv, NEW m \in lan, Vanish(m)
  PROVE  ShareInv'
<1>1. UNCHANGED <<send, recv, disk, file, fate, reported, mixed>> /\ lan' \subseteq lan
  BY DEF Vanish
<1>2. ShareTypeOK' /\ ShareForward
  BY <1>1, StillForward DEF ShareInv, ShareTypeOK, Runs, Packets
<1>3. ~mixed => Core'
  BY <1>1 DEF ShareInv, Core, PacketsOK, PacketOK, SendersOK, SenderOK, RecvOK, ReportedOK,
              SavedOK, HasGot, AllOf, Whole, Piece
<1> QED
  BY <1>1, <1>2, <1>3 DEF ShareInv

(* Every step of the code keeps it.                                         *)
LEMMA NextInv == ShareInv /\ [ShareNext]_sharevars => ShareInv'
<1> SUFFICES ASSUME ShareInv, [ShareNext]_sharevars PROVE ShareInv'
  OBVIOUS
<1>1. ASSUME NEW s \in Senders, NEW x \in Files, Offer(s, x) PROVE ShareInv'
  BY <1>1, OfferInv
<1>2. ASSUME NEW s \in Senders,
             Accepted(s) \/ Acked(s) \/ Resend(s) \/ Stall(s) \/ Report(s)
      PROVE  ShareInv'
  BY <1>2, SenderInv
<1>3. CASE Listen \/ Save \/ CannotSave \/ Cancel
  BY <1>3, CloseInv
<1>4. ASSUME NEW m \in lan, NEW stays \in BOOLEAN,
             TakeOffer(m, stays) \/ TakeData(m, stays) \/ TakeDone(m, stays) \/ TakeAnswer(m, stays)
      PROVE  ShareInv'
  BY <1>4, TakeOfferInv, TakeDataInv, TakeDoneInv, AnswerInv
<1>5. ASSUME NEW m \in lan, Vanish(m) PROVE ShareInv'
  BY <1>5, VanishInv
<1>6. CASE UNCHANGED sharevars
  <2>1. ShareTypeOK'
    BY <1>6 DEF sharevars, ShareInv, ShareTypeOK, Runs, Packets
  <2>2. ~mixed => PacketsOK' /\ SendersOK'
    BY <1>6 DEF sharevars, ShareInv, Core, PacketsOK, PacketOK, SendersOK, SenderOK, HasGot, AllOf
  <2>3. ~mixed => RecvOK'
    BY <1>6 DEF sharevars, ShareInv, Core, RecvOK, HasGot, Piece, AllOf
  <2>4. ~mixed => ReportedOK' /\ SavedOK'
    BY <1>6 DEF sharevars, ShareInv, Core, ReportedOK, SavedOK, HasGot, Whole, Piece, AllOf
  <2> QED
    BY <1>6, <2>1, <2>2, <2>3, <2>4 DEF sharevars, ShareInv, Core
<1> QED
  BY <1>1, <1>2, <1>3, <1>4, <1>5, <1>6 DEF ShareNext

---------------------------------------------------------------------------
(* Results.                                                                 *)

(* The inductive invariant holds in every state.                            *)
LEMMA ShareInvariant == ShareSpec => []ShareInv
<1>1. ShareInit => ShareInv
  BY InitInv
<1>2. ShareInv /\ [ShareNext]_sharevars => ShareInv'
  BY NextInv
<1> QED
  BY <1>1, <1>2, PTL DEF ShareSpec

(* The share state has its types.                                           *)
THEOREM ShareTypes == ShareSpec => []ShareTypeOK
<1>1. ShareInv => ShareTypeOK
  BY DEF ShareInv
<1> QED
  BY <1>1, ShareInvariant, PTL

(* cmd_net.c: what `share recv` saves is the whole file offered under the   *)
(* name, for any number of senders, any lengths and any network, unless a   *)
(* packet is taken for one of another transfer.                             *)
THEOREM SavedFilesAreWhole == ShareSpec => []SavedIsSent
<1>1. ShareInv => SavedIsSent
  BY DEF ShareInv, Core, SavedOK, SavedIsSent
<1> QED
  BY <1>1, ShareInvariant, PTL

(* cmd_net.c: where the sender printed "sent", the receiver has all of the  *)
(* file in its buffer, or the transfer is over there.                       *)
THEOREM ReportsAreTrue == ShareSpec => []ReportIsTrue
<1>1. ASSUME ShareInv, ~mixed, NEW i \in reported, fate[i] = "none"
      PROVE  recv.busy /\ recv.id = i /\ recv.buf = Whole(file[i])
  <2>1. i \in Runs /\ AllOf(i) \in Nat /\ recv \in RecvState
    BY <1>1, Types DEF ShareInv, ShareTypeOK
  <2>2. recv.busy /\ recv.id = i /\ AllOf(i) <= recv.expect /\ RecvOK
    BY <1>1 DEF ShareInv, Core, ReportedOK, HasGot
  <2>3. /\ recv.expect = AllOf(i) /\ Len(recv.buf) = recv.expect
        /\ \A j \in 1 .. recv.expect : recv.buf[j] = Piece(file[i], j - 1)
    <3>1. recv.name = file[i]
      BY <2>2 DEF RecvOK
    <3>2. /\ recv.expect <= AllOf(i) /\ Len(recv.buf) = recv.expect
          /\ \A j \in 1 .. recv.expect : recv.buf[j] = Piece(file[i], j - 1)
      BY <2>2, <3>1 DEF RecvOK, AllOf
    <3>3. recv.expect \in Nat
      BY <2>1 DEF RecvState
    <3> QED
      BY <2>1, <2>2, <3>2, <3>3
  <2>4. recv.buf \in Seq(Files \X Nat)
    BY <2>1 DEF RecvState
  <2>5. file[i] \in Files
    BY <1>1, <2>1, Types DEF ShareInv
  <2>6. Len(recv.buf) = Chunks[file[i]]
    BY <2>3 DEF AllOf
  <2>7. \A j \in 1 .. Chunks[file[i]] : recv.buf[j] = Piece(file[i], j - 1)
    BY <2>3 DEF AllOf
  <2>8. recv.buf = Whole(file[i])
    BY <2>4, <2>5, <2>6, <2>7, AllItsChunks
  <2> QED
    BY <2>2, <2>8
<1>2. ShareInv => ReportIsTrue
  BY <1>1 DEF ReportIsTrue
<1> QED
  BY <1>2, ShareInvariant, PTL
---------------------------------------------------------------------------
(* The network in one specification.                                        *)

(* A behaviour of MCNet's specification is one of each part's own: whatever *)
(* is proved of tcp.c, dhcp.c, share and the e1000 holds of what is run.    *)
THEOREM NetIsItsParts == NetSpec => Spec /\ DhcpSpec /\ ShareSpec /\ E1000Spec
<1>1. NetInit => Init /\ DhcpInit /\ ShareInit /\ E1000Init
  BY DEF NetInit
<1>2. ASSUME [NetNext]_<<part, vars, dhcpvars, sharevars, e1000vars>>
      PROVE  [Next]_vars /\ [DhcpNext]_dhcpvars /\ [ShareNext]_sharevars /\ [E1000Next]_e1000vars
  BY <1>2 DEF NetNext, OthersKeep
<1> QED
  BY <1>1, <1>2, PTL DEF NetSpec, Spec, DhcpSpec, ShareSpec, E1000Spec

(* For any sizes, servers, machines, frames and numbers: the state of the   *)
(* four network parts keeps its types.                                      *)
THEOREM NetTypes == NetSpec => []NetTypeOK
<1>1. TypeOK /\ DhcpTypeOK /\ ShareTypeOK /\ E1000TypeOK => NetTypeOK
  BY DEF NetTypeOK
<1> QED
  BY <1>1, NetIsItsParts, TcpTypes, DhcpTypes, ShareTypes, E1000Types, PTL
=============================================================================
