-------------------------------- MODULE Tcp --------------------------------
(***************************************************************************)
(* One connection of the TCP client (net/tcp.c), from tcp_connect to       *)
(* tcp_close, over a network that loses, repeats and reorders segments,    *)
(* with an ordinary TCP at the other end.                                  *)
(*                                                                         *)
(* A step of kmain is a stretch of code between two calls of               *)
(* netif_poll_all; tcp_input runs inside such a call, one segment a step.  *)
(* So it is wherever the card's interrupt line is masked, that is wherever *)
(* the APIC is in use (kernel/apic.c routes four lines, none of them the   *)
(* card's).                                                                *)
(*                                                                         *)
(* The streams are made of units: byte k of the peer's stream and chunk k  *)
(* of the request are the number k, and each takes one sequence number.    *)
(***************************************************************************)
EXTENDS Integers, Sequences, FiniteSetsExt

CONSTANTS
  SeqMod,    (* sequence numbers wrap here; 2^32 in the code                *)
  Iss,       (* isn_seed when the connection is made                        *)
  PeerIss,   (* the peer's initial sequence number                          *)
  RingSize,  (* RXBUF                                                       *)
  ReqLen,    (* chunks in the one request that is sent                      *)
  StreamLen, (* bound: bytes the peer writes                                *)
  Mss,       (* bytes in a segment                                          *)
  DownCap,   (* bound: segments in flight to us                             *)
  UpCap      (* bound: segments in flight to the peer                       *)

ASSUME TcpAssumption ==
  /\ {SeqMod, RingSize, ReqLen, StreamLen, Mss, DownCap, UpCap} \subseteq Nat
  /\ Iss \in 0 .. SeqMod - 1 /\ PeerIss \in 0 .. SeqMod - 1
  /\ SeqMod > 2 * (StreamLen + ReqLen + 4)
  /\ RingSize > 0 /\ ReqLen > 0 /\ Mss > 0 /\ DownCap > 0 /\ UpCap > 0

VARIABLES
  (* struct tcp_conn *)
  state, sndNxt, sndUna, rcvNxt, reset, finSeen,
  ring,     (* what the ring holds                                          *)
  (* kmain *)
  pc,       (* "start", in a call that waits, or "open" between calls       *)
  off,      (* tcp_send's off, in chunks                                    *)
  want,     (* tcp_send's want_una                                          *)
  outcome,  (* what tcp_send returned: "none" yet, "ok" or "failed"         *)
  read,     (* what tcp_recv has returned                                   *)
  eof,      (* tcp_recv has returned 0                                      *)
  (* the network: segments on their way to us and to the peer *)
  down, up,
  (* the peer *)
  peer,     (* "listen", "synrcvd", "up" or, aborted, "gone"                *)
  written,  (* how many bytes its program has written                       *)
  ended,    (* its program has closed its side                              *)
  acked,    (* how much of its stream, FIN included, we have acknowledged   *)
  wnd,      (* the window we last advertised                                *)
  got,      (* what it has received of the request                          *)
  gotFin    (* it has received our FIN                                      *)

conn == <<state, sndNxt, sndUna, rcvNxt, reset, finSeen, ring>>
app  == <<pc, off, want, outcome, read, eof>>
peerVars == <<peer, written, ended, acked, wnd, got, gotFin>>
vars == <<conn, app, down, up, peerVars>>

SeqNos == 0 .. SeqMod - 1
States == {"CLOSED", "SYN_SENT", "ESTABLISHED", "CLOSE_WAIT", "FIN_WAIT", "DONE"}
Bytes(i, j) == [k \in 1 .. j - i + 1 |-> i + k - 1]

TypeOK ==
  /\ state \in States
  /\ {sndNxt, sndUna, rcvNxt, want} \subseteq SeqNos
  /\ {reset, finSeen, eof, ended, gotFin} \subseteq BOOLEAN
  /\ ring \in Seq(1 .. StreamLen) /\ Len(ring) <= RingSize
  /\ pc \in {"start", "connecting", "open", "sending", "closing", "closed"}
  /\ off \in 0 .. ReqLen
  /\ outcome \in {"none", "ok", "failed"}
  /\ read \in Seq(1 .. StreamLen)
  /\ Cardinality(down) <= DownCap /\ Cardinality(up) <= UpCap
  /\ peer \in {"listen", "synrcvd", "up", "gone"}
  /\ written \in 0 .. StreamLen
  /\ acked \in 0 .. StreamLen + 1
  /\ wnd \in 0 .. RingSize
  /\ got \in Seq(1 .. ReqLen)

Init ==
  /\ state = "CLOSED" /\ sndNxt = Iss /\ sndUna = Iss /\ rcvNxt = 0
  /\ reset = FALSE /\ finSeen = FALSE /\ ring = <<>>
  /\ pc = "start" /\ off = 0 /\ want = 0 /\ outcome = "none"
  /\ read = <<>> /\ eof = FALSE
  /\ down = {} /\ up = {}
  /\ peer = "listen" /\ written = 0 /\ ended = FALSE /\ acked = 0 /\ wnd = 0
  /\ got = <<>> /\ gotFin = FALSE

---------------------------------------------------------------------------
(* The network.                                                             *)

(* New segments enter; when there are too many, older ones are lost.        *)
Carry(net, ms, cap) ==
  {k \in SUBSET (net \union ms) :
     /\ Cardinality(k) = Min({cap, Cardinality(net \union ms)})
     /\ ms \subseteq k \/ k \subseteq ms}
CarryDown(m) == Carry(down, {m}, DownCap)
CarryUp(ms) == Carry(up, ms, UpCap)

Lose ==
  \/ /\ \E m \in down : down' = down \ {m}
     /\ UNCHANGED <<conn, app, up, peerVars>>
  \/ /\ \E m \in up : up' = up \ {m}
     /\ UNCHANGED <<conn, app, down, peerVars>>

(* A segment that arrives may arrive again.                                 *)
Arrive(net, m) == {net, net \ {m}}

---------------------------------------------------------------------------
(* Sequence numbers, and tcp_xmit.                                          *)

Plus(s, n) == (s + n) % SeqMod
Ahead(a, b) == (a - b) % SeqMod \in 1 .. SeqMod \div 2 - 1  (* (int32_t)(a - b) > 0 *)

Space(r) == RingSize - Len(r)

(* A segment as tcp_xmit lays it out, with what the ring and rcv_nxt are.   *)
Segment(seq, ack, r, data) ==
  [syn |-> FALSE, fin |-> FALSE, seq |-> seq, ack |-> ack, win |-> Space(r), data |-> data]

Ack(ack, r) == Segment(sndNxt, ack, r, <<>>)
SynSegment == [Segment(sndUna, rcvNxt, ring, <<>>) EXCEPT !.syn = TRUE]
FinSegment == [Segment(sndNxt, rcvNxt, ring, <<>>) EXCEPT !.fin = TRUE]
Chunk(seq, k) == Segment(seq, rcvNxt, ring, <<k>>)

---------------------------------------------------------------------------
(* tcp_connect.                                                             *)

Connect ==
  /\ pc = "start"
  /\ state' = "SYN_SENT"
  /\ pc' = "connecting"
  /\ UNCHANGED <<sndNxt, sndUna, rcvNxt, reset, finSeen, ring>>
  /\ UNCHANGED <<off, want, outcome, read, eof, down, up, peerVars>>

(* Every 500 ms: rewind, and send the SYN (again).                          *)
SynSend ==
  /\ pc = "connecting"
  /\ state = "SYN_SENT"
  /\ sndNxt' = Plus(sndUna, 1)
  /\ up' \in CarryUp({SynSegment})
  /\ UNCHANGED <<state, sndUna, rcvNxt, reset, finSeen, ring, app, down, peerVars>>

ConnectDone ==
  /\ pc = "connecting"
  /\ state = "ESTABLISHED"
  /\ pc' = "open"
  /\ UNCHANGED <<conn, off, want, outcome, read, eof, down, up, peerVars>>

---------------------------------------------------------------------------
(* tcp_send, called once for the whole request.                             *)

(* Mutant of Xmit: waits for the number of the chunk, not the one after it. *)
XmitWantsStart(k) ==
  /\ want' = sndNxt
  /\ sndNxt' = Plus(sndNxt, 1)
  /\ up' \in CarryUp({Chunk(sndNxt, k)})
  /\ UNCHANGED <<state, sndUna, rcvNxt, reset, finSeen, ring, read, eof, down, peerVars>>

Xmit(k) ==
  /\ want' = Plus(sndNxt, 1)
  /\ sndNxt' = Plus(sndNxt, 1)
  /\ up' \in CarryUp({Chunk(sndNxt, k)})
  /\ UNCHANGED <<state, sndUna, rcvNxt, reset, finSeen, ring, read, eof, down, peerVars>>

SendStart ==
  /\ pc = "open"
  /\ outcome = "none"
  /\ state = "ESTABLISHED"
  /\ pc' = "sending"
  /\ Xmit(1)
  /\ UNCHANGED <<off, outcome>>

(* Mutant of SendRetry: does not rewind.                                    *)
SendRetryUnrewound ==
  /\ pc = "sending"
  /\ sndUna # want
  /\ sndNxt' = Plus(sndNxt, 1)
  /\ up' \in CarryUp({Chunk(sndNxt, off + 1)})
  /\ UNCHANGED <<state, sndUna, rcvNxt, reset, finSeen, ring, app, down, peerVars>>

(* 600 ms without the acknowledgement: snd_nxt -= chunk, and the same again.*)
SendRetry ==
  /\ pc = "sending"
  /\ sndUna # want
  /\ up' \in CarryUp({Chunk(Plus(sndNxt, -1), off + 1)})
  /\ UNCHANGED <<conn, app, down, peerVars>>

SendNext ==
  /\ pc = "sending"
  /\ sndUna = want /\ ~reset
  /\ off + 1 < ReqLen
  /\ off' = off + 1
  /\ Xmit(off + 2)
  /\ UNCHANGED <<pc, outcome>>

SendDone ==
  /\ pc = "sending"
  /\ sndUna = want /\ ~reset
  /\ off + 1 = ReqLen
  /\ off' = ReqLen
  /\ outcome' = "ok"
  /\ pc' = "open"
  /\ UNCHANGED <<conn, want, read, eof, down, up, peerVars>>

(* A reset, 3 seconds without the acknowledgement, or a peer that has       *)
(* already closed its side.                                                 *)
SendFail ==
  /\ \/ pc = "sending" /\ (reset \/ sndUna # want)
     \/ pc = "open" /\ outcome = "none" /\ state # "ESTABLISHED"
  /\ outcome' = "failed"
  /\ pc' = "open"
  /\ UNCHANGED <<conn, off, want, read, eof, down, up, peerVars>>

---------------------------------------------------------------------------
(* tcp_recv; a call that times out changes nothing.                         *)

RecvData ==
  /\ pc = "open"
  /\ \E n \in 1 .. Len(ring) :
       /\ read' = read \o SubSeq(ring, 1, n)
       /\ ring' = SubSeq(ring, n + 1, Len(ring))
  /\ UNCHANGED <<state, sndNxt, sndUna, rcvNxt, reset, finSeen>>
  /\ UNCHANGED <<pc, off, want, outcome, eof, down, up, peerVars>>

RecvEof ==
  /\ pc = "open"
  /\ ring = <<>> /\ ~reset /\ finSeen
  /\ eof' = TRUE
  /\ UNCHANGED <<conn, pc, off, want, outcome, read, down, up, peerVars>>

---------------------------------------------------------------------------
(* tcp_close, by the user or by a tcp_connect that gives up.                *)

(* The FIN is sent once; pump(400) then polls.                              *)
CloseWithFin ==
  /\ pc = "open" \/ (pc = "connecting" /\ state # "ESTABLISHED")
  /\ state \in {"ESTABLISHED", "CLOSE_WAIT"}
  /\ up' \in CarryUp({FinSegment})
  /\ sndNxt' = Plus(sndNxt, 1)
  /\ state' = IF state = "CLOSE_WAIT" THEN "DONE" ELSE "FIN_WAIT"
  /\ pc' = "closing"
  /\ UNCHANGED <<sndUna, rcvNxt, reset, finSeen, ring>>
  /\ UNCHANGED <<off, want, outcome, read, eof, down, peerVars>>

(* The connection is gone, and with it what the ring held.                  *)
CloseEnd ==
  /\ \/ pc = "closing"
     \/ pc \in {"open", "connecting"} /\ state \notin {"ESTABLISHED", "CLOSE_WAIT"}
  /\ pc' = "closed"
  /\ ring' = <<>>
  /\ UNCHANGED <<state, sndNxt, sndUna, rcvNxt, reset, finSeen>>
  /\ UNCHANGED <<off, want, outcome, read, eof, down, up, peerVars>>

---------------------------------------------------------------------------
(* tcp_input.                                                               *)

(* No connection, or one that waits for another segment than this.          *)
InputIgnored(m) ==
  /\ \/ pc \in {"start", "closed"}
     \/ state = "SYN_SENT" /\ ~m.rst /\ (m.syn => m.ack # sndNxt)
  /\ UNCHANGED <<conn, up>>

InputRst(m) ==
  /\ pc \notin {"start", "closed"}
  /\ m.rst
  /\ reset' = TRUE
  /\ state' = "DONE"
  /\ UNCHANGED <<sndNxt, sndUna, rcvNxt, finSeen, ring, up>>

InputSynAck(m) ==
  /\ pc \notin {"start", "closed"}
  /\ ~m.rst
  /\ state = "SYN_SENT"
  /\ m.syn /\ m.ack = sndNxt
  /\ rcvNxt' = Plus(m.seq, 1)
  /\ sndUna' = m.ack
  /\ state' = "ESTABLISHED"
  /\ up' \in CarryUp({Ack(Plus(m.seq, 1), ring)})
  /\ UNCHANGED <<sndNxt, reset, finSeen, ring>>

(* Mutant of Take: takes what does not fit.                                 *)
TakeAll(m) == IF m.seq = rcvNxt THEN Len(m.data) ELSE 0

(* How much of a segment is taken: only the next bytes, and what fits.      *)
Take(m) == IF m.seq = rcvNxt THEN Min({Len(m.data), Space(ring)}) ELSE 0

(* Mutant of FinInOrder: a FIN counts whenever it comes.                    *)
FinAlways(m) == m.fin

(* The FIN counts when everything before it has been taken.                 *)
FinInOrder(m) == m.fin /\ Plus(m.seq, Len(m.data)) = Plus(rcvNxt, Take(m))

NewUna(m) == IF Ahead(m.ack, sndUna) THEN m.ack ELSE sndUna

(* Mutants of Acks: one acknowledges the segment whatever was taken of it,  *)
(* one does not answer a segment out of order.                              *)
AcksWholeSegment(m, r) ==
  LET nxt == Plus(rcvNxt, TakeAll(m))
  IN  (IF m.data # <<>> THEN {Ack(nxt, r)} ELSE {})
        \union (IF FinInOrder(m) THEN {Ack(Plus(nxt, 1), r)} ELSE {})
AcksInOrder(m, r) ==
  LET nxt == Plus(rcvNxt, Take(m))
  IN  (IF m.data # <<>> /\ m.seq = rcvNxt THEN {Ack(nxt, r)} ELSE {})
        \union (IF FinInOrder(m) THEN {Ack(Plus(nxt, 1), r)} ELSE {})

(* Every segment with data is acknowledged, in order or not.                *)
Acks(m, r) ==
  LET nxt == Plus(rcvNxt, Take(m))
  IN  (IF m.data # <<>> THEN {Ack(nxt, r)} ELSE {})
        \union (IF FinInOrder(m) THEN {Ack(Plus(nxt, 1), r)} ELSE {})

InputSegment(m) ==
  /\ pc \notin {"start", "closed"}
  /\ ~m.rst
  /\ state # "SYN_SENT"
  /\ sndUna' = NewUna(m)
  /\ ring' = ring \o SubSeq(m.data, 1, Take(m))
  /\ rcvNxt' = Plus(rcvNxt, IF FinInOrder(m) THEN Take(m) + 1 ELSE Take(m))
  /\ finSeen' = (finSeen \/ FinInOrder(m))
  /\ state' = IF ~FinInOrder(m) THEN state
              ELSE IF state = "ESTABLISHED" THEN "CLOSE_WAIT"
              ELSE IF state = "FIN_WAIT" THEN "DONE" ELSE state
  /\ up' \in CarryUp(Acks(m, ring'))
  /\ UNCHANGED <<sndNxt, reset>>

Input(m) ==
  /\ down' \in Arrive(down, m)
  /\ \/ InputIgnored(m)
     \/ InputRst(m)
     \/ InputSynAck(m)
     \/ InputSegment(m)
  /\ UNCHANGED <<app, peerVars>>

---------------------------------------------------------------------------
(* The peer: an ordinary TCP that keeps nothing out of order.               *)

Received(g, f) == Plus(Iss, 1 + Len(g) + IF f THEN 1 ELSE 0)
PeerSegment(seq, ack, data) ==
  [syn |-> FALSE, rst |-> FALSE, fin |-> FALSE,
   seq |-> Plus(PeerIss, seq), ack |-> ack, data |-> data]
PeerSynAckSegment == [PeerSegment(0, Plus(Iss, 1), <<>>) EXCEPT !.syn = TRUE]
PeerRst == [PeerSegment(1 + acked, Received(got, gotFin), <<>>) EXCEPT !.rst = TRUE]
PeerData(i, j, fin) ==
  [PeerSegment(i, Received(got, gotFin), Bytes(i, j)) EXCEPT !.fin = fin]

PeerSynAck ==
  /\ peer = "synrcvd"
  /\ down' \in CarryDown(PeerSynAckSegment)
  /\ UNCHANGED <<conn, app, up, peerVars>>

PeerWrite ==
  /\ peer = "up" /\ ~ended
  /\ written < StreamLen
  /\ written' = written + 1
  /\ UNCHANGED <<conn, app, down, up, peer, ended, acked, wnd, got, gotFin>>

PeerClose ==
  /\ peer = "up" /\ ~ended
  /\ ended' = TRUE
  /\ UNCHANGED <<conn, app, down, up, peer, written, acked, wnd, got, gotFin>>

(* Bytes i to j, inside the window or as a probe of a closed one; or the    *)
(* FIN alone (j = i - 1).  The last segment carries the FIN.                *)
PeerSend(i, j) ==
  /\ peer = "up"
  /\ acked < i /\ i <= j + 1 /\ j - i < Mss /\ j <= written
  /\ j <= acked + wnd \/ (wnd = 0 /\ i = acked + 1 /\ j = i)
  /\ LET fin == ended /\ j = written
     IN  /\ i <= j \/ fin
         /\ down' \in CarryDown(PeerData(i, j, fin))
  /\ UNCHANGED <<conn, app, up, peerVars>>

PeerAbort ==
  /\ peer = "up"
  /\ peer' = "gone"
  /\ down' \in CarryDown(PeerRst)
  /\ UNCHANGED <<conn, app, up, written, ended, acked, wnd, got, gotFin>>

(* How much of the peer's stream an acknowledgement number stands for.      *)
AckedBy(m) == CHOOSE n \in 0 .. StreamLen + 1 : Plus(PeerIss, 1 + n) = m.ack

(* It takes an acknowledgement, and the next chunk or our FIN.              *)
PeerTakes(m) ==
  /\ ~m.syn
  /\ peer \in {"synrcvd", "up"}
  /\ peer' = "up"
  /\ acked' = Max({acked, AckedBy(m)})
  /\ wnd' = IF AckedBy(m) > acked THEN m.win
            ELSE IF AckedBy(m) = acked THEN Max({wnd, m.win}) ELSE wnd
  /\ LET next == m.seq = Plus(Iss, 1 + Len(got)) /\ ~gotFin
     IN  /\ got' = IF next THEN got \o m.data ELSE got
         /\ gotFin' = (gotFin \/ (next /\ m.fin))
  /\ IF m.data # <<>> \/ m.fin
     THEN down' \in CarryDown(PeerSegment(1 + acked', Received(got', gotFin'), <<>>))
     ELSE UNCHANGED down
  /\ UNCHANGED <<written, ended>>

PeerInput(m) ==
  /\ up' \in Arrive(up, m)
  /\ \/ /\ m.syn
        /\ peer \in {"listen", "synrcvd"}
        /\ peer' = "synrcvd"
        /\ wnd' = m.win
        /\ down' \in CarryDown(PeerSynAckSegment)
        /\ UNCHANGED <<written, ended, acked, got, gotFin>>
     \/ PeerTakes(m)
     \/ /\ peer = "gone"
        /\ down' \in CarryDown(PeerRst)
        /\ UNCHANGED peerVars
  /\ UNCHANGED <<conn, app>>

---------------------------------------------------------------------------
Next ==
  \/ Connect
  \/ SynSend
  \/ ConnectDone
  \/ SendStart
  \/ SendRetry
  \/ SendNext
  \/ SendDone
  \/ SendFail
  \/ RecvData
  \/ RecvEof
  \/ CloseWithFin
  \/ CloseEnd
  \/ \E m \in down : Input(m)
  \/ \E m \in up : PeerInput(m)
  \/ PeerSynAck
  \/ PeerWrite
  \/ PeerClose
  \/ \E i, j \in 0 .. StreamLen + 1 : PeerSend(i, j)
  \/ PeerAbort
  \/ Lose

(* tcp_send ends by its timeout at the latest and the user goes on reading. *)
(* The peer sends its oldest byte again until it is acknowledged, and a     *)
(* segment that is sent again and again gets through in the end.            *)
OldestByte(m) == ~m.rst /\ m.data # <<>> /\ m.seq = Plus(PeerIss, 1 + acked)
CurrentAck(m) == ~m.syn /\ m.ack = rcvNxt
Fairness ==
  /\ WF_vars(SendDone \/ SendNext \/ SendFail)
  /\ WF_vars(RecvData)
  /\ WF_vars(PeerSend(acked + 1, acked + 1))
  /\ SF_vars(\E m \in down : OldestByte(m) /\ Input(m))
  /\ SF_vars(\E m \in up : CurrentAck(m) /\ PeerInput(m))

Spec == Init /\ [][Next]_vars
FairSpec == Spec /\ Fairness

---------------------------------------------------------------------------
(* Properties.                                                              *)

(* tcp_input: what has been acknowledged has been kept.  The peer forgets   *)
(* an acknowledged byte, so it must be in the ring or with the user.        *)
AckedIsKept ==
  pc \notin {"closed"} => acked <= Len(read) + Len(ring) + (IF finSeen THEN 1 ELSE 0)

(* tcp_send: when it reports success the peer has the whole request,        *)
(* through lost and repeated chunks and late acknowledgements.              *)
SentIsReceived == outcome = "ok" => got = Bytes(1, ReqLen)

(* tcp_recv: the peer's stream comes out of it in order, once, and is       *)
(* reported as ended only when all of it has been returned.                 *)
DownStream == INSTANCE ByteStream WITH
  written <- Bytes(1, written), ended <- ended, read <- read, eof <- eof
DownSpec == DownStream!Spec

(* tcp_send: the peer receives the chunks of the request in order, once.    *)
Requested == IF pc = "sending" \/ outcome # "none" THEN Bytes(1, ReqLen) ELSE <<>>
UpStream == INSTANCE ByteStream WITH
  written <- Requested, ended <- FALSE, read <- got, eof <- FALSE
UpSpec == UpStream!Spec

(* Every byte the peer writes is read in the end, through loss, a full ring *)
(* and a closed window, unless the connection ends.                         *)
AllRead ==
  \A n \in 1 .. StreamLen :
    (pc = "open" /\ peer = "up" /\ written >= n) ~>
      (Len(read) >= n \/ reset \/ peer = "gone" \/ pc \in {"closing", "closed"})
============================================================================
