------------------------------ MODULE TcpProofs ------------------------------
(***************************************************************************)
(* Proofs about Tcp for any modulus and initial sequence numbers, sizes of *)
(* the ring, the request and the segments, and capacities of the network:  *)
(* what is acknowledged is kept, and each direction implements ByteStream. *)
(***************************************************************************)
EXTENDS Tcp, FiniteSetTheorems, SequenceTheorems, TLAPS

---------------------------------------------------------------------------
(* The invariant.                                                           *)

(* How far a sequence number is from a first one.                           *)
Off(x, base) == (x - base) % SeqMod

(* s counts on from b.                                                      *)
From(s, b) == \A i \in 1 .. Len(s) : s[i] = b + i

(* The handshake is over for us.                                            *)
Synced == state \notin {"CLOSED", "SYN_SENT"}

(* How much of the peer's stream we have, its FIN included; how much the    *)
(* peer has of ours; the request has been given to tcp_send.                *)
Kept == Off(rcvNxt, PeerIss) - 1
PeerHas == Len(got) + IF gotFin THEN 1 ELSE 0
Asked == pc = "sending" \/ outcome # "none"

DownSegments == [syn : BOOLEAN, rst : BOOLEAN, fin : BOOLEAN,
                 seq : SeqNos, ack : SeqNos, data : Seq(1 .. StreamLen)]
UpSegments == [syn : BOOLEAN, fin : BOOLEAN, seq : SeqNos, ack : SeqNos,
               win : 0 .. RingSize, data : Seq(1 .. ReqLen)]

(* A segment on its way to us: a SYN-ACK, or bytes the peer has written, at *)
(* their place, with the FIN behind the last; and what it acknowledges the  *)
(* peer has.                                                                *)
DownOK(m) ==
  /\ Off(m.ack, Iss) \in 1 .. 1 + PeerHas
  /\ m.syn => Off(m.seq, PeerIss) = 0 /\ Off(m.ack, Iss) = 1
              /\ m.data = <<>> /\ ~m.fin /\ ~m.rst
  /\ ~m.syn =>
       /\ Synced
       /\ Off(m.seq, PeerIss) \in 1 .. StreamLen + 2
       /\ From(m.data, Off(m.seq, PeerIss) - 1)
       /\ m.data # <<>> => Off(m.seq, PeerIss) + Len(m.data) - 1 <= written
       /\ m.fin => ended /\ Off(m.seq, PeerIss) + Len(m.data) - 1 = written

(* A segment on its way to the peer: what it acknowledges we have; a chunk  *)
(* of the request at its place, or the FIN.                                 *)
UpOK(m) ==
  /\ ~m.syn => Synced /\ Off(m.ack, PeerIss) \in 1 .. 1 + Kept
  /\ m.data # <<>> => Asked /\ m.data = <<Off(m.seq, Iss)>>
  /\ m.fin => m.data = <<>> /\ pc \in {"closing", "closed"}

(* Before the handshake is over nothing else has happened.                  *)
HandOK ==
  /\ pc = "start" <=> state = "CLOSED"
  /\ state = "SYN_SENT" => pc \in {"connecting", "closed"}
  /\ ~Synced => /\ sndUna = Iss /\ ~finSeen /\ ring = <<>> /\ read = <<>>
                /\ peer \in {"listen", "synrcvd"} /\ acked = 0 /\ got = <<>> /\ ~gotFin
                /\ outcome = "none" /\ off = 0
  /\ pc = "connecting" => outcome = "none"

(* What we have of the peer's stream is its first bytes, those read before  *)
(* those in the ring; what is acknowledged is kept.                         *)
StreamOK ==
  /\ From(read, 0) /\ From(ring, Len(read))
  /\ Len(read) + Len(ring) <= written
  /\ finSeen => ended /\ (pc # "closed" => Len(read) + Len(ring) = written)
  /\ Synced => /\ Off(rcvNxt, PeerIss) \in 1 .. StreamLen + 2
               /\ acked <= Kept
               /\ pc # "closed" => Kept = Len(read) + Len(ring) + IF finSeen THEN 1 ELSE 0

(* What the peer has is the first chunks of the request; what tcp_send      *)
(* waits for is the number behind the chunk it has sent.                    *)
SendOK ==
  /\ From(got, 0)
  /\ got # <<>> => Asked
  /\ gotFin => pc \in {"closing", "closed"}
  /\ outcome = "ok" => Len(got) = ReqLen
  /\ Synced => Off(sndUna, Iss) \in 1 .. 1 + PeerHas
  /\ Synced /\ pc \in {"connecting", "open"} /\ outcome = "none" =>
       off = 0 /\ Off(sndNxt, Iss) = 1
  /\ pc = "sending" => /\ outcome = "none" /\ off < ReqLen
                       /\ Off(sndNxt, Iss) = off + 2 /\ Off(want, Iss) = off + 2

(* TypeOK but for the network.                                              *)
StateTypes ==
  /\ state \in States
  /\ sndNxt \in SeqNos /\ sndUna \in SeqNos /\ rcvNxt \in SeqNos /\ want \in SeqNos
  /\ reset \in BOOLEAN /\ finSeen \in BOOLEAN /\ eof \in BOOLEAN
  /\ ended \in BOOLEAN /\ gotFin \in BOOLEAN
  /\ ring \in Seq(1 .. StreamLen) /\ Len(ring) <= RingSize
  /\ pc \in {"start", "connecting", "open", "sending", "closing", "closed"}
  /\ off \in 0 .. ReqLen
  /\ outcome \in {"none", "ok", "failed"}
  /\ read \in Seq(1 .. StreamLen)
  /\ peer \in {"listen", "synrcvd", "up", "gone"}
  /\ written \in 0 .. StreamLen
  /\ acked \in 0 .. StreamLen + 1
  /\ wnd \in 0 .. RingSize
  /\ got \in Seq(1 .. ReqLen)

(* The network both ways.                                                   *)
DownNet ==
  /\ down \subseteq DownSegments /\ IsFiniteSet(down) /\ Cardinality(down) <= DownCap
  /\ \A m \in down : DownOK(m)
UpNet ==
  /\ up \subseteq UpSegments /\ IsFiniteSet(up) /\ Cardinality(up) <= UpCap
  /\ \A m \in up : UpOK(m)

(* The inductive invariant.                                                 *)
TcpInv == StateTypes /\ HandOK /\ StreamOK /\ SendOK /\ DownNet /\ UpNet

---------------------------------------------------------------------------
(* Sequence numbers.                                                        *)

(* The sizes.                                                               *)
LEMMA Sizes ==
  /\ SeqMod \in Nat /\ RingSize \in Nat \ {0} /\ ReqLen \in Nat \ {0} /\ StreamLen \in Nat
  /\ Mss \in Nat /\ DownCap \in Nat \ {0} /\ UpCap \in Nat \ {0}
  /\ SeqMod > 2 * (StreamLen + ReqLen + 4)
  /\ Iss \in SeqNos /\ PeerIss \in SeqNos /\ 0 \in SeqNos
<1>1. /\ SeqMod \in Nat /\ RingSize \in Nat /\ ReqLen \in Nat /\ StreamLen \in Nat
      /\ Mss \in Nat /\ DownCap \in Nat /\ UpCap \in Nat
  BY TcpAssumption
<1> QED
  BY <1>1, TcpAssumption DEF SeqNos

(* Numbers and distances without remainders.                                *)
LEMMA PlusIs ==
  ASSUME NEW x \in SeqNos, NEW n \in Int, -1 <= n, n <= SeqMod
  PROVE  Plus(x, n) = IF x + n < 0 THEN x + n + SeqMod
                      ELSE IF x + n < SeqMod THEN x + n ELSE x + n - SeqMod
<1> DEFINE y == x + n
<1>1. SeqMod \in Nat /\ SeqMod > 8 /\ y \in Int /\ -1 <= y /\ y < 2 * SeqMod
  BY Sizes DEF SeqNos
<1>3. Plus(x, n) = y % SeqMod
  BY DEF Plus
<1> HIDE DEF y
<1>2. y % SeqMod = IF y < 0 THEN y + SeqMod ELSE IF y < SeqMod THEN y ELSE y - SeqMod
  BY <1>1, SMT
<1> QED
  BY <1>1, <1>2, <1>3, Sizes DEF y, SeqNos

(* The same for the distance.                                               *)
LEMMA OffIs ==
  ASSUME NEW x \in SeqNos, NEW base \in SeqNos
  PROVE  Off(x, base) = IF base <= x THEN x - base ELSE x - base + SeqMod
<1> DEFINE y == x - base
<1>1. SeqMod \in Nat /\ SeqMod > 0 /\ y \in Int /\ -SeqMod <= y /\ y < SeqMod
      /\ (y >= 0 <=> base <= x)
  BY Sizes DEF SeqNos
<1> HIDE DEF y
<1>2. y % SeqMod = IF y >= 0 THEN y ELSE y + SeqMod
  BY <1>1, SMT
<1> QED
  BY <1>1, <1>2 DEF y, Off

(* A number is determined by its distance, and moves with it.               *)
LEMMA OffType ==
  ASSUME NEW x \in SeqNos, NEW base \in SeqNos
  PROVE  /\ Off(x, base) \in 0 .. SeqMod - 1
         /\ Off(base, base) = 0
         /\ \A y \in SeqNos : Off(x, base) = Off(y, base) => x = y
<1>1. Off(x, base) = IF base <= x THEN x - base ELSE x - base + SeqMod
  BY OffIs
<1>2. Off(base, base) = 0
  BY OffIs, Sizes DEF SeqNos
<1>3. ASSUME NEW y \in SeqNos, Off(x, base) = Off(y, base) PROVE x = y
  <2>1. Off(y, base) = IF base <= y THEN y - base ELSE y - base + SeqMod
    BY OffIs
  <2> QED
    BY <1>1, <1>3, <2>1, Sizes DEF SeqNos
<1> QED
  BY <1>1, <1>2, <1>3, Sizes DEF SeqNos

(* A number moves with its distance.                                        *)
LEMMA OffPlus ==
  ASSUME NEW x \in SeqNos, NEW base \in SeqNos, NEW n \in Int, -1 <= n,
         Off(x, base) + n \in 0 .. SeqMod - 1
  PROVE  Plus(x, n) \in SeqNos /\ Off(Plus(x, n), base) = Off(x, base) + n
<1> DEFINE y == Plus(x, n)
<1>1. SeqMod \in Nat /\ SeqMod > 8
  BY Sizes
<1>2. Off(x, base) = IF base <= x THEN x - base ELSE x - base + SeqMod
  BY OffIs
<1>3. Off(x, base) \in 0 .. SeqMod - 1
  BY OffType
<1>4. n <= SeqMod
  BY <1>1, <1>3
<1>5. y = IF x + n < 0 THEN x + n + SeqMod
          ELSE IF x + n < SeqMod THEN x + n ELSE x + n - SeqMod
  BY <1>4, PlusIs
<1> HIDE DEF y
<1>6. y \in SeqNos
  BY <1>1, <1>4, <1>5 DEF SeqNos
<1>7. Off(y, base) = IF base <= y THEN y - base ELSE y - base + SeqMod
  BY <1>6, OffIs
<1>8. Off(y, base) = Off(x, base) + n
  BY <1>1, <1>2, <1>3, <1>5, <1>6, <1>7 DEF SeqNos
<1> QED
  BY <1>6, <1>8 DEF y

(* The number so far behind a first one.                                    *)
LEMMA OffFirst ==
  ASSUME NEW base \in SeqNos, NEW n \in 0 .. SeqMod - 1
  PROVE  Plus(base, n) \in SeqNos /\ Off(Plus(base, n), base) = n
<1>1. Off(base, base) = 0
  BY OffType
<1> QED
  BY <1>1, OffPlus, Sizes

---------------------------------------------------------------------------
(* The network.                                                             *)

(* What the invariant says of a segment stays so, because this only grows.  *)
Forward ==
  /\ PeerHas \in Nat /\ PeerHas' \in Nat /\ PeerHas <= PeerHas'
  /\ written' \in Nat /\ written <= written'
  /\ ended => ended' /\ written' = written
  /\ Synced => Synced' /\ Kept \in Nat /\ Kept' \in Nat /\ Kept <= Kept'
  /\ Asked => Asked'
  /\ pc \in {"closing", "closed"} => pc' \in {"closing", "closed"}

(* A segment on its way to us stays what it was.                            *)
LEMMA DownStays ==
  ASSUME StateTypes, Forward, NEW m \in DownSegments, DownOK(m)
  PROVE  DownOK(m)'
<1>1. Off(m.ack, Iss) \in 1 .. 1 + PeerHas'
  BY DEF Forward, DownOK
<1>2. Off(m.seq, PeerIss) \in Int /\ Len(m.data) \in Nat
  BY OffType, Sizes DEF DownSegments
<1>3. m.data # <<>> /\ ~m.syn => Off(m.seq, PeerIss) + Len(m.data) - 1 <= written'
  <2>1. written \in Nat /\ written' \in Nat /\ written <= written'
    BY Sizes DEF Forward, StateTypes
  <2> QED
    BY <1>2, <2>1 DEF DownOK
<1> QED
  BY <1>1, <1>3 DEF Forward, DownOK

(* So does one on its way to the peer.                                      *)
LEMMA UpStays ==
  ASSUME Forward, NEW m \in UpSegments, UpOK(m)
  PROVE  UpOK(m)'
<1>1. ~m.syn => Synced' /\ Off(m.ack, PeerIss) \in 1 .. 1 + Kept'
  BY DEF Forward, UpOK
<1> QED
  BY <1>1 DEF Forward, UpOK

(* A network after new segments have entered it.                            *)
LEMMA Carried ==
  ASSUME NEW net, IsFiniteSet(net), NEW ms, IsFiniteSet(ms), NEW cap \in Nat,
         NEW k \in Carry(net, ms, cap)
  PROVE  k \subseteq net \union ms /\ IsFiniteSet(k) /\ Cardinality(k) <= cap
<1> DEFINE all == net \union ms
           c == Cardinality(all)
<1>1. IsFiniteSet(all)
  BY FS_Union
<1>2. k \subseteq all /\ Cardinality(k) = Min({cap, c})
  BY DEF Carry
<1>3. IsFiniteSet(k)
  BY <1>1, <1>2, FS_Subset
<1>4. c \in Nat
  BY <1>1, FS_CardinalityType
<1> HIDE DEF c
<1>5. Min({cap, c}) <= cap
  <2> DEFINE P(x) == x \in {cap, c} /\ \A y \in {cap, c} : x <= y
  <2>1. \E x \in {cap, c} : \A y \in {cap, c} : x <= y
    <3>1. CASE cap <= c
      BY <1>4, <3>1
    <3>2. CASE c <= cap
      BY <1>4, <3>2
    <3> QED
      BY <1>4, <3>1, <3>2
  <2>2. \A y \in {cap, c} : Min({cap, c}) <= y
    BY <2>1 DEF Min
  <2> QED
    BY <2>2
<1> QED
  BY <1>2, <1>3, <1>5

(* Segments to us: some are lost, one is sent.                              *)
LEMMA DownDrops ==
  ASSUME TcpInv, Forward, down' \subseteq down
  PROVE  DownNet'
<1>1. IsFiniteSet(down') /\ Cardinality(down') <= Cardinality(down)
      /\ Cardinality(down') \in Nat /\ Cardinality(down) \in Nat
  BY FS_Subset, FS_CardinalityType DEF TcpInv, DownNet
<1>2. \A m \in down' : DownOK(m)'
  BY DownStays DEF TcpInv, DownNet
<1> QED
  BY <1>1, <1>2, Sizes DEF TcpInv, DownNet

(* One more segment to us.                                                  *)
LEMMA DownSends ==
  ASSUME TcpInv, Forward, NEW p \in DownSegments, DownOK(p)', down' \in CarryDown(p)
  PROVE  DownNet'
<1>1. IsFiniteSet(down) /\ IsFiniteSet({p}) /\ DownCap \in Nat
  BY FS_Singleton, Sizes DEF TcpInv, DownNet
<1>2. down' \subseteq down \union {p} /\ IsFiniteSet(down') /\ Cardinality(down') <= DownCap
  BY <1>1, Carried DEF CarryDown
<1>3. \A m \in down' : DownOK(m)'
  BY <1>2, DownStays DEF TcpInv, DownNet
<1> QED
  BY <1>2, <1>3 DEF TcpInv, DownNet

(* Segments to the peer.                                                    *)
LEMMA UpDrops ==
  ASSUME TcpInv, Forward, up' \subseteq up
  PROVE  UpNet'
<1>1. IsFiniteSet(up') /\ Cardinality(up') <= Cardinality(up)
      /\ Cardinality(up') \in Nat /\ Cardinality(up) \in Nat
  BY FS_Subset, FS_CardinalityType DEF TcpInv, UpNet
<1>2. \A m \in up' : UpOK(m)'
  BY UpStays DEF TcpInv, UpNet
<1> QED
  BY <1>1, <1>2, Sizes DEF TcpInv, UpNet

(* More segments to the peer.                                               *)
LEMMA UpSends ==
  ASSUME TcpInv, Forward, NEW ms \in SUBSET UpSegments, IsFiniteSet(ms),
         \A m \in ms : UpOK(m)', up' \in CarryUp(ms)
  PROVE  UpNet'
<1>1. IsFiniteSet(up) /\ UpCap \in Nat
  BY Sizes DEF TcpInv, UpNet
<1>2. up' \subseteq up \union ms /\ IsFiniteSet(up') /\ Cardinality(up') <= UpCap
  BY <1>1, Carried DEF CarryUp
<1>3. \A m \in up' : UpOK(m)'
  BY <1>2, UpStays DEF TcpInv, UpNet
<1> QED
  BY <1>2, <1>3 DEF TcpInv, UpNet

---------------------------------------------------------------------------
(* Streams.                                                                 *)

(* A sequence cut in two.                                                   *)
LEMMA Cut ==
  ASSUME NEW T, NEW s \in Seq(T), NEW n \in 0 .. Len(s)
  PROVE  /\ SubSeq(s, 1, n) \in Seq(T) /\ Len(SubSeq(s, 1, n)) = n
         /\ \A i \in 1 .. n : SubSeq(s, 1, n)[i] = s[i]
         /\ SubSeq(s, n + 1, Len(s)) \in Seq(T)
         /\ Len(SubSeq(s, n + 1, Len(s))) = Len(s) - n
         /\ \A i \in 1 .. Len(s) - n : SubSeq(s, n + 1, Len(s))[i] = s[n + i]
<1>1. Len(s) \in Nat /\ n \in Nat /\ n + 1 \in Int /\ \A i \in 1 .. Len(s) : s[i] \in T
  BY LenProperties, ElementOfSeq
<1>2. /\ SubSeq(s, 1, n) \in Seq(T) /\ Len(SubSeq(s, 1, n)) = n
      /\ \A i \in 1 .. n : SubSeq(s, 1, n)[i] = s[i]
  <2>1. \A i \in 1 .. n : s[i] \in T
    BY <1>1
  <2>2. /\ SubSeq(s, 1, n) \in Seq(T)
        /\ Len(SubSeq(s, 1, n)) = IF 1 <= n THEN n - 1 + 1 ELSE 0
        /\ \A i \in 1 .. n - 1 + 1 : SubSeq(s, 1, n)[i] = s[1 + i - 1]
    BY <1>1, <2>1, SubSeqProperties
  <2> QED
    BY <1>1, <2>2
<1>3. /\ SubSeq(s, n + 1, Len(s)) \in Seq(T)
      /\ Len(SubSeq(s, n + 1, Len(s))) = Len(s) - n
      /\ \A i \in 1 .. Len(s) - n : SubSeq(s, n + 1, Len(s))[i] = s[n + i]
  <2> DEFINE m == n + 1
             l == Len(s)
             c == SubSeq(s, m, l)
  <2>1. m \in Int /\ l \in Int /\ \A i \in m .. l : s[i] \in T
    BY <1>1
  <2> HIDE DEF m, l
  <2>2. c \in Seq(T) /\ Len(c) = (IF m <= l THEN l - m + 1 ELSE 0)
        /\ \A i \in 1 .. l - m + 1 : c[i] = s[m + i - 1]
    BY <2>1, SubSeqProperties
  <2> HIDE DEF c
  <2>3. c \in Seq(T) /\ Len(c) = l - n /\ \A i \in 1 .. l - n : c[i] = s[n + i]
    BY <1>1, <2>2 DEF m, l
  <2> QED
    BY <2>3 DEF c, m, l
<1> QED
  BY <1>2, <1>3

(* The same for bytes, without what the elements are.                       *)
LEMMA ByteCut ==
  ASSUME NEW s \in Seq(1 .. StreamLen), NEW n \in 0 .. Len(s)
  PROVE  /\ SubSeq(s, 1, n) \in Seq(1 .. StreamLen) /\ Len(SubSeq(s, 1, n)) = n
         /\ SubSeq(s, n + 1, Len(s)) \in Seq(1 .. StreamLen)
         /\ Len(SubSeq(s, n + 1, Len(s))) = Len(s) - n
<1>1. PICK T : T = 1 .. StreamLen
  OBVIOUS
<1>2. s \in Seq(T)
  BY <1>1
<1>3. /\ SubSeq(s, 1, n) \in Seq(T) /\ Len(SubSeq(s, 1, n)) = n
      /\ SubSeq(s, n + 1, Len(s)) \in Seq(T)
      /\ Len(SubSeq(s, n + 1, Len(s))) = Len(s) - n
  BY <1>2, Cut
<1> QED
  BY <1>1, <1>3

(* Two sequences that count on from each other, and one cut in two.         *)
LEMMA FromJoin ==
  ASSUME NEW T, NEW s \in Seq(T), NEW t \in Seq(T), NEW b \in Int,
         From(s, b), From(t, b + Len(s))
  PROVE  From(s \o t, b)
<1>1. /\ Len(s) \in Nat /\ Len(t) \in Nat /\ Len(s \o t) = Len(s) + Len(t)
      /\ \A i \in 1 .. Len(s) + Len(t) : (s \o t)[i] = IF i <= Len(s) THEN s[i] ELSE t[i - Len(s)]
  BY ConcatProperties, LenProperties
<1> SUFFICES ASSUME NEW i \in 1 .. Len(s) + Len(t) PROVE (s \o t)[i] = b + i
  BY <1>1 DEF From
<1>2. CASE i <= Len(s)
  BY <1>1, <1>2 DEF From
<1>3. CASE i > Len(s)
  <2>1. i - Len(s) \in 1 .. Len(t)
    BY <1>1, <1>3
  <2>2. t[i - Len(s)] = (b + Len(s)) + (i - Len(s))
    BY <2>1 DEF From
  <2> QED
    BY <1>1, <1>3, <2>2
<1> QED
  BY <1>1, <1>2, <1>3

(* Either part of a cut counts on.                                          *)
LEMMA FromCut ==
  ASSUME NEW T, NEW s \in Seq(T), NEW b \in Int, From(s, b), NEW n \in 0 .. Len(s)
  PROVE  From(SubSeq(s, 1, n), b) /\ From(SubSeq(s, n + 1, Len(s)), b + n)
<1>1. Len(s) \in Nat
  BY LenProperties
<1>2. From(SubSeq(s, 1, n), b)
  BY <1>1, Cut DEF From
<1>3. From(SubSeq(s, n + 1, Len(s)), b + n)
  <2> DEFINE c == SubSeq(s, n + 1, Len(s))
  <2>1. Len(c) = Len(s) - n /\ \A i \in 1 .. Len(s) - n : c[i] = s[n + i]
    BY Cut
  <2> HIDE DEF c
  <2>2. \A i \in 1 .. Len(s) - n : c[i] = (b + n) + i
    <3> TAKE i \in 1 .. Len(s) - n
    <3>1. n + i \in 1 .. Len(s)
      BY <1>1
    <3>2. s[n + i] = b + (n + i)
      BY <3>1 DEF From
    <3> QED
      BY <1>1, <2>1, <3>2
  <2>3. From(c, b + n)
    BY <2>1, <2>2 DEF From
  <2> QED
    BY <2>3 DEF c
<1> QED
  BY <1>2, <1>3

(* Bytes counts on, and what counts on from nothing are bytes.              *)
LEMMA BytesSeq ==
  ASSUME NEW T, NEW i \in Nat, NEW j \in Nat, i <= j + 1, \A b \in i .. j : b \in T
  PROVE  Bytes(i, j) \in Seq(T)
<1> DEFINE n == j - i + 1
<1>1. n \in Nat
  OBVIOUS
<1>2. Bytes(i, j) = [a \in 1 .. n |-> i + a - 1]
  BY DEF Bytes
<1>3. \A a \in 1 .. n : i + a - 1 \in T
  BY <1>1
<1> QED
  BY <1>1, <1>2, <1>3, IsASeq

(* They count on from the one before the first.                             *)
LEMMA BytesFrom ==
  ASSUME NEW i \in Nat, NEW j \in Nat, i <= j + 1
  PROVE  Len(Bytes(i, j)) = j - i + 1 /\ From(Bytes(i, j), i - 1)
<1> DEFINE n == j - i + 1
<1>1. n \in Nat
  OBVIOUS
<1>2. Bytes(i, j) = [a \in 1 .. n |-> i + a - 1]
  BY DEF Bytes
<1>3. \A b \in i .. j : b \in Int
  OBVIOUS
<1>4. Bytes(i, j) \in Seq(Int)
  BY <1>3, BytesSeq
<1>5. Len(Bytes(i, j)) = n
  BY <1>1, <1>2, <1>4, LenProperties
<1>6. \A a \in 1 .. n : Bytes(i, j)[a] = (i - 1) + a
  BY <1>1, <1>2
<1> QED
  BY <1>5, <1>6 DEF From

(* What counts on from nothing are the first bytes.                         *)
LEMMA FromBytes ==
  ASSUME NEW T, NEW s \in Seq(T), T \subseteq Int, From(s, 0)
  PROVE  s = Bytes(1, Len(s))
<1> DEFINE n == Len(s)
           c == Bytes(1, n)
<1>1. n \in Nat /\ s \in Seq(Int)
  BY LenProperties, SeqMonotonic
<1>2. Len(c) = n /\ From(c, 0) /\ c \in Seq(Int)
  <2>1. 1 \in Nat /\ n \in Nat /\ 1 <= n + 1 /\ (\A b \in 1 .. n : b \in Int)
    BY <1>1
  <2>2. c \in Seq(Int)
    BY <2>1, BytesSeq
  <2>3. Len(c) = n - 1 + 1 /\ From(c, 1 - 1)
    BY <2>1, BytesFrom
  <2>4. n - 1 + 1 = n /\ 1 - 1 = 0
    BY <1>1
  <2> QED
    BY <2>2, <2>3, <2>4
<1> HIDE DEF c
<1>3. \A i \in 1 .. n : s[i] = c[i]
  BY <1>1, <1>2 DEF From
<1>4. s = c
  BY <1>1, <1>2, <1>3, SeqEqual
<1> QED
  BY <1>4 DEF c

---------------------------------------------------------------------------
(* The state.                                                               *)

(* What counts on from nothing within 1 .. N has at most N elements.        *)
LEMMA FromBound ==
  ASSUME NEW N \in Nat, NEW s \in Seq(1 .. N), From(s, 0)
  PROVE  Len(s) <= N
<1>1. Len(s) \in Nat /\ \A i \in 1 .. Len(s) : s[i] \in 1 .. N
  BY LenProperties, ElementOfSeq
<1> SUFFICES ASSUME Len(s) >= 1 PROVE Len(s) <= N
  BY <1>1
<1>2. Len(s) \in 1 .. Len(s)
  BY <1>1
<1>3. s[Len(s)] = 0 + Len(s) /\ s[Len(s)] \in 1 .. N
  BY <1>1, <1>2 DEF From
<1> QED
  BY <1>1, <1>3

(* The numbers in the invariant.                                            *)
LEMMA Base ==
  ASSUME TcpInv
  PROVE  /\ Len(got) \in 0 .. ReqLen /\ Len(read) \in Nat /\ Len(ring) \in Nat
         /\ PeerHas \in 0 .. ReqLen + 1
         /\ Off(rcvNxt, PeerIss) \in 0 .. SeqMod - 1 /\ Kept \in Int
         /\ Off(sndUna, Iss) \in 0 .. SeqMod - 1 /\ Off(sndNxt, Iss) \in 0 .. SeqMod - 1
         /\ Off(want, Iss) \in 0 .. SeqMod - 1
         /\ Synced => Kept \in 0 .. StreamLen + 1
<1>1. /\ got \in Seq(1 .. ReqLen) /\ From(got, 0) /\ read \in Seq(1 .. StreamLen)
      /\ ring \in Seq(1 .. StreamLen) /\ gotFin \in BOOLEAN /\ sndUna \in SeqNos
      /\ sndNxt \in SeqNos /\ want \in SeqNos /\ rcvNxt \in SeqNos
  BY DEF TcpInv, StateTypes, SendOK
<1>2. ReqLen \in Nat /\ StreamLen \in Nat /\ SeqMod \in Nat
  BY Sizes
<1>3. Len(got) \in 0 .. ReqLen
  BY <1>1, <1>2, FromBound, LenProperties
<1>4. PeerHas \in 0 .. ReqLen + 1
  BY <1>1, <1>2, <1>3 DEF PeerHas
<1>5. /\ Off(rcvNxt, PeerIss) \in 0 .. SeqMod - 1 /\ Off(sndUna, Iss) \in 0 .. SeqMod - 1
      /\ Off(sndNxt, Iss) \in 0 .. SeqMod - 1 /\ Off(want, Iss) \in 0 .. SeqMod - 1
  BY <1>1, OffType, Sizes
<1>6. Kept \in Int
  BY <1>2, <1>5 DEF Kept
<1>7. Synced => Kept \in 0 .. StreamLen + 1
  BY <1>2, <1>5 DEF Kept, TcpInv, StreamOK
<1> QED
  BY <1>1, <1>3, <1>4, <1>5, <1>6, <1>7, LenProperties

(* A step after which the state is again as the invariant says, and that    *)
(* forgets nothing, moves the network on.                                   *)
LEMMA Onward ==
  ASSUME TcpInv, StateTypes', HandOK', StreamOK', SendOK',
         PeerHas <= PeerHas', written <= written', ended => ended' /\ written' = written,
         Synced => Synced' /\ Kept <= Kept', Asked => Asked',
         pc \in {"closing", "closed"} => pc' \in {"closing", "closed"}
  PROVE  Forward
<1>1. PeerHas \in Nat /\ (Synced => Kept \in Nat)
  BY Base, Sizes
<1>2. PeerHas' \in Nat
  <2>1. got' \in Seq(1 .. ReqLen) /\ gotFin' \in BOOLEAN
    BY DEF StateTypes
  <2>2. Len(got') \in Nat
    BY <2>1, LenProperties
  <2> QED
    BY <2>1, <2>2 DEF PeerHas
<1>3. Synced' => Kept' \in Nat
  <2>1. Synced' => Off(rcvNxt, PeerIss)' \in 1 .. StreamLen + 2
    BY DEF StreamOK
  <2> QED
    BY <2>1, Sizes DEF Kept
<1>4. written' \in Nat
  BY Sizes DEF StateTypes
<1> QED
  BY <1>1, <1>2, <1>3, <1>4 DEF Forward

(* A step that leaves the stream from the peer alone.                       *)
LEMMA StreamKeeps ==
  ASSUME TcpInv, UNCHANGED <<read, ring, written, ended, finSeen, rcvNxt, acked>>,
         Synced' => Synced, pc # "closed" \/ pc' = "closed"
  PROVE  StreamOK'
<1>1. UNCHANGED Kept
  BY DEF Kept, Off
<1>2. From(read, 0)' /\ From(ring, Len(read))'
  BY DEF TcpInv, StreamOK, From
<1>3. UNCHANGED Off(rcvNxt, PeerIss)
  BY DEF Off
<1> QED
  BY <1>1, <1>2, <1>3 DEF TcpInv, StreamOK

(* Segments as they are laid out.                                           *)
Laid(m, seq, ack, data) ==
  /\ m \in UpSegments
  /\ ~m.syn /\ ~m.fin /\ m.seq = seq /\ m.ack = ack /\ m.data = data

LEMMA SegmentType ==
  ASSUME NEW seq \in SeqNos, NEW ack \in SeqNos,
         NEW data \in Seq(1 .. ReqLen), NEW r \in Seq(1 .. StreamLen), Len(r) <= RingSize
  PROVE  Laid(Segment(seq, ack, r, data), seq, ack, data)
<1>1. Space(r) \in 0 .. RingSize
  BY LenProperties, Sizes DEF Space
<1> QED
  BY <1>1 DEF Segment, UpSegments, Laid

(* A SYN and a FIN are laid out in the same way.                            *)
LEMMA FlagType ==
  ASSUME NEW m \in UpSegments
  PROVE  /\ [m EXCEPT !.syn = TRUE] \in UpSegments
         /\ [m EXCEPT !.syn = TRUE].syn /\ [m EXCEPT !.syn = TRUE].fin = m.fin
         /\ [m EXCEPT !.syn = TRUE].data = m.data /\ [m EXCEPT !.syn = TRUE].ack = m.ack
         /\ [m EXCEPT !.fin = TRUE] \in UpSegments
         /\ [m EXCEPT !.fin = TRUE].fin /\ [m EXCEPT !.fin = TRUE].syn = m.syn
         /\ [m EXCEPT !.fin = TRUE].data = m.data /\ [m EXCEPT !.fin = TRUE].ack = m.ack
BY DEF UpSegments

(* The network to the peer after one segment has been sent.                 *)
LEMMA UpSendsOne ==
  ASSUME TcpInv, Forward, NEW p \in UpSegments, UpOK(p)', up' \in CarryUp({p})
  PROVE  UpNet'
<1>1. {p} \in SUBSET UpSegments /\ IsFiniteSet({p})
  BY FS_Singleton
<1>2. \A m \in {p} : UpOK(m)'
  OBVIOUS
<1> QED
  BY <1>1, <1>2, UpSends

(* A step of kmain that leaves what each side has received alone.           *)
LEMMA OnwardHere ==
  ASSUME TcpInv, StateTypes', HandOK', StreamOK', SendOK',
         UNCHANGED <<rcvNxt, written, ended, got, gotFin>>,
         Synced => Synced', Asked => Asked',
         pc \in {"closing", "closed"} => pc' \in {"closing", "closed"}
  PROVE  Forward
<1>1. PeerHas \in Nat /\ written \in Nat /\ Kept \in Int
  BY Base, Sizes DEF TcpInv, StateTypes
<1>2. UNCHANGED PeerHas /\ UNCHANGED Kept
  BY DEF PeerHas, Kept, Off
<1>3. PeerHas <= PeerHas' /\ written <= written' /\ Kept <= Kept'
  BY <1>1, <1>2
<1> QED
  BY <1>3, Onward

---------------------------------------------------------------------------
(* tcp_connect.                                                             *)

(* Nothing is sent and nothing arrives: the network needs no more than that *)
(* the step moves on.                                                       *)
LEMMA NetKeeps ==
  ASSUME TcpInv, Forward, UNCHANGED <<down, up>>
  PROVE  DownNet' /\ UpNet'
BY DownDrops, UpDrops

(* tcp_connect begins: nothing has happened before it.                      *)
LEMMA ConnectStep ==
  ASSUME TcpInv, Connect
  PROVE  TcpInv'
<1>1. /\ pc = "start" /\ state' = "SYN_SENT" /\ pc' = "connecting"
      /\ UNCHANGED <<sndNxt, sndUna, rcvNxt, reset, finSeen, ring>>
      /\ UNCHANGED <<off, want, outcome, read, eof, down, up>>
      /\ UNCHANGED <<peer, written, ended, acked, wnd, got, gotFin>>
  BY DEF Connect, peerVars
<1>2. StateTypes'
  BY <1>1 DEF TcpInv, StateTypes, States
<1>3. state = "CLOSED" /\ ~Synced /\ ~Synced'
  BY <1>1 DEF TcpInv, HandOK, Synced
<1>4. HandOK'
  BY <1>1, <1>3 DEF TcpInv, HandOK
<1>5. StreamOK'
  BY <1>1, <1>3, StreamKeeps
<1>6. SendOK'
  BY <1>1, <1>3 DEF TcpInv, SendOK, HandOK, From, Asked
<1>7. Forward
  <2>1. Asked => Asked'
    BY <1>1 DEF Asked
  <2> QED
    BY <1>1, <1>2, <1>3, <1>4, <1>5, <1>6, <2>1, OnwardHere
<1> QED
  BY <1>1, <1>2, <1>4, <1>5, <1>6, <1>7, NetKeeps DEF TcpInv

(* The handshake is over, with snd_nxt behind the SYN.                      *)
LEMMA ConnectDoneStep ==
  ASSUME TcpInv, ConnectDone
  PROVE  TcpInv'
<1>1. /\ pc = "connecting" /\ state = "ESTABLISHED" /\ pc' = "open"
      /\ UNCHANGED <<state, sndNxt, sndUna, rcvNxt, reset, finSeen, ring>>
      /\ UNCHANGED <<off, want, outcome, read, eof, down, up>>
      /\ UNCHANGED <<peer, written, ended, acked, wnd, got, gotFin>>
  BY DEF ConnectDone, conn, peerVars
<1>2. StateTypes'
  BY <1>1 DEF TcpInv, StateTypes
<1>3. Synced /\ Synced'
  BY <1>1 DEF Synced
<1>4. HandOK'
  BY <1>1, <1>3 DEF TcpInv, HandOK
<1>5. StreamOK'
  BY <1>1, <1>3, StreamKeeps
<1>6. SendOK'
  BY <1>1, <1>3 DEF TcpInv, SendOK, HandOK, From, Asked, PeerHas, Off
<1>7. Forward
  <2>1. Asked => Asked'
    BY <1>1 DEF Asked
  <2> QED
    BY <1>1, <1>2, <1>3, <1>4, <1>5, <1>6, <2>1, OnwardHere
<1> QED
  BY <1>1, <1>2, <1>4, <1>5, <1>6, <1>7, NetKeeps DEF TcpInv

(* The SYN is sent, the first time or again: snd_nxt is rewound to behind   *)
(* it.                                                                      *)
LEMMA SynSendStep ==
  ASSUME TcpInv, SynSend
  PROVE  TcpInv'
<1>1. /\ pc = "connecting" /\ state = "SYN_SENT" /\ sndNxt' = Plus(sndUna, 1)
      /\ up' \in CarryUp({SynSegment})
      /\ UNCHANGED <<state, sndUna, rcvNxt, reset, finSeen, ring>>
      /\ UNCHANGED <<pc, off, want, outcome, read, eof, down>>
      /\ UNCHANGED <<peer, written, ended, acked, wnd, got, gotFin>>
  BY DEF SynSend, app, peerVars
<1>2. StateTypes /\ sndUna \in SeqNos /\ rcvNxt \in SeqNos /\ ring \in Seq(1 .. StreamLen)
      /\ Len(ring) <= RingSize
  BY DEF TcpInv, StateTypes
<1>3. ~Synced /\ ~Synced' /\ sndUna = Iss
  BY <1>1 DEF Synced, TcpInv, HandOK
<1>4. StateTypes'
  <2>1. Plus(sndUna, 1) \in SeqNos
    BY <1>3, OffFirst, Sizes
  <2> QED
    BY <1>1, <1>2, <2>1 DEF StateTypes
<1>5. HandOK' /\ StreamOK'
  BY <1>1, <1>3, StreamKeeps DEF TcpInv, HandOK
<1>6. SendOK'
  BY <1>1, <1>3 DEF TcpInv, SendOK, HandOK, From, Asked
<1>7. Forward
  <2>1. Asked => Asked'
    BY <1>1 DEF Asked
  <2> QED
    BY <1>1, <1>3, <1>4, <1>5, <1>6, <2>1, OnwardHere
<1>8. UpNet'
  <2>1. PICK m : m = Segment(sndUna, rcvNxt, ring, <<>>)
    OBVIOUS
  <2>2. PICK p : p = [m EXCEPT !.syn = TRUE]
    OBVIOUS
  <2>3. m \in UpSegments /\ ~m.fin /\ m.data = <<>>
    <3>1. <<>> \in Seq(1 .. ReqLen)
      OBVIOUS
    <3>2. Laid(m, sndUna, rcvNxt, <<>>)
      BY <1>2, <2>1, <3>1, SegmentType
    <3> QED
      BY <3>2 DEF Laid
  <2>4. p \in UpSegments /\ p.syn /\ ~p.fin /\ p.data = <<>>
    BY <2>2, <2>3, FlagType
  <2>5. UpOK(p)'
    BY <2>4 DEF UpOK
  <2> QED
    BY <1>1, <1>7, <2>1, <2>2, <2>4, <2>5, UpSendsOne DEF SynSegment
<1>9. DownNet'
  BY <1>1, <1>7, DownDrops
<1> QED
  BY <1>4, <1>5, <1>6, <1>8, <1>9 DEF TcpInv

---------------------------------------------------------------------------
(* tcp_send.                                                                *)

(* The handshake is over before anything is sent.                           *)
LEMMA OpenIsSynced ==
  ASSUME TcpInv, pc \in {"open", "sending", "closing"}
  PROVE  Synced
BY DEF TcpInv, HandOK, Synced

(* A chunk at its place may be sent.                                        *)
LEMMA ChunkOK ==
  ASSUME TcpInv, Synced, Synced', Asked', UNCHANGED rcvNxt,
         NEW k \in 1 .. ReqLen, NEW seq \in SeqNos, Off(seq, Iss) = k,
         NEW p, p = Chunk(seq, k)
  PROVE  p \in UpSegments /\ UpOK(p)'
<1>1. /\ StateTypes /\ rcvNxt \in SeqNos /\ ring \in Seq(1 .. StreamLen)
      /\ Len(ring) <= RingSize
  BY DEF TcpInv, StateTypes
<1>2. <<k>> \in Seq(1 .. ReqLen) /\ <<k>> # <<>>
  OBVIOUS
<1>3. /\ p \in UpSegments /\ ~p.syn /\ ~p.fin
      /\ p.seq = seq /\ p.ack = rcvNxt /\ p.data = <<k>>
  <2>1. PICK data : data = <<k>>
    OBVIOUS
  <2>2. data \in Seq(1 .. ReqLen)
    BY <1>2, <2>1
  <2>3. p = Segment(seq, rcvNxt, ring, data)
    BY <2>1 DEF Chunk
  <2>4. Laid(p, seq, rcvNxt, data)
    BY <1>1, <2>2, <2>3, SegmentType
  <2> QED
    BY <2>1, <2>4 DEF Laid
<1>4. Off(p.ack, PeerIss) \in 1 .. 1 + Kept'
  <2>1. Off(rcvNxt, PeerIss) \in 1 .. StreamLen + 2
    BY DEF TcpInv, StreamOK
  <2>2. Kept' = Off(rcvNxt, PeerIss) - 1
    BY DEF Kept, Off
  <2>3. StreamLen \in Nat
    BY Sizes
  <2> QED
    BY <1>3, <2>1, <2>2, <2>3
<1> QED
  BY <1>3, <1>4 DEF UpOK

(* What a call that sends chunk k at its place leaves.                      *)
LEMMA XmitStep ==
  ASSUME TcpInv, pc \in {"open", "sending"}, NEW k \in 1 .. ReqLen, Xmit(k),
         Off(sndNxt, Iss) = k, pc' = "sending", off' = k - 1,
         outcome = "none", outcome' = "none"
  PROVE  TcpInv'
<1>1. /\ want' = Plus(sndNxt, 1) /\ sndNxt' = Plus(sndNxt, 1)
      /\ up' \in CarryUp({Chunk(sndNxt, k)})
      /\ UNCHANGED <<state, sndUna, rcvNxt, reset, finSeen, ring, read, eof, down>>
      /\ UNCHANGED <<peer, written, ended, acked, wnd, got, gotFin>>
  BY DEF Xmit, peerVars
<1>2. StateTypes /\ sndNxt \in SeqNos /\ ReqLen \in Nat
  BY Sizes DEF TcpInv, StateTypes
<1>3. Synced /\ Synced' /\ state # "CLOSED" /\ gotFin = FALSE /\ Asked'
  BY <1>1, OpenIsSynced DEF Synced, Asked, TcpInv, SendOK, StateTypes
<1>4. Plus(sndNxt, 1) \in SeqNos /\ Off(Plus(sndNxt, 1), Iss) = k + 1
  <2>1. Off(sndNxt, Iss) + 1 \in 0 .. SeqMod - 1 /\ Iss \in SeqNos
    BY Sizes
  <2>2. /\ Plus(sndNxt, 1) \in SeqNos
        /\ Off(Plus(sndNxt, 1), Iss) = Off(sndNxt, Iss) + 1
    BY <1>2, <2>1, OffPlus
  <2> QED
    BY <2>2
<1>5. StateTypes'
  BY <1>1, <1>2, <1>4 DEF StateTypes
<1>6. HandOK' /\ StreamOK'
  BY <1>1, <1>3, StreamKeeps DEF TcpInv, HandOK, Synced
<1>7. SendOK'
  <2>1. Off(sndNxt, Iss)' = (k - 1) + 2 /\ Off(want, Iss)' = (k - 1) + 2 /\ k - 1 < ReqLen
    BY <1>1, <1>2, <1>4 DEF Off
  <2>2. From(got, 0)' /\ (Off(sndUna, Iss) \in 1 .. 1 + PeerHas)'
    BY <1>1, <1>3 DEF TcpInv, SendOK, From, Off, PeerHas
  <2> QED
    BY <1>1, <1>3, <2>1, <2>2 DEF SendOK
<1>8. Forward
  BY <1>1, <1>3, <1>5, <1>6, <1>7, OnwardHere
<1>9. UpNet'
  <2>1. PICK p : p = Chunk(sndNxt, k)
    OBVIOUS
  <2>2. p \in UpSegments /\ UpOK(p)'
    BY <1>1, <1>2, <1>3, <2>1, ChunkOK
  <2> QED
    BY <1>1, <1>8, <2>1, <2>2, UpSendsOne
<1>10. DownNet'
  BY <1>1, <1>8, DownDrops
<1> QED
  BY <1>5, <1>6, <1>7, <1>9, <1>10 DEF TcpInv

(* The first chunk of the request.                                          *)
LEMMA SendStartStep ==
  ASSUME TcpInv, SendStart
  PROVE  TcpInv'
<1>1. pc = "open" /\ outcome = "none" /\ pc' = "sending" /\ Xmit(1) /\ off' = off
      /\ outcome' = outcome
  BY DEF SendStart
<1>2. off = 0 /\ Off(sndNxt, Iss) = 1 /\ 1 \in 1 .. ReqLen /\ 1 - 1 = 0
  BY <1>1, OpenIsSynced, Sizes DEF TcpInv, SendOK
<1> QED
  BY <1>1, <1>2, XmitStep

(* The chunk behind one that is acknowledged.                               *)
LEMMA SendNextStep ==
  ASSUME TcpInv, SendNext
  PROVE  TcpInv'
<1>1. /\ pc = "sending" /\ off + 1 < ReqLen /\ off' = off + 1 /\ Xmit(off + 2)
      /\ pc' = pc /\ outcome' = outcome
  BY DEF SendNext
<1>2. PICK k : k = off + 2
  OBVIOUS
<1>3. k \in 1 .. ReqLen /\ off' = k - 1 /\ Off(sndNxt, Iss) = k /\ outcome = "none"
  BY <1>1, <1>2, Sizes DEF TcpInv, SendOK, StateTypes
<1> QED
  BY <1>1, <1>2, <1>3, XmitStep

(* The same chunk again, at the same place.                                 *)
LEMMA SendRetryStep ==
  ASSUME TcpInv, SendRetry
  PROVE  TcpInv'
<1>1. /\ pc = "sending" /\ up' \in CarryUp({Chunk(Plus(sndNxt, -1), off + 1)})
      /\ UNCHANGED <<state, sndNxt, sndUna, rcvNxt, reset, finSeen, ring>>
      /\ UNCHANGED <<pc, off, want, outcome, read, eof, down>>
      /\ UNCHANGED <<peer, written, ended, acked, wnd, got, gotFin>>
  BY DEF SendRetry, conn, app, peerVars
<1>2. StateTypes /\ sndNxt \in SeqNos /\ ReqLen \in Nat /\ off \in Nat /\ off < ReqLen
      /\ Off(sndNxt, Iss) = off + 2
  BY <1>1, Sizes DEF TcpInv, StateTypes, SendOK
<1>3. Synced /\ Synced' /\ Asked /\ Asked'
  BY <1>1, OpenIsSynced DEF Synced, Asked
<1>4. StateTypes' /\ HandOK' /\ StreamOK' /\ SendOK'
  <2>1. StateTypes' /\ StreamOK'
    BY <1>1, <1>2, <1>3, StreamKeeps DEF StateTypes
  <2>2. HandOK'
    BY <1>1, <1>3 DEF TcpInv, HandOK
  <2>3. SendOK'
    BY <1>1, <1>3 DEF TcpInv, SendOK, From, Off, PeerHas
  <2> QED
    BY <2>1, <2>2, <2>3
<1>5. Forward
  BY <1>1, <1>3, <1>4, OnwardHere
<1>6. UpNet'
  <2>1. PICK k : k = off + 1
    OBVIOUS
  <2>2. PICK seq : seq = Plus(sndNxt, -1)
    OBVIOUS
  <2>3. k \in 1 .. ReqLen
    BY <1>2, <2>1
  <2>4. seq \in SeqNos /\ Off(seq, Iss) = k
    <3>1. Off(sndNxt, Iss) + (-1) \in 0 .. SeqMod - 1
      BY <1>2, Sizes
    <3> QED
      BY <1>2, <2>1, <2>2, <3>1, OffPlus, Sizes
  <2>5. PICK p : p = Chunk(seq, k)
    OBVIOUS
  <2>6. p \in UpSegments /\ UpOK(p)'
    BY <1>1, <1>3, <2>3, <2>4, <2>5, ChunkOK
  <2> QED
    BY <1>1, <1>5, <2>1, <2>2, <2>5, <2>6, UpSendsOne
<1>7. DownNet'
  BY <1>1, <1>5, DownDrops
<1> QED
  BY <1>4, <1>6, <1>7 DEF TcpInv

(* The chunk that is waited for is the last: the peer has the request.      *)
LEMMA SendDoneStep ==
  ASSUME TcpInv, SendDone
  PROVE  TcpInv'
<1>1. /\ pc = "sending" /\ sndUna = want /\ off + 1 = ReqLen
      /\ off' = ReqLen /\ outcome' = "ok" /\ pc' = "open"
      /\ UNCHANGED <<state, sndNxt, sndUna, rcvNxt, reset, finSeen, ring>>
      /\ UNCHANGED <<want, read, eof, down, up>>
      /\ UNCHANGED <<peer, written, ended, acked, wnd, got, gotFin>>
  BY DEF SendDone, conn, peerVars
<1>2. Synced /\ Synced' /\ Asked'
  BY <1>1, OpenIsSynced DEF Synced, Asked
<1>3. StateTypes' /\ HandOK' /\ StreamOK'
  <2>1. StateTypes' /\ StreamOK'
    BY <1>1, <1>2, StreamKeeps, Sizes DEF TcpInv, StateTypes
  <2>2. HandOK'
    BY <1>1, <1>2 DEF TcpInv, HandOK, Synced
  <2> QED
    BY <2>1, <2>2
<1>4. Len(got) = ReqLen
  <2>1. gotFin = FALSE /\ Off(sndUna, Iss) = off + 2 /\ Off(sndUna, Iss) \in 1 .. 1 + PeerHas
    BY <1>1, <1>2 DEF TcpInv, SendOK, StateTypes
  <2>2. PeerHas = Len(got) /\ Len(got) \in 0 .. ReqLen /\ ReqLen \in Nat /\ off \in Int
    BY <2>1, Base, Sizes DEF PeerHas, TcpInv, StateTypes
  <2> QED
    BY <1>1, <2>1, <2>2
<1>5. SendOK'
  BY <1>1, <1>2, <1>4 DEF TcpInv, SendOK, From, Off, PeerHas
<1>6. Forward
  BY <1>1, <1>2, <1>3, <1>5, OnwardHere
<1> QED
  BY <1>1, <1>3, <1>5, <1>6, NetKeeps DEF TcpInv

(* tcp_send gives up.                                                       *)
LEMMA SendFailStep ==
  ASSUME TcpInv, SendFail
  PROVE  TcpInv'
<1>1. /\ pc \in {"sending", "open"} /\ outcome' = "failed" /\ pc' = "open"
      /\ UNCHANGED <<state, sndNxt, sndUna, rcvNxt, reset, finSeen, ring>>
      /\ UNCHANGED <<off, want, read, eof, down, up>>
      /\ UNCHANGED <<peer, written, ended, acked, wnd, got, gotFin>>
  BY DEF SendFail, conn, peerVars
<1>2. Synced /\ Synced' /\ Asked'
  BY <1>1, OpenIsSynced DEF Synced, Asked
<1>3. StateTypes' /\ HandOK' /\ StreamOK'
  <2>1. StateTypes' /\ StreamOK'
    BY <1>1, <1>2, StreamKeeps DEF TcpInv, StateTypes
  <2>2. HandOK'
    BY <1>1, <1>2 DEF TcpInv, HandOK, Synced
  <2> QED
    BY <2>1, <2>2
<1>4. SendOK'
  BY <1>1, <1>2 DEF TcpInv, SendOK, From, Off, PeerHas
<1>5. Forward
  BY <1>1, <1>2, <1>3, <1>4, OnwardHere
<1> QED
  BY <1>1, <1>3, <1>4, <1>5, NetKeeps DEF TcpInv

---------------------------------------------------------------------------
(* tcp_recv and tcp_close.                                                  *)

(* What tcp_recv takes from the ring follows what it has returned.          *)
LEMMA RecvDataStep ==
  ASSUME TcpInv, RecvData
  PROVE  TcpInv'
<1>1. /\ pc = "open"
      /\ UNCHANGED <<state, sndNxt, sndUna, rcvNxt, reset, finSeen>>
      /\ UNCHANGED <<pc, off, want, outcome, eof, down, up>>
      /\ UNCHANGED <<peer, written, ended, acked, wnd, got, gotFin>>
  BY DEF RecvData, peerVars
<1>2. PICK n \in 1 .. Len(ring) : /\ read' = read \o SubSeq(ring, 1, n)
                                  /\ ring' = SubSeq(ring, n + 1, Len(ring))
  BY DEF RecvData
<1>3. Synced /\ Synced' /\ StateTypes /\ StreamOK
      /\ read \in Seq(1 .. StreamLen) /\ ring \in Seq(1 .. StreamLen)
      /\ Len(read) \in Nat /\ Len(ring) \in Nat /\ Len(ring) <= RingSize /\ RingSize \in Nat
  BY <1>1, OpenIsSynced, Base, Sizes DEF Synced, TcpInv, StateTypes
<1>4. n \in 0 .. Len(ring)
  BY <1>3
<1> DEFINE s == SubSeq(ring, 1, n)
<1>5. /\ s \in Seq(1 .. StreamLen) /\ Len(s) = n
      /\ ring' \in Seq(1 .. StreamLen) /\ Len(ring') = Len(ring) - n
  <2>1. s \in Seq(1 .. StreamLen) /\ Len(s) = n
    BY <1>3, <1>4, ByteCut
  <2>2. ring' \in Seq(1 .. StreamLen) /\ Len(ring') = Len(ring) - n
    BY <1>2, <1>3, <1>4, ByteCut
  <2> QED
    BY <2>1, <2>2
<1>6. From(s, Len(read)) /\ From(ring', Len(read) + n)
  <2>1. From(ring, Len(read))
    BY <1>3 DEF StreamOK
  <2> QED
    BY <1>2, <1>3, <1>4, <2>1, FromCut
<1>7. read' = read \o s
  BY <1>2
<1> HIDE DEF s
<1>8. read' \in Seq(1 .. StreamLen) /\ Len(read') = Len(read) + n
  BY <1>3, <1>5, <1>7, ConcatProperties
<1>9. From(read', 0)
  <2>1. From(read, 0) /\ From(s, 0 + Len(read))
    BY <1>3, <1>6 DEF StreamOK
  <2> QED
    BY <1>3, <1>5, <1>7, <2>1, FromJoin
<1>10. StateTypes'
  BY <1>1, <1>3, <1>4, <1>5, <1>8 DEF StateTypes
<1>11. HandOK'
  BY <1>1, <1>3 DEF TcpInv, HandOK
<1>12. StreamOK'
  <2>1. Len(read') + Len(ring') = Len(read) + Len(ring)
    BY <1>3, <1>4, <1>5, <1>8
  <2>2. UNCHANGED Off(rcvNxt, PeerIss) /\ UNCHANGED Kept
    BY <1>1 DEF Off, Kept
  <2>3. From(read, 0)' /\ From(ring, Len(read))'
    BY <1>6, <1>8, <1>9
  <2>4. /\ Len(read') + Len(ring') <= written'
        /\ finSeen' => ended' /\ Len(read') + Len(ring') = written'
        /\ acked' <= Kept' /\ Off(rcvNxt, PeerIss)' \in 1 .. StreamLen + 2
        /\ Kept' = (Len(read') + Len(ring')) + IF finSeen' THEN 1 ELSE 0
    BY <1>1, <1>3, <2>1, <2>2 DEF StreamOK
  <2> QED
    BY <1>1, <2>3, <2>4 DEF StreamOK
<1>13. SendOK'
  BY <1>1, <1>3 DEF TcpInv, SendOK, From, Off, PeerHas, Asked
<1>14. Forward
  <2>1. Asked => Asked'
    BY <1>1 DEF Asked
  <2> QED
    BY <1>1, <1>3, <1>10, <1>11, <1>12, <1>13, <2>1, OnwardHere
<1> QED
  BY <1>1, <1>10, <1>11, <1>12, <1>13, <1>14, NetKeeps DEF TcpInv

(* The end of the stream is reported.                                       *)
LEMMA RecvEofStep ==
  ASSUME TcpInv, RecvEof
  PROVE  TcpInv'
<1>1. /\ pc = "open" /\ eof' = TRUE
      /\ UNCHANGED <<state, sndNxt, sndUna, rcvNxt, reset, finSeen, ring>>
      /\ UNCHANGED <<pc, off, want, outcome, read, down, up>>
      /\ UNCHANGED <<peer, written, ended, acked, wnd, got, gotFin>>
  BY DEF RecvEof, conn, peerVars
<1>2. Synced /\ Synced' /\ (Asked => Asked')
  BY <1>1, OpenIsSynced DEF Synced, Asked
<1>3. StateTypes' /\ StreamOK'
  BY <1>1, <1>2, StreamKeeps DEF TcpInv, StateTypes
<1>4. HandOK'
  BY <1>1, <1>2 DEF TcpInv, HandOK
<1>5. SendOK'
  BY <1>1, <1>2 DEF TcpInv, SendOK, From, Off, PeerHas, Asked
<1>6. Forward
  BY <1>1, <1>2, <1>3, <1>4, <1>5, OnwardHere
<1> QED
  BY <1>1, <1>3, <1>4, <1>5, <1>6, NetKeeps DEF TcpInv

(* The FIN, behind whatever was sent.                                       *)
LEMMA CloseWithFinStep ==
  ASSUME TcpInv, CloseWithFin
  PROVE  TcpInv'
<1>1. /\ pc \in {"open", "connecting"} /\ pc' = "closing"
      /\ state \in {"ESTABLISHED", "CLOSE_WAIT"} /\ state' \in {"DONE", "FIN_WAIT"}
      /\ up' \in CarryUp({FinSegment}) /\ sndNxt' = Plus(sndNxt, 1)
      /\ UNCHANGED <<sndUna, rcvNxt, reset, finSeen, ring>>
      /\ UNCHANGED <<off, want, outcome, read, eof, down>>
      /\ UNCHANGED <<peer, written, ended, acked, wnd, got, gotFin>>
  BY DEF CloseWithFin, peerVars
<1>2. StateTypes /\ sndNxt \in SeqNos /\ rcvNxt \in SeqNos /\ ring \in Seq(1 .. StreamLen)
      /\ Len(ring) <= RingSize
  BY DEF TcpInv, StateTypes
<1>3. Synced /\ Synced' /\ (Asked => Asked')
  BY <1>1 DEF Synced, Asked
<1>4. StateTypes'
  <2>1. Plus(sndNxt, 1) \in SeqNos
    BY <1>2, Sizes DEF Plus, SeqNos
  <2> QED
    BY <1>1, <1>2, <2>1 DEF StateTypes, States
<1>5. HandOK' /\ StreamOK'
  <2>1. HandOK'
    BY <1>1, <1>3 DEF TcpInv, HandOK
  <2> QED
    BY <1>1, <1>3, <2>1, StreamKeeps
<1>6. SendOK'
  BY <1>1, <1>3 DEF TcpInv, SendOK, From, Off, PeerHas, Asked
<1>7. Forward
  BY <1>1, <1>3, <1>4, <1>5, <1>6, OnwardHere
<1>8. UpNet'
  <2>1. PICK m : m = Segment(sndNxt, rcvNxt, ring, <<>>)
    OBVIOUS
  <2>2. PICK p : p = [m EXCEPT !.fin = TRUE]
    OBVIOUS
  <2>3. m \in UpSegments /\ ~m.syn /\ m.data = <<>> /\ m.ack = rcvNxt
    <3>1. <<>> \in Seq(1 .. ReqLen)
      OBVIOUS
    <3>2. Laid(m, sndNxt, rcvNxt, <<>>)
      BY <1>2, <2>1, <3>1, SegmentType
    <3> QED
      BY <3>2 DEF Laid
  <2>4. p \in UpSegments /\ ~p.syn /\ p.fin /\ p.data = <<>> /\ p.ack = rcvNxt
    BY <2>2, <2>3, FlagType
  <2>5. Off(p.ack, PeerIss) \in 1 .. 1 + Kept'
    <3>1. Off(rcvNxt, PeerIss) \in 1 .. StreamLen + 2 /\ Kept' = Off(rcvNxt, PeerIss) - 1
      BY <1>1, <1>3 DEF Kept, Off, TcpInv, StreamOK
    <3> QED
      BY <2>4, <3>1, Sizes
  <2>6. UpOK(p)'
    BY <1>1, <1>3, <2>4, <2>5 DEF UpOK
  <2> QED
    BY <1>1, <1>7, <2>1, <2>2, <2>4, <2>6, UpSendsOne DEF FinSegment
<1>9. DownNet'
  BY <1>1, <1>7, DownDrops
<1> QED
  BY <1>4, <1>5, <1>6, <1>8, <1>9 DEF TcpInv

(* The connection is gone, and what the ring held with it.                  *)
LEMMA CloseEndStep ==
  ASSUME TcpInv, CloseEnd
  PROVE  TcpInv'
<1>1. /\ pc \in {"closing", "open", "connecting"} /\ pc' = "closed" /\ ring' = <<>>
      /\ UNCHANGED <<state, sndNxt, sndUna, rcvNxt, reset, finSeen>>
      /\ UNCHANGED <<off, want, outcome, read, eof, down, up>>
      /\ UNCHANGED <<peer, written, ended, acked, wnd, got, gotFin>>
  BY DEF CloseEnd, peerVars
<1>2. (Synced <=> Synced') /\ (Asked => Asked') /\ UNCHANGED Kept
      /\ Len(ring) \in Nat /\ Len(read) \in Nat /\ RingSize \in Nat /\ written \in Nat
  BY <1>1, Base, Sizes DEF Synced, Asked, Kept, Off, TcpInv, StateTypes
<1>3. StateTypes'
  BY <1>1, <1>2 DEF TcpInv, StateTypes
<1>4. HandOK'
  BY <1>1, <1>2 DEF TcpInv, HandOK
<1>5. StreamOK'
  <2>1. From(read, 0)' /\ From(ring, Len(read))'
    BY <1>1 DEF TcpInv, StreamOK, From
  <2>2. Len(ring') = 0 /\ Len(read') + Len(ring') <= written'
    BY <1>1, <1>2 DEF TcpInv, StreamOK
  <2> QED
    BY <1>1, <1>2, <2>1, <2>2 DEF TcpInv, StreamOK, Off
<1>6. SendOK'
  BY <1>1, <1>2 DEF TcpInv, SendOK, From, Off, PeerHas, Asked
<1>7. Forward
  BY <1>1, <1>2, <1>3, <1>4, <1>5, <1>6, OnwardHere
<1> QED
  BY <1>1, <1>3, <1>4, <1>5, <1>6, <1>7, NetKeeps DEF TcpInv

---------------------------------------------------------------------------
(* tcp_input.                                                               *)

(* The smaller and the larger of two numbers.                               *)
LEMMA MinOfTwo ==
  ASSUME NEW a \in Int, NEW b \in Int
  PROVE  Min({a, b}) \in {a, b} /\ Min({a, b}) <= a /\ Min({a, b}) <= b
<1>1. \E x \in {a, b} : \A y \in {a, b} : x <= y
  <2>1. CASE a <= b
    BY <2>1
  <2>2. CASE b <= a
    BY <2>2
  <2> QED
    BY <2>1, <2>2
<1>2. Min({a, b}) \in {a, b} /\ \A y \in {a, b} : Min({a, b}) <= y
  BY <1>1 DEF Min
<1> QED
  BY <1>2

LEMMA MaxOfTwo ==
  ASSUME NEW a \in Int, NEW b \in Int
  PROVE  Max({a, b}) = IF a >= b THEN a ELSE b
<1>1. \E x \in {a, b} : \A y \in {a, b} : x >= y
  <2>1. CASE a <= b
    BY <2>1
  <2>2. CASE b <= a
    BY <2>2
  <2> QED
    BY <2>1, <2>2
<1>2. Max({a, b}) \in {a, b} /\ \A y \in {a, b} : Max({a, b}) >= y
  BY <1>1 DEF Max
<1>3. Max({a, b}) >= a /\ Max({a, b}) >= b /\ (Max({a, b}) = a \/ Max({a, b}) = b)
  BY <1>2
<1> QED
  BY <1>3

(* A segment that is not for us, or the network that drops one.             *)
LEMMA IgnoredStep ==
  ASSUME TcpInv, UNCHANGED <<conn, app, peerVars>>, down' \subseteq down, up' \subseteq up
  PROVE  TcpInv'
<1>1. /\ UNCHANGED <<state, sndNxt, sndUna, rcvNxt, reset, finSeen, ring>>
      /\ UNCHANGED <<pc, off, want, outcome, read, eof>>
      /\ UNCHANGED <<peer, written, ended, acked, wnd, got, gotFin>>
  BY DEF conn, app, peerVars
<1>2. (Synced <=> Synced') /\ (Asked <=> Asked')
  BY <1>1 DEF Synced, Asked
<1>3. StateTypes' /\ StreamOK'
  BY <1>1, <1>2, StreamKeeps DEF TcpInv, StateTypes
<1>4. HandOK'
  BY <1>1, <1>2 DEF TcpInv, HandOK
<1>5. SendOK'
  BY <1>1, <1>2 DEF TcpInv, SendOK, From, Off, PeerHas
<1>6. Forward
  BY <1>1, <1>2, <1>3, <1>4, <1>5, OnwardHere
<1> QED
  BY <1>3, <1>4, <1>5, <1>6, DownDrops, UpDrops DEF TcpInv

(* A reset; only a peer that has seen our acknowledgement sends one.        *)
LEMMA InputRstStep ==
  ASSUME TcpInv, NEW m \in down, down' \subseteq down, InputRst(m), UNCHANGED <<app, peerVars>>
  PROVE  TcpInv'
<1>1. /\ pc # "start" /\ m.rst /\ reset' = TRUE /\ state' = "DONE"
      /\ UNCHANGED <<sndNxt, sndUna, rcvNxt, finSeen, ring, up>>
      /\ UNCHANGED <<pc, off, want, outcome, read, eof>>
      /\ UNCHANGED <<peer, written, ended, acked, wnd, got, gotFin>>
  BY DEF InputRst, app, peerVars
<1>2. Synced
  BY <1>1 DEF TcpInv, DownNet, DownOK
<1>3. Synced' /\ (Asked <=> Asked')
  BY <1>1 DEF Synced, Asked
<1>4. StateTypes' /\ StreamOK'
  BY <1>1, <1>2, <1>3, StreamKeeps DEF TcpInv, StateTypes, States
<1>5. HandOK'
  BY <1>1, <1>2, <1>3 DEF TcpInv, HandOK
<1>6. SendOK'
  BY <1>1, <1>2, <1>3 DEF TcpInv, SendOK, From, Off, PeerHas
<1>7. Forward
  BY <1>1, <1>2, <1>3, <1>4, <1>5, <1>6, OnwardHere
<1> QED
  BY <1>1, <1>4, <1>5, <1>6, <1>7, DownDrops, UpDrops DEF TcpInv

(* An acknowledgement may be sent when what it acknowledges is there.       *)
LEMMA AckOK ==
  ASSUME StateTypes, StateTypes', Synced', NEW ack \in SeqNos,
         Off(ack, PeerIss) \in 1 .. 1 + Kept',
         NEW p, p = Ack(ack, ring')
  PROVE  p \in UpSegments /\ UpOK(p)'
<1>1. <<>> \in Seq(1 .. ReqLen) /\ sndNxt \in SeqNos
      /\ ring' \in Seq(1 .. StreamLen) /\ Len(ring') <= RingSize
  BY DEF StateTypes
<1>2. Laid(p, sndNxt, ack, <<>>)
  BY <1>1, SegmentType DEF Ack
<1>3. p \in UpSegments /\ ~p.syn /\ ~p.fin /\ p.ack = ack /\ p.data = <<>>
  BY <1>2 DEF Laid
<1> QED
  BY <1>3 DEF UpOK

(* The SYN-ACK: the first number of either stream is fixed.                 *)
LEMMA InputSynAckStep ==
  ASSUME TcpInv, NEW m \in down, down' \subseteq down, InputSynAck(m), UNCHANGED <<app, peerVars>>
  PROVE  TcpInv'
<1>1. /\ pc \notin {"start", "closed"} /\ state = "SYN_SENT" /\ m.syn /\ m.ack = sndNxt
      /\ rcvNxt' = Plus(m.seq, 1) /\ sndUna' = m.ack /\ state' = "ESTABLISHED"
      /\ up' \in CarryUp({Ack(Plus(m.seq, 1), ring)})
      /\ UNCHANGED <<sndNxt, reset, finSeen, ring>>
      /\ UNCHANGED <<pc, off, want, outcome, read, eof>>
      /\ UNCHANGED <<peer, written, ended, acked, wnd, got, gotFin>>
  BY DEF InputSynAck, app, peerVars
<1>2. m \in DownSegments /\ DownOK(m) /\ StateTypes
  BY DEF TcpInv, DownNet
<1>3. m.seq \in SeqNos /\ m.ack \in SeqNos /\ Off(m.seq, PeerIss) = 0 /\ Off(m.ack, Iss) = 1
  BY <1>1, <1>2 DEF DownSegments, DownOK
<1>4. /\ ~Synced /\ Synced' /\ (Asked <=> Asked') /\ pc = "connecting"
      /\ ~finSeen /\ ring = <<>> /\ read = <<>> /\ acked = 0 /\ got = <<>> /\ ~gotFin
      /\ outcome = "none" /\ off = 0
  BY <1>1 DEF Synced, Asked, TcpInv, HandOK
<1>5. rcvNxt' \in SeqNos /\ Off(rcvNxt', PeerIss) = 1
  BY <1>1, <1>3, OffPlus, Sizes
<1>6. StateTypes'
  BY <1>1, <1>2, <1>3, <1>5 DEF StateTypes, States
<1>7. HandOK'
  BY <1>1, <1>4 DEF TcpInv, HandOK
<1>8. UNCHANGED PeerHas /\ PeerHas = 0 /\ Kept' = 0 /\ written \in Nat /\ StreamLen \in Nat
  BY <1>1, <1>2, <1>4, <1>5, Sizes DEF PeerHas, Kept, StateTypes
<1>9. StreamOK'
  <2>1. From(read, 0)' /\ From(ring, Len(read))'
    BY <1>1 DEF TcpInv, StreamOK, From
  <2>2. Off(rcvNxt, PeerIss)' = 1
    BY <1>5
  <2>3. 1 \in 1 .. StreamLen + 2 /\ Len(read') = 0 /\ Len(ring') = 0
    BY <1>1, <1>4, <1>8
  <2> QED
    BY <1>1, <1>4, <1>8, <2>1, <2>2, <2>3 DEF StreamOK
<1>10. SendOK'
  <2>1. Off(sndUna, Iss)' = 1 /\ Off(sndNxt, Iss)' = 1 /\ From(got, 0)'
    BY <1>1, <1>3 DEF TcpInv, SendOK, From
  <2> QED
    BY <1>1, <1>4, <1>8, <2>1 DEF SendOK
<1>11. Forward
  BY <1>1, <1>4, <1>6, <1>7, <1>8, <1>9, <1>10, Onward
<1>12. UpNet'
  <2>1. PICK p : p = Ack(rcvNxt', ring')
    OBVIOUS
  <2>2. Off(rcvNxt', PeerIss) \in 1 .. 1 + Kept'
    BY <1>5, <1>8
  <2>3. p \in UpSegments /\ UpOK(p)'
    BY <1>2, <1>4, <1>5, <1>6, <2>1, <2>2, AckOK
  <2>4. up' \in CarryUp({p})
    BY <1>1, <2>1
  <2> QED
    BY <1>11, <2>3, <2>4, UpSendsOne
<1> QED
  BY <1>6, <1>7, <1>9, <1>10, <1>11, <1>12, DownDrops DEF TcpInv

(* What is taken of a segment: the next bytes, before the FIN has come, and *)
(* the FIN when it is next.                                                 *)
LEMMA Taken ==
  ASSUME TcpInv, Synced, pc # "closed", NEW m \in DownSegments, DownOK(m)
  PROVE  /\ Take(m) \in 0 .. Len(m.data) /\ Len(ring) + Take(m) <= RingSize
         /\ Take(m) > 0 => ~finSeen /\ Kept + Take(m) <= written /\ From(m.data, Kept)
         /\ FinInOrder(m) => ~finSeen /\ ended /\ Kept + Take(m) = written
<1> DEFINE t == Take(m)
           n == Len(m.data)
<1>1. /\ m.seq \in SeqNos /\ m.data \in Seq(1 .. StreamLen) /\ n \in Nat
      /\ rcvNxt \in SeqNos /\ written \in Nat /\ written <= StreamLen /\ finSeen \in BOOLEAN
      /\ Len(ring) \in Nat /\ Len(read) \in Nat /\ Len(ring) <= RingSize
      /\ RingSize \in Nat /\ StreamLen \in Nat /\ SeqMod \in Nat
      /\ SeqMod > 2 * (StreamLen + ReqLen + 4) /\ ReqLen \in Nat
  BY LenProperties, Base, Sizes DEF DownSegments, TcpInv, StateTypes
<1> HIDE DEF t, n
<1>2. /\ Off(rcvNxt, PeerIss) = Kept + 1 /\ Kept \in 0 .. StreamLen + 1
      /\ finSeen => Kept = written + 1
  <2>1. Kept \in 0 .. StreamLen + 1
    BY Base
  <2>2. Off(rcvNxt, PeerIss) = Kept + 1
    BY Base DEF Kept
  <2>3. finSeen => Len(read) + Len(ring) = written /\ Kept = (Len(read) + Len(ring)) + 1
    BY <1>1 DEF TcpInv, StreamOK
  <2> QED
    BY <2>1, <2>2, <2>3
<1>3. t \in 0 .. n /\ Len(ring) + t <= RingSize
  <2>1. Min({n, Space(ring)}) \in {n, Space(ring)} /\ Min({n, Space(ring)}) <= n
        /\ Min({n, Space(ring)}) <= Space(ring) /\ Space(ring) = RingSize - Len(ring)
    <3>1. PICK b : b = Space(ring)
      OBVIOUS
    <3>2. b = RingSize - Len(ring) /\ b \in Int
      BY <1>1, <3>1 DEF Space
    <3>3. Min({n, b}) \in {n, b} /\ Min({n, b}) <= n /\ Min({n, b}) <= b
      <4>1. n \in Int /\ b \in Int
        BY <1>1, <3>2
      <4> QED
        BY <4>1, MinOfTwo, Zenon
    <3> QED
      BY <3>1, <3>2, <3>3
  <2>2. t = IF m.seq = rcvNxt THEN Min({n, Space(ring)}) ELSE 0
    BY DEF Take, t, n
  <2> HIDE DEF Space
  <2>3. Space(ring) \in Nat
    BY <1>1, <2>1
  <2> QED
    BY <1>1, <2>1, <2>2, <2>3
<1>4. ASSUME t > 0 PROVE ~finSeen /\ Kept + t <= written /\ From(m.data, Kept)
  <2>1. m.seq = rcvNxt /\ Off(m.seq, PeerIss) = Kept + 1
    BY <1>2, <1>4 DEF Take, t
  <2>2. ~m.syn /\ m.data # <<>>
    BY <1>1, <1>2, <1>3, <1>4, <2>1 DEF DownOK, n
  <2>3. (Kept + 1) + n - 1 <= written /\ From(m.data, (Kept + 1) - 1)
    BY <2>1, <2>2 DEF DownOK, n
  <2>4. Kept + n <= written /\ (Kept + 1) - 1 = Kept
    BY <1>1, <1>2, <2>3
  <2> QED
    BY <1>1, <1>2, <1>3, <1>4, <2>3, <2>4
<1>5. ASSUME FinInOrder(m) PROVE ~finSeen /\ ended /\ Kept + t = written
  <2>1. m.fin /\ Plus(m.seq, n) = Plus(rcvNxt, t)
    BY <1>5 DEF FinInOrder, t, n
  <2>2. ended /\ Off(m.seq, PeerIss) + n - 1 = written /\ Off(m.seq, PeerIss) \in Nat
    <3>1. ~m.syn
      BY <2>1 DEF DownOK
    <3>2. Off(m.seq, PeerIss) \in 1 .. StreamLen + 2
      BY <3>1 DEF DownOK
    <3>3. ended /\ Off(m.seq, PeerIss) + n - 1 = written
      BY <2>1, <3>1 DEF DownOK, n
    <3> QED
      BY <3>2, <3>3
  <2>3. Off(Plus(m.seq, n), PeerIss) = written + 1
    <3>1. PICK o : o = Off(m.seq, PeerIss)
      OBVIOUS
    <3>2. o + n = written + 1
      BY <1>1, <2>2, <3>1
    <3>3. written + 1 \in 0 .. SeqMod - 1 /\ n \in Int /\ -1 <= n
      BY <1>1
    <3>4. Off(m.seq, PeerIss) + n \in 0 .. SeqMod - 1 /\ m.seq \in SeqNos /\ PeerIss \in SeqNos
      BY <1>1, <3>1, <3>2, <3>3, Sizes
    <3>5. Off(Plus(m.seq, n), PeerIss) = Off(m.seq, PeerIss) + n
      BY <3>3, <3>4, OffPlus
    <3> QED
      BY <3>1, <3>2, <3>5
  <2>4. Off(Plus(rcvNxt, t), PeerIss) = (Kept + 1) + t
    <3>1. Kept + t <= 2 * StreamLen + 2
      <4>1. CASE t = 0
        BY <1>1, <1>2, <4>1
      <4>2. CASE t > 0
        BY <1>1, <1>2, <1>3, <1>4, <4>2
      <4> QED
        BY <1>3, <4>1, <4>2
    <3>2. (Kept + 1) + t \in 0 .. SeqMod - 1 /\ t \in Int /\ -1 <= t
      BY <1>1, <1>2, <1>3, <3>1
    <3>3. rcvNxt \in SeqNos /\ PeerIss \in SeqNos
          /\ Off(rcvNxt, PeerIss) + t \in 0 .. SeqMod - 1
      BY <1>1, <1>2, <3>2, Sizes
    <3>4. Off(Plus(rcvNxt, t), PeerIss) = Off(rcvNxt, PeerIss) + t
      BY <3>2, <3>3, OffPlus
    <3> QED
      BY <1>2, <3>4
  <2>5. written + 1 = (Kept + 1) + t
    BY <2>1, <2>3, <2>4
  <2> QED
    BY <1>1, <1>2, <1>3, <2>2, <2>5
<1> QED
  BY <1>3, <1>4, <1>5 DEF t, n

(* What a segment acknowledges of ours the peer has.                        *)
LEMMA UnaOK ==
  ASSUME TcpInv, Synced, NEW m \in DownSegments, DownOK(m)
  PROVE  NewUna(m) \in SeqNos /\ Off(NewUna(m), Iss) \in 1 .. 1 + PeerHas
BY DEF NewUna, DownOK, DownSegments, TcpInv, StateTypes, SendOK

(* The acknowledgements of a segment.                                       *)
LEMMA AcksOK ==
  ASSUME StateTypes, StateTypes', Synced', NEW m,
         NEW n, n = Plus(rcvNxt, Take(m)), n \in SeqNos, Off(n, PeerIss) \in 1 .. 1 + Kept',
         FinInOrder(m) => /\ Plus(n, 1) \in SeqNos
                          /\ Off(Plus(n, 1), PeerIss) \in 1 .. 1 + Kept',
         NEW ms, ms = Acks(m, ring')
  PROVE  ms \in SUBSET UpSegments /\ IsFiniteSet(ms) /\ \A a \in ms : UpOK(a)'
<1>1. PICK p : p = Ack(n, ring')
  OBVIOUS
<1>2. PICK q : q = Ack(Plus(n, 1), ring')
  OBVIOUS
<1>3. ms = (IF m.data # <<>> THEN {p} ELSE {}) \union (IF FinInOrder(m) THEN {q} ELSE {})
  BY <1>1, <1>2 DEF Acks
<1>4. p \in UpSegments /\ UpOK(p)'
  BY <1>1, AckOK
<1>5. FinInOrder(m) => q \in UpSegments /\ UpOK(q)'
  <2> SUFFICES ASSUME FinInOrder(m) PROVE q \in UpSegments /\ UpOK(q)'
    OBVIOUS
  <2>1. PICK k : k = Plus(n, 1)
    OBVIOUS
  <2>2. k \in SeqNos /\ Off(k, PeerIss) \in 1 .. 1 + Kept' /\ q = Ack(k, ring')
    BY <1>2, <2>1
  <2> QED
    BY <2>2, AckOK
<1>6. IsFiniteSet({p, q})
  <2>1. IsFiniteSet({p}) /\ IsFiniteSet({q}) /\ {p, q} = {p} \union {q}
    BY FS_Singleton
  <2> QED
    BY <2>1, FS_Union
<1>7. ms \subseteq {p, q}
  BY <1>3
<1>8. IsFiniteSet(ms)
  BY <1>6, <1>7, FS_Subset
<1>9. \A a \in ms : a \in UpSegments /\ UpOK(a)'
  BY <1>3, <1>4, <1>5
<1> QED
  BY <1>8, <1>9

(* Any other segment: what is taken of it, and nothing else, is             *)
(* acknowledged.                                                            *)
LEMMA InputSegmentStep ==
  ASSUME TcpInv, NEW m \in down, down' \subseteq down, InputSegment(m), UNCHANGED <<app, peerVars>>
  PROVE  TcpInv'
<1>1. /\ pc \notin {"start", "closed"} /\ state # "SYN_SENT" /\ sndUna' = NewUna(m)
      /\ ring' = ring \o SubSeq(m.data, 1, Take(m))
      /\ rcvNxt' = Plus(rcvNxt, IF FinInOrder(m) THEN Take(m) + 1 ELSE Take(m))
      /\ finSeen' = (finSeen \/ FinInOrder(m))
      /\ state' = state \/ state' \in {"CLOSE_WAIT", "DONE"}
      /\ up' \in CarryUp(Acks(m, ring'))
      /\ UNCHANGED <<sndNxt, reset>>
      /\ UNCHANGED <<pc, off, want, outcome, read, eof>>
      /\ UNCHANGED <<peer, written, ended, acked, wnd, got, gotFin>>
  BY DEF InputSegment, app, peerVars
<1>2. m \in DownSegments /\ DownOK(m) /\ StateTypes
  BY DEF TcpInv, DownNet
<1>3. Synced /\ Synced' /\ (Asked <=> Asked') /\ state # "CLOSED"
  BY <1>1 DEF Synced, Asked, TcpInv, HandOK
<1> DEFINE t == Take(m)
           f == FinInOrder(m)
           s == SubSeq(m.data, 1, t)
<1>4. /\ t \in 0 .. Len(m.data) /\ Len(ring) + t <= RingSize
      /\ t > 0 => ~finSeen /\ Kept + t <= written /\ From(m.data, Kept)
      /\ f => ~finSeen /\ ended /\ Kept + t = written
  BY <1>1, <1>2, <1>3, Taken
<1>5. /\ ring' = ring \o s /\ finSeen' = (finSeen \/ f)
      /\ rcvNxt' = Plus(rcvNxt, IF f THEN t + 1 ELSE t)
  BY <1>1
<1>6. /\ m.data \in Seq(1 .. StreamLen) /\ Len(m.data) \in Nat
      /\ ring \in Seq(1 .. StreamLen) /\ Len(ring) \in Nat /\ Len(read) \in Nat
      /\ rcvNxt \in SeqNos /\ PeerIss \in SeqNos /\ written \in Nat /\ written <= StreamLen
      /\ finSeen \in BOOLEAN /\ acked \in Nat
      /\ RingSize \in Nat /\ StreamLen \in Nat /\ SeqMod \in Nat
      /\ SeqMod > 2 * (StreamLen + ReqLen + 4) /\ ReqLen \in Nat
  BY <1>2, LenProperties, Base, Sizes DEF DownSegments, StateTypes
<1>7. s \in Seq(1 .. StreamLen) /\ Len(s) = t /\ (From(m.data, Kept) => From(s, Kept))
  <2>1. t \in 0 .. Len(m.data) /\ Kept \in Int
    BY <1>4, Base
  <2>2. s \in Seq(1 .. StreamLen) /\ Len(s) = t
    BY <1>6, <2>1, ByteCut
  <2>3. From(m.data, Kept) => From(s, Kept)
    BY <1>6, <2>1, FromCut
  <2> QED
    BY <2>2, <2>3
<1>8. f \in BOOLEAN
  BY DEF FinInOrder
<1> HIDE DEF t, f, s
<1>9. /\ Off(rcvNxt, PeerIss) = Kept + 1 /\ Kept \in 0 .. StreamLen + 1 /\ acked <= Kept
      /\ Kept = (Len(read) + Len(ring)) + IF finSeen THEN 1 ELSE 0
      /\ Len(read) + Len(ring) <= written
      /\ finSeen => ended /\ Len(read) + Len(ring) = written
  <2>1. Kept \in 0 .. StreamLen + 1
    BY <1>3, Base
  <2>2. Off(rcvNxt, PeerIss) = Kept + 1
    BY Base DEF Kept
  <2> QED
    BY <1>1, <1>3, <2>1, <2>2 DEF TcpInv, StreamOK
<1>10. PICK k : k = IF f THEN t + 1 ELSE t
  OBVIOUS
<1>11. t \in Nat /\ k \in Nat /\ Kept + k <= StreamLen + 1
  <2>1. CASE t = 0 /\ ~f
    BY <1>6, <1>9, <1>10, <2>1
  <2>2. CASE t > 0 \/ f
    BY <1>4, <1>6, <1>9, <1>10, <2>2
  <2> QED
    BY <1>4, <1>6, <2>1, <2>2, <1>10
<1>12. rcvNxt' \in SeqNos /\ Off(rcvNxt', PeerIss) = (Kept + k) + 1 /\ Kept' = Kept + k
  <2>1. Off(rcvNxt, PeerIss) + k \in 0 .. SeqMod - 1
    BY <1>6, <1>9, <1>11
  <2>2. rcvNxt' = Plus(rcvNxt, k) /\ k \in Int /\ -1 <= k
    BY <1>5, <1>10, <1>11
  <2>3. rcvNxt' \in SeqNos /\ Off(rcvNxt', PeerIss) = Off(rcvNxt, PeerIss) + k
    BY <1>6, <2>1, <2>2, OffPlus
  <2>4. Kept' = Off(rcvNxt', PeerIss) - 1
    BY DEF Kept, Off
  <2> QED
    BY <1>9, <1>11, <2>3, <2>4
<1>13. ring' \in Seq(1 .. StreamLen) /\ Len(ring') = Len(ring) + t
  BY <1>5, <1>6, <1>7, ConcatProperties
<1>14. From(ring', Len(read))
  <2>1. From(ring, Len(read))
    BY DEF TcpInv, StreamOK
  <2>2. CASE t > 0
    <3>1. From(s, Len(read) + Len(ring))
      BY <1>4, <1>6, <1>7, <1>9, <2>2
    <3> QED
      BY <1>5, <1>6, <1>7, <2>1, <3>1, FromJoin
  <2>3. CASE t = 0
    <3>1. From(s, Len(read) + Len(ring))
      BY <1>7, <2>3 DEF From
    <3> QED
      BY <1>5, <1>6, <1>7, <2>1, <3>1, FromJoin
  <2> QED
    BY <1>11, <2>2, <2>3
<1>15. sndUna' \in SeqNos /\ Off(sndUna', Iss) \in 1 .. 1 + PeerHas
  BY <1>1, <1>2, <1>3, UnaOK
<1>16. StateTypes'
  <2>1. finSeen' \in BOOLEAN /\ Len(ring') <= RingSize /\ state' \in States
    BY <1>1, <1>2, <1>4, <1>5, <1>6, <1>8, <1>13 DEF StateTypes, States
  <2> QED
    BY <1>1, <1>2, <1>12, <1>13, <1>15, <2>1 DEF StateTypes
<1>17. HandOK'
  BY <1>1, <1>3 DEF TcpInv, HandOK
<1>18. StreamOK'
  <2>1. From(read, 0)' /\ From(ring, Len(read))'
    BY <1>1, <1>14 DEF TcpInv, StreamOK, From
  <2>2. Len(read') + Len(ring') <= written'
        /\ (finSeen' => ended' /\ Len(read') + Len(ring') = written')
        /\ Kept' = (Len(read') + Len(ring')) + IF finSeen' THEN 1 ELSE 0
    <3>1. CASE f
      <4>1. ~finSeen /\ finSeen' /\ ended' /\ k = t + 1 /\ Kept + t = written
        BY <1>1, <1>4, <1>5, <1>10, <3>1
      <4>2. Kept = Len(read) + Len(ring)
        BY <1>6, <1>9, <4>1
      <4>3. Len(read') + Len(ring') = written'
        BY <1>1, <1>6, <1>11, <1>13, <4>1, <4>2
      <4>4. Kept' = written' + 1
        BY <1>1, <1>6, <1>9, <1>11, <1>12, <4>1
      <4>5. written' \in Nat /\ written' <= written'
        BY <1>1, <1>6
      <4> QED
        BY <4>1, <4>3, <4>4, <4>5
    <3>2. CASE ~f /\ t > 0
      <4>1. ~finSeen /\ ~finSeen' /\ k = t /\ Kept + t <= written
        BY <1>1, <1>4, <1>5, <1>10, <3>2
      <4>2. Kept = Len(read) + Len(ring)
        BY <1>6, <1>9, <4>1
      <4>3. Len(read') + Len(ring') = Kept + t /\ Kept' = Kept + t
        BY <1>1, <1>6, <1>11, <1>12, <1>13, <4>1, <4>2
      <4>4. written' = written
        BY <1>1
      <4>5. Len(read') + Len(ring') <= written'
        BY <4>1, <4>3, <4>4
      <4>6. Kept' = (Len(read') + Len(ring')) + 0
        BY <1>9, <1>11, <4>3
      <4> QED
        BY <4>1, <4>5, <4>6
    <3>3. CASE ~f /\ t = 0
      <4>1. k = 0 /\ finSeen' = finSeen /\ Len(ring') = Len(ring) /\ Kept' = Kept
        BY <1>5, <1>6, <1>9, <1>10, <1>12, <1>13, <3>3
      <4>2. read' = read /\ written' = written /\ ended' = ended
        BY <1>1
      <4>3. Len(read') + Len(ring') = Len(read) + Len(ring)
        BY <4>1, <4>2
      <4> QED
        BY <1>9, <4>1, <4>2, <4>3
    <3> QED
      BY <1>11, <3>1, <3>2, <3>3
  <2>3. acked' <= Kept'
    BY <1>1, <1>6, <1>9, <1>11, <1>12
  <2>4. Off(rcvNxt, PeerIss)' \in 1 .. StreamLen + 2
    <3>1. (Kept + k) + 1 \in 1 .. StreamLen + 2
      BY <1>6, <1>9, <1>11
    <3> QED
      BY <1>12, <3>1
  <2> QED
    BY <2>1, <2>2, <2>3, <2>4 DEF StreamOK
<1>19. SendOK'
  <2>1. Off(sndUna, Iss)' \in 1 .. 1 + PeerHas' /\ UNCHANGED PeerHas
    BY <1>1, <1>15 DEF PeerHas
  <2> QED
    BY <1>1, <1>3, <2>1 DEF TcpInv, SendOK, From, Off
<1>20. Forward
  <2>1. PeerHas <= PeerHas' /\ written <= written' /\ Kept <= Kept'
    <3>1. UNCHANGED PeerHas /\ PeerHas \in Nat
      BY <1>1, Base, Sizes DEF PeerHas
    <3> QED
      BY <1>1, <1>6, <1>9, <1>11, <1>12, <3>1
  <2> QED
    BY <1>1, <1>3, <1>16, <1>17, <1>18, <1>19, <2>1, Onward
<1>21. UpNet'
  <2>1. PICK n : n = Plus(rcvNxt, t)
    OBVIOUS
  <2>2. PICK ms : ms = Acks(m, ring')
    OBVIOUS
  <2>3. n \in SeqNos /\ Off(n, PeerIss) = (Kept + 1) + t /\ t <= k
    <3>1. Off(rcvNxt, PeerIss) + t \in 0 .. SeqMod - 1 /\ t \in Int /\ -1 <= t /\ t <= k
      BY <1>6, <1>9, <1>10, <1>11
    <3>2. n \in SeqNos /\ Off(n, PeerIss) = Off(rcvNxt, PeerIss) + t
      BY <1>6, <2>1, <3>1, OffPlus
    <3> QED
      BY <1>9, <3>1, <3>2
  <2>4. Off(n, PeerIss) \in 1 .. 1 + Kept'
    BY <1>9, <1>11, <1>12, <2>3
  <2>5. f => Plus(n, 1) \in SeqNos /\ Off(Plus(n, 1), PeerIss) \in 1 .. 1 + Kept'
    <3>1. ASSUME f PROVE Plus(n, 1) \in SeqNos /\ Off(Plus(n, 1), PeerIss) \in 1 .. 1 + Kept'
      <4>1. k = t + 1 /\ Off(n, PeerIss) + 1 \in 0 .. SeqMod - 1 /\ Off(n, PeerIss) + 1 = 1 + Kept'
            /\ Off(n, PeerIss) + 1 >= 1
        BY <1>6, <1>9, <1>10, <1>11, <1>12, <2>3, <3>1
      <4>2. Plus(n, 1) \in SeqNos /\ Off(Plus(n, 1), PeerIss) = Off(n, PeerIss) + 1
        BY <1>6, <2>3, <4>1, OffPlus
      <4> QED
        BY <1>12, <1>9, <1>11, <4>1, <4>2
    <3> QED
      BY <3>1
  <2>6. ms \in SUBSET UpSegments /\ IsFiniteSet(ms) /\ \A a \in ms : UpOK(a)'
    <3>1. n = Plus(rcvNxt, Take(m))
          /\ (FinInOrder(m) => /\ Plus(n, 1) \in SeqNos
                               /\ Off(Plus(n, 1), PeerIss) \in 1 .. 1 + Kept')
      BY <2>1, <2>5 DEF t, f
    <3> QED
      BY <1>2, <1>3, <1>16, <2>2, <2>3, <2>4, <3>1, AcksOK
  <2> QED
    BY <1>1, <1>20, <2>2, <2>6, UpSends
<1> QED
  BY <1>16, <1>17, <1>18, <1>19, <1>20, <1>21, DownDrops DEF TcpInv

(* tcp_input, whatever arrives.                                             *)
LEMMA InputStep ==
  ASSUME TcpInv, NEW m \in down, Input(m)
  PROVE  TcpInv'
<1>1. down' \subseteq down /\ UNCHANGED <<app, peerVars>>
  BY DEF Input, Arrive
<1>2. CASE InputIgnored(m)
  BY <1>1, <1>2, IgnoredStep DEF InputIgnored
<1>3. CASE InputRst(m)
  BY <1>1, <1>3, InputRstStep
<1>4. CASE InputSynAck(m)
  BY <1>1, <1>4, InputSynAckStep
<1>5. CASE InputSegment(m)
  BY <1>1, <1>5, InputSegmentStep
<1> QED
  BY <1>2, <1>3, <1>4, <1>5 DEF Input

---------------------------------------------------------------------------
(* The peer.                                                                *)

(* Its segments as they are laid out, and what they acknowledge.            *)
PeerLaid(m, n, ack, data) ==
  /\ m \in DownSegments
  /\ ~m.syn /\ ~m.rst /\ ~m.fin
  /\ Off(m.seq, PeerIss) = n /\ m.ack = ack /\ m.data = data

LEMMA PeerSegmentType ==
  ASSUME NEW n \in 0 .. StreamLen + 2, NEW ack \in SeqNos, NEW data \in Seq(1 .. StreamLen)
  PROVE  PeerLaid(PeerSegment(n, ack, data), n, ack, data)
<1>1. n \in 0 .. SeqMod - 1
  BY Sizes
<1>2. Plus(PeerIss, n) \in SeqNos /\ Off(Plus(PeerIss, n), PeerIss) = n
  BY <1>1, OffFirst, Sizes
<1> QED
  BY <1>2 DEF PeerSegment, DownSegments, PeerLaid

(* The number the peer expects next.                                        *)
LEMMA ReceivedIs ==
  ASSUME NEW g, Len(g) \in 0 .. ReqLen, NEW f \in BOOLEAN
  PROVE  /\ Received(g, f) \in SeqNos
         /\ Off(Received(g, f), Iss) = 1 + (Len(g) + IF f THEN 1 ELSE 0)
<1>1. PICK n : n = 1 + (Len(g) + IF f THEN 1 ELSE 0)
  OBVIOUS
<1>2. n \in 0 .. SeqMod - 1 /\ n = 1 + Len(g) + IF f THEN 1 ELSE 0
  BY <1>1, Sizes
<1>3. Received(g, f) = Plus(Iss, n)
  BY <1>2 DEF Received
<1> QED
  BY <1>1, <1>2, <1>3, OffFirst, Sizes

(* The SYN-ACK, a segment of the stream, an acknowledgement and a reset may *)
(* be sent.                                                                 *)
LEMMA SynAckOK ==
  ASSUME PeerHas' \in Nat, NEW p, p = PeerSynAckSegment
  PROVE  p \in DownSegments /\ DownOK(p)'
<1>1. PICK ack : ack = Plus(Iss, 1)
  OBVIOUS
<1>2. PICK m : m = PeerSegment(0, ack, <<>>)
  OBVIOUS
<1>3. ack \in SeqNos /\ Off(ack, Iss) = 1
  BY <1>1, OffFirst, Sizes
<1>4. PeerLaid(m, 0, ack, <<>>)
  <2>1. <<>> \in Seq(1 .. StreamLen) /\ 0 \in 0 .. StreamLen + 2
    BY Sizes
  <2> QED
    BY <1>2, <1>3, <2>1, PeerSegmentType
<1>5. p = [m EXCEPT !.syn = TRUE]
  BY <1>1, <1>2 DEF PeerSynAckSegment
<1>6. m \in DownSegments /\ ~m.rst /\ ~m.fin /\ Off(m.seq, PeerIss) = 0 /\ m.ack = ack
      /\ m.data = <<>>
  BY <1>4 DEF PeerLaid
<1>7. /\ p \in DownSegments /\ p.syn = TRUE /\ p.rst = m.rst /\ p.fin = m.fin
      /\ p.seq = m.seq /\ p.ack = m.ack /\ p.data = m.data
  BY <1>5, <1>6 DEF DownSegments
<1>8. 1 \in 1 .. 1 + PeerHas'
  <2>1. PICK h \in Nat : h = PeerHas'
    OBVIOUS
  <2>2. 1 \in 1 .. 1 + h
    OBVIOUS
  <2> QED
    BY <2>1, <2>2
<1> QED
  BY <1>3, <1>6, <1>7, <1>8 DEF DownOK

(* Bytes i to j, with the FIN behind the last.                              *)
LEMMA DataOK ==
  ASSUME Synced', Len(got') \in 0 .. ReqLen, gotFin' \in BOOLEAN,
         written' \in 0 .. StreamLen,
         NEW i \in Nat, NEW j \in Nat, NEW f \in BOOLEAN, 1 <= i, i <= j + 1,
         j <= written', f => ended' /\ j = written', i <= j \/ f,
         NEW p, p = [PeerSegment(i, Received(got', gotFin'), Bytes(i, j)) EXCEPT !.fin = f]
  PROVE  p \in DownSegments /\ DownOK(p)'
<1>1. PICK ack : ack = Received(got', gotFin')
  OBVIOUS
<1>2. PICK data : data = Bytes(i, j)
  OBVIOUS
<1>3. PICK m : m = PeerSegment(i, ack, data)
  OBVIOUS
<1>4. ack \in SeqNos /\ Off(ack, Iss) = 1 + PeerHas' /\ PeerHas' \in Nat
  <2>1. PeerHas' = Len(got') + IF gotFin' THEN 1 ELSE 0
    BY DEF PeerHas
  <2>2. ack \in SeqNos /\ Off(ack, Iss) = 1 + (Len(got') + IF gotFin' THEN 1 ELSE 0)
    BY <1>1, ReceivedIs
  <2>3. PeerHas' \in Nat
    BY <2>1
  <2> QED
    BY <2>1, <2>2, <2>3
<1>5. data \in Seq(1 .. StreamLen) /\ Len(data) = j - i + 1 /\ From(data, i - 1)
  <2>1. \A b \in i .. j : b \in 1 .. StreamLen
    <3>1. StreamLen \in Nat /\ j <= StreamLen
      BY Sizes
    <3> QED
      BY <3>1
  <2> QED
    BY <1>2, <2>1, BytesSeq, BytesFrom
<1>6. PeerLaid(m, i, ack, data)
  <2>1. i \in 0 .. StreamLen + 2
    <3>1. StreamLen \in Nat /\ j <= StreamLen
      BY Sizes
    <3> QED
      BY <3>1
  <2> QED
    BY <1>3, <1>4, <1>5, <2>1, PeerSegmentType
<1>7. p = [m EXCEPT !.fin = f]
  BY <1>1, <1>2, <1>3
<1>8. m \in DownSegments /\ ~m.syn /\ ~m.rst /\ Off(m.seq, PeerIss) = i /\ m.ack = ack
      /\ m.data = data
  BY <1>6 DEF PeerLaid
<1>9. /\ p \in DownSegments /\ p.fin = f /\ p.syn = m.syn /\ p.rst = m.rst
      /\ p.seq = m.seq /\ p.ack = m.ack /\ p.data = m.data
  BY <1>7, <1>8 DEF DownSegments
<1>10. i + Len(data) - 1 = j /\ i \in 1 .. StreamLen + 2
  <2>1. StreamLen \in Nat /\ j <= StreamLen
    BY Sizes
  <2>2. PICK l : l = Len(data)
    OBVIOUS
  <2>3. l = j - i + 1
    BY <1>5, <2>2
  <2>4. i + l - 1 = j /\ i \in 1 .. StreamLen + 2
    BY <2>1, <2>3
  <2> QED
    BY <2>2, <2>4
<1>11. 1 + PeerHas' \in 1 .. 1 + PeerHas'
  BY <1>4
<1> QED
  BY <1>4, <1>5, <1>8, <1>9, <1>10, <1>11 DEF DownOK

(* An acknowledgement or a reset.                                           *)
LEMMA BareOK ==
  ASSUME Synced', Len(got') \in 0 .. ReqLen, gotFin' \in BOOLEAN,
         NEW n \in 1 .. StreamLen + 2,
         NEW m, m = PeerSegment(n, Received(got', gotFin'), <<>>)
  PROVE  /\ m \in DownSegments /\ DownOK(m)'
         /\ [m EXCEPT !.rst = TRUE] \in DownSegments
         /\ \A p : p = [m EXCEPT !.rst = TRUE] => DownOK(p)'
<1>1. PICK ack : ack = Received(got', gotFin')
  OBVIOUS
<1>2. ack \in SeqNos /\ Off(ack, Iss) = 1 + PeerHas' /\ PeerHas' \in Nat
  <2>1. PeerHas' = Len(got') + IF gotFin' THEN 1 ELSE 0
    BY DEF PeerHas
  <2>2. ack \in SeqNos /\ Off(ack, Iss) = 1 + (Len(got') + IF gotFin' THEN 1 ELSE 0)
    BY <1>1, ReceivedIs
  <2>3. PeerHas' \in Nat
    BY <2>1
  <2> QED
    BY <2>1, <2>2, <2>3
<1>3. PeerLaid(m, n, ack, <<>>)
  <2>1. <<>> \in Seq(1 .. StreamLen) /\ n \in 0 .. StreamLen + 2
    OBVIOUS
  <2> QED
    BY <1>1, <1>2, <2>1, PeerSegmentType
<1>4. m \in DownSegments /\ ~m.syn /\ ~m.rst /\ ~m.fin /\ Off(m.seq, PeerIss) = n
      /\ m.ack = ack /\ m.data = <<>>
  BY <1>3 DEF PeerLaid
<1>5. From(<<>>, n - 1) /\ 1 + PeerHas' \in 1 .. 1 + PeerHas'
  <2>1. Len(<<>>) = 0 /\ \A i \in 1 .. 0 : <<>>[i] = n - 1 + i
    OBVIOUS
  <2>2. 1 + PeerHas' \in 1 .. 1 + PeerHas'
    <3>1. PICK h \in Nat : h = PeerHas'
      BY <1>2
    <3>2. 1 + h \in 1 .. 1 + h
      OBVIOUS
    <3> QED
      BY <3>1, <3>2
  <2> QED
    BY <2>1, <2>2 DEF From
<1>6. DownOK(m)'
  BY <1>2, <1>4, <1>5 DEF DownOK
<1>7. ASSUME NEW p, p = [m EXCEPT !.rst = TRUE] PROVE p \in DownSegments /\ DownOK(p)'
  <2>1. /\ p \in DownSegments /\ p.rst = TRUE /\ p.fin = m.fin /\ p.syn = m.syn
        /\ p.seq = m.seq /\ p.ack = m.ack /\ p.data = m.data
    BY <1>4, <1>7 DEF DownSegments
  <2> QED
    BY <1>2, <1>4, <1>5, <2>1 DEF DownOK
<1> QED
  BY <1>4, <1>6, <1>7

(* A step of the peer takes nothing back.                                   *)
LEMMA OnwardThere ==
  ASSUME TcpInv, StateTypes', HandOK', StreamOK', SendOK',
         UNCHANGED <<state, rcvNxt, pc, outcome>>,
         PeerHas <= PeerHas', written <= written', ended => ended' /\ written' = written
  PROVE  Forward
<1>1. (Synced <=> Synced') /\ (Asked <=> Asked') /\ UNCHANGED Kept /\ Kept \in Int
  BY Base DEF Synced, Asked, Kept, Off
<1>2. Kept <= Kept'
  BY <1>1
<1> QED
  BY <1>1, <1>2, Onward

(* A segment is sent that may be sent, and nothing else happens.            *)
LEMMA PeerSends ==
  ASSUME TcpInv, UNCHANGED <<conn, app>>, up' \subseteq up,
         UNCHANGED <<written, ended, acked, wnd, got, gotFin>>,
         peer' = peer \/ (peer' = "gone" /\ Synced),
         NEW p \in DownSegments, DownOK(p)', down' \in CarryDown(p)
  PROVE  TcpInv'
<1>1. /\ UNCHANGED <<state, sndNxt, sndUna, rcvNxt, reset, finSeen, ring>>
      /\ UNCHANGED <<pc, off, want, outcome, read, eof>>
  BY DEF conn, app
<1>2. (Synced <=> Synced') /\ (Asked <=> Asked') /\ UNCHANGED PeerHas
      /\ PeerHas \in Nat /\ written \in Nat
  BY <1>1, Base, Sizes DEF Synced, Asked, PeerHas, TcpInv, StateTypes
<1>3. StateTypes' /\ StreamOK'
  BY <1>1, <1>2, StreamKeeps DEF TcpInv, StateTypes
<1>4. HandOK'
  BY <1>1, <1>2 DEF TcpInv, HandOK
<1>5. SendOK'
  BY <1>1, <1>2 DEF TcpInv, SendOK, From, Off
<1>6. Forward
  <2>1. PeerHas <= PeerHas' /\ written <= written'
    BY <1>2
  <2> QED
    BY <1>1, <1>3, <1>4, <1>5, <2>1, OnwardThere
<1> QED
  BY <1>3, <1>4, <1>5, <1>6, DownSends, UpDrops DEF TcpInv

(* The peer is ahead of us in the handshake only by its SYN-ACK.            *)
LEMMA UpIsSynced ==
  ASSUME TcpInv, peer \in {"up", "gone"}
  PROVE  Synced
BY DEF TcpInv, HandOK

(* What the lemmas on its segments need of it.                              *)
LEMMA PeerKeeps ==
  ASSUME TcpInv, UNCHANGED <<state, got, gotFin, written>>
  PROVE  /\ Synced <=> Synced'
         /\ Len(got') \in 0 .. ReqLen /\ gotFin' \in BOOLEAN /\ written' \in 0 .. StreamLen
         /\ PeerHas' \in Nat
<1>1. PeerHas \in Nat /\ UNCHANGED PeerHas
  BY Base, Sizes DEF PeerHas
<1> QED
  BY <1>1, Base DEF Synced, TcpInv, StateTypes

(* The SYN-ACK is sent again.                                               *)
LEMMA PeerSynAckStep ==
  ASSUME TcpInv, PeerSynAck
  PROVE  TcpInv'
<1>1. /\ down' \in CarryDown(PeerSynAckSegment) /\ UNCHANGED <<conn, app, up>>
      /\ UNCHANGED <<peer, written, ended, acked, wnd, got, gotFin>>
  BY DEF PeerSynAck, peerVars
<1>2. PICK p : p = PeerSynAckSegment
  OBVIOUS
<1>3. p \in DownSegments /\ DownOK(p)'
  BY <1>1, <1>2, PeerKeeps, SynAckOK DEF conn
<1> QED
  BY <1>1, <1>2, <1>3, PeerSends

(* Bytes of the stream and its FIN, inside the window or as a probe.        *)
LEMMA PeerSendStep ==
  ASSUME TcpInv, NEW i \in 0 .. StreamLen + 1, NEW j \in 0 .. StreamLen + 1, PeerSend(i, j)
  PROVE  TcpInv'
<1>1. /\ peer = "up" /\ acked < i /\ i <= j + 1 /\ j <= written
      /\ UNCHANGED <<conn, app, up>>
      /\ UNCHANGED <<peer, written, ended, acked, wnd, got, gotFin>>
  BY DEF PeerSend, peerVars
<1>2. PICK f : f = (ended /\ j = written)
  OBVIOUS
<1>3. (i <= j \/ f) /\ down' \in CarryDown(PeerData(i, j, f))
  BY <1>2 DEF PeerSend
<1>4. PICK p : p = PeerData(i, j, f)
  OBVIOUS
<1>5. p = [PeerSegment(i, Received(got', gotFin'), Bytes(i, j)) EXCEPT !.fin = f]
  BY <1>1, <1>4 DEF PeerData
<1>6. i \in Nat /\ j \in Nat /\ 1 <= i /\ f \in BOOLEAN
  BY <1>1, <1>2, Sizes DEF TcpInv, StateTypes
<1>7. Synced /\ Synced'
  BY <1>1, UpIsSynced, PeerKeeps DEF conn
<1>8. p \in DownSegments /\ DownOK(p)'
  <2>1. Len(got') \in 0 .. ReqLen /\ gotFin' \in BOOLEAN /\ written' \in 0 .. StreamLen
    BY <1>1, PeerKeeps DEF conn
  <2>2. j <= written' /\ (f => ended' /\ j = written') /\ (i <= j \/ f)
    BY <1>1, <1>2, <1>3
  <2> QED
    BY <1>1, <1>5, <1>6, <1>7, <2>1, <2>2, DataOK
<1> QED
  BY <1>1, <1>3, <1>4, <1>8, PeerSends

(* Its reset, which it sends when its program aborts and later in answer to *)
(* anything.                                                                *)
LEMMA ResetOK ==
  ASSUME TcpInv, Synced, UNCHANGED <<state, got, gotFin, written>>, NEW p, p = PeerRst
  PROVE  p \in DownSegments /\ DownOK(p)'
<1>1. PICK n : n = 1 + acked
  OBVIOUS
<1>2. PICK m : m = PeerSegment(n, Received(got', gotFin'), <<>>)
  OBVIOUS
<1>3. p = [m EXCEPT !.rst = TRUE]
  BY <1>1, <1>2 DEF PeerRst
<1>4. n \in 1 .. StreamLen + 2
  BY <1>1, Sizes DEF TcpInv, StateTypes
<1>5. Synced' /\ Len(got') \in 0 .. ReqLen /\ gotFin' \in BOOLEAN
  BY PeerKeeps
<1>6. /\ [m EXCEPT !.rst = TRUE] \in DownSegments
      /\ \A q : q = [m EXCEPT !.rst = TRUE] => DownOK(q)'
  BY <1>2, <1>4, <1>5, BareOK
<1> QED
  BY <1>3, <1>6

(* Its program aborts.                                                      *)
LEMMA PeerAbortStep ==
  ASSUME TcpInv, PeerAbort
  PROVE  TcpInv'
<1>1. /\ peer = "up" /\ peer' = "gone" /\ down' \in CarryDown(PeerRst)
      /\ UNCHANGED <<conn, app, up, written, ended, acked, wnd, got, gotFin>>
  BY DEF PeerAbort
<1>2. PICK p : p = PeerRst
  OBVIOUS
<1>3. p \in DownSegments /\ DownOK(p)'
  BY <1>1, <1>2, UpIsSynced, ResetOK DEF conn
<1> QED
  BY <1>1, <1>2, <1>3, UpIsSynced, PeerSends

(* Its program writes, or closes its side, before which there was no FIN.   *)
LEMMA PeerWriteStep ==
  ASSUME TcpInv, PeerWrite \/ PeerClose
  PROVE  TcpInv'
<1>1. /\ ~ended /\ UNCHANGED <<down, up, peer, acked, wnd, got, gotFin>>
      /\ UNCHANGED <<state, sndNxt, sndUna, rcvNxt, reset, finSeen, ring>>
      /\ UNCHANGED <<pc, off, want, outcome, read, eof>>
      /\ ended' \in BOOLEAN
      /\ written' = written \/ (written' = written + 1 /\ written < StreamLen)
  BY DEF PeerWrite, PeerClose, conn, app, TcpInv, StateTypes
<1>2. (Synced <=> Synced') /\ (Asked <=> Asked') /\ UNCHANGED <<Kept, PeerHas>>
      /\ PeerHas \in Nat /\ written \in Nat /\ StreamLen \in Nat
      /\ Len(read) \in Nat /\ Len(ring) \in Nat
  BY <1>1, Base, Sizes DEF Synced, Asked, Kept, Off, PeerHas, TcpInv, StateTypes
<1>3. StateTypes'
  <2>1. written' \in 0 .. StreamLen
    BY <1>1, <1>2 DEF TcpInv, StateTypes
  <2> QED
    BY <1>1, <2>1 DEF TcpInv, StateTypes
<1>4. HandOK'
  BY <1>1, <1>2 DEF TcpInv, HandOK
<1>5. StreamOK'
  <2>1. From(read, 0)' /\ From(ring, Len(read))'
    BY <1>1 DEF TcpInv, StreamOK, From
  <2>2. Len(read') + Len(ring') <= written' /\ ~finSeen'
    BY <1>1, <1>2 DEF TcpInv, StreamOK
  <2>3. UNCHANGED Off(rcvNxt, PeerIss)
    BY <1>1 DEF Off
  <2> QED
    BY <1>1, <1>2, <2>1, <2>2, <2>3 DEF TcpInv, StreamOK
<1>6. SendOK'
  BY <1>1, <1>2 DEF TcpInv, SendOK, From, Off
<1>7. Forward
  <2>1. PeerHas <= PeerHas' /\ written <= written'
    BY <1>1, <1>2
  <2> QED
    BY <1>1, <1>3, <1>4, <1>5, <1>6, <2>1, OnwardThere
<1> QED
  BY <1>1, <1>3, <1>4, <1>5, <1>6, <1>7, NetKeeps DEF TcpInv

(* What an acknowledgement stands for.                                      *)
LEMMA AckedIs ==
  ASSUME TcpInv, NEW m \in UpSegments, UpOK(m), ~m.syn
  PROVE  AckedBy(m) \in 0 .. StreamLen + 1 /\ AckedBy(m) <= Kept
<1>1. /\ Synced /\ Off(m.ack, PeerIss) \in 1 .. 1 + Kept /\ m.ack \in SeqNos
      /\ Kept \in 0 .. StreamLen + 1
      /\ StreamLen \in Nat /\ SeqMod \in Nat /\ SeqMod > StreamLen + 4
  BY Base, Sizes DEF UpOK, UpSegments
<1>2. \A n \in 0 .. StreamLen + 1 :
        Plus(PeerIss, 1 + n) \in SeqNos /\ Off(Plus(PeerIss, 1 + n), PeerIss) = 1 + n
  <2> TAKE n \in 0 .. StreamLen + 1
  <2>1. PICK k : k = 1 + n
    OBVIOUS
  <2>2. k \in 0 .. SeqMod - 1 /\ PeerIss \in SeqNos
    BY <1>1, <2>1, Sizes
  <2> QED
    BY <2>1, <2>2, OffFirst
<1>3. \E n \in 0 .. StreamLen + 1 : Plus(PeerIss, 1 + n) = m.ack
  <2>1. PICK n : n = Off(m.ack, PeerIss) - 1
    OBVIOUS
  <2>2. n \in 0 .. StreamLen + 1 /\ Off(m.ack, PeerIss) = 1 + n
    BY <1>1, <2>1
  <2>3. Plus(PeerIss, 1 + n) \in SeqNos /\ Off(Plus(PeerIss, 1 + n), PeerIss) = Off(m.ack, PeerIss)
    BY <1>2, <2>2
  <2>4. Plus(PeerIss, 1 + n) = m.ack
    BY <1>1, <2>3, OffType, Sizes
  <2> QED
    BY <2>2, <2>4
<1>4. PICK a : a = AckedBy(m)
  OBVIOUS
<1>5. a \in 0 .. StreamLen + 1 /\ Plus(PeerIss, 1 + a) = m.ack
  BY <1>3, <1>4 DEF AckedBy
<1>6. Off(m.ack, PeerIss) = 1 + a
  BY <1>2, <1>5
<1>7. a <= Kept
  BY <1>1, <1>5, <1>6
<1> QED
  BY <1>4, <1>5, <1>7

(* What the peer receives is the next chunk of the request.                 *)
LEMMA GotNext ==
  ASSUME TcpInv, NEW m \in UpSegments, UpOK(m), m.seq = Plus(Iss, 1 + Len(got))
  PROVE  /\ got \o m.data \in Seq(1 .. ReqLen) /\ From(got \o m.data, 0)
         /\ Len(got \o m.data) >= Len(got) /\ Len(got \o m.data) \in 0 .. ReqLen
         /\ m.data # <<>> => Asked
<1>1. /\ got \in Seq(1 .. ReqLen) /\ From(got, 0) /\ m.data \in Seq(1 .. ReqLen)
      /\ Len(got) \in 0 .. ReqLen /\ Len(m.data) \in Nat /\ ReqLen \in Nat
  BY Base, LenProperties, Sizes DEF UpSegments, TcpInv, StateTypes, SendOK
<1>2. Off(m.seq, Iss) = 1 + Len(got)
  <2>1. PICK k : k = 1 + Len(got)
    OBVIOUS
  <2>2. k \in 0 .. SeqMod - 1
    BY <1>1, <2>1, Sizes
  <2> QED
    BY <2>1, <2>2, OffFirst, Sizes
<1>3. From(m.data, 0 + Len(got))
  <2>1. CASE m.data = <<>>
    BY <2>1 DEF From
  <2>2. CASE m.data # <<>>
    <3>1. m.data = <<1 + Len(got)>>
      BY <1>2, <2>2 DEF UpOK
    <3>2. PICK n \in Nat : n = Len(got)
      BY <1>1
    <3>3. Len(<<1 + n>>) = 1 /\ <<1 + n>>[1] = 1 + n
      OBVIOUS
    <3>4. \A i \in 1 .. 1 : <<1 + n>>[i] = (0 + n) + i
      BY <3>2, <3>3
    <3>5. From(<<1 + n>>, 0 + n)
      BY <3>3, <3>4 DEF From
    <3> QED
      BY <3>1, <3>2, <3>5
  <2> QED
    BY <2>1, <2>2
<1>4. PICK g : g = got \o m.data
  OBVIOUS
<1>5. g \in Seq(1 .. ReqLen) /\ Len(g) = Len(got) + Len(m.data)
  BY <1>1, <1>4, ConcatProperties
<1>6. From(g, 0)
  BY <1>1, <1>3, <1>4, FromJoin
<1>7. Len(g) <= ReqLen
  BY <1>1, <1>5, <1>6, FromBound
<1>8. m.data # <<>> => Asked
  BY DEF UpOK
<1> QED
  BY <1>1, <1>4, <1>5, <1>6, <1>7, <1>8

(* The peer takes a SYN.                                                    *)
LEMMA PeerSynStep ==
  ASSUME TcpInv, NEW m \in up, up' \subseteq up, UNCHANGED <<conn, app>>,
         peer \in {"listen", "synrcvd"}, peer' = "synrcvd", wnd' = m.win,
         down' \in CarryDown(PeerSynAckSegment),
         UNCHANGED <<written, ended, acked, got, gotFin>>
  PROVE  TcpInv'
<1>1. /\ UNCHANGED <<state, sndNxt, sndUna, rcvNxt, reset, finSeen, ring>>
      /\ UNCHANGED <<pc, off, want, outcome, read, eof>>
  BY DEF conn, app
<1>2. (Synced <=> Synced') /\ (Asked <=> Asked') /\ UNCHANGED PeerHas
      /\ PeerHas \in Nat /\ written \in Nat
  BY <1>1, Base, Sizes DEF Synced, Asked, PeerHas, TcpInv, StateTypes
<1>3. StateTypes' /\ StreamOK'
  <2>1. m.win \in 0 .. RingSize
    BY DEF TcpInv, UpNet, UpSegments
  <2> QED
    BY <1>1, <1>2, <2>1, StreamKeeps DEF TcpInv, StateTypes
<1>4. HandOK'
  BY <1>1, <1>2 DEF TcpInv, HandOK
<1>5. SendOK'
  BY <1>1, <1>2 DEF TcpInv, SendOK, From, Off
<1>6. Forward
  <2>1. PeerHas <= PeerHas' /\ written <= written'
    BY <1>2
  <2> QED
    BY <1>1, <1>3, <1>4, <1>5, <2>1, OnwardThere
<1>7. DownNet'
  <2>1. PICK p : p = PeerSynAckSegment
    OBVIOUS
  <2>2. p \in DownSegments /\ DownOK(p)'
    BY <1>2, <2>1, SynAckOK
  <2> QED
    BY <1>6, <2>1, <2>2, DownSends
<1> QED
  BY <1>3, <1>4, <1>5, <1>6, <1>7, UpDrops DEF TcpInv

(* It takes an acknowledgement, a chunk or our FIN.                         *)
LEMMA PeerTakesStep ==
  ASSUME TcpInv, NEW m \in up, up' \subseteq up, UNCHANGED <<conn, app>>, PeerTakes(m)
  PROVE  TcpInv'
<1>1. /\ UNCHANGED <<state, sndNxt, sndUna, rcvNxt, reset, finSeen, ring>>
      /\ UNCHANGED <<pc, off, want, outcome, read, eof>>
      /\ UNCHANGED <<written, ended>>
      /\ ~m.syn /\ peer' = "up"
      /\ acked' = Max({acked, AckedBy(m)})
      /\ wnd' \in {m.win, Max({wnd, m.win}), wnd}
  BY DEF PeerTakes, conn, app
<1>2. m \in UpSegments /\ UpOK(m) /\ StateTypes
  BY DEF TcpInv, UpNet
<1>3. PICK next : next = (m.seq = Plus(Iss, 1 + Len(got)) /\ ~gotFin)
  OBVIOUS
<1>4. /\ got' = IF next THEN got \o m.data ELSE got
      /\ gotFin' = (gotFin \/ (next /\ m.fin))
  BY <1>3 DEF PeerTakes
<1>5. /\ Synced /\ Synced' /\ (Asked <=> Asked') /\ UNCHANGED Kept
      /\ Kept \in 0 .. StreamLen + 1 /\ written \in Nat /\ acked \in 0 .. StreamLen + 1
      /\ acked <= Kept /\ StreamLen \in Nat
  BY <1>1, <1>2, Base, Sizes DEF UpOK, Synced, Asked, Kept, Off, TcpInv, StateTypes, StreamOK
<1>6. /\ acked' \in 0 .. StreamLen + 1 /\ acked' <= Kept
  <2>1. AckedBy(m) \in 0 .. StreamLen + 1 /\ AckedBy(m) <= Kept
    BY <1>1, <1>2, AckedIs
  <2>2. acked \in Int /\ AckedBy(m) \in Int
    BY <1>5, <2>1
  <2>3. Max({acked, AckedBy(m)}) = IF acked >= AckedBy(m) THEN acked ELSE AckedBy(m)
    BY <2>2, MaxOfTwo
  <2> QED
    BY <1>1, <1>5, <2>1, <2>3
<1>7. wnd' \in 0 .. RingSize
  <2>1. wnd \in 0 .. RingSize /\ m.win \in 0 .. RingSize /\ RingSize \in Nat
    BY <1>2, Sizes DEF StateTypes, UpSegments
  <2>2. wnd \in Int /\ m.win \in Int
    BY <2>1
  <2>3. Max({wnd, m.win}) = IF wnd >= m.win THEN wnd ELSE m.win
    BY <2>2, MaxOfTwo
  <2> QED
    BY <1>1, <2>1, <2>3
<1>8. /\ got' \in Seq(1 .. ReqLen) /\ From(got', 0) /\ Len(got') \in 0 .. ReqLen
      /\ Len(got') >= Len(got) /\ Len(got) \in 0 .. ReqLen
      /\ got' # <<>> => Asked
  <2>1. Len(got) \in 0 .. ReqLen /\ got \in Seq(1 .. ReqLen) /\ From(got, 0)
        /\ (got # <<>> => Asked)
    BY <1>2, Base DEF StateTypes, TcpInv, SendOK
  <2>2. CASE next
    <3>1. /\ got \o m.data \in Seq(1 .. ReqLen) /\ From(got \o m.data, 0)
          /\ Len(got \o m.data) >= Len(got) /\ Len(got \o m.data) \in 0 .. ReqLen
          /\ (m.data # <<>> => Asked)
      BY <1>2, <1>3, <2>2, GotNext
    <3>2. got' = got \o m.data
      BY <1>4, <2>2
    <3>3. got' # <<>> => Asked
      <4>1. CASE m.data = <<>>
        <5>1. got' = got
          BY <2>1, <3>2, <4>1
        <5> QED
          BY <2>1, <5>1
      <4> QED
        BY <3>1, <4>1
    <3> QED
      BY <2>1, <3>1, <3>2, <3>3
  <2>3. CASE ~next
    BY <1>4, <2>1, <2>3, Sizes
  <2> QED
    BY <1>3, <2>2, <2>3
<1>9. gotFin' \in BOOLEAN /\ (gotFin => gotFin') /\ (gotFin' => pc \in {"closing", "closed"})
  BY <1>2, <1>3, <1>4 DEF StateTypes, UpSegments, UpOK, TcpInv, SendOK
<1>10. PeerHas <= PeerHas' /\ PeerHas' \in Nat /\ PeerHas \in Nat
  <2>1. PeerHas = Len(got) + IF gotFin THEN 1 ELSE 0
    BY DEF PeerHas
  <2>2. PeerHas' = Len(got') + IF gotFin' THEN 1 ELSE 0
    BY DEF PeerHas
  <2> QED
    BY <1>2, <1>8, <1>9, <2>1, <2>2, Sizes DEF StateTypes
<1>11. StateTypes'
  BY <1>1, <1>2, <1>6, <1>7, <1>8, <1>9 DEF StateTypes
<1>12. HandOK'
  BY <1>1, <1>5 DEF TcpInv, HandOK
<1>13. StreamOK'
  <2>1. From(read, 0)' /\ From(ring, Len(read))'
    BY <1>1 DEF TcpInv, StreamOK, From
  <2>2. UNCHANGED Off(rcvNxt, PeerIss)
    BY <1>1 DEF Off
  <2> QED
    BY <1>1, <1>5, <1>6, <2>1, <2>2 DEF TcpInv, StreamOK
<1>14. SendOK'
  <2>1. Off(sndUna, Iss)' \in 1 .. 1 + PeerHas'
    <3>1. Off(sndUna, Iss) \in 1 .. 1 + PeerHas /\ UNCHANGED Off(sndUna, Iss)
      BY <1>1, <1>5 DEF TcpInv, SendOK, Off
    <3> QED
      BY <1>10, <3>1
  <2>2. outcome' = "ok" => Len(got') = ReqLen
    BY <1>1, <1>8, Sizes DEF TcpInv, SendOK
  <2>3. /\ From(got, 0)'
        /\ got' # <<>> => Asked'
        /\ gotFin' => pc' \in {"closing", "closed"}
    BY <1>1, <1>5, <1>8, <1>9
  <2>4. /\ pc' \in {"connecting", "open"} /\ outcome' = "none" => off' = 0 /\ Off(sndNxt, Iss)' = 1
        /\ pc' = "sending" => /\ outcome' = "none" /\ off' < ReqLen
                              /\ Off(sndNxt, Iss)' = off' + 2 /\ Off(want, Iss)' = off' + 2
    BY <1>1, <1>5 DEF TcpInv, SendOK, Off
  <2> QED
    BY <1>5, <2>1, <2>2, <2>3, <2>4 DEF SendOK
<1>15. Forward
  <2>1. written <= written'
    BY <1>1, <1>5
  <2> QED
    BY <1>1, <1>10, <1>11, <1>12, <1>13, <1>14, <2>1, OnwardThere
<1>16. DownNet'
  <2>1. CASE m.data # <<>> \/ m.fin
    <3>1. PICK n : n = 1 + acked'
      OBVIOUS
    <3>2. PICK p : p = PeerSegment(n, Received(got', gotFin'), <<>>)
      OBVIOUS
    <3>3. down' \in CarryDown(p)
      BY <2>1, <3>1, <3>2 DEF PeerTakes
    <3>4. n \in 1 .. StreamLen + 2
      <4>1. PICK a : a = acked'
        OBVIOUS
      <4>2. a \in 0 .. StreamLen + 1 /\ StreamLen \in Nat /\ n = 1 + a
        BY <1>5, <1>6, <3>1, <4>1
      <4> QED
        BY <4>2
    <3>5. p \in DownSegments /\ DownOK(p)'
      BY <1>5, <1>8, <1>9, <3>2, <3>4, BareOK
    <3> QED
      BY <1>15, <3>3, <3>5, DownSends
  <2>2. CASE ~(m.data # <<>> \/ m.fin)
    <3>1. down' = down
      BY <2>2 DEF PeerTakes
    <3> QED
      BY <1>15, <3>1, DownDrops
  <2> QED
    BY <2>1, <2>2
<1> QED
  BY <1>11, <1>12, <1>13, <1>14, <1>15, <1>16, UpDrops DEF TcpInv

(* The peer takes a segment, whatever it is.                                *)
LEMMA PeerInputStep ==
  ASSUME TcpInv, NEW m \in up, PeerInput(m)
  PROVE  TcpInv'
<1>1. up' \subseteq up /\ UNCHANGED <<conn, app>>
  BY DEF PeerInput, Arrive
<1>2. CASE m.syn /\ peer \in {"listen", "synrcvd"}
  <2>1. /\ peer' = "synrcvd" /\ wnd' = m.win /\ down' \in CarryDown(PeerSynAckSegment)
        /\ UNCHANGED <<written, ended, acked, got, gotFin>>
    BY <1>2 DEF PeerInput, PeerTakes
  <2> QED
    BY <1>1, <1>2, <2>1, PeerSynStep
<1>3. CASE PeerTakes(m)
  BY <1>1, <1>3, PeerTakesStep
<1>4. CASE peer = "gone" /\ down' \in CarryDown(PeerRst) /\ UNCHANGED peerVars
  <2>1. PICK p : p = PeerRst
    OBVIOUS
  <2>2. Synced /\ UNCHANGED <<state, got, gotFin, written>>
    BY <1>1, <1>4, UpIsSynced DEF conn, peerVars
  <2>3. p \in DownSegments /\ DownOK(p)'
    BY <2>1, <2>2, ResetOK
  <2> QED
    BY <1>1, <1>4, <2>1, <2>2, <2>3, PeerSends DEF peerVars
<1> QED
  BY <1>2, <1>3, <1>4 DEF PeerInput

---------------------------------------------------------------------------
(* The specification.                                                       *)

(* The invariant holds before tcp_connect.                                  *)
LEMMA TcpInvInit ==
  ASSUME Init
  PROVE  TcpInv
<1>1. /\ 0 \in SeqNos /\ Iss \in SeqNos /\ StreamLen \in Nat /\ RingSize \in Nat
      /\ ReqLen \in Nat /\ DownCap \in Nat /\ UpCap \in Nat
  BY Sizes
<1>2. StateTypes
  <2>1. <<>> \in Seq(1 .. StreamLen) /\ <<>> \in Seq(1 .. ReqLen) /\ Len(<<>>) = 0
        /\ 0 \in 0 .. ReqLen /\ 0 \in 0 .. StreamLen /\ 0 \in 0 .. StreamLen + 1
        /\ 0 \in 0 .. RingSize
    BY <1>1
  <2>2. /\ state \in States
        /\ pc \in {"start", "connecting", "open", "sending", "closing", "closed"}
        /\ outcome \in {"none", "ok", "failed"}
        /\ peer \in {"listen", "synrcvd", "up", "gone"}
        /\ reset \in BOOLEAN /\ finSeen \in BOOLEAN /\ eof \in BOOLEAN
        /\ ended \in BOOLEAN /\ gotFin \in BOOLEAN
    BY DEF Init, States
  <2>3. /\ sndNxt \in SeqNos /\ sndUna \in SeqNos /\ rcvNxt \in SeqNos /\ want \in SeqNos
        /\ off \in 0 .. ReqLen /\ written \in 0 .. StreamLen
        /\ acked \in 0 .. StreamLen + 1 /\ wnd \in 0 .. RingSize
    BY <1>1, <2>1 DEF Init
  <2>4. /\ ring \in Seq(1 .. StreamLen) /\ read \in Seq(1 .. StreamLen)
        /\ got \in Seq(1 .. ReqLen) /\ Len(ring) <= RingSize
    BY <1>1, <2>1 DEF Init
  <2> QED
    BY <2>2, <2>3, <2>4 DEF StateTypes
<1>3. ~Synced /\ HandOK
  BY DEF Init, HandOK, Synced
<1>4. From(<<>>, 0) /\ Len(<<>>) = 0
  BY DEF From
<1>5. StreamOK
  BY <1>3, <1>4 DEF Init, StreamOK
<1>6. SendOK
  BY <1>1, <1>3, <1>4 DEF Init, SendOK
<1>7. DownNet /\ UpNet
  <2>1. IsFiniteSet({}) /\ Cardinality({}) = 0
    BY FS_EmptySet
  <2> QED
    BY <1>1, <2>1 DEF Init, DownNet, UpNet
<1> QED
  BY <1>2, <1>3, <1>5, <1>6, <1>7 DEF TcpInv

(* Every step keeps the invariant.                                          *)
LEMMA TcpInvNext ==
  ASSUME TcpInv, [Next]_vars
  PROVE  TcpInv'
<1>1. CASE \/ Connect \/ SynSend \/ ConnectDone \/ CloseWithFin \/ CloseEnd
  BY <1>1, ConnectStep, SynSendStep, ConnectDoneStep, CloseWithFinStep, CloseEndStep
<1>2. CASE \/ SendStart \/ SendRetry \/ SendNext \/ SendDone \/ SendFail
  BY <1>2, SendStartStep, SendRetryStep, SendNextStep, SendDoneStep, SendFailStep
<1>3. CASE RecvData \/ RecvEof
  BY <1>3, RecvDataStep, RecvEofStep
<1>4. CASE \E m \in down : Input(m)
  BY <1>4, InputStep
<1>5. CASE \E m \in up : PeerInput(m)
  BY <1>5, PeerInputStep
<1>6. CASE \/ PeerSynAck \/ PeerWrite \/ PeerClose \/ PeerAbort
  BY <1>6, PeerSynAckStep, PeerWriteStep, PeerAbortStep
<1>7. CASE \E i, j \in 0 .. StreamLen + 1 : PeerSend(i, j)
  BY <1>7, PeerSendStep
<1>8. CASE Lose
  <2>1. UNCHANGED <<conn, app, peerVars>> /\ down' \subseteq down /\ up' \subseteq up
    BY <1>8 DEF Lose
  <2> QED
    BY <2>1, IgnoredStep
<1>9. CASE UNCHANGED vars
  <2>1. UNCHANGED <<conn, app, peerVars>> /\ down' \subseteq down /\ up' \subseteq up
    BY <1>9 DEF vars
  <2> QED
    BY <2>1, IgnoredStep
<1> QED
  BY <1>1, <1>2, <1>3, <1>4, <1>5, <1>6, <1>7, <1>8, <1>9 DEF Next

(* The inductive invariant holds throughout.                                *)
LEMMA TcpInvAlways == Spec => []TcpInv
<1>1. Init => TcpInv
  BY TcpInvInit
<1>2. TcpInv /\ [Next]_vars => TcpInv'
  BY TcpInvNext
<1> QED
  BY <1>1, <1>2, PTL DEF Spec

(* The types: the ring never holds more than it has room for (tcp_input     *)
(* takes what fits), sequence numbers wrap, and chunk and byte numbers stay *)
(* within the request and the stream.                                       *)
THEOREM TcpTypes == Spec => []TypeOK
<1>1. TcpInv => TypeOK
  BY DEF TcpInv, StateTypes, DownNet, UpNet, TypeOK
<1> QED
  BY <1>1, TcpInvAlways, PTL

(* tcp_input: whatever has been acknowledged is in the ring or with the     *)
(* user, so the peer forgets no byte that is lost on the way, through loss, *)
(* repetition and reordering, a full ring and a FIN out of order.           *)
THEOREM AckedStaysKept == Spec => []AckedIsKept
<1>1. TcpInv => AckedIsKept
  <2> SUFFICES ASSUME TcpInv PROVE AckedIsKept
    OBVIOUS
  <2>1. CASE Synced
    BY <2>1 DEF AckedIsKept, TcpInv, StreamOK
  <2>2. CASE ~Synced
    BY <2>2, Base DEF AckedIsKept, TcpInv, HandOK
  <2> QED
    BY <2>1, <2>2
<1> QED
  BY <1>1, TcpInvAlways, PTL

(* tcp_send: when it returns success the peer has all chunks of the         *)
(* request, in order, through lost and repeated chunks and late or repeated *)
(* acknowledgements, wherever the sequence numbers wrap.                    *)
THEOREM RequestArrives == Spec => []SentIsReceived
<1>1. TcpInv => SentIsReceived
  <2> SUFFICES ASSUME TcpInv, outcome = "ok" PROVE got = Bytes(1, ReqLen)
    BY DEF SentIsReceived
  <2>1. got \in Seq(1 .. ReqLen) /\ From(got, 0) /\ Len(got) = ReqLen /\ 1 .. ReqLen \subseteq Int
    BY DEF TcpInv, StateTypes, SendOK
  <2> QED
    BY <2>1, FromBytes
<1> QED
  BY <1>1, TcpInvAlways, PTL

---------------------------------------------------------------------------
(* Each direction implements ByteStream.                                    *)

(* Of two sequences that count from the start the shorter is a prefix, a    *)
(* strict one when it is shorter.                                           *)
LEMMA PrefixOf ==
  ASSUME NEW s \in Seq(Int), NEW t \in Seq(Int), From(s, 0), From(t, 0), Len(s) <= Len(t)
  PROVE  /\ DownStream!IsPrefix(s, t) /\ UpStream!IsPrefix(s, t)
         /\ Len(s) < Len(t) => /\ DownStream!IsStrictPrefix(s, t)
                               /\ UpStream!IsStrictPrefix(s, t)
<1> DEFINE n == Len(s)
           p == SubSeq(s, 1, n)
           q == SubSeq(t, 1, n)
<1>1. n \in 0 .. Len(s) /\ n \in 0 .. Len(t) /\ Len(t) \in Nat
  BY LenProperties
<1>2. p \in Seq(Int) /\ Len(p) = n /\ \A i \in 1 .. n : p[i] = s[i]
  BY <1>1, Cut
<1>3. q \in Seq(Int) /\ Len(q) = n /\ \A i \in 1 .. n : q[i] = t[i]
  BY <1>1, Cut
<1> HIDE DEF p, q
<1>4. \A i \in 1 .. n : p[i] = q[i]
  <2> TAKE i \in 1 .. n
  <2>1. i \in 1 .. Len(t) /\ i \in 1 .. Len(s)
    BY <1>1
  <2> QED
    BY <1>2, <1>3, <2>1 DEF From
<1>5. p = q
  BY <1>2, <1>3, <1>4, SeqEqual
<1>6. DownStream!IsPrefix(s, t) /\ UpStream!IsPrefix(s, t)
  BY <1>5 DEF p, q, DownStream!IsPrefix, UpStream!IsPrefix
<1>7. Len(s) < Len(t) => s # t
  BY <1>1
<1> QED
  BY <1>6, <1>7 DEF DownStream!IsStrictPrefix, UpStream!IsStrictPrefix

(* The first bytes of a stream.                                             *)
LEMMA BytesUpTo ==
  ASSUME NEW n \in Nat
  PROVE  Bytes(1, n) \in Seq(Int) /\ Len(Bytes(1, n)) = n /\ From(Bytes(1, n), 0)
<1>1. 1 \in Nat /\ 1 <= n + 1 /\ n - 1 + 1 = n /\ 1 - 1 = 0 /\ \A b \in 1 .. n : b \in Int
  OBVIOUS
<1>2. Bytes(1, n) \in Seq(Int)
  BY <1>1, BytesSeq
<1>3. Len(Bytes(1, n)) = n - 1 + 1 /\ From(Bytes(1, n), 1 - 1)
  BY <1>1, BytesFrom
<1> QED
  BY <1>1, <1>2, <1>3

(* The request and what is read of the streams, as sequences of numbers.    *)
LEMMA StreamTypes ==
  ASSUME TcpInv
  PROVE  /\ read \in Seq(Int) /\ From(read, 0) /\ Len(read) \in Nat
         /\ got \in Seq(Int) /\ From(got, 0) /\ Len(got) \in 0 .. ReqLen
         /\ written \in Nat /\ Len(read) <= written /\ ReqLen \in Nat /\ ReqLen > 0
<1>1. 1 .. StreamLen \subseteq Int /\ 1 .. ReqLen \subseteq Int
  OBVIOUS
<1>2. read \in Seq(Int) /\ got \in Seq(Int)
  BY <1>1, SeqMonotonic DEF TcpInv, StateTypes
<1>3. From(read, 0) /\ From(got, 0) /\ Len(read) + Len(ring) <= written
  BY DEF TcpInv, StreamOK, SendOK
<1> QED
  BY <1>2, <1>3, Base, Sizes DEF TcpInv, StateTypes

(* The same after a step.                                                   *)
LEMMA StreamTypesNext ==
  ASSUME TcpInv'
  PROVE  /\ read' \in Seq(Int) /\ From(read', 0) /\ Len(read') \in Nat
         /\ got' \in Seq(Int) /\ From(got', 0) /\ Len(got') \in 0 .. ReqLen
         /\ written' \in Nat /\ Len(read') <= written'
<1>1. 1 .. StreamLen \subseteq Int /\ 1 .. ReqLen \subseteq Int /\ ReqLen \in Nat
  BY Sizes
<1>2. read' \in Seq(1 .. StreamLen) /\ got' \in Seq(1 .. ReqLen) /\ ring' \in Seq(1 .. StreamLen)
      /\ written' \in Nat
  BY Sizes DEF TcpInv, StateTypes
<1>3. From(read', 0) /\ From(got', 0) /\ Len(read') + Len(ring') <= written'
  BY DEF TcpInv, StreamOK, SendOK, From
<1>4. read' \in Seq(Int) /\ got' \in Seq(Int)
  BY <1>1, <1>2, SeqMonotonic
<1>5. Len(read') \in Nat /\ Len(ring') \in Nat /\ Len(got') \in Nat
  BY <1>2, LenProperties
<1>6. Len(got') <= ReqLen
  BY <1>1, <1>2, <1>3, FromBound
<1> QED
  BY <1>1, <1>2, <1>3, <1>4, <1>5, <1>6

(* A step is one of the peer's stream, or none of its.                      *)
LEMMA DownStep ==
  ASSUME TcpInv, TcpInv', [Next]_vars
  PROVE  DownStream!Next \/ UNCHANGED DownStream!vars
<1>1. CASE RecvData
  <2>1. PICK n \in 1 .. Len(ring) : read' = read \o SubSeq(ring, 1, n)
    BY <1>1 DEF RecvData
  <2>2. UNCHANGED <<written, ended, eof>>
    BY <1>1 DEF RecvData, peerVars
  <2>3. Len(read) < Len(read')
    <3>1. n \in 0 .. Len(ring) /\ ring \in Seq(1 .. StreamLen) /\ read \in Seq(1 .. StreamLen)
          /\ Len(ring) \in Nat /\ Len(read) \in Nat
      BY Base DEF TcpInv, StateTypes
    <3>2. SubSeq(ring, 1, n) \in Seq(1 .. StreamLen) /\ Len(SubSeq(ring, 1, n)) = n
      BY <3>1, ByteCut
    <3>3. Len(read') = Len(read) + n
      BY <2>1, <3>1, <3>2, ConcatProperties
    <3> QED
      BY <3>1, <3>3
  <2>4. /\ read \in Seq(Int) /\ From(read, 0) /\ Len(read) \in Nat
        /\ read' \in Seq(Int) /\ From(read', 0) /\ Len(read') \in Nat
        /\ written \in Nat /\ Len(read') <= written
    BY <2>2, StreamTypes, StreamTypesNext
  <2>5. DownStream!IsStrictPrefix(read, read')
    BY <2>3, <2>4, PrefixOf
  <2>6. DownStream!IsPrefix(read', Bytes(1, written))
    BY <2>4, BytesUpTo, PrefixOf
  <2>7. Bytes(1, written)' = Bytes(1, written)
    BY <2>2
  <2>8. DownStream!Read
    BY <2>2, <2>5, <2>6, <2>7 DEF DownStream!Read
  <2> QED
    BY <2>8 DEF DownStream!Next
<1>2. CASE RecvEof
  <2>1. /\ pc = "open" /\ ring = <<>> /\ finSeen /\ eof' = TRUE
        /\ UNCHANGED <<written, ended, read>>
    BY <1>2 DEF RecvEof, peerVars
  <2>2. ended /\ Len(read) = written
    BY <2>1, StreamTypes DEF TcpInv, StreamOK
  <2>3. read = Bytes(1, written)
    BY <2>2, StreamTypes, FromBytes
  <2>4. Bytes(1, written)' = Bytes(1, written)
    BY <2>1
  <2>5. DownStream!TellEof
    BY <2>1, <2>2, <2>3, <2>4 DEF DownStream!TellEof
  <2> QED
    BY <2>5 DEF DownStream!Next
<1>3. CASE PeerWrite
  <2>1. ~ended /\ written' = written + 1 /\ UNCHANGED <<ended, read, eof>>
    BY <1>3 DEF PeerWrite, app
  <2>2. written \in Nat
    BY StreamTypes
  <2>3. PICK w : w = written'
    OBVIOUS
  <2>4. w \in Nat /\ written < w
    BY <2>1, <2>2, <2>3
  <2>5. DownStream!IsStrictPrefix(Bytes(1, written), Bytes(1, w))
    <3>1. /\ Bytes(1, written) \in Seq(Int) /\ From(Bytes(1, written), 0)
          /\ Len(Bytes(1, written)) = written
      BY <2>2, BytesUpTo
    <3>2. Bytes(1, w) \in Seq(Int) /\ From(Bytes(1, w), 0) /\ Len(Bytes(1, w)) = w
      BY <2>4, BytesUpTo
    <3>3. Len(Bytes(1, written)) < Len(Bytes(1, w)) /\ Len(Bytes(1, written)) <= Len(Bytes(1, w))
      BY <2>2, <2>4, <3>1, <3>2
    <3> QED
      BY <3>1, <3>2, <3>3, PrefixOf
  <2>6. Bytes(1, written)' = Bytes(1, w)
    BY <2>3
  <2>7. DownStream!Write
    BY <2>1, <2>5, <2>6 DEF DownStream!Write
  <2> QED
    BY <2>7 DEF DownStream!Next
<1>4. CASE PeerClose
  <2>1. ended' = TRUE /\ UNCHANGED <<written, read, eof>>
    BY <1>4 DEF PeerClose, app
  <2>2. Bytes(1, written)' = Bytes(1, written)
    BY <2>1
  <2>3. DownStream!End
    BY <2>1, <2>2 DEF DownStream!End
  <2> QED
    BY <2>3 DEF DownStream!Next
<1>5. CASE UNCHANGED <<written, ended, read, eof>>
  <2>1. Bytes(1, written)' = Bytes(1, written)
    BY <1>5
  <2> QED
    BY <1>5, <2>1 DEF DownStream!vars
<1>6. ASSUME ~(RecvData \/ RecvEof \/ PeerWrite \/ PeerClose)
      PROVE  UNCHANGED <<written, ended, read, eof>>
  <2>1. CASE Connect \/ SynSend \/ ConnectDone \/ CloseWithFin \/ CloseEnd
    BY <2>1 DEF Connect, SynSend, ConnectDone, CloseWithFin, CloseEnd, app, peerVars
  <2>2. CASE SendStart \/ SendRetry \/ SendNext \/ SendDone \/ SendFail
    BY <2>2 DEF SendStart, SendRetry, SendNext, SendDone, SendFail, Xmit, app, peerVars
  <2>3. CASE \E m \in down : Input(m)
    BY <2>3 DEF Input, app, peerVars
  <2>4. CASE \E m \in up : PeerInput(m)
    BY <2>4 DEF PeerInput, PeerTakes, app, peerVars
  <2>5. CASE PeerSynAck \/ PeerAbort \/ Lose \/ UNCHANGED vars
    BY <2>5 DEF PeerSynAck, PeerAbort, Lose, vars, app, peerVars
  <2>6. CASE \E i, j \in 0 .. StreamLen + 1 : PeerSend(i, j)
    BY <2>6 DEF PeerSend, app, peerVars
  <2> QED
    BY <1>6, <2>1, <2>2, <2>3, <2>4, <2>5, <2>6 DEF Next
<1> QED
  BY <1>1, <1>2, <1>3, <1>4, <1>5, <1>6

(* A step is one of the request's, or none of its.                          *)
LEMMA UpStep ==
  ASSUME TcpInv, TcpInv', [Next]_vars
  PROVE  UpStream!Next \/ UNCHANGED UpStream!vars
<1>1. Requested = (IF Asked THEN Bytes(1, ReqLen) ELSE <<>>)
      /\ Requested' = (IF Asked' THEN Bytes(1, ReqLen) ELSE <<>>)
  BY DEF Requested, Asked
<1>2. CASE UNCHANGED got /\ ~Asked /\ Asked'
  <2>1. <<>> \in Seq(Int) /\ From(<<>>, 0) /\ Len(<<>>) = 0
    BY DEF From
  <2>2. UpStream!IsStrictPrefix(<<>>, Bytes(1, ReqLen))
    BY <2>1, StreamTypes, BytesUpTo, PrefixOf
  <2>3. UpStream!Write
    BY <1>1, <1>2, <2>2 DEF UpStream!Write
  <2> QED
    BY <2>3 DEF UpStream!Next
<1>3. CASE UNCHANGED got /\ (Asked <=> Asked')
  BY <1>1, <1>3 DEF UpStream!vars
<1>4. CASE \E m \in up : PeerInput(m) /\ PeerTakes(m)
  <2>1. PICK m \in up : PeerInput(m) /\ PeerTakes(m)
    BY <1>4
  <2>2. Asked <=> Asked'
    BY <2>1 DEF PeerInput, Asked, app
  <2>3. m \in UpSegments /\ UpOK(m)
    BY <2>1 DEF TcpInv, UpNet
  <2>4. CASE got' = got
    BY <1>3, <2>2, <2>4
  <2>5. CASE got' # got
    <3>1. got' = got \o m.data /\ m.seq = Plus(Iss, 1 + Len(got))
      BY <2>1, <2>5 DEF PeerTakes
    <3>2. got \in Seq(1 .. ReqLen) /\ m.data \in Seq(1 .. ReqLen)
          /\ Len(got) \in Nat /\ Len(m.data) \in Nat
      BY <2>3, LenProperties DEF TcpInv, StateTypes, UpSegments
    <3>3. m.data # <<>>
      BY <2>5, <3>1, <3>2
    <3>4. Asked
      BY <2>3, <3>3 DEF UpOK
    <3>5. Len(got') = Len(got) + Len(m.data) /\ Len(m.data) > 0
      <4>1. Len(m.data) # 0
        BY <3>2, <3>3, EmptySeq
      <4> QED
        BY <3>1, <3>2, <4>1, ConcatProperties
    <3>6. /\ got \in Seq(Int) /\ From(got, 0)
          /\ got' \in Seq(Int) /\ From(got', 0) /\ Len(got') \in 0 .. ReqLen
          /\ ReqLen \in Nat
      BY StreamTypes, StreamTypesNext
    <3>7. Len(got) < Len(got')
      BY <3>2, <3>5
    <3>8. UpStream!IsStrictPrefix(got, got')
      BY <3>2, <3>6, <3>7, PrefixOf
    <3>9. UpStream!IsPrefix(got', Bytes(1, ReqLen))
      BY <3>6, BytesUpTo, PrefixOf
    <3>10. UpStream!Read
      BY <1>1, <2>2, <3>4, <3>8, <3>9 DEF UpStream!Read
    <3> QED
      BY <3>10 DEF UpStream!Next
  <2> QED
    BY <2>4, <2>5
<1>5. ASSUME ~(\E m \in up : PeerInput(m) /\ PeerTakes(m))
      PROVE  UNCHANGED got /\ (Asked => Asked')
  <2>1. CASE Connect \/ SynSend \/ ConnectDone \/ CloseWithFin \/ CloseEnd
    BY <2>1 DEF Connect, SynSend, ConnectDone, CloseWithFin, CloseEnd, app, peerVars, Asked
  <2>2. CASE SendStart \/ SendRetry \/ SendNext \/ SendDone \/ SendFail
    BY <2>2 DEF SendStart, SendRetry, SendNext, SendDone, SendFail, Xmit, app, peerVars, Asked
  <2>3. CASE RecvData \/ RecvEof
    BY <2>3 DEF RecvData, RecvEof, peerVars, Asked
  <2>4. CASE \E m \in down : Input(m)
    BY <2>4 DEF Input, app, peerVars, Asked
  <2>5. CASE \E m \in up : PeerInput(m)
    BY <1>5, <2>5 DEF PeerInput, app, peerVars, Asked
  <2>6. CASE \/ PeerSynAck \/ PeerWrite \/ PeerClose \/ PeerAbort \/ Lose \/ UNCHANGED vars
    BY <2>6 DEF PeerSynAck, PeerWrite, PeerClose, PeerAbort, Lose, vars, app, peerVars, Asked
  <2>7. CASE \E i, j \in 0 .. StreamLen + 1 : PeerSend(i, j)
    BY <2>7 DEF PeerSend, app, peerVars, Asked
  <2> QED
    BY <2>1, <2>2, <2>3, <2>4, <2>5, <2>6, <2>7 DEF Next
<1> QED
  BY <1>2, <1>3, <1>4, <1>5

(* tcp_recv: the peer's stream comes out of it in order, nothing twice and  *)
(* nothing left out, and is reported as ended only when the peer has closed *)
(* its side and everything it wrote has been returned.                      *)
THEOREM RecvIsAStream == Spec => DownSpec
<1>1. Init => DownStream!Init
  <2>1. Bytes(1, 0) = <<>>
    BY BytesUpTo, EmptySeq
  <2> QED
    BY <2>1 DEF Init, DownStream!Init
<1>2. TcpInv /\ TcpInv' /\ [Next]_vars => [DownStream!Next]_(DownStream!vars)
  BY DownStep
<1> QED
  BY <1>1, <1>2, TcpInvAlways, PTL DEF Spec, DownSpec, DownStream!Spec

(* tcp_send: the peer is given the chunks of the request in order, none     *)
(* twice and none left out, whatever is sent again.                         *)
THEOREM SendIsAStream == Spec => UpSpec
<1>1. Init => UpStream!Init
  BY DEF Init, UpStream!Init, Requested
<1>2. TcpInv /\ TcpInv' /\ [Next]_vars => [UpStream!Next]_(UpStream!vars)
  BY UpStep
<1> QED
  BY <1>1, <1>2, TcpInvAlways, PTL DEF Spec, UpSpec, UpStream!Spec
=============================================================================
