------------------------------- MODULE Share -------------------------------
(***************************************************************************)
(* `share` of kernel/cmd_net.c: one machine listens for a file, others      *)
(* offer theirs, send it chunk by chunk, each again until it is             *)
(* acknowledged, and say that they are done.  Both ends run this code; the  *)
(* network loses, repeats, delays and reorders packets.  A packet says what *)
(* it is, never which transfer it belongs to.                               *)
(***************************************************************************)
EXTENDS Integers, Sequences, FiniteSets

CONSTANTS
  Senders,    (* machines that run `share send`; their addresses            *)
  Files,      (* their files; a file is its name                            *)
  Chunks,     (* nchunks of each file                                       *)
  MaxShares,  (* bound: transfers begun                                     *)
  NetCap,     (* bound: packets under way                                   *)
  NoSender, NoFile

ASSUME ShareAssumption ==
  /\ Chunks \in [Files -> Nat]
  /\ MaxShares \in Nat
  /\ NoSender \notin Senders /\ NoFile \notin Files

VARIABLES
  send,       (* what each sender is at; its S.got_accept, S.last_ack       *)
  recv,       (* the receiver's S.recv_...; buf is what recv_got counts     *)
  disk,       (* the files `share recv` has saved: name and contents        *)
  lan,        (* packets under way                                          *)
  (* history *)
  file,       (* the file of each transfer begun so far                     *)
  fate,       (* what became of each transfer the receiver has accepted     *)
  reported,   (* the transfers whose sender has printed "sent"              *)
  mixed       (* a packet of one transfer was taken for one of another, or  *)
              (* the offer of a transfer that is over for a new one         *)

sharevars == <<send, recv, disk, lan, file, fate, reported, mixed>>

Runs == 1 .. Len(file)
Piece(f, k) == <<f, k>>
Whole(f) == [k \in 1 .. Chunks[f] |-> Piece(f, k - 1)]

Closed == [on |-> FALSE, busy |-> FALSE, done |-> FALSE, src |-> NoSender,
           name |-> NoFile, buf |-> <<>>, expect |-> 0, id |-> 0]
Idle == [at |-> "idle", seq |-> 0, accept |-> FALSE, ack |-> 0, id |-> 0]

ShareInit ==
  /\ send = [s \in Senders |-> Idle]
  /\ recv = Closed
  /\ disk = {}
  /\ lan = {}
  /\ file = <<>>
  /\ fate = <<>>
  /\ reported = {}
  /\ mixed = FALSE

Packet(t, s, seq, id) == [t |-> t, s |-> s, seq |-> seq, id |-> id]

(* sh_send into a network that still carries some packets: it arrives there *)
(* or is lost at once.                                                      *)
Put(rest, p) == IF Cardinality(rest \union {p}) <= NetCap THEN rest \union {p} ELSE rest

---------------------------------------------------------------------------
(* share_send_to: what is sent, and sent again, at each point of it.        *)

Now(s, l) ==
  CASE l.at = "offer" -> Packet("offer", s, 0, l.id)
    [] l.at = "data" -> Packet("data", s, l.seq, l.id)
    [] l.at = "done" -> Packet("done", s, 0, l.id)

Go(s, l) ==
  /\ send' = [send EXCEPT ![s] = l]
  /\ lan' = Put(lan, Now(s, l))

(* Mutant of ToChunk: S.last_ack is not reset.                              *)
ToChunkAcked(l, seq) ==
  IF seq < Chunks[file[l.id]]
  THEN [l EXCEPT !.at = "data", !.seq = seq]
  ELSE [l EXCEPT !.at = "done"]

(* The chunk at seq is next, or all are acknowledged.                       *)
ToChunk(l, seq) ==
  IF seq < Chunks[file[l.id]]
  THEN [l EXCEPT !.at = "data", !.seq = seq, !.ack = -1]
  ELSE [l EXCEPT !.at = "done"]

Offer(s, f) ==
  /\ send[s].at = "idle" /\ Len(file) < MaxShares
  /\ file' = Append(file, f)
  /\ fate' = Append(fate, "none")
  /\ Go(s, [Idle EXCEPT !.at = "offer", !.id = Len(file) + 1])
  /\ UNCHANGED <<recv, disk, reported, mixed>>

Accepted(s) ==
  /\ send[s].at = "offer" /\ send[s].accept
  /\ Go(s, ToChunk(send[s], 0))
  /\ UNCHANGED <<recv, disk, file, fate, reported, mixed>>

Acked(s) ==
  /\ send[s].at = "data" /\ send[s].ack = send[s].seq
  /\ Go(s, ToChunk(send[s], send[s].seq + 1))
  /\ UNCHANGED <<recv, disk, file, fate, reported, mixed>>

(* A wait is over and there are tries left.                                 *)
Waiting(l) ==
  \/ l.at = "offer" /\ ~l.accept
  \/ l.at = "data" /\ l.ack # l.seq

Resend(s) ==
  /\ Waiting(send[s]) \/ send[s].at = "done"
  /\ Go(s, send[s])
  /\ UNCHANGED <<recv, disk, file, fate, reported, mixed>>

(* No tries are left: nothing was printed but that it failed.               *)
Stall(s) ==
  /\ Waiting(send[s])
  /\ send' = [send EXCEPT ![s] = Idle]
  /\ UNCHANGED <<recv, disk, lan, file, fate, reported, mixed>>

(* The last DONE was sent: "sent N bytes".                                  *)
Report(s) ==
  /\ send[s].at = "done"
  /\ send' = [send EXCEPT ![s] = Idle]
  /\ reported' = reported \union {send[s].id}
  /\ UNCHANGED <<recv, disk, lan, file, fate, mixed>>

---------------------------------------------------------------------------
(* share_recv.                                                              *)

Listen ==
  /\ ~recv.on
  /\ recv' = [Closed EXCEPT !.on = TRUE]
  /\ UNCHANGED <<send, disk, lan, file, fate, reported, mixed>>

(* The end of the transfer in hand, if there is one.                        *)
Close(how) ==
  /\ recv' = Closed
  /\ fate' = IF recv.busy THEN [fate EXCEPT ![recv.id] = how] ELSE fate
  /\ UNCHANGED <<send, lan, file, reported, mixed>>

Save ==
  /\ recv.on /\ recv.done
  /\ disk' = disk \union {<<recv.name, recv.buf>>}
  /\ Close("saved")

(* The name is a directory's, or it cannot be created.                      *)
CannotSave ==
  /\ recv.on /\ recv.done
  /\ Close("unsaved")
  /\ UNCHANGED disk

(* ESC.                                                                     *)
Cancel ==
  /\ recv.on /\ ~recv.done
  /\ Close("cancelled")
  /\ UNCHANGED disk

---------------------------------------------------------------------------
(* share_cb, for a packet m handed over from the network, where it stays or *)
(* does not; the answer, if any, carries the receiver's own transfer.       *)

Handed(m, stays) == IF stays THEN lan ELSE lan \ {m}

Answer(rest, t, m, seq, id) == lan' = Put(rest, Packet(t, m.s, seq, id))

(* No memory for the file is one more way to lose the offer.                *)
TakeOffer(m, stays) ==
  /\ recv.on /\ m.t = "offer"
  /\ recv.busy => m.s = recv.src
  /\ IF recv.busy
     THEN /\ mixed' = (mixed \/ m.id # recv.id)
          /\ UNCHANGED recv
     ELSE /\ mixed' = (mixed \/ fate[m.id] # "none")
          /\ recv' = [recv EXCEPT !.busy = TRUE, !.src = m.s, !.name = file[m.id],
                                  !.buf = <<>>, !.expect = 0, !.id = m.id]
  /\ Answer(Handed(m, stays), "accept", m, 0, recv'.id)
  /\ UNCHANGED <<send, disk, file, fate, reported>>

(* Mutant of Expected: a chunk that comes again is taken again.             *)
ThisOrEarlier(m) == m.seq <= recv.expect
Expected(m) == m.seq = recv.expect

Mine(m) == recv.on /\ recv.busy /\ m.s = recv.src

(* What is expected is taken as far as there is room, but acknowledged      *)
(* whatever it is.                                                          *)
TakeData(m, stays) ==
  /\ m.t = "data" /\ Mine(m)
  /\ recv' = IF Expected(m)
             THEN [recv EXCEPT !.expect = @ + 1,
                               !.buf = IF Len(@) < Chunks[recv.name]
                                       THEN Append(@, Piece(file[m.id], m.seq)) ELSE @]
             ELSE recv
  /\ mixed' = (mixed \/ m.id # recv.id)
  /\ Answer(Handed(m, stays), "ack", m, m.seq, recv.id)
  /\ UNCHANGED <<send, disk, file, fate, reported>>

TakeDone(m, stays) ==
  /\ m.t = "done" /\ Mine(m)
  /\ recv' = [recv EXCEPT !.done = TRUE]
  /\ mixed' = (mixed \/ m.id # recv.id)
  /\ Answer(Handed(m, stays), "ack", m, 0, recv.id)
  /\ UNCHANGED <<send, disk, file, fate, reported>>

TakeAnswer(m, stays) ==
  /\ m.t \in {"accept", "ack"} /\ send[m.s].at # "idle"
  /\ send' = IF m.t = "accept" THEN [send EXCEPT ![m.s].accept = TRUE]
             ELSE [send EXCEPT ![m.s].ack = m.seq]
  /\ mixed' = (mixed \/ m.id # send[m.s].id)
  /\ lan' = Handed(m, stays)
  /\ UNCHANGED <<recv, disk, file, fate, reported>>

(* The network loses it, or hands it to a machine that does not listen, or  *)
(* is busy with another's file.                                             *)
Vanish(m) ==
  /\ lan' = lan \ {m}
  /\ UNCHANGED <<send, recv, disk, file, fate, reported, mixed>>

ShareNext ==
  \/ \E s \in Senders :
       \/ \E f \in Files : Offer(s, f)
       \/ Accepted(s) \/ Acked(s) \/ Resend(s) \/ Stall(s) \/ Report(s)
  \/ Listen \/ Save \/ CannotSave \/ Cancel
  \/ \E m \in lan :
       \/ \E stays \in BOOLEAN :
            TakeOffer(m, stays) \/ TakeData(m, stays) \/ TakeDone(m, stays) \/ TakeAnswer(m, stays)
       \/ Vanish(m)

ShareSpec == ShareInit /\ [][ShareNext]_sharevars

---------------------------------------------------------------------------
(* Properties.                                                              *)

Packets ==
  [t : {"offer", "data", "done", "accept", "ack"}, s : Senders, seq : Nat, id : Runs]

(* Types of the share state.                                                *)
ShareTypeOK ==
  /\ file \in Seq(Files)
  /\ fate \in [Runs -> {"none", "saved", "unsaved", "cancelled"}]
  /\ reported \subseteq Runs
  /\ mixed \in BOOLEAN
  /\ lan \subseteq Packets
  /\ send \in [Senders -> [at : {"idle", "offer", "data", "done"}, seq : Nat,
                           accept : BOOLEAN, ack : Nat \union {-1}, id : Runs \union {0}]]
  /\ \A s \in Senders : send[s].at # "idle" => send[s].id \in Runs
  /\ recv \in [on : BOOLEAN, busy : BOOLEAN, done : BOOLEAN,
               src : Senders \union {NoSender}, name : Files \union {NoFile},
               buf : Seq(Files \X Nat), expect : Nat, id : Runs \union {0}]
  /\ recv.busy => recv.on /\ recv.id \in Runs /\ recv.name \in Files
  /\ recv.done => recv.busy

(* cmd_net.c: what `share recv` saves under a name is the whole of the file *)
(* offered under it, whatever is lost, repeated, late and out of order,     *)
(* however often a sender gives up and the receiver is cancelled, as long   *)
(* as no packet is taken for one of another transfer.                       *)
SavedIsSent ==
  ~mixed => \A w \in disk : w[2] = Whole(w[1])

(* ... and where the sender printed that it was sent, the receiver has all  *)
(* of it, or had and ended.                                                 *)
ReportIsTrue ==
  ~mixed => \A i \in reported :
    \/ fate[i] # "none"
    \/ recv.busy /\ recv.id = i /\ recv.buf = Whole(file[i])

(* cmd_net.c:329-331, "a simple stop-and-wait reliable protocol over UDP",  *)
(* without the exception.                                                   *)
ReliablyShared ==
  \A w \in disk : w[2] = Whole(w[1])
=============================================================================
